---------------------------- MODULE EnvWizardProofs ----------------------------
\* EnvWizard, for any number of wizards, any files to start from and any number of
\* answers and init runs: what the file reads, what a wizard's copy holds, and that the
\* master key is kept.
EXTENDS EnvWizard, SequenceTheorems, WellFoundedInduction, TLAPS

-----------------------------------------------------------------------------
(* Induction over the natural numbers, from the well-foundedness of <: the       *)
(* statement to prove is given as the set of the numbers it holds for.           *)

Below == {p \in Nat \X Nat : p[1] < p[2]}

\* A set of natural numbers has a least one.
LEMMA LeastNumber ==
  ASSUME NEW T, T \subseteq Nat, T # {}
  PROVE  \E m \in T : \A n \in T : m <= n
<1>1. IsWellFoundedOn(Below, Nat)
  <2>1. Below = OpToRel(<, Nat)
    BY DEF Below, OpToRel
  <2> QED
    BY <2>1, NatLessThanWellFounded
<1>2. PICK m \in T : \A n \in T : ~(<<n, m>> \in Below)
  BY <1>1, WFMin
<1>3. ASSUME NEW n \in T
      PROVE  m <= n
  <2>1. <<n, m>> \in Nat \X Nat /\ <<n, m>>[1] = n /\ <<n, m>>[2] = m
    OBVIOUS
  <2>2. ~(n < m)
    BY <1>2, <2>1 DEF Below
  <2> QED
    BY <2>2
<1> QED
  BY <1>2, <1>3

LEMMA Induction ==
  ASSUME NEW T, 0 \in T, \A n \in Nat : n \in T => n + 1 \in T
  PROVE  Nat \subseteq T
<1> SUFFICES ASSUME Nat \ T # {} PROVE FALSE
  OBVIOUS
<1>1. PICK m \in Nat \ T : \A n \in Nat \ T : m <= n
  BY LeastNumber
<1>2. m # 0 /\ m - 1 \in T
  BY <1>1
<1> QED
  BY <1>1, <1>2

LEMMA MaxExists ==
  ASSUME NEW n \in Nat, NEW s, s \subseteq 1..n, s # {}
  PROVE  Max(s) \in s /\ \A i \in s : i <= Max(s)
<1> DEFINE T == {m \in Nat : \A i \in s : i <= m}
<1>1. n \in T
  OBVIOUS
<1>2. PICK m \in T : \A k \in T : m <= k
  BY <1>1, LeastNumber
<1>3. m \in s
  <2> SUFFICES ASSUME m \notin s PROVE FALSE
    OBVIOUS
  <2>1. PICK j \in s : TRUE
    OBVIOUS
  <2>2. j >= 1 /\ j <= m /\ m \in Nat
    BY <1>2, <2>1
  <2>3. \A i \in s : i \in Nat /\ i <= m /\ i # m
    BY <1>2
  <2>4. m - 1 \in Nat /\ \A i \in s : i <= m - 1
    BY <2>2, <2>3
  <2>5. m - 1 \in T
    BY <2>4
  <2> QED
    BY <1>2, <2>2, <2>5
<1>4. \E i \in s : \A j \in s : i >= j
  <2>1. \A j \in s : m >= j
    BY <1>2
  <2> QED
    BY <1>3, <2>1
<1>5. Max(s) \in s /\ \A j \in s : Max(s) >= j
  BY <1>4 DEF Max
<1> QED
  BY <1>5

LEMMA MaxIs ==
  ASSUME NEW s, s \subseteq Nat, NEW m \in s, \A i \in s : i <= m
  PROVE  Max(s) = m
<1>1. \E i \in s : \A j \in s : i >= j
  OBVIOUS
<1>2. Max(s) \in s /\ \A j \in s : Max(s) >= j
  BY <1>1 DEF Max
<1>3. Max(s) \in Nat /\ m \in Nat /\ Max(s) <= m /\ Max(s) >= m
  BY <1>2
<1> QED
  BY <1>3

-----------------------------------------------------------------------------
(* The keys the wizard asks for.                                                 *)

KeyNames == {"TELEGRAM_MODE", "TELEGRAM_TOKEN", "TELEGRAM_WEBHOOK_SECRET",
             "DISCORD_MODE", "DISCORD_BOT_TOKEN", "DISCORD_APPLICATION_ID",
             "DISCORD_PUBLIC_KEY", "DISCORD_GUILD_ID",
             "SLACK_MODE", "SLACK_BOT_TOKEN", "SLACK_SIGNING_SECRET",
             "SLACK_REQUEST_URL", "SLACK_APP_TOKEN"}

AllModes == UNION {Modes(q) : q \in Platforms}

LEMMA FieldNames ==
  ASSUME NEW p \in Platforms, NEW mode
  PROVE  Fields(p, mode) \in Seq(KeyNames) /\ ModeKey(p) \in KeyNames
<1>1. \A s, t \in Seq(KeyNames) : s \o t \in Seq(KeyNames)
  OBVIOUS
<1>2. \A k \in KeyNames : <<k>> \in Seq(KeyNames)
  OBVIOUS
<1>3. << >> \in Seq(KeyNames)
  OBVIOUS
<1>4. TelegramFields(mode) \in Seq(KeyNames)
  BY <1>1, <1>2, <1>3 DEF TelegramFields, KeyNames
<1>8. \A j, k \in KeyNames : <<j, k>> \in Seq(KeyNames)
  OBVIOUS
<1>5. DiscordFields(mode) \in Seq(KeyNames)
  <2> DEFINE a == <<"DISCORD_BOT_TOKEN", "DISCORD_APPLICATION_ID">>
             b == IF mode = "interactions" THEN <<"DISCORD_PUBLIC_KEY">> ELSE << >>
             c == <<"DISCORD_GUILD_ID">>
  <2>1. a \in Seq(KeyNames)
    BY <1>8 DEF KeyNames
  <2>2. b \in Seq(KeyNames)
    BY <1>2, <1>3 DEF KeyNames
  <2>3. c \in Seq(KeyNames)
    BY <1>2 DEF KeyNames
  <2>4. DiscordFields(mode) = (a \o b) \o c
    BY DEF DiscordFields
  <2> HIDE DEF a, b, c
  <2> QED
    BY <1>1, <2>1, <2>2, <2>3, <2>4
<1>6. SlackFields(mode) \in Seq(KeyNames)
  <2> DEFINE a == <<"SLACK_BOT_TOKEN">>
             b == IF mode = "events" THEN <<"SLACK_SIGNING_SECRET", "SLACK_REQUEST_URL">>
                  ELSE <<"SLACK_APP_TOKEN", "SLACK_SIGNING_SECRET">>
  <2>1. a \in Seq(KeyNames)
    BY <1>2 DEF KeyNames
  <2>2. b \in Seq(KeyNames)
    BY <1>8 DEF KeyNames
  <2>3. SlackFields(mode) = a \o b
    BY DEF SlackFields
  <2> HIDE DEF a, b
  <2> QED
    BY <1>1, <2>1, <2>2, <2>3
<1>7. ModeKey(p) \in KeyNames
  BY DEF ModeKey, KeyNames, Platforms
<1> QED
  BY <1>4, <1>5, <1>6, <1>7 DEF Fields, Platforms

\* The master key is not one of them, and a comment is none.
LEMMA Keys ==
  /\ AllKeys \subseteq KeyNames \cup {MASTER}
  /\ MASTER \in AllKeys /\ MASTER \notin KeyNames /\ "#" \notin AllKeys
<1>1. \A p \in Platforms : ModeKey(p) \in KeyNames
  BY FieldNames
<1>2. \A p \in Platforms, m \in AllModes : ToSet(Fields(p, m)) \subseteq KeyNames
  BY FieldNames DEF ToSet
<1>3. AllKeys \subseteq KeyNames \cup {MASTER}
  BY <1>1, <1>2 DEF AllKeys, AllModes
<1>4. MASTER \in AllKeys
  BY DEF AllKeys
<1>5. MASTER \notin KeyNames /\ "#" \notin KeyNames \cup {MASTER}
  BY DEF KeyNames, MASTER
<1> QED
  BY <1>3, <1>4, <1>5

LEMMA AskedKeys ==
  ASSUME NEW p \in Platforms, NEW mode \in Modes(p)
  PROVE  /\ Asked(p, mode) \in Seq(KeyNames \cap AllKeys)
         /\ \A k \in {ModeKey(p)} \cup ToSet(Fields(p, mode)) :
               \E i \in 1..Len(Asked(p, mode)) : Asked(p, mode)[i] = k
<1> DEFINE F == Fields(p, mode)
           K == KeyNames \cap AllKeys
<1>1. mode \in AllModes
  BY DEF AllModes
<1>2. ModeKey(p) \in K
  BY FieldNames DEF AllKeys
<1>3. ToSet(F) \subseteq AllKeys
  BY <1>1 DEF AllKeys, AllModes
<1>4. F \in Seq(KeyNames)
  BY FieldNames
<1> HIDE DEF F
<1>5. F \in Seq(K)
  BY <1>3, <1>4 DEF ToSet
<1>6. Asked(p, mode) = <<ModeKey(p)>> \o F
  BY DEF Asked, F
<1> HIDE DEF K
<1>7. <<ModeKey(p)>> \o F \in Seq(K) /\ Len(<<ModeKey(p)>> \o F) = Len(F) + 1
      /\ (<<ModeKey(p)>> \o F)[1] = ModeKey(p)
      /\ \A i \in 1..Len(F) : (<<ModeKey(p)>> \o F)[i + 1] = F[i]
  BY <1>2, <1>5
<1>8. ASSUME NEW k \in {ModeKey(p)} \cup ToSet(F)
      PROVE  \E i \in 1..Len(F) + 1 : (<<ModeKey(p)>> \o F)[i] = k
  <2>1. CASE k = ModeKey(p)
    BY <1>5, <1>7, <2>1
  <2>2. CASE k \in ToSet(F)
    <3>1. PICK i \in 1..Len(F) : F[i] = k
      BY <1>5, <2>2 DEF ToSet
    <3>2. i + 1 \in 1..Len(F) + 1 /\ (<<ModeKey(p)>> \o F)[i + 1] = k
      BY <1>5, <1>7, <3>1
    <3> QED
      BY <3>2
  <2> QED
    BY <2>1, <2>2
<1> QED
  BY <1>6, <1>7, <1>8 DEF F, K
-----------------------------------------------------------------------------
(* Lines of a file, and what they read.                                          *)

Values == (UNION {{l.val : l \in ToSet(f.lines)} : f \in InitialFiles})
            \cup MasterKeys \cup Wizards \cup AllModes
            \cup {"", Mangled, "added by configure", "template", "adapters"}

Text == [key : AllKeys \cup {"#"}, val : Values, ended : BOOLEAN]

LEMMA TextLines ==
  /\ Header \in Text /\ Header.key = "#"
  /\ \A k \in AllKeys, v \in Values : Line(k, v) \in Text
  /\ \A k, v : Line(k, v).key = k /\ Line(k, v).val = v
  BY DEF Header, Line, Text, Values

\* The last assignment of a key is what is read.
LEMMA GetIs ==
  ASSUME NEW ls \in Seq(Text), NEW k
  PROVE  /\ At(ls, k) \subseteq 1..Len(ls)
         /\ At(ls, k) # {} => Max(At(ls, k)) \in At(ls, k)
         /\ At(ls, k) = {} => Get(ls, k) = ""
         /\ \A m \in At(ls, k) : (\A i \in At(ls, k) : i <= m) => Get(ls, k) = ls[m].val
<1>1. At(ls, k) \subseteq 1..Len(ls) /\ Len(ls) \in Nat
  BY DEF At
<1>2. ASSUME At(ls, k) # {}
      PROVE  Max(At(ls, k)) \in At(ls, k)
  BY <1>1, <1>2, MaxExists
<1>3. ASSUME NEW m \in At(ls, k), \A i \in At(ls, k) : i <= m
      PROVE  Get(ls, k) = ls[m].val
  <2>1. Max(At(ls, k)) = m
    <3>1. At(ls, k) \subseteq Nat
      BY <1>1
    <3> QED
      BY <1>3, <3>1, MaxIs
  <2> QED
    BY <2>1 DEF Get
<1> QED
  BY <1>1, <1>2, <1>3 DEF Get

LEMMA GetTyped ==
  ASSUME NEW ls \in Seq(Text), NEW k
  PROVE  Get(ls, k) \in Values
<1>1. CASE At(ls, k) = {}
  BY <1>1, GetIs DEF Values
<1>2. CASE At(ls, k) # {}
  <2>1. Max(At(ls, k)) \in 1..Len(ls)
    BY <1>2, GetIs
  <2>2. ls[Max(At(ls, k))] \in Text
    BY <2>1
  <2>3. ls[Max(At(ls, k))].val \in Values
    BY <2>2 DEF Text
  <2> QED
    BY <1>2, <2>3 DEF Get
<1> QED
  BY <1>1, <1>2

\* One more line at the end.
LEMMA GetMore ==
  ASSUME NEW ls \in Seq(Text), NEW x \in Text, NEW k
  PROVE  Get(Append(ls, x), k) = IF k = x.key THEN x.val ELSE Get(ls, k)
<1> DEFINE more == Append(ls, x)
<1>1. /\ more \in Seq(Text) /\ Len(more) = Len(ls) + 1 /\ Len(ls) \in Nat
      /\ \A i \in 1..Len(ls) : more[i] = ls[i]
      /\ more[Len(ls) + 1] = x
  BY AppendProperties
<1> HIDE DEF more
<1>2. At(more, k) = IF k = x.key THEN At(ls, k) \cup {Len(ls) + 1} ELSE At(ls, k)
  BY <1>1 DEF At
<1>3. At(ls, k) \subseteq 1..Len(ls)
  BY GetIs
<1>4. CASE k = x.key
  <2>1. Len(ls) + 1 \in At(more, k) /\ \A i \in At(more, k) : i <= Len(ls) + 1
    BY <1>1, <1>2, <1>3, <1>4
  <2> QED
    BY <1>1, <1>4, <2>1, GetIs DEF more
<1>5. CASE k # x.key
  <2>1. CASE At(ls, k) = {}
    BY <1>1, <1>2, <1>5, <2>1, GetIs DEF more
  <2>2. CASE At(ls, k) # {}
    <3>1. Max(At(ls, k)) \in 1..Len(ls)
      BY <1>3, <2>2, GetIs
    <3> QED
      BY <1>1, <1>2, <1>5, <2>2, <3>1 DEF Get, more
  <2> QED
    BY <2>1, <2>2
<1> QED
  BY <1>4, <1>5

\* What SetKey does to a copy of a file: the key reads the value, no other key reads
\* anything else, and no other line is touched.
LEMMA SetKeySets ==
  ASSUME NEW ls \in Seq(Text), NEW k \in AllKeys, NEW v \in Values,
         NEW from \in Seq(Text), NEW ks, k \in ks, Surgical(ls, from, ks)
  PROVE  /\ SetKey(ls, k, v) \in Seq(Text)
         /\ \A j \in AllKeys : Get(SetKey(ls, k, v), j) = IF j = k THEN v ELSE Get(ls, j)
         /\ Surgical(SetKey(ls, k, v), from, ks)
<1>1. Line(k, v) \in Text /\ Line(k, v).key = k /\ Line(k, v).val = v
  BY TextLines
<1>2. Len(ls) \in Nat /\ DOMAIN ls = 1..Len(ls) /\ Len(from) \in Nat /\ DOMAIN from = 1..Len(from)
      /\ Len(from) <= Len(ls)
  BY DEF Surgical
<1>3. CASE At(ls, k) # {}
  <2> DEFINE m == Max(At(ls, k))
             new == [ls EXCEPT ![m] = Line(k, v)]
  <2>1. m \in At(ls, k) /\ m \in 1..Len(ls) /\ ls[m].key = k
    BY <1>3, GetIs, ZenonT(60) DEF At
  <2>2. \A i \in At(ls, k) : i <= m
    BY <1>2, <1>3, GetIs, MaxExists
  <2>3. SetKey(ls, k, v) = new
    BY <1>3 DEF SetKey
  <2> HIDE DEF m
  <2>4. new \in Seq(Text) /\ Len(new) = Len(ls) /\ DOMAIN new = 1..Len(ls) /\ new[m] = Line(k, v)
        /\ \A i \in 1..Len(ls) \ {m} : new[i] = ls[i]
    BY <1>1, <1>2, <2>1, ExceptSeq
  <2> HIDE DEF new
  <2>5. \A j : At(new, j) = At(ls, j)
    BY <1>1, <1>2, <2>1, <2>4 DEF At
  <2>6. Get(new, k) = v
    <3>1. m \in At(new, k) /\ \A i \in At(new, k) : i <= m
      BY <2>1, <2>2, <2>5
    <3>2. Get(new, k) = new[m].val
      BY <2>4, <3>1, GetIs
    <3> QED
      BY <1>1, <2>4, <3>2
  <2>7. ASSUME NEW j \in AllKeys, j # k
        PROVE  Get(new, j) = Get(ls, j)
    <3>1. CASE At(ls, j) = {}
      BY <2>5, <3>1 DEF Get
    <3>2. CASE At(ls, j) # {}
      <4>1. Max(At(ls, j)) \in At(ls, j) /\ Max(At(ls, j)) \in 1..Len(ls)
        BY <3>2, GetIs
      <4>2. Max(At(ls, j)) # m
        BY <2>1, <2>7, <4>1 DEF At
      <4> QED
        BY <2>4, <2>5, <3>2, <4>1, <4>2 DEF Get
    <3> QED
      BY <3>1, <3>2
  <2>8. Surgical(new, from, ks)
    BY <1>1, <1>2, <2>1, <2>4 DEF Surgical
  <2> QED
    BY <2>3, <2>4, <2>6, <2>7, <2>8
<1>4. CASE At(ls, k) = {}
  <2> DEFINE headed == IF HasHeader(ls) THEN ls ELSE Append(ls, Header)
             new == Append(headed, Line(k, v))
  <2>1. /\ headed \in Seq(Text) /\ Len(headed) \in Nat /\ Len(ls) <= Len(headed)
        /\ \A i \in 1..Len(ls) : headed[i] = ls[i]
        /\ \A i \in 1..Len(headed) : i > Len(ls) => headed[i] = Header
    <3>1. CASE HasHeader(ls)
      BY <1>2, <3>1
    <3>2. CASE ~HasHeader(ls)
      <4>1. headed = Append(ls, Header)
        BY <3>2
      <4> HIDE DEF headed
      <4>2. /\ headed \in Seq(Text) /\ Len(headed) = Len(ls) + 1
            /\ \A i \in 1..Len(ls) : headed[i] = ls[i]
            /\ headed[Len(ls) + 1] = Header
        BY <4>1, TextLines, AppendProperties
      <4>3. \A i \in 1..Len(headed) : i > Len(ls) => i = Len(ls) + 1
        BY <1>2, <4>2
      <4> QED
        BY <1>2, <4>2, <4>3
    <3> QED
      BY <3>1, <3>2
  <2>2. \A j \in AllKeys : Get(headed, j) = Get(ls, j)
    <3>1. \A j \in AllKeys : j # Header.key
      BY TextLines, Keys
    <3> QED
      BY <3>1, TextLines, GetMore
  <2> HIDE DEF headed
  <2>3. SetKey(ls, k, v) = new
    <3>1. SetKey(ls, k, v) = headed \o <<Line(k, v)>>
      BY <1>4 DEF SetKey, headed
    <3> QED
      BY <1>1, <2>1, <3>1
  <2>4. /\ new \in Seq(Text) /\ Len(new) = Len(headed) + 1 /\ DOMAIN new = 1..Len(headed) + 1
        /\ \A i \in 1..Len(headed) : new[i] = headed[i]
        /\ new[Len(headed) + 1] = Line(k, v)
    BY <1>1, <2>1, AppendProperties
  <2>5. \A j \in AllKeys : Get(new, j) = IF j = k THEN v ELSE Get(ls, j)
    BY <1>1, <2>1, <2>2, GetMore
  <2> HIDE DEF new
  <2>6. Surgical(new, from, ks)
    <3>1. Len(from) <= Len(new)
      BY <1>2, <2>1, <2>4
    <3>2. \A i \in DOMAIN from : new[i] = ls[i]
      BY <1>2, <2>1, <2>4, SMTT(30)
    <3>3. ASSUME NEW i \in DOMAIN new \ DOMAIN from
          PROVE  new[i].key \in ks \/ new[i] = Header
      <4>1. CASE i \in 1..Len(ls)
        BY <1>2, <2>1, <2>4, <4>1, SMTT(30) DEF Surgical
      <4>2. CASE i \notin 1..Len(ls)
        BY <1>1, <1>2, <2>1, <2>4, <4>2
      <4> QED
        BY <4>1, <4>2
    <3> QED
      BY <3>1, <3>2, <3>3 DEF Surgical
  <2> QED
    BY <2>3, <2>4, <2>5, <2>6
<1> QED
  BY <1>3, <1>4
\* What is read back is what was written, except for a key whose line ran on into another
\* and the key of that other.
LEMMA OnDiskReads ==
  ASSUME NEW ls \in Seq(Text)
  PROVE  /\ OnDisk(ls) \in Seq(Text)
         /\ Damaged(ls) \subseteq AllKeys \cup {"#"}
         /\ \A k \in AllKeys \ Damaged(ls) : Get(OnDisk(ls), k) = Get(ls, k)
<1> DEFINE es == [i \in DOMAIN ls |-> [ls[i] EXCEPT !.ended = @ \/ i < Len(ls)]]
<1>1. Len(ls) \in Nat /\ DOMAIN ls = 1..Len(ls) /\ \A i \in 1..Len(ls) : ls[i] \in Text
  OBVIOUS
<1>2. /\ es \in Seq(Text) /\ Len(es) = Len(ls)
      /\ \A i \in 1..Len(ls) : es[i] \in Text /\ es[i].key = ls[i].key /\ es[i].val = ls[i].val
  <2>1. \A i \in 1..Len(ls) : /\ [ls[i] EXCEPT !.ended = @ \/ i < Len(ls)] \in Text
                              /\ es[i].key = ls[i].key /\ es[i].val = ls[i].val
    BY <1>1 DEF Text
  <2> QED
    BY <1>1, <2>1
<1>3. OnDisk(ls) = IF Seams(ls) = {} THEN es
                   ELSE RemoveAt([es EXCEPT ![Max(Seams(ls))] =
                          [es[Max(Seams(ls))] EXCEPT !.val =
                              IF ls[Max(Seams(ls))].key = "#" THEN @ ELSE Mangled]],
                          Max(Seams(ls)) + 1)
  BY DEF OnDisk
<1> HIDE DEF es
<1>4. CASE Seams(ls) = {}
  <2>1. ASSUME NEW k
        PROVE  Get(es, k) = Get(ls, k)
    <3>1. At(es, k) = At(ls, k)
      BY <1>1, <1>2 DEF At
    <3>2. CASE At(ls, k) = {}
      BY <3>1, <3>2 DEF Get
    <3>3. CASE At(ls, k) # {}
      <4>1. Max(At(ls, k)) \in 1..Len(ls)
        BY <3>3, GetIs
      <4> QED
        BY <1>2, <3>1, <3>3, <4>1 DEF Get
    <3> QED
      BY <3>2, <3>3
  <2> QED
    BY <1>2, <1>3, <1>4, <2>1 DEF Damaged
<1>5. CASE Seams(ls) # {}
  <2> DEFINE n == Max(Seams(ls))
             x == [es[n] EXCEPT !.val = IF ls[n].key = "#" THEN @ ELSE Mangled]
             fs == [es EXCEPT ![n] = x]
             gs == RemoveAt(fs, n + 1)
  <2>1. n \in 1..Len(ls) /\ n + 1 \in 1..Len(ls)
    <3>1. Seams(ls) \subseteq 1..Len(ls) /\ \A i \in Seams(ls) : i + 1 \in 1..Len(ls)
      BY <1>1 DEF Seams
    <3>2. n \in Seams(ls)
      BY <1>1, <1>5, <3>1, MaxExists
    <3> QED
      BY <3>1, <3>2
  <2>2. OnDisk(ls) = gs /\ Damaged(ls) = {ls[n].key, ls[n + 1].key}
    BY <1>3, <1>5 DEF Damaged
  <2> HIDE DEF n
  <2>3. x \in Text /\ x.key = ls[n].key
    <3>1. es[n] \in Text /\ es[n].key = ls[n].key
      BY <1>2, <2>1
    <3>2. Mangled \in Values
      BY DEF Values
    <3> QED
      BY <3>1, <3>2 DEF Text
  <2> HIDE DEF x
  <2>4. /\ fs \in Seq(Text) /\ Len(fs) = Len(ls) /\ fs[n] = x
        /\ \A i \in 1..Len(ls) \ {n} : fs[i] = es[i]
    BY <1>2, <2>1, <2>3, ExceptSeq
  <2> HIDE DEF fs
  <2>5. /\ gs \in Seq(Text) /\ Len(gs) = Len(ls) - 1
        /\ \A i \in 1..Len(ls) - 1 : gs[i] = IF i <= n THEN fs[i] ELSE fs[i + 1]
    <3> DEFINE a == SubSeq(fs, 1, n)
               b == SubSeq(fs, n + 2, Len(fs))
    <3>1. a \in Seq(Text) /\ Len(a) = n /\ \A i \in 1..n : a[i] = fs[i]
      <4>1. \A i \in 1..n : fs[i] \in Text
        BY <1>1, <2>1, <2>4
      <4> QED
        BY <2>1, <4>1, SubSeqProperties
    <3>2. /\ b \in Seq(Text) /\ Len(b) = Len(ls) - n - 1
          /\ \A i \in 1..Len(ls) - n - 1 : b[i] = fs[n + 1 + i]
      <4>1. \A i \in n + 2..Len(fs) : fs[i] \in Text
        BY <1>1, <2>1, <2>4
      <4>2. n + 2 \in Int /\ Len(fs) \in Int
        BY <1>1, <2>1, <2>4
      <4>3. /\ b \in Seq(Text)
            /\ Len(b) = IF n + 2 <= Len(fs) THEN Len(fs) - (n + 2) + 1 ELSE 0
            /\ \A i \in 1..Len(fs) - (n + 2) + 1 : b[i] = fs[(n + 2) + i - 1]
        BY <4>1, <4>2, SubSeqProperties
      <4> HIDE DEF b
      <4>4. Len(b) = Len(ls) - n - 1
        <5>1. n \in Nat /\ Len(ls) \in Nat /\ n + 1 <= Len(ls) /\ Len(fs) = Len(ls)
          BY <1>1, <2>1, <2>4
        <5>2. Len(b) = IF n + 2 <= Len(ls) THEN Len(ls) - (n + 2) + 1 ELSE 0
          BY <4>3, <5>1
        <5> QED
          BY <5>1, <5>2
      <4>5. ASSUME NEW i \in 1..Len(ls) - n - 1
            PROVE  b[i] = fs[n + 1 + i]
        <5>1. i \in 1..Len(fs) - (n + 2) + 1 /\ (n + 2) + i - 1 = n + 1 + i
          BY <1>1, <2>1, <2>4
        <5> QED
          BY <4>3, <5>1
      <4> QED
        BY <4>3, <4>4, <4>5
    <3>3. gs = a \o b
      <4>1. (n + 1) - 1 = n /\ (n + 1) + 1 = n + 2
        BY <2>1
      <4> QED
        BY <4>1 DEF RemoveAt
    <3> HIDE DEF a, b, gs
    <3>4. /\ a \o b \in Seq(Text) /\ Len(a \o b) = Len(a) + Len(b)
          /\ \A i \in 1..Len(a) + Len(b) : (a \o b)[i] = IF i <= Len(a) THEN a[i] ELSE b[i - Len(a)]
      BY <3>1, <3>2, ConcatProperties
    <3>5. ASSUME NEW i \in 1..Len(ls) - 1
          PROVE  gs[i] = IF i <= n THEN fs[i] ELSE fs[i + 1]
      <4>1. i \in 1..Len(a) + Len(b)
        BY <1>1, <2>1, <3>1, <3>2
      <4>2. CASE i <= n
        BY <2>1, <3>1, <3>3, <3>4, <4>1, <4>2
      <4>3. CASE ~(i <= n)
        <5>1. i - n \in 1..Len(ls) - n - 1 /\ n + 1 + (i - n) = i + 1
          BY <1>1, <2>1, <4>3
        <5>2. gs[i] = b[i - n]
          BY <3>1, <3>3, <3>4, <4>1, <4>3
        <5> QED
          BY <3>2, <4>3, <5>1, <5>2
      <4> QED
        BY <4>2, <4>3
    <3> QED
      BY <1>1, <2>1, <3>1, <3>2, <3>3, <3>4, <3>5
  <2> HIDE DEF gs
  <2>6. ASSUME NEW k \in AllKeys, k \notin {ls[n].key, ls[n + 1].key}
        PROVE  Get(gs, k) = Get(ls, k)
    <3>1. \A i \in At(ls, k) : i \in 1..Len(ls) /\ i # n /\ i # n + 1 /\ ls[i].key = k
      BY <1>1, <2>6 DEF At
    <3>2. \A i \in 1..Len(ls) - 1 : /\ i < n => gs[i] = es[i]
                                    /\ i = n => gs[i] = x
                                    /\ i > n => gs[i] = es[i + 1]
      BY <1>1, <2>1, <2>4, <2>5, SMTT(30)
    <3>3. \A i \in At(gs, k) : \/ i < n /\ i \in At(ls, k)
                               \/ i > n /\ i + 1 \in At(ls, k)
      <4> TAKE i \in At(gs, k)
      <4>1. i \in 1..Len(ls) - 1 /\ gs[i].key = k
        BY <2>5 DEF At
      <4>2. i # n
        BY <2>3, <2>6, <3>2, <4>1
      <4>3. CASE i < n
        <5>1. i \in 1..Len(ls) /\ ls[i].key = k
          BY <1>1, <1>2, <3>2, <4>1, <4>3
        <5> QED
          BY <1>1, <4>3, <5>1 DEF At
      <4>4. CASE i > n
        <5>1. i + 1 \in 1..Len(ls) /\ ls[i + 1].key = k
          BY <1>1, <1>2, <3>2, <4>1, <4>4
        <5> QED
          BY <1>1, <4>4, <5>1 DEF At
      <4> QED
        BY <2>1, <4>1, <4>2, <4>3, <4>4
    <3>4. CASE At(ls, k) = {}
      <4>1. At(gs, k) = {}
        BY <3>3, <3>4
      <4> QED
        BY <3>4, <4>1 DEF Get
    <3>5. CASE At(ls, k) # {}
      <4> DEFINE m == Max(At(ls, k))
                 d == IF m < n THEN m ELSE m - 1
      <4>1. m \in At(ls, k) /\ (\A i \in At(ls, k) : i <= m) /\ Get(ls, k) = ls[m].val
        <5>1. At(ls, k) \subseteq 1..Len(ls)
          BY GetIs
        <5> QED
          BY <1>1, <3>5, <5>1, MaxExists DEF Get
      <4> HIDE DEF m
      <4>2. m \in 1..Len(ls) /\ m # n /\ m # n + 1 /\ ls[m].key = k
        BY <3>1, <4>1
      <4>3. d \in 1..Len(ls) - 1 /\ gs[d] = es[m]
        <5>1. CASE m < n
          BY <1>1, <2>1, <3>2, <4>2, <5>1
        <5>2. CASE ~(m < n)
          <6>1. m - 1 \in 1..Len(ls) - 1 /\ m - 1 > n /\ (m - 1) + 1 = m
            BY <1>1, <2>1, <4>2, <5>2
          <6> QED
            BY <3>2, <5>2, <6>1
        <5> QED
          BY <5>1, <5>2
      <4>4. gs[d].key = k /\ gs[d].val = ls[m].val
        BY <1>2, <4>2, <4>3
      <4>5. d \in At(gs, k)
        BY <2>5, <4>3, <4>4 DEF At
      <4>6. \A i \in At(gs, k) : i <= d
        <5> TAKE i \in At(gs, k)
        <5>1. i \in 1..Len(ls) - 1
          BY <2>5 DEF At
        <5>2. CASE i < n /\ i \in At(ls, k)
          BY <2>1, <4>1, <4>2, <5>1, <5>2
        <5>3. CASE i > n /\ i + 1 \in At(ls, k)
          BY <2>1, <4>1, <4>2, <5>1, <5>3
        <5> QED
          BY <3>3, <5>2, <5>3
      <4>7. Get(gs, k) = gs[d].val
        BY <2>5, <4>5, <4>6, GetIs
      <4> QED
        BY <4>1, <4>4, <4>7
    <3> QED
      BY <3>4, <3>5
  <2>7. Damaged(ls) \subseteq AllKeys \cup {"#"}
    BY <1>1, <2>1, <2>2 DEF Text
  <2> QED
    BY <2>2, <2>5, <2>6, <2>7
<1> QED
  BY <1>4, <1>5

-----------------------------------------------------------------------------
(* What Edited makes of a copy.                                                  *)

SetAnswer(answers, ls, k) == IF k \in DOMAIN answers THEN SetKey(ls, k, answers[k]) ELSE ls

\* The keys FoldLeft has folded, as a function of the set of their places.
Folded(answers, ls, ks, n, f) ==
    f = [s \in SUBSET (1..n) |->
            IF s = {} THEN ls ELSE SetAnswer(answers, f[s \ {Max(s)}], ks[Max(s)])]

LEMMA FoldExists ==
  ASSUME NEW answers, NEW ls, NEW ks
  PROVE  \A n \in Nat : \E f : Folded(answers, ls, ks, n, f)
<1> DEFINE T == {n \in Nat : \E f : Folded(answers, ls, ks, n, f)}
<1>1. 0 \in T
  <2> DEFINE f == [s \in SUBSET (1..0) |-> ls]
  <2>1. \A s \in SUBSET (1..0) : s = {}
    OBVIOUS
  <2>2. Folded(answers, ls, ks, 0, f)
    BY <2>1 DEF Folded
  <2> QED
    BY <2>2
<1>2. ASSUME NEW n \in Nat, n \in T
      PROVE  n + 1 \in T
  <2>1. PICK f : Folded(answers, ls, ks, n, f)
    BY <1>2
  <2> DEFINE g == [s \in SUBSET (1..n + 1) |->
                      IF n + 1 \notin s THEN f[s]
                      ELSE SetAnswer(answers, f[s \ {n + 1}], ks[n + 1])]
             h == [s \in SUBSET (1..n + 1) |->
                      IF s = {} THEN ls ELSE SetAnswer(answers, g[s \ {Max(s)}], ks[Max(s)])]
  <2>2. ASSUME NEW s \in SUBSET (1..n + 1)
        PROVE  g[s] = h[s]
    <3>1. CASE s = {}
      BY <2>1, <3>1 DEF Folded
    <3>2. CASE n + 1 \in s
      <4>1. Max(s) = n + 1
        <5>1. s \subseteq Nat /\ \A i \in s : i <= n + 1
          OBVIOUS
        <5> QED
          BY <3>2, <5>1, MaxIs
      <4>2. s \ {n + 1} \in SUBSET (1..n)
        OBVIOUS
      <4>3. g[s \ {n + 1}] = f[s \ {n + 1}]
        BY <4>2
      <4> QED
        BY <3>2, <4>1, <4>3
    <3>3. CASE n + 1 \notin s /\ s # {}
      <4>1. s \in SUBSET (1..n)
        BY <3>3
      <4>2. Max(s) \in s
        BY <3>3, <4>1, MaxExists
      <4>3. s \ {Max(s)} \in SUBSET (1..n) /\ n + 1 \notin s \ {Max(s)}
        BY <3>3, <4>1
      <4>4. g[s \ {Max(s)}] = f[s \ {Max(s)}]
        BY <4>3
      <4>5. g[s] = f[s]
        BY <3>3
      <4>6. f[s] = SetAnswer(answers, f[s \ {Max(s)}], ks[Max(s)])
        BY <2>1, <3>3, <4>1 DEF Folded
      <4> QED
        BY <3>3, <4>4, <4>5, <4>6
    <3> QED
      BY <3>1, <3>2, <3>3
  <2> HIDE DEF g
  <2>3. g = [s \in SUBSET (1..n + 1) |-> g[s]]
    BY DEF g
  <2>4. g = h
    BY <2>2, <2>3
  <2>5. Folded(answers, ls, ks, n + 1, g)
    BY <2>4 DEF Folded
  <2> QED
    BY <2>5
<1> HIDE DEF T
<1>3. Nat \subseteq T
  BY <1>1, <1>2, Induction
<1> QED
  BY <1>3 DEF T

\* A copy in which the answers to the first n keys are set, and nothing else.
SetUpTo(answers, ls, ks, n, from, done) ==
    /\ done \in Seq(Text)
    /\ \A j \in AllKeys :
          Get(done, j) = IF j \in DOMAIN answers /\ (\E i \in 1..n : ks[i] = j)
                         THEN answers[j] ELSE Get(ls, j)
    /\ \A changed : DOMAIN answers \subseteq changed /\ Surgical(ls, from, changed)
                      => Surgical(done, from, changed)

LEMMA SetNext ==
  ASSUME NEW answers, NEW ls \in Seq(Text), NEW ks \in Seq(AllKeys), NEW from \in Seq(Text),
         NEW n \in Nat, n + 1 \in 1..Len(ks), NEW done,
         SetUpTo(answers, ls, ks, n, from, done),
         \A k \in DOMAIN answers : answers[k] \in Values,
         \E changed : DOMAIN answers \subseteq changed /\ Surgical(ls, from, changed)
  PROVE  SetUpTo(answers, ls, ks, n + 1, from, SetAnswer(answers, done, ks[n + 1]))
<1> DEFINE k == ks[n + 1]
           next == SetAnswer(answers, done, k)
<1>1. k \in AllKeys
  OBVIOUS
<1>2. \A j : (\E i \in 1..n + 1 : ks[i] = j) <=> (\E i \in 1..n : ks[i] = j) \/ j = k
  <2>1. \A i : i \in 1..n + 1 <=> i \in 1..n \/ i = n + 1
    OBVIOUS
  <2> QED
    BY <2>1
<1> HIDE DEF k
<1>3. done \in Seq(Text)
  BY DEF SetUpTo
<1>4. PICK some : DOMAIN answers \subseteq some /\ Surgical(done, from, some)
  BY DEF SetUpTo
<1>5. CASE k \in DOMAIN answers
  <2>1. next = SetKey(done, k, answers[k]) /\ answers[k] \in Values
    BY <1>5 DEF SetAnswer
  <2>2. /\ next \in Seq(Text)
        /\ \A j \in AllKeys : Get(next, j) = IF j = k THEN answers[k] ELSE Get(done, j)
    BY <1>1, <1>3, <1>4, <1>5, <2>1, SetKeySets
  <2>3. \A changed : DOMAIN answers \subseteq changed /\ Surgical(ls, from, changed)
                       => Surgical(next, from, changed)
    <3> TAKE changed
    <3> HAVE DOMAIN answers \subseteq changed /\ Surgical(ls, from, changed)
    <3>1. Surgical(done, from, changed) /\ k \in changed
      BY <1>5 DEF SetUpTo
    <3> QED
      BY <1>1, <1>3, <2>1, <3>1, SetKeySets
  <2>4. \A j \in AllKeys :
           Get(next, j) = IF j \in DOMAIN answers /\ (\E i \in 1..n + 1 : ks[i] = j)
                          THEN answers[j] ELSE Get(ls, j)
    BY <1>2, <1>5, <2>2 DEF SetUpTo
  <2> QED
    BY <2>2, <2>3, <2>4 DEF SetUpTo, k
<1>6. CASE k \notin DOMAIN answers
  <2>1. next = done
    BY <1>6 DEF SetAnswer
  <2>2. \A j \in AllKeys :
           Get(done, j) = IF j \in DOMAIN answers /\ (\E i \in 1..n + 1 : ks[i] = j)
                          THEN answers[j] ELSE Get(ls, j)
    BY <1>2, <1>6 DEF SetUpTo
  <2> QED
    BY <2>1, <2>2 DEF SetUpTo, k
<1> QED
  BY <1>5, <1>6

\* The copy reads every answer, and otherwise what it read before; no other line is
\* touched.
LEMMA EditedReads ==
  ASSUME NEW p \in Platforms, NEW mode \in Modes(p), NEW ls \in Seq(Text),
         NEW answers, DOMAIN answers \subseteq {ModeKey(p)} \cup ToSet(Fields(p, mode)),
         \A k \in DOMAIN answers : answers[k] \in Values,
         NEW from \in Seq(Text), NEW changed,
         DOMAIN answers \subseteq changed, Surgical(ls, from, changed)
  PROVE  /\ Edited(ls, p, mode, answers) \in Seq(Text)
         /\ \A j \in AllKeys : Get(Edited(ls, p, mode, answers), j) =
                                  IF j \in DOMAIN answers THEN answers[j] ELSE Get(ls, j)
         /\ Surgical(Edited(ls, p, mode, answers), from, changed)
<1> DEFINE ks == Asked(p, mode)
           len == Len(ks)
           f == CHOOSE f : Folded(answers, ls, ks, len, f)
           end == Edited(ls, p, mode, answers)
           T == {n \in Nat : n <= len => SetUpTo(answers, ls, ks, n, from, f[1..n])}
<1>1. ks \in Seq(AllKeys) /\ len \in Nat /\ DOMAIN ks = 1..len
      /\ \A k \in DOMAIN answers : \E i \in 1..len : ks[i] = k
  <2>1. ks \in Seq(KeyNames \cap AllKeys)
    BY AskedKeys
  <2>2. \A k \in DOMAIN answers : \E i \in 1..len : ks[i] = k
    BY AskedKeys
  <2> HIDE DEF ks
  <2> QED
    BY <2>1, <2>2
<1> HIDE DEF ks
<1>2. Folded(answers, ls, ks, len, f)
  BY <1>1, FoldExists
<1>3. end = f[1..len]
  BY <1>1 DEF Edited, FoldLeft, MapThenFoldSet, Folded, SetAnswer, ks
<1> HIDE DEF f, end, len
<1>4. 0 \in T
  <2>1. f[1..0] = ls
    BY <1>1, <1>2 DEF Folded
  <2>2. SetUpTo(answers, ls, ks, 0, from, ls)
    BY DEF SetUpTo
  <2> QED
    BY <2>1, <2>2
<1>5. ASSUME NEW n \in Nat, n \in T
      PROVE  n + 1 \in T
  <2> SUFFICES ASSUME n + 1 <= len
               PROVE  SetUpTo(answers, ls, ks, n + 1, from, f[1..n + 1])
    OBVIOUS
  <2>1. Max(1..n + 1) = n + 1
    <3>1. 1..n + 1 \subseteq Nat /\ n + 1 \in 1..n + 1 /\ \A i \in 1..n + 1 : i <= n + 1
      OBVIOUS
    <3> QED
      BY <3>1, MaxIs
  <2>2. (1..n + 1) \ {n + 1} = 1..n
    OBVIOUS
  <2>3. 1..n + 1 # {} /\ 1..n + 1 \in SUBSET (1..len)
    <3>1. 1 \in 1..n + 1 /\ \A i \in 1..n + 1 : i \in 1..len
      BY <1>1
    <3> QED
      BY <3>1
  <2>4. f[1..n + 1] = SetAnswer(answers, f[1..n], ks[n + 1])
    BY <1>2, <2>1, <2>2, <2>3 DEF Folded
  <2>5. n + 1 \in 1..Len(ks)
    BY <1>1 DEF len
  <2>6. SetUpTo(answers, ls, ks, n, from, f[1..n])
    BY <1>1, <1>5
  <2>7. \E some : DOMAIN answers \subseteq some /\ Surgical(ls, from, some)
    OBVIOUS
  <2> HIDE DEF T
  <2>8. SetUpTo(answers, ls, ks, n + 1, from, SetAnswer(answers, f[1..n], ks[n + 1]))
    BY <1>1, <2>5, <2>6, <2>7, SetNext
  <2> QED
    BY <2>4, <2>8
<1> HIDE DEF T
<1>6. len \in T
  BY <1>1, <1>4, <1>5, Induction
<1>7. SetUpTo(answers, ls, ks, len, from, end)
  BY <1>1, <1>3, <1>6 DEF T
<1> QED
  BY <1>1, <1>7 DEF SetUpTo, end

-----------------------------------------------------------------------------
(* The ledger.                                                                   *)

\* The ledger of the first n of some versions.
IsLedger(vs, n, f) ==
    f = [m \in 0..n |-> IF m = 0 THEN Emptied ELSE Over(vs[m].answers, f[vs[m].base])]

LedgerOf(vs) == CHOOSE f : IsLedger(vs, Len(vs), f)

\* Each version was written over an earlier one.
Earlier(vs) == Len(vs) \in Nat /\ \A m \in 1..Len(vs) : vs[m].base \in 0..m - 1

LEMMA LedgerAt ==
  ASSUME NEW vs, NEW n \in Nat, NEW f, IsLedger(vs, n, f), NEW m \in 0..n
  PROVE  f[m] = IF m = 0 THEN Emptied ELSE Over(vs[m].answers, f[vs[m].base])
<1> DEFINE g == [i \in 0..n |-> IF i = 0 THEN Emptied ELSE Over(vs[i].answers, f[vs[i].base])]
<1>1. f = g
  BY DEF IsLedger
<1>2. g[m] = IF m = 0 THEN Emptied ELSE Over(vs[m].answers, f[vs[m].base])
  OBVIOUS
<1> HIDE DEF g
<1> QED
  BY <1>1, <1>2

LEMMA LedgerExists ==
  ASSUME NEW vs, Earlier(vs)
  PROVE  IsLedger(vs, Len(vs), LedgerOf(vs))
<1> DEFINE len == Len(vs)
           T == {n \in Nat : n <= len => \E f : IsLedger(vs, n, f)}
<1>1. len \in Nat
  BY DEF Earlier
<1>2. 0 \in T
  <2> DEFINE f == [m \in 0..0 |-> Emptied]
  <2>1. IsLedger(vs, 0, f)
    BY DEF IsLedger
  <2> QED
    BY <2>1
<1>3. ASSUME NEW n \in Nat, n \in T
      PROVE  n + 1 \in T
  <2> SUFFICES ASSUME n + 1 <= len
               PROVE  \E f : IsLedger(vs, n + 1, f)
    OBVIOUS
  <2>1. PICK f : IsLedger(vs, n, f)
    BY <1>1, <1>3
  <2> DEFINE g == [m \in 0..n + 1 |-> IF m <= n THEN f[m]
                                      ELSE Over(vs[m].answers, f[vs[m].base])]
             h == [m \in 0..n + 1 |-> IF m = 0 THEN Emptied
                                      ELSE Over(vs[m].answers, g[vs[m].base])]
  <2>2. ASSUME NEW m \in 0..n + 1
        PROVE  g[m] = h[m]
    <3>1. CASE m = 0
      BY <2>1, <3>1 DEF IsLedger
    <3>2. CASE m # 0
      <4>1. vs[m].base \in 0..n /\ (m <= n => vs[m].base \in 0..m - 1)
        BY <1>1, <3>2 DEF Earlier
      <4>2. g[vs[m].base] = f[vs[m].base]
        BY <4>1
      <4>3. m <= n => f[m] = Over(vs[m].answers, f[vs[m].base])
        BY <2>1, <3>2, LedgerAt
      <4> QED
        BY <3>2, <4>2, <4>3
    <3> QED
      BY <3>1, <3>2
  <2> HIDE DEF g
  <2>3. g = [m \in 0..n + 1 |-> g[m]]
    BY DEF g
  <2>4. g = h
    BY <2>2, <2>3
  <2>5. IsLedger(vs, n + 1, g)
    BY <2>4 DEF IsLedger
  <2> QED
    BY <2>5
<1> HIDE DEF T
<1>4. len \in T
  BY <1>1, <1>2, <1>3, Induction
<1>5. \E f : IsLedger(vs, len, f)
  BY <1>1, <1>4 DEF T
<1> QED
  BY <1>5 DEF LedgerOf

\* One more version leaves the ledger of the others as it was.
LEMMA LedgerGrows ==
  ASSUME NEW V, NEW vs \in Seq(V), Earlier(vs), NEW x \in V, x.base \in 0..Len(vs)
  PROVE  /\ Earlier(Append(vs, x))
         /\ \A m \in 0..Len(vs) : LedgerOf(Append(vs, x))[m] = LedgerOf(vs)[m]
         /\ LedgerOf(Append(vs, x))[Len(vs) + 1] = Over(x.answers, LedgerOf(vs)[x.base])
<1> DEFINE len == Len(vs)
           ws == Append(vs, x)
           f == LedgerOf(vs)
           g == LedgerOf(ws)
<1>1. /\ ws \in Seq(V) /\ Len(ws) = len + 1 /\ len \in Nat
      /\ \A i \in 1..len : ws[i] = vs[i]
      /\ ws[len + 1] = x
  BY AppendProperties
<1> HIDE DEF ws
<1>2. Earlier(ws)
  BY <1>1 DEF Earlier
<1>3. IsLedger(vs, len, f) /\ IsLedger(ws, len + 1, g)
  BY <1>1, <1>2, LedgerExists
<1> HIDE DEF f, g
<1> DEFINE D == {m \in 0..len : g[m] # f[m]}
<1>4. D = {}
  <2> SUFFICES ASSUME D # {} PROVE FALSE
    OBVIOUS
  <2>6. D \subseteq Nat
    OBVIOUS
  <2>1. PICK m \in D : \A n \in D : m <= n
    BY <2>6, LeastNumber
  <2>2. m # 0
    BY <1>1, <1>3, <2>1, LedgerAt
  <2>3. m \in 1..len /\ vs[m].base \in 0..m - 1 /\ ws[m] = vs[m]
    BY <1>1, <2>1, <2>2 DEF Earlier
  <2>4. vs[m].base \in 0..len /\ g[vs[m].base] = f[vs[m].base]
    BY <1>1, <2>1, <2>3
  <2>5. f[m] = Over(vs[m].answers, f[vs[m].base]) /\ g[m] = Over(vs[m].answers, g[vs[m].base])
    BY <1>1, <1>3, <2>3, LedgerAt
  <2> QED
    BY <2>1, <2>4, <2>5
<1>5. g[len + 1] = Over(x.answers, f[x.base])
  <2>1. g[len + 1] = Over(x.answers, g[x.base])
    BY <1>1, <1>3, LedgerAt
  <2> QED
    BY <1>4, <2>1
<1> QED
  BY <1>2, <1>4, <1>5 DEF f, g, ws

\* Which version is the last one .env was given, when there is one more.
LEMMA LatestGrows ==
  ASSUME NEW V, NEW vs \in Seq(V), Len(vs) >= 1, Latest(vs) \in 1..Len(vs), NEW x \in V,
         vs[1].by # "init"
  PROVE  LET ws == Append(vs, x)
             lost == x.by = "init" /\ vs[Len(vs)].by # "truncate"
         IN Latest(ws) = IF lost THEN Latest(vs) ELSE Len(vs) + 1
<1> DEFINE ws == Append(vs, x)
           N == {n \in DOMAIN vs : ~Overtaken(vs, n)}
           M == {n \in DOMAIN ws : ~Overtaken(ws, n)}
           lost == x.by = "init" /\ vs[Len(vs)].by # "truncate"
<1>1. /\ ws \in Seq(V) /\ Len(ws) = Len(vs) + 1 /\ Len(vs) \in Nat
      /\ DOMAIN ws = 1..Len(vs) + 1 /\ DOMAIN vs = 1..Len(vs)
      /\ \A i \in 1..Len(vs) : ws[i] = vs[i]
      /\ ws[Len(vs) + 1] = x
  BY AppendProperties
<1>2. Latest(vs) = Max(N) /\ Latest(ws) = Max(M)
  BY DEF Latest
<1> HIDE DEF ws
<1>3. \A n \in 1..Len(vs) : n # 1 => (Overtaken(ws, n) <=> Overtaken(vs, n))
  <2> TAKE n \in 1..Len(vs)
  <2> HAVE n # 1
  <2>1. n - 1 \in 1..Len(vs) /\ ws[n - 1] = vs[n - 1] /\ ws[n] = vs[n]
    BY <1>1
  <2> QED
    BY <2>1 DEF Overtaken
<1>4. Overtaken(ws, Len(vs) + 1) <=> lost
  <2>1. (Len(vs) + 1) - 1 = Len(vs) /\ ws[Len(vs)] = vs[Len(vs)]
    BY <1>1
  <2> QED
    BY <1>1, <2>1 DEF Overtaken
<1>5. CASE ~lost
  <2>1. Len(vs) + 1 \in M /\ M \subseteq Nat /\ \A i \in M : i <= Len(vs) + 1
    BY <1>1, <1>4, <1>5
  <2> HIDE DEF M
  <2>2. Max(M) = Len(vs) + 1
    BY <1>1, <2>1, MaxIs
  <2> QED
    BY <1>2, <1>5, <2>2 DEF ws
<1>6. CASE lost
  <2>1. M \subseteq 1..Len(vs) /\ N \subseteq 1..Len(vs)
    BY <1>1, <1>4, <1>6
  <2>2. \A n \in 1..Len(vs) : n # 1 => (n \in M <=> n \in N)
    BY <1>1, <1>3
  <2>3. (1 \in M <=> 1 \in N)
    <3>1. ~Overtaken(vs, 1) /\ ~Overtaken(ws, 1)
      BY <1>1 DEF Overtaken
    <3> QED
      BY <1>1, <3>1
  <2> HIDE DEF M, N
  <2>4. M = N
    <3>1. \A n \in 1..Len(vs) : n \in M <=> n \in N
      BY <2>2, <2>3
    <3>2. \A n : n \in M <=> n \in N
      BY <2>1, <3>1
    <3> QED
      BY <3>2
  <2> QED
    BY <1>2, <1>6, <2>4 DEF ws
<1> QED
  BY <1>5, <1>6 DEF ws

LEMMA LedgerDefined == Ledger = LedgerOf(saved)
  BY DEF Ledger, LedgerOf, IsLedger

-----------------------------------------------------------------------------
(* The invariant.                                                                *)

\* The answers of a wizard, and those of a version.
WizAnswers == UNION {[ks -> Values] : ks \in SUBSET (KeyNames \cap AllKeys)}

Version == [by : Wizards \cup {"truncate", "init", "before"}, base : Nat,
            answers : UNION {[ks -> Values] : ks \in SUBSET AllKeys}]

WizState == [pc : {"start", "walk", "validate", "replace", "done"},
             lines : Seq(Text), loaded : Seq(Text), base : Nat, todo : Seq(Platforms),
             before : Seq(Text), changed : BOOLEAN,
             answered : WizAnswers, asked : WizAnswers]

\* ls reads the answers, and where there is none, what the wizard loaded.
Reads(ls, answers, from) ==
    \A k \in AllKeys : Get(ls, k) = IF k \in DOMAIN answers THEN answers[k] ELSE Get(from, k)

\* A copy that holds the completed sections and nothing else.
Clean(me, ls) ==
    /\ Reads(ls, me.answered, me.loaded)
    /\ Surgical(ls, me.loaded, DOMAIN me.answered)
    /\ ~me.changed => ls = me.loaded /\ me.answered = NoAnswers

\* A wizard that has loaded version me.base of vs, with the keys in bad garbled by then or
\* later.
Sound(me, vs, bad) ==
    /\ me \in WizState
    /\ me.pc \in {"start", "done"} => me = Wizard(me.pc)
    /\ me.pc \notin {"start", "done"} =>
          /\ me.base \in 1..Len(vs)
          /\ \A k \in AllKeys \ bad : Get(me.loaded, k) = LedgerOf(vs)[me.base][k]
    /\ me.pc \in {"walk", "replace"} => Clean(me, me.lines) /\ me.asked = NoAnswers
    /\ me.pc = "validate" =>
          /\ me.todo # << >> /\ Clean(me, me.before)
          /\ Reads(me.lines, Over(me.asked, me.answered), me.loaded)
          /\ Surgical(me.lines, me.loaded, DOMAIN me.asked \cup DOMAIN me.answered)

\* A file, and the versions there have been of it.
Kept(f, vs, bad) ==
    /\ f \in [there : BOOLEAN, lines : Seq(Text)] /\ (f.lines # << >> => f.there)
    /\ vs \in Seq(Version) /\ Earlier(vs) /\ Len(vs) >= 1 /\ Latest(vs) \in 1..Len(vs)
    /\ vs[1].by # "init"
    /\ \A k \in AllKeys \ bad : Get(f.lines, k) = LedgerOf(vs)[Latest(vs)][k]

\* Only a wizard's save takes the file init has open out of its place.
Opened ==
    init.pc = "write" => ((init.fh = inode) <=> (saved[Len(saved)].by = "truncate"))

Inits ==
    /\ yaml \in BOOLEAN /\ rotated \in BOOLEAN /\ cut \in BOOLEAN
    /\ inits \in 0..MaxInits /\ inode \in Nat
    /\ init \in [pc : {"idle", "key", "truncate", "write"},
                 key : Values, rotate : BOOLEAN, fh : 0..inode]
    /\ init.pc \in {"truncate", "write"} => init.key # ""
    /\ keys \in Seq(Values \ {""})
    /\ glued \subseteq AllKeys \cup {"#"}

IInv ==
    /\ Kept(file, saved, glued)
    /\ Inits /\ Opened
    /\ DOMAIN wz = Wizards /\ wz = [w \in Wizards |-> wz[w]]
    /\ \A w \in Wizards : Sound(wz[w], saved, glued)

-----------------------------------------------------------------------------

LEMMA WizardTyped ==
  ASSUME NEW pc \in {"start", "walk", "validate", "replace", "done"}
  PROVE  /\ Wizard(pc) \in WizState /\ NoAnswers \in WizAnswers
         /\ Wizard(pc).pc = pc /\ Wizard(pc).answered = NoAnswers
         /\ Wizard(pc).asked = NoAnswers /\ Wizard(pc).changed = FALSE
         /\ DOMAIN NoAnswers = {}
<1>1. NoAnswers \in WizAnswers /\ DOMAIN NoAnswers = {}
  <2>1. NoAnswers \in [{} -> Values]
    BY DEF NoAnswers
  <2>2. DOMAIN NoAnswers = {}
    BY DEF NoAnswers
  <2> QED
    BY <2>1, <2>2 DEF WizAnswers
<1>2. << >> \in Seq(Text) /\ << >> \in Seq(Platforms)
  BY EmptySeq
<1> QED
  BY <1>1, <1>2 DEF Wizard, WizState

LEMMA Answered ==
  ASSUME NEW a \in WizAnswers, NEW b \in WizAnswers
  PROVE  /\ Over(a, b) \in WizAnswers /\ DOMAIN Over(a, b) = DOMAIN a \cup DOMAIN b
         /\ DOMAIN a \subseteq KeyNames \cap AllKeys
         /\ \A k \in DOMAIN a : a[k] \in Values
         /\ \A k \in DOMAIN a \cup DOMAIN b :
               Over(a, b)[k] = IF k \in DOMAIN a THEN a[k] ELSE b[k]
<1>1. PICK A \in SUBSET (KeyNames \cap AllKeys) : a \in [A -> Values]
  BY DEF WizAnswers
<1>2. PICK B \in SUBSET (KeyNames \cap AllKeys) : b \in [B -> Values]
  BY DEF WizAnswers
<1>3. Over(a, b) \in [A \cup B -> Values]
  BY <1>1, <1>2 DEF Over
<1>4. A \cup B \in SUBSET (KeyNames \cap AllKeys)
  OBVIOUS
<1>5. Over(a, b) \in WizAnswers
  BY <1>3, <1>4 DEF WizAnswers
<1> QED
  BY <1>1, <1>2, <1>3, <1>5 DEF Over

\* A wizard that begins with what the file reads.
LEMMA CleanStart ==
  ASSUME NEW me, NEW ls \in Seq(Text), me.loaded = ls, me.answered = NoAnswers
  PROVE  Clean(me, ls)
<1>1. DOMAIN NoAnswers = {}
  BY DEF NoAnswers
<1>2. Reads(ls, NoAnswers, ls)
  BY <1>1 DEF Reads
<1>3. Surgical(ls, ls, DOMAIN NoAnswers)
  BY DEF Surgical
<1> QED
  BY <1>2, <1>3 DEF Clean

\* What a section asks for gets a value of the wizard's, or the mode.
LEMMA SectionTyped ==
  ASSUME NEW w \in Wizards, NEW p \in Platforms, NEW mode \in Modes(p), NEW ls, NEW room,
         NEW a \in SectionAnswers(ls, w, p, mode, room)
  PROVE  /\ a \in WizAnswers
         /\ DOMAIN a \subseteq {ModeKey(p)} \cup ToSet(Fields(p, mode))
<1> DEFINE moded == IF mode = Get(ls, ModeKey(p)) THEN {} ELSE {ModeKey(p)}
           all == moded \cup ToSet(Fields(p, mode))
<1>1. PICK ks \in SUBSET all : a \in [ks -> {mode, w, ""}]
  BY DEF SectionAnswers
<1>2. all \subseteq {ModeKey(p)} \cup ToSet(Fields(p, mode))
  OBVIOUS
<1>3. {mode, w, ""} \subseteq Values
  BY DEF Values, AllModes
<1>4. {ModeKey(p)} \cup ToSet(Fields(p, mode)) \subseteq KeyNames \cap AllKeys
  <2>1. ModeKey(p) \in KeyNames \cap AllKeys
    BY FieldNames DEF AllKeys
  <2>2. ToSet(Fields(p, mode)) \subseteq KeyNames
    BY FieldNames DEF ToSet
  <2>3. mode \in AllModes
    BY DEF AllModes
  <2>4. ToSet(Fields(p, mode)) \subseteq AllKeys
    BY <2>3 DEF AllKeys, AllModes
  <2> QED
    BY <2>1, <2>2, <2>4
<1> HIDE DEF all
<1>5. a \in [ks -> Values] /\ DOMAIN a = ks
  BY <1>1, <1>3
<1>6. ks \in SUBSET (KeyNames \cap AllKeys)
  BY <1>2, <1>4
<1>7. a \in WizAnswers
  BY <1>5, <1>6 DEF WizAnswers
<1> QED
  BY <1>2, <1>5, <1>7

LEMMA MoreLines ==
  ASSUME NEW S, NEW T, S \subseteq T, NEW s \in Seq(S)
  PROVE  s \in Seq(T)
  OBVIOUS

\* Every version says something of every key.
LEMMA LedgerCovers ==
  ASSUME NEW f, NEW vs, NEW bad, Kept(f, vs, bad), NEW n \in 0..Len(vs)
  PROVE  AllKeys \subseteq DOMAIN LedgerOf(vs)[n]
<1> DEFINE D == {m \in 0..Len(vs) : ~(AllKeys \subseteq DOMAIN LedgerOf(vs)[m])}
<1>1. Earlier(vs) /\ Len(vs) \in Nat
  BY DEF Kept, Earlier
<1>2. IsLedger(vs, Len(vs), LedgerOf(vs))
  BY <1>1, LedgerExists
<1>3. D = {}
  <2> SUFFICES ASSUME D # {} PROVE FALSE
    OBVIOUS
  <2>1. D \subseteq Nat
    BY <1>1
  <2>2. PICK m \in D : \A i \in D : m <= i
    BY <2>1, LeastNumber
  <2>3. CASE m = 0
    BY <1>1, <1>2, <2>2, <2>3, LedgerAt, ZenonT(60) DEF Emptied
  <2>4. CASE m # 0
    <3>1. m \in 0..Len(vs) /\ vs[m].base \in 0..Len(vs) /\ vs[m].base < m /\ vs[m].base \in Nat
      BY <1>1, <2>2, <2>4 DEF Earlier
    <3>2. AllKeys \subseteq DOMAIN LedgerOf(vs)[vs[m].base]
      BY <2>2, <3>1
    <3>3. LedgerOf(vs)[m] = Over(vs[m].answers, LedgerOf(vs)[vs[m].base])
      BY <1>1, <1>2, <2>4, <3>1, LedgerAt, ZenonT(30)
    <3>4. AllKeys \subseteq DOMAIN LedgerOf(vs)[m]
      BY <3>2, <3>3 DEF Over
    <3> QED
      BY <2>2, <3>4
  <2> QED
    BY <2>3, <2>4
<1> QED
  BY <1>3

LEMMA InitInv == Init => IInv
<1> SUFFICES ASSUME Init PROVE IInv
  OBVIOUS
<1>1. file \in [there : BOOLEAN, lines : Seq(Text)] /\ (file.lines # << >> => file.there)
  <2> DEFINE V == {l.val : l \in ToSet(file.lines)}
  <2>1. /\ file \in [there : BOOLEAN, lines : Seq([key : AllKeys \cup {"#"}, val : V,
                                                    ended : BOOLEAN])]
        /\ file.lines # << >> => file.there
    BY FileAssumption DEF Init
  <2>2. V \subseteq Values
    BY DEF Init, Values
  <2> HIDE DEF V
  <2>3. [key : AllKeys \cup {"#"}, val : V, ended : BOOLEAN] \subseteq Text
    BY <2>2 DEF Text
  <2>4. file.lines \in Seq(Text)
    BY <2>1, <2>3, MoreLines, ZenonT(60)
  <2> QED
    BY <2>1, <2>4
<1> DEFINE first == [by |-> "before", base |-> 0,
                     answers |-> [k \in AllKeys |-> Get(file.lines, k)]]
<1>2. saved = <<first>>
  BY DEF Init
<1>3. first \in Version /\ first.base = 0
  <2>1. \A k \in AllKeys : Get(file.lines, k) \in Values
    BY <1>1, GetTyped
  <2>2. [k \in AllKeys |-> Get(file.lines, k)] \in [AllKeys -> Values]
    BY <2>1
  <2> QED
    BY <2>2 DEF Version
<1>4. \A k \in AllKeys : first.answers[k] = Get(file.lines, k)
  OBVIOUS
<1>5. DOMAIN first.answers = AllKeys
  OBVIOUS
<1> HIDE DEF first
<1>6. saved \in Seq(Version) /\ Len(saved) = 1 /\ saved[1] = first
  BY <1>2, <1>3
<1>7. Earlier(saved)
  BY <1>3, <1>6 DEF Earlier
<1>8. IsLedger(saved, 1, LedgerOf(saved))
  BY <1>6, <1>7, LedgerExists
<1>9. LedgerOf(saved)[1] = Over(first.answers, LedgerOf(saved)[0])
  BY <1>3, <1>6, <1>8, LedgerAt
<1>10. \A k \in AllKeys : LedgerOf(saved)[1][k] = Get(file.lines, k)
  BY <1>4, <1>5, <1>9 DEF Over
<1>a. Latest(saved) = 1 /\ saved[1].by = "before"
  <2>1. saved[1].by = "before"
    BY <1>6 DEF first
  <2>2. {n \in DOMAIN saved : ~Overtaken(saved, n)} = {1}
    BY <1>6, <2>1 DEF Overtaken
  <2>3. {1} \subseteq Nat /\ 1 \in {1} /\ \A i \in {1} : i <= 1
    OBVIOUS
  <2>4. Max({1}) = 1
    BY <2>3, MaxIs
  <2> QED
    BY <2>1, <2>2, <2>4 DEF Latest
<1>11. Kept(file, saved, glued)
  <2>1. Len(saved) = 1
    BY <1>6
  <2>2. \A k \in AllKeys \ glued : Get(file.lines, k) = LedgerOf(saved)[Latest(saved)][k]
    BY <1>10, <1>a
  <2>3. file \in [there : BOOLEAN, lines : Seq(Text)] /\ (file.lines # << >> => file.there)
    BY <1>1
  <2>4. saved \in Seq(Version) /\ Len(saved) >= 1 /\ Latest(saved) \in 1..Len(saved)
        /\ saved[1].by # "init"
    BY <1>6, <1>a, <2>1
  <2> QED
    BY <1>7, <2>2, <2>3, <2>4, Zenon DEF Kept
<1>12. Inits
  <2>1. keys \in Seq(Values \ {""})
    <3>1. CASE Get(file.lines, MASTER) = ""
      BY <3>1, EmptySeq DEF Init
    <3>2. CASE Get(file.lines, MASTER) # ""
      <4> DEFINE K == Values \ {""}
      <4>1. keys = <<Get(file.lines, MASTER)>> /\ Get(file.lines, MASTER) \in K
        BY <1>1, <3>2, GetTyped DEF Init
      <4> HIDE DEF K
      <4>2. keys \in Seq(K)
        BY <4>1
      <4> QED
        BY <4>2 DEF K
    <3> QED
      BY <3>1, <3>2
  <2>3. MaxInits \in Nat
    BY WizardAssumption
  <2>2. 0 \in 0..MaxInits
    BY <2>3
  <2>4. "" \in Values
    BY DEF Values
  <2>5. inode = 0 /\ init = Idle /\ inits = 0 /\ glued = {}
        /\ yaml \in BOOLEAN /\ rotated \in BOOLEAN /\ cut \in BOOLEAN
    BY DEF Init
  <2>6. 0 \in Nat /\ 0 \in 0..0
    OBVIOUS
  <2>7. Idle \in [pc : {"idle", "key", "truncate", "write"},
                 key : Values, rotate : BOOLEAN, fh : 0..0]
    BY <2>4, <2>6 DEF Idle
  <2>8. Idle.pc = "idle"
    BY DEF Idle
  <2> QED
    BY <2>1, <2>2, <2>5, <2>6, <2>7, <2>8 DEF Inits
<1>b. Opened
  BY DEF Init, Idle, Opened
<1>13. wz = [w \in Wizards |-> Wizard("start")]
  BY DEF Init
<1>14. Sound(Wizard("start"), saved, glued)
  BY WizardTyped DEF Sound
<1> QED
  BY <1>11, <1>12, <1>b, <1>13, <1>14 DEF IInv

\* A wizard's step that leaves the file alone.
LEMMA WizardStep ==
  ASSUME IInv, NEW w \in Wizards, NEW s, Sound(s, saved, glued),
         wz' = [wz EXCEPT ![w] = s],
         UNCHANGED <<file, inode, yaml, init, inits, saved, keys, rotated, cut, glued>>
  PROVE  IInv'
<1>1. \A v \in Wizards : wz'[v] = IF v = w THEN s ELSE wz[v]
  BY DEF IInv
<1>2. DOMAIN wz' = Wizards /\ wz' = [v \in Wizards |-> wz'[v]]
  BY DEF IInv
<1>3. \A v \in Wizards : Sound(wz'[v], saved', glued')
  BY <1>1 DEF IInv
<1>4. Inits' /\ Opened'
  BY DEF IInv, Inits, Opened
<1> QED
  BY <1>2, <1>3, <1>4 DEF IInv

\* What is known of a wizard outlives more versions and more garbled keys.
LEMMA SoundStays ==
  ASSUME NEW bad, NEW worse, bad \subseteq worse,
         NEW vs, NEW ws, Len(vs) \in Nat, Len(ws) \in Nat, Len(vs) <= Len(ws),
         \A m \in 0..Len(vs) : LedgerOf(ws)[m] = LedgerOf(vs)[m],
         NEW me, Sound(me, vs, bad)
  PROVE  Sound(me, ws, worse)
<1>1. me.base \in 1..Len(vs) => /\ me.base \in 1..Len(ws)
                                /\ LedgerOf(ws)[me.base] = LedgerOf(vs)[me.base]
  OBVIOUS
<1> QED
  BY <1>1 DEF Sound

\* A new version of the file.
LEMMA NewVersion ==
  ASSUME IInv, NEW ls \in Seq(Text), NEW x \in Version, x.base \in 0..Len(saved),
         x.by = "init" => saved[Len(saved)].by = "truncate",
         file' = Written(ls), saved' = Append(saved, x), glued' = glued \cup Damaged(ls),
         \A k \in AllKeys \ glued : Get(ls, k) = Over(x.answers, LedgerOf(saved)[x.base])[k]
  PROVE  /\ Kept(file', saved', glued') /\ saved'[Len(saved')] = x
         /\ \A me : Sound(me, saved, glued) => Sound(me, saved', glued')
<1>1. /\ saved \in Seq(Version) /\ Earlier(saved) /\ Len(saved) >= 1 /\ Len(saved) \in Nat
      /\ Latest(saved) \in 1..Len(saved) /\ saved[1].by # "init"
  BY DEF IInv, Kept
<1>2. /\ Earlier(saved')
      /\ \A m \in 0..Len(saved) : LedgerOf(saved')[m] = LedgerOf(saved)[m]
      /\ LedgerOf(saved')[Len(saved) + 1] = Over(x.answers, LedgerOf(saved)[x.base])
  BY <1>1, LedgerGrows
<1>3. saved' \in Seq(Version) /\ Len(saved') = Len(saved) + 1 /\ saved'[Len(saved) + 1] = x
  BY <1>1
<1>4. /\ OnDisk(ls) \in Seq(Text)
      /\ \A k \in AllKeys \ Damaged(ls) : Get(OnDisk(ls), k) = Get(ls, k)
  BY OnDiskReads
<1>5. file' \in [there : BOOLEAN, lines : Seq(Text)] /\ file'.lines = OnDisk(ls) /\ file'.there
  BY <1>4 DEF Written
<1>6. Latest(saved') = Len(saved')
  BY <1>1, <1>3, LatestGrows
<1>7. \A k \in AllKeys \ glued' : Get(file'.lines, k) = LedgerOf(saved')[Latest(saved')][k]
  BY <1>2, <1>3, <1>4, <1>5, <1>6
<1>8. Kept(file', saved', glued')
  <2>1. Len(saved') >= 1 /\ Latest(saved') \in 1..Len(saved') /\ saved'[1].by # "init"
    BY <1>1, <1>3, <1>6
  <2> QED
    BY <1>2, <1>3, <1>5, <1>7, <2>1 DEF Kept
<1>9. ASSUME NEW me, Sound(me, saved, glued)
      PROVE  Sound(me, saved', glued')
  <2>1. Len(saved') \in Nat /\ Len(saved) <= Len(saved') /\ glued \subseteq glued'
    BY <1>1, <1>3
  <2> QED
    BY <1>1, <1>2, <1>9, <2>1, SoundStays
<1> QED
  BY <1>3, <1>8, <1>9

LEMMA LoadInv ==
  ASSUME IInv, NEW w \in Wizards, Load(w)
  PROVE  IInv'
<1>1. PICK pick \in Picks :
         wz' = [wz EXCEPT ![w] = [Wizard("walk") EXCEPT
                   !.lines = file.lines, !.loaded = file.lines,
                   !.base = Latest(saved), !.todo = Todo(pick)]]
  BY DEF Load
<1> DEFINE s == [Wizard("walk") EXCEPT !.lines = file.lines, !.loaded = file.lines,
                                       !.base = Latest(saved), !.todo = Todo(pick)]
<1>2. file.lines \in Seq(Text) /\ Len(saved) \in Nat /\ Latest(saved) \in 1..Len(saved)
      /\ \A k \in AllKeys \ glued : Get(file.lines, k) = LedgerOf(saved)[Latest(saved)][k]
  BY DEF IInv, Kept
<1>3. Todo(pick) \in Seq(Platforms)
  <2>1. CASE pick = "all"
    BY <2>1 DEF Todo, Platforms
  <2>2. CASE pick # "all"
    <3>1. pick \in Platforms
      BY <2>2, WizardAssumption DEF Platforms
    <3>2. Todo(pick) = <<pick>>
      BY <2>2 DEF Todo
    <3> QED
      BY <3>1, <3>2
  <2> QED
    BY <2>1, <2>2
<1>a. Latest(saved) \in Nat
  BY <1>2
<1>4. /\ s \in WizState /\ s.pc = "walk" /\ s.lines = file.lines /\ s.loaded = file.lines
      /\ s.base = Latest(saved) /\ s.answered = NoAnswers /\ s.asked = NoAnswers
  BY <1>2, <1>3, <1>a, WizardTyped DEF WizState, Wizard
<1> HIDE DEF s
<1>5. Clean(s, s.lines)
  BY <1>2, <1>4, CleanStart
<1>6. Sound(s, saved, glued)
  BY <1>2, <1>4, <1>5 DEF Sound
<1> QED
  BY <1>1, <1>6, WizardStep DEF Load, s

LEMMA FinishInv ==
  ASSUME IInv, NEW w \in Wizards, Finish(w),
         UNCHANGED <<file, inode, yaml, init, inits, saved, keys, rotated, cut, glued>>
  PROVE  IInv'
<1>1. Sound(Wizard("done"), saved, glued)
  BY WizardTyped DEF Sound
<1> QED
  BY <1>1, WizardStep DEF Finish

\* One section: its answers are set in the copy, which is kept for an abort.
LEMMA WalkInv ==
  ASSUME IInv, NEW w \in Wizards, Walk(w)
  PROVE  IInv'
<1> DEFINE me == wz[w]
           p == Head(me.todo)
<1>1. Sound(me, saved, glued) /\ me.pc = "walk" /\ me.todo # << >>
      /\ UNCHANGED <<file, inode, yaml, init, inits, saved, keys, rotated, cut, glued>>
  BY DEF IInv, Walk
<1>2. /\ me \in WizState /\ Clean(me, me.lines) /\ me.asked = NoAnswers
      /\ me.base \in 1..Len(saved)
      /\ \A k \in AllKeys \ glued : Get(me.loaded, k) = LedgerOf(saved)[me.base][k]
  BY <1>1 DEF Sound
<1>3. /\ me.lines \in Seq(Text) /\ me.loaded \in Seq(Text) /\ me.answered \in WizAnswers
      /\ me.todo \in Seq(Platforms) /\ me.changed \in BOOLEAN /\ me.base \in Nat
  BY <1>2 DEF WizState
<1>4. p \in Platforms /\ Tail(me.todo) \in Seq(Platforms)
  BY <1>1, <1>3
<1>5. \/ Finish(w)
      \/ \E mode \in Modes(p) :
         \E a \in SectionAnswers(me.lines, w, p, mode,
                                 MaxEdits - Cardinality(DOMAIN me.answered)) :
            wz' = [wz EXCEPT ![w] =
                     IF a = NoAnswers THEN [me EXCEPT !.todo = Tail(me.todo)]
                     ELSE [me EXCEPT !.pc = "validate",
                                     !.lines = Edited(me.lines, p, mode, a),
                                     !.before = me.lines, !.asked = a]]
  BY DEF Walk
<1> HIDE DEF p, me
<1>6. CASE Finish(w)
  BY <1>1, <1>6, FinishInv
<1>7. ASSUME NEW mode \in Modes(p), NEW room,
             NEW a \in SectionAnswers(me.lines, w, p, mode, room),
             wz' = [wz EXCEPT ![w] =
                     IF a = NoAnswers THEN [me EXCEPT !.todo = Tail(me.todo)]
                     ELSE [me EXCEPT !.pc = "validate",
                                     !.lines = Edited(me.lines, p, mode, a),
                                     !.before = me.lines, !.asked = a]]
      PROVE  IInv'
  <2>1. CASE a = NoAnswers
    <3> DEFINE s == [me EXCEPT !.todo = Tail(me.todo)]
    <3>1. /\ s \in WizState /\ s.pc = "walk" /\ s.lines = me.lines /\ s.loaded = me.loaded
          /\ s.base = me.base /\ s.answered = me.answered /\ s.asked = NoAnswers
          /\ s.changed = me.changed
      BY <1>1, <1>2, <1>4 DEF WizState
    <3>2. wz' = [wz EXCEPT ![w] = s]
      BY <1>7, <2>1
    <3> HIDE DEF s
    <3>3. Sound(s, saved, glued)
      BY <1>2, <3>1 DEF Sound, Clean
    <3> QED
      BY <1>1, <3>2, <3>3, WizardStep
  <2>2. CASE a # NoAnswers
    <3> DEFINE ls == Edited(me.lines, p, mode, a)
               s == [me EXCEPT !.pc = "validate", !.lines = ls, !.before = me.lines, !.asked = a]
               ks == DOMAIN a \cup DOMAIN me.answered
    <3>1. a \in WizAnswers /\ DOMAIN a \subseteq {ModeKey(p)} \cup ToSet(Fields(p, mode))
      BY <1>4, <1>7, SectionTyped
    <3>2. \A k \in DOMAIN a : a[k] \in Values
      BY <1>3, <3>1, Answered
    <3>3. Surgical(me.lines, me.loaded, ks)
      BY <1>2 DEF Clean, Surgical
    <3>4. /\ ls \in Seq(Text)
          /\ \A j \in AllKeys : Get(ls, j) = IF j \in DOMAIN a THEN a[j] ELSE Get(me.lines, j)
          /\ Surgical(ls, me.loaded, ks)
      BY <1>3, <1>4, <3>1, <3>2, <3>3, EditedReads
    <3> HIDE DEF ls
    <3>5. Reads(ls, Over(a, me.answered), me.loaded)
      <4>1. \A k \in AllKeys : Get(me.lines, k) = IF k \in DOMAIN me.answered
                                                  THEN me.answered[k] ELSE Get(me.loaded, k)
        BY <1>2 DEF Clean, Reads
      <4>2. /\ DOMAIN Over(a, me.answered) = ks
            /\ \A k \in ks : Over(a, me.answered)[k] = IF k \in DOMAIN a THEN a[k]
                                                        ELSE me.answered[k]
        BY <1>3, <3>1, Answered, ZenonT(60)
      <4> QED
        BY <3>4, <4>1, <4>2 DEF Reads
    <3>6. /\ s \in WizState /\ s.pc = "validate" /\ s.lines = ls /\ s.loaded = me.loaded
          /\ s.base = me.base /\ s.answered = me.answered /\ s.asked = a
          /\ s.changed = me.changed /\ s.before = me.lines /\ s.todo = me.todo
      BY <1>2, <1>3, <3>1, <3>4 DEF WizState
    <3>7. wz' = [wz EXCEPT ![w] = s]
      BY <1>7, <2>2 DEF ls
    <3> HIDE DEF s
    <3>8. Clean(s, s.before)
      BY <1>2, <3>6 DEF Clean
    <3>9. Sound(s, saved, glued)
      BY <1>1, <1>2, <3>4, <3>5, <3>6, <3>8 DEF Sound
    <3> QED
      BY <1>1, <3>7, <3>9, WizardStep
  <2> QED
    BY <2>1, <2>2
<1> QED
  BY <1>5, <1>6, <1>7

\* The section is completed, and its answers with it, or everything of it goes.
LEMMA ValidateInv ==
  ASSUME IInv, NEW w \in Wizards, Validate(w)
  PROVE  IInv'
<1> DEFINE me == wz[w]
<1>1. Sound(me, saved, glued) /\ me.pc = "validate"
      /\ UNCHANGED <<file, inode, yaml, init, inits, saved, keys, rotated, cut, glued>>
      /\ (wz' = [wz EXCEPT ![w] = Completed(me)] \/ wz' = [wz EXCEPT ![w] = Aborted(me)])
  BY DEF IInv, Validate
<1> HIDE DEF me
<1>2. /\ me \in WizState /\ me.todo # << >> /\ Clean(me, me.before)
      /\ Reads(me.lines, Over(me.asked, me.answered), me.loaded)
      /\ Surgical(me.lines, me.loaded, DOMAIN me.asked \cup DOMAIN me.answered)
      /\ me.base \in 1..Len(saved)
      /\ \A k \in AllKeys \ glued : Get(me.loaded, k) = LedgerOf(saved)[me.base][k]
  BY <1>1 DEF Sound
<1>3. /\ me.answered \in WizAnswers /\ me.asked \in WizAnswers /\ me.before \in Seq(Text)
      /\ Tail(me.todo) \in Seq(Platforms) /\ << >> \in Seq(Text) /\ << >> \in Seq(Platforms)
  BY <1>2, EmptySeq DEF WizState
<1>4. /\ Over(me.asked, me.answered) \in WizAnswers /\ NoAnswers \in WizAnswers
      /\ DOMAIN Over(me.asked, me.answered) = DOMAIN me.asked \cup DOMAIN me.answered
  BY <1>3, Answered, WizardTyped
<1>5. CASE wz' = [wz EXCEPT ![w] = Completed(me)]
  <2> DEFINE s == Completed(me)
  <2>1. /\ s \in WizState /\ s.pc = "walk" /\ s.lines = me.lines /\ s.loaded = me.loaded
        /\ s.base = me.base /\ s.answered = Over(me.asked, me.answered)
        /\ s.asked = NoAnswers /\ s.changed = TRUE
    BY <1>2, <1>3, <1>4 DEF WizState, Completed
  <2> HIDE DEF s
  <2>2. Clean(s, s.lines)
    BY <1>2, <1>4, <2>1 DEF Clean
  <2>3. Sound(s, saved, glued)
    BY <1>2, <2>1, <2>2 DEF Sound
  <2> QED
    BY <1>1, <1>5, <2>3, WizardStep DEF s
<1>6. CASE wz' = [wz EXCEPT ![w] = Aborted(me)]
  <2> DEFINE s == Aborted(me)
  <2>1. /\ s \in WizState /\ s.pc = "walk" /\ s.lines = me.before /\ s.loaded = me.loaded
        /\ s.base = me.base /\ s.answered = me.answered
        /\ s.asked = NoAnswers /\ s.changed = me.changed
    BY <1>2, <1>3, <1>4 DEF WizState, Aborted
  <2> HIDE DEF s
  <2>2. Clean(s, s.lines)
    BY <1>2, <2>1 DEF Clean
  <2>3. Sound(s, saved, glued)
    BY <1>2, <2>1, <2>2 DEF Sound
  <2> QED
    BY <1>1, <1>6, <2>3, WizardStep DEF s
<1> QED
  BY <1>1, <1>5, <1>6

LEMMA WriteTmpInv ==
  ASSUME IInv, NEW w \in Wizards, WriteTmp(w)
  PROVE  IInv'
<1> DEFINE me == wz[w]
           s == [me EXCEPT !.pc = "replace"]
<1>1. Sound(me, saved, glued) /\ me.pc = "walk" /\ wz' = [wz EXCEPT ![w] = s]
      /\ UNCHANGED <<file, inode, yaml, init, inits, saved, keys, rotated, cut, glued>>
  BY DEF IInv, WriteTmp
<1> HIDE DEF me
<1>2. /\ me \in WizState /\ Clean(me, me.lines) /\ me.asked = NoAnswers
      /\ me.base \in 1..Len(saved)
      /\ \A k \in AllKeys \ glued : Get(me.loaded, k) = LedgerOf(saved)[me.base][k]
  BY <1>1 DEF Sound
<1>3. /\ s \in WizState /\ s.pc = "replace" /\ s.lines = me.lines /\ s.loaded = me.loaded
      /\ s.base = me.base /\ s.answered = me.answered
      /\ s.asked = NoAnswers /\ s.changed = me.changed
  BY <1>2 DEF WizState
<1> HIDE DEF s
<1>4. Sound(s, saved, glued)
  BY <1>2, <1>3 DEF Sound, Clean
<1> QED
  BY <1>1, <1>4, WizardStep

\* The copy becomes the file: its answers, over the version it was loaded from.
LEMMA ReplaceInv ==
  ASSUME IInv, NEW w \in Wizards, Replace(w)
  PROVE  IInv'
<1> DEFINE me == wz[w]
           x == [by |-> w, base |-> me.base, answers |-> me.answered]
<1>1. /\ Sound(me, saved, glued) /\ me.pc = "replace" /\ file' = Written(me.lines)
      /\ inode' = inode + 1 /\ glued' = glued \cup Damaged(me.lines)
      /\ saved' = Append(saved, x) /\ wz' = [wz EXCEPT ![w] = Wizard("done")]
      /\ UNCHANGED <<yaml, init, inits, keys, rotated, cut>>
  BY DEF IInv, Replace, Finish
<1> HIDE DEF me
<1>2. /\ me \in WizState /\ Clean(me, me.lines) /\ me.base \in 1..Len(saved)
      /\ \A k \in AllKeys \ glued : Get(me.loaded, k) = LedgerOf(saved)[me.base][k]
  BY <1>1 DEF Sound
<1>3. me.lines \in Seq(Text) /\ me.answered \in WizAnswers /\ me.base \in Nat
  BY <1>2 DEF WizState
<1>4. x \in Version /\ x.base = me.base /\ x.answers = me.answered /\ x.by = w
  <2>1. PICK ks \in SUBSET (KeyNames \cap AllKeys) : me.answered \in [ks -> Values]
    BY <1>3 DEF WizAnswers
  <2>2. ks \in SUBSET AllKeys
    OBVIOUS
  <2> QED
    BY <1>3, <2>1, <2>2 DEF Version
<1> HIDE DEF x
<1>5. DOMAIN me.answered \subseteq AllKeys
  BY <1>3, Answered
<1>6. ASSUME NEW k \in AllKeys \ glued
      PROVE  Get(me.lines, k) = Over(x.answers, LedgerOf(saved)[x.base])[k]
  <2>1. Get(me.lines, k) = IF k \in DOMAIN me.answered THEN me.answered[k]
                           ELSE LedgerOf(saved)[me.base][k]
    BY <1>2 DEF Clean, Reads
  <2>2. AllKeys \subseteq DOMAIN LedgerOf(saved)[me.base]
    BY <1>2, LedgerCovers DEF IInv
  <2> QED
    BY <1>4, <2>1, <2>2 DEF Over
<1>7. x.base \in 0..Len(saved)
  BY <1>2, <1>4
<1>a. w \notin {"before", "truncate", "init"}
  BY WizardAssumption
<1>8. /\ Kept(file', saved', glued') /\ saved'[Len(saved')] = x
      /\ \A s : Sound(s, saved, glued) => Sound(s, saved', glued')
  BY <1>1, <1>3, <1>4, <1>6, <1>7, <1>a, NewVersion
<1>9. Sound(Wizard("done"), saved', glued')
  BY WizardTyped DEF Sound
<1>10. \A v \in Wizards : Sound(wz'[v], saved', glued')
  BY <1>1, <1>8, <1>9 DEF IInv
<1>11. DOMAIN wz' = Wizards /\ wz' = [v \in Wizards |-> wz'[v]]
  BY <1>1 DEF IInv
<1>12. Inits'
  <2>1. Damaged(me.lines) \subseteq AllKeys \cup {"#"}
    BY <1>3, OnDiskReads
  <2>2. inode \in Nat /\ init.fh \in 0..inode
    BY DEF IInv, Inits
  <2>3. inode + 1 \in Nat /\ init \in [pc : {"idle", "key", "truncate", "write"},
                                      key : Values, rotate : BOOLEAN, fh : 0..inode + 1]
    <3>1. init \in [pc : {"idle", "key", "truncate", "write"},
                    key : Values, rotate : BOOLEAN, fh : 0..inode]
      BY DEF IInv, Inits
    <3>2. 0..inode \subseteq 0..inode + 1 /\ inode + 1 \in Nat
      BY <2>2
    <3> QED
      BY <3>1, <3>2
  <2> QED
    BY <1>1, <2>1, <2>3 DEF IInv, Inits
<1>13. Opened'
  <2>1. inode \in Nat /\ init.fh \in 0..inode
    BY DEF IInv, Inits
  <2>2. init.fh # inode + 1
    BY <2>1
  <2> QED
    BY <1>1, <1>4, <1>8, <1>a, <2>2 DEF Opened
<1> QED
  BY <1>8, <1>10, <1>11, <1>12, <1>13 DEF IInv

\* What _ENV_TEMPLATE and an empty file read.
LEMMA TemplateReads ==
  ASSUME NEW key \in Values
  PROVE  /\ << >> \in Seq(Text) /\ \A k \in AllKeys : Get(<< >>, k) = ""
         /\ Template(key) \in Seq(Text)
         /\ \A k \in AllKeys : Get(Template(key), k) = IF k = MASTER THEN key ELSE ""
<1> DEFINE a == Line("#", "template")
           b == Line(MASTER, key)
           c == Line("#", "adapters")
           empty == << >>
<1>1. a \in Text /\ b \in Text /\ c \in Text /\ a.key = "#" /\ c.key = "#"
      /\ b.key = MASTER /\ b.val = key
  BY Keys DEF Line, Text, Values
<1>2. empty \in Seq(Text) /\ \A k \in AllKeys : Get(empty, k) = ""
  BY EmptySeq DEF Get, At
<1> HIDE DEF a, b, c, empty
<1>3. /\ Append(empty, a) \in Seq(Text) /\ Append(Append(empty, a), b) \in Seq(Text)
      /\ Append(Append(Append(empty, a), b), c) \in Seq(Text)
  BY <1>1, <1>2, AppendProperties
<1>4. Template(key) = Append(Append(Append(empty, a), b), c)
  <2>1. Template(key) = <<a, b, c>>
    BY DEF Template, a, b, c
  <2> QED
    BY <1>1, <2>1 DEF empty
<1>5. \A k \in AllKeys : k # "#"
  BY Keys
<1>6. \A k \in AllKeys : Get(Append(empty, a), k) = ""
  BY <1>1, <1>2, <1>5, GetMore
<1>7. \A k \in AllKeys : Get(Append(Append(empty, a), b), k) = IF k = MASTER THEN key ELSE ""
  BY <1>1, <1>3, <1>6, GetMore, ZenonT(60)
<1>8. \A k \in AllKeys : Get(Template(key), k) = IF k = MASTER THEN key ELSE ""
  <2> DEFINE two == Append(Append(empty, a), b)
  <2>1. two \in Seq(Text) /\ Template(key) = Append(two, c)
    BY <1>3, <1>4
  <2>2. \A k \in AllKeys : Get(two, k) = IF k = MASTER THEN key ELSE ""
    BY <1>7
  <2> HIDE DEF two
  <2>3. \A k \in AllKeys : Get(Append(two, c), k) = Get(two, k)
    BY <1>1, <1>5, <2>1, GetMore
  <2> QED
    BY <2>1, <2>2, <2>3
<1> QED
  BY <1>2, <1>3, <1>4, <1>8 DEF empty

\* What init writes is read back as it is.
LEMMA InitText ==
  ASSUME NEW key \in Values
  PROVE  \A ls \in {<< >>, Template(key)} :
            /\ ls \in Seq(Text) /\ Damaged(ls) = {}
            /\ Written(ls).lines \in Seq(Text) /\ Written(ls).there \in BOOLEAN
            /\ \A k \in AllKeys : Get(Written(ls).lines, k) = Get(ls, k)
<1> TAKE ls \in {<< >>, Template(key)}
<1>1. ls \in Seq(Text)
  BY TemplateReads
<1>2. \A i \in DOMAIN ls : ls[i].ended
  <2>1. CASE ls = << >>
    BY <2>1
  <2>2. CASE ls = Template(key)
    <3>1. ls = <<Line("#", "template"), Line(MASTER, key), Line("#", "adapters")>>
      BY <2>2 DEF Template
    <3>2. \A k, v : Line(k, v).ended
      BY DEF Line
    <3> QED
      BY <3>1, <3>2
  <2> QED
    BY <2>1, <2>2
<1>3. Seams(ls) = {}
  BY <1>2 DEF Seams
<1>4. Damaged(ls) = {}
  BY <1>3 DEF Damaged
<1> QED
  BY <1>1, <1>4, OnDiskReads DEF Written

\* A new version by init: what it says of every key is what the file reads.
LEMMA InitVersion ==
  ASSUME IInv, NEW key \in Values, NEW ls \in {<< >>, Template(key)},
         NEW by \in {"truncate", "init"},
         by = "init" => saved[Len(saved)].by = "truncate",
         NEW a \in [AllKeys -> Values], \A k \in AllKeys : Get(ls, k) = a[k],
         file' = Written(ls),
         saved' = Append(saved, [by |-> by, base |-> 0, answers |-> a]),
         wz' = wz, glued' = glued, Inits'
  PROVE  /\ Kept(file', saved', glued') /\ saved'[Len(saved')].by = by
         /\ \A w \in Wizards : Sound(wz'[w], saved', glued')
         /\ DOMAIN wz' = Wizards /\ wz' = [w \in Wizards |-> wz'[w]]
<1> DEFINE x == [by |-> by, base |-> 0, answers |-> a]
<1>1. x \in Version /\ x.base = 0 /\ x.answers = a /\ x.by = by
  BY DEF Version
<1>2. saved' = Append(saved, x)
  OBVIOUS
<1> HIDE DEF x
<1>3. \A k \in AllKeys : Get(ls, k) = Over(x.answers, LedgerOf(saved)[x.base])[k]
  BY <1>1 DEF Over
<1>4. ls \in Seq(Text) /\ Damaged(ls) = {}
  BY InitText
<1>5. x.base \in 0..Len(saved) /\ glued' = glued \cup Damaged(ls)
  BY <1>1, <1>4 DEF IInv, Kept, Earlier
<1>6. /\ Kept(file', saved', glued') /\ saved'[Len(saved')] = x
      /\ \A me : Sound(me, saved, glued) => Sound(me, saved', glued')
  BY <1>1, <1>2, <1>3, <1>4, <1>5, NewVersion
<1> QED
  BY <1>1, <1>6 DEF IInv

\* A version that went to a file without a name: .env is what it was.
LEMMA LostVersion ==
  ASSUME IInv, saved[Len(saved)].by # "truncate", NEW a \in [AllKeys -> Values],
         saved' = Append(saved, [by |-> "init", base |-> 0, answers |-> a]),
         UNCHANGED <<file, wz, glued>>
  PROVE  /\ Kept(file', saved', glued')
         /\ \A w \in Wizards : Sound(wz'[w], saved', glued')
<1> DEFINE x == [by |-> "init", base |-> 0, answers |-> a]
<1>1. x \in Version /\ x.base = 0 /\ x.by = "init"
  BY DEF Version
<1>2. saved' = Append(saved, x)
  OBVIOUS
<1> HIDE DEF x
<1>3. /\ saved \in Seq(Version) /\ Earlier(saved) /\ Len(saved) >= 1 /\ Len(saved) \in Nat
      /\ Latest(saved) \in 1..Len(saved) /\ saved[1].by # "init"
  BY DEF IInv, Kept
<1>4. x.base \in 0..Len(saved)
  BY <1>1, <1>3
<1>5. /\ Earlier(saved')
      /\ \A m \in 0..Len(saved) : LedgerOf(saved')[m] = LedgerOf(saved)[m]
  BY <1>1, <1>2, <1>3, <1>4, LedgerGrows
<1>6. saved' \in Seq(Version) /\ Len(saved') = Len(saved) + 1 /\ saved'[1] = saved[1]
  BY <1>1, <1>2, <1>3
<1>7. Latest(saved') = Latest(saved)
  BY <1>1, <1>2, <1>3, LatestGrows
<1>8. Kept(file', saved', glued')
  <2>1. Len(saved') >= 1 /\ Latest(saved') \in 1..Len(saved') /\ saved'[1].by # "init"
    BY <1>3, <1>6, <1>7
  <2>2. \A k \in AllKeys \ glued' : Get(file'.lines, k) = LedgerOf(saved')[Latest(saved')][k]
    BY <1>3, <1>5, <1>7, SMTT(30) DEF IInv, Kept
  <2> QED
    BY <1>5, <1>6, <2>1, <2>2 DEF IInv, Kept
<1>9. ASSUME NEW w \in Wizards
      PROVE  Sound(wz'[w], saved', glued')
  <2>1. Sound(wz[w], saved, glued)
    BY DEF IInv
  <2>2. wz[w].base \in 1..Len(saved) =>
           /\ wz[w].base \in 1..Len(saved')
           /\ LedgerOf(saved')[wz[w].base] = LedgerOf(saved)[wz[w].base]
    BY <1>3, <1>5, <1>6
  <2>3. wz'[w] = wz[w] /\ glued' = glued
    OBVIOUS
  <2> QED
    BY <2>1, <2>2, <2>3 DEF Sound
<1> QED
  BY <1>8, <1>9

InitRecord(n) == [pc : {"idle", "key", "truncate", "write"},
                  key : Values, rotate : BOOLEAN, fh : 0..n]

LEMMA InitStep ==
  ASSUME IInv,
         \/ \E force, rotate \in BOOLEAN : InitScaffold(force, rotate)
         \/ InitKey \/ InitTruncate \/ InitWrite \/ InitKilled
  PROVE  IInv'
<1>1. /\ yaml \in BOOLEAN /\ rotated \in BOOLEAN /\ cut \in BOOLEAN
      /\ inits \in 0..MaxInits /\ inode \in Nat /\ init \in InitRecord(inode)
      /\ init.pc \in {"truncate", "write"} => init.key # ""
      /\ keys \in Seq(Values \ {""}) /\ glued \subseteq AllKeys \cup {"#"}
  BY DEF IInv, Inits, InitRecord
<1>2. MaxInits \in Nat /\ "" \in Values /\ 0 \in 0..inode /\ inode \in 0..inode
  <2>1. MaxInits \in Nat
    BY WizardAssumption
  <2>2. "" \in Values
    BY DEF Values
  <2>3. 0 \in 0..inode /\ inode \in 0..inode
    <3>1. inode \in Nat
      BY <1>1
    <3> QED
      BY <3>1
  <2> QED
    BY <2>1, <2>2, <2>3
<1>3. Idle \in InitRecord(inode) /\ Idle.pc = "idle"
  BY <1>2 DEF Idle, InitRecord
<1>4. ASSUME UNCHANGED <<file, saved, wz, glued>>, Inits', Opened'
      PROVE  IInv'
  BY <1>4 DEF IInv
<1>5. ASSUME NEW force \in BOOLEAN, NEW rotate \in BOOLEAN, InitScaffold(force, rotate)
      PROVE  IInv'
  <2>1. inits' \in 0..MaxInits
    <3>1. inits < MaxInits /\ inits' = inits + 1
      BY <1>5 DEF InitScaffold
    <3>2. inits \in 0..MaxInits /\ MaxInits \in Nat
      BY <1>1, <1>2
    <3> QED
      BY <3>1, <3>2
  <2>2. init' \in InitRecord(inode) /\ init'.pc = "key"
    BY <1>2, <1>5 DEF InitScaffold, Idle, InitRecord
  <2>3. yaml' \in BOOLEAN /\ rotated' \in BOOLEAN
        /\ UNCHANGED <<file, saved, wz, inode, keys, cut, glued>>
    BY <1>1, <1>5 DEF InitScaffold
  <2>4. Inits' /\ Opened'
    BY <1>1, <2>1, <2>2, <2>3 DEF Inits, Opened, InitRecord
  <2> QED
    BY <1>4, <2>3, <2>4
<1>6. CASE InitKey
  <2>1. PICK k \in KeyToWrite : init' = [init EXCEPT !.pc = "truncate", !.key = k]
    BY <1>6 DEF InitKey
  <2>2. k \in Values /\ k # ""
    <3>1. MasterKeys \subseteq Values /\ "" \notin MasterKeys
      BY WizardAssumption DEF Values
    <3>2. Get(file.lines, MASTER) \in Values
      BY GetTyped DEF IInv, Kept
    <3> QED
      BY <2>1, <3>1, <3>2 DEF KeyToWrite
  <2>3. init' \in InitRecord(inode) /\ init'.pc = "truncate" /\ init'.key = k
    BY <1>1, <2>1, <2>2 DEF InitRecord
  <2>4. UNCHANGED <<file, saved, wz, inode, yaml, inits, keys, rotated, cut, glued>>
    BY <1>6 DEF InitKey
  <2>5. Inits' /\ Opened'
    BY <1>1, <2>2, <2>3, <2>4 DEF Inits, Opened, InitRecord
  <2> QED
    BY <1>4, <2>4, <2>5
<1>7. CASE InitTruncate
  <2>1. init' \in InitRecord(inode) /\ init'.pc = "write" /\ init'.key = init.key /\ init'.fh = inode
    BY <1>1, <1>2, <1>7 DEF InitTruncate, InitRecord
  <2>2. UNCHANGED <<wz, inode, yaml, inits, keys, rotated, cut, glued>>
        /\ init.key # "" /\ init.key \in Values
    BY <1>1, <1>7 DEF InitTruncate, InitRecord
  <2>3. Inits'
    BY <1>1, <2>1, <2>2 DEF Inits, InitRecord
  <2>4. Emptied \in [AllKeys -> Values] /\ \A k \in AllKeys : Emptied[k] = ""
    BY <1>2 DEF Emptied
  <2>5. \A k \in AllKeys : Get(<< >>, k) = Emptied[k]
    BY <1>2, <2>4, TemplateReads
  <2>6. file' = Written(<< >>)
        /\ saved' = Append(saved, [by |-> "truncate", base |-> 0, answers |-> Emptied])
    BY <1>7 DEF InitTruncate
  <2>7. /\ Kept(file', saved', glued') /\ saved'[Len(saved')].by = "truncate"
        /\ \A w \in Wizards : Sound(wz'[w], saved', glued')
        /\ DOMAIN wz' = Wizards /\ wz' = [w \in Wizards |-> wz'[w]]
    BY <2>2, <2>3, <2>4, <2>5, <2>6, InitVersion
  <2>8. Opened'
    BY <2>1, <2>2, <2>7 DEF Opened
  <2> QED
    BY <2>3, <2>7, <2>8 DEF IInv
<1>8. CASE InitWrite
  <2> DEFINE a == [Emptied EXCEPT ![MASTER] = init.key]
  <2>1. init.pc = "write" /\ init.key \in Values \ {""} /\ init' = Idle
        /\ UNCHANGED <<wz, inode, yaml, inits, rotated, cut, glued>>
    BY <1>1, <1>8 DEF InitWrite, InitRecord
  <2>2. keys' \in Seq(Values \ {""})
    <3> DEFINE K == Values \ {""}
    <3>1. keys \in Seq(K) /\ init.key \in K
      BY <1>1, <2>1
    <3>2. keys' = keys \/ keys' = Append(keys, init.key)
      BY <1>8 DEF InitWrite
    <3> HIDE DEF K
    <3>3. Append(keys, init.key) \in Seq(K)
      BY <3>1, AppendProperties
    <3>4. keys' \in Seq(K)
      BY <3>1, <3>2, <3>3
    <3> QED
      BY <3>4 DEF K
  <2>3. Inits' /\ Opened'
    BY <1>1, <1>3, <2>1, <2>2 DEF Inits, Opened, InitRecord
  <2>4. a \in [AllKeys -> Values] /\ \A k \in AllKeys : a[k] = IF k = MASTER THEN init.key ELSE ""
    BY <1>2, <2>1, Keys DEF Emptied
  <2>5. saved' = Append(saved, [by |-> "init", base |-> 0, answers |-> a])
    BY <1>8 DEF InitWrite
  <2> HIDE DEF a
  <2>6. CASE init.fh = inode
    <3>1. saved[Len(saved)].by = "truncate"
      BY <2>1, <2>6 DEF IInv, Opened
    <3>2. file' = Written(Template(init.key))
      BY <1>8, <2>6 DEF InitWrite
    <3>3. \A k \in AllKeys : Get(Template(init.key), k) = a[k]
      BY <2>1, <2>4, TemplateReads
    <3>4. /\ Kept(file', saved', glued')
          /\ \A w \in Wizards : Sound(wz'[w], saved', glued')
          /\ DOMAIN wz' = Wizards /\ wz' = [w \in Wizards |-> wz'[w]]
      BY <2>1, <2>3, <2>4, <2>5, <3>1, <3>2, <3>3, InitVersion
    <3> QED
      BY <2>3, <3>4 DEF IInv
  <2>7. CASE init.fh # inode
    <3>1. saved[Len(saved)].by # "truncate"
      BY <2>1, <2>7 DEF IInv, Opened
    <3>2. file' = file
      BY <1>8, <2>7 DEF InitWrite
    <3>3. Kept(file', saved', glued') /\ \A w \in Wizards : Sound(wz'[w], saved', glued')
      BY <2>1, <2>4, <2>5, <3>1, <3>2, LostVersion
    <3> QED
      BY <2>1, <2>3, <3>3 DEF IInv
  <2> QED
    BY <2>6, <2>7
<1>9. CASE InitKilled
  <2>1. init' = Idle /\ cut' \in BOOLEAN
        /\ UNCHANGED <<file, saved, wz, inode, yaml, inits, keys, rotated, glued>>
    BY <1>1, <1>9 DEF InitKilled
  <2>2. Inits' /\ Opened'
    BY <1>1, <1>3, <2>1 DEF Inits, Opened, InitRecord
  <2> QED
    BY <1>4, <2>1, <2>2
<1> QED
  BY <1>5, <1>6, <1>7, <1>8, <1>9

WizardMoves(w) == \/ Load(w) \/ Refuse(w) \/ Walk(w) \/ Validate(w) \/ EndUnsaved(w)
                  \/ WriteTmp(w) \/ Replace(w) \/ Stop(w)

LEMMA WizardInv ==
  ASSUME IInv, NEW w \in Wizards, WizardMoves(w)
  PROVE  IInv'
<1>1. CASE Refuse(w) \/ EndUnsaved(w) \/ Stop(w)
  BY <1>1, FinishInv DEF Refuse, EndUnsaved, Stop
<1> QED
  BY <1>1, LoadInv, WalkInv, ValidateInv, WriteTmpInv, ReplaceInv DEF WizardMoves

-----------------------------------------------------------------------------
(* The master key.                                                               *)

Open == {w \in Wizards : wz[w].pc \notin {"start", "done"}}

\* While nobody has asked for a rotation, no init was killed in the middle of its write and
\* nothing has run on from the key's line, there is at most one key.  A file an init has
\* emptied may read none until it is written or replaced; every wizard that is open has
\* loaded the one there is, and an init has chosen it.  A wizard's save in the middle of
\* init's write comes from a wizard that was open, so there is a key by then.
OneKey ==
    ~rotated /\ ~cut /\ MASTER \notin glued =>
       /\ Len(keys) <= 1 /\ ~init.rotate
       /\ keys = << >> => Get(file.lines, MASTER) = ""
       /\ keys # << >> => \/ Get(file.lines, MASTER) = keys[1]
                          \/ init.pc = "write" /\ init.fh = inode /\ Get(file.lines, MASTER) = ""
       /\ init.pc = "write" /\ init.fh # inode => keys # << >>
       /\ init.pc \in {"truncate", "write"} /\ keys # << >> => init.key = keys[1]
       /\ \A w \in Open : keys # << >> /\ Get(wz[w].loaded, MASTER) = keys[1]

KInv == IInv /\ OneKey

LEMMA InitKInv == Init => KInv
<1> SUFFICES ASSUME Init PROVE KInv
  OBVIOUS
<1>1. Open = {}
  BY DEF Init, Open, Wizard
<1>2. init.pc = "idle" /\ init.rotate = FALSE
  BY DEF Init, Idle
<1>3. OneKey
  <2>1. CASE Get(file.lines, MASTER) = ""
    <3>1. keys = << >> /\ Len(keys) = 0
      BY <2>1 DEF Init
    <3>2. Len(keys) <= 1
      BY <3>1
    <3> QED
      BY <1>1, <1>2, <2>1, <3>1, <3>2 DEF OneKey
  <2>2. CASE Get(file.lines, MASTER) # ""
    <3>1. keys = <<Get(file.lines, MASTER)>>
      BY <2>2 DEF Init
    <3>2. Len(keys) = 1 /\ keys[1] = Get(file.lines, MASTER) /\ keys # << >>
      BY <3>1
    <3>3. Len(keys) <= 1
      BY <3>2
    <3> QED
      BY <1>1, <1>2, <3>2, <3>3 DEF OneKey
  <2> QED
    BY <2>1, <2>2
<1> QED
  BY <1>3, InitInv DEF KInv

\* What a wizard's step does to the file's master key: nothing, or what the wizard loaded.
LEMMA MasterMoves ==
  ASSUME IInv, NEW w \in Wizards, WizardMoves(w)
  PROVE  /\ \A v \in Wizards \ {w} : wz'[v] = wz[v]
         /\ \/ UNCHANGED <<file, inode>> /\ w \notin Open'
            \/ UNCHANGED <<file, inode>> /\ w \in Open /\ wz'[w].loaded = wz[w].loaded
            \/ /\ UNCHANGED <<file, inode>> /\ wz'[w].loaded = file.lines
               /\ Get(file.lines, MASTER) # ""
            \/ /\ w \in Open /\ w \notin Open' /\ inode' = inode + 1
               /\ MASTER \notin glued' => Get(file'.lines, MASTER) = Get(wz[w].loaded, MASTER)
         /\ glued \subseteq glued'
<1>1. DOMAIN wz = Wizards /\ Sound(wz[w], saved, glued) /\ wz[w] \in WizState
  BY DEF IInv, Sound
<1>2. \A v \in Wizards \ {w} : wz'[v] = wz[v]
  BY <1>1 DEF WizardMoves, Load, Refuse, Walk, Validate, EndUnsaved, WriteTmp, Replace, Stop,
              Finish
<1>3. ASSUME Finish(w)
      PROVE  w \notin Open'
  BY <1>1, <1>3 DEF Finish, Wizard, Open
<1>4. CASE Refuse(w) \/ EndUnsaved(w) \/ Stop(w)
  BY <1>2, <1>3, <1>4 DEF Refuse, EndUnsaved, Stop
<1>5. CASE Load(w)
  <2>1. PICK pick \in Picks :
           wz' = [wz EXCEPT ![w] = [Wizard("walk") EXCEPT
                     !.lines = file.lines, !.loaded = file.lines,
                     !.base = Latest(saved), !.todo = Todo(pick)]]
    BY <1>5 DEF Load
  <2>2. wz'[w].loaded = file.lines
    BY <1>1, <2>1 DEF Wizard
  <2> QED
    BY <1>2, <1>5, <2>2 DEF Load, Usable
<1>6. CASE WriteTmp(w)
  BY <1>1, <1>2, <1>6 DEF WriteTmp, Open, WizState
<1>7. CASE Validate(w)
  <2>1. w \in Open /\ UNCHANGED <<file, inode, glued>>
    BY <1>7 DEF Validate, Open
  <2>2. wz'[w].loaded = wz[w].loaded
    BY <1>1, <1>7, ZenonT(60) DEF Validate, Completed, Aborted, WizState
  <2> QED
    BY <1>2, <2>1, <2>2
<1>8. CASE Walk(w)
  <2> DEFINE me == wz[w]
             p == Head(me.todo)
  <2>1. w \in Open /\ UNCHANGED <<file, inode, glued>>
    BY <1>8 DEF Walk, Open
  <2>2. CASE Finish(w)
    BY <1>2, <1>3, <2>1, <2>2
  <2>3. CASE ~Finish(w)
    <3>1. PICK mode \in Modes(p) : \E a \in SectionAnswers(me.lines, w, p, mode,
                                     MaxEdits - Cardinality(DOMAIN me.answered)) :
             wz' = [wz EXCEPT ![w] =
                          IF a = NoAnswers THEN [me EXCEPT !.todo = Tail(me.todo)]
                          ELSE [me EXCEPT !.pc = "validate",
                                          !.lines = Edited(me.lines, p, mode, a),
                                          !.before = me.lines, !.asked = a]]
      BY <1>8, <2>3 DEF Walk
    <3>2. wz'[w].loaded = wz[w].loaded
      BY <1>1, <3>1 DEF WizState
    <3> QED
      BY <1>2, <2>1, <3>2
  <2> QED
    BY <2>2, <2>3
<1>9. CASE Replace(w)
  <2>1. /\ w \in Open /\ w \notin Open' /\ inode' = inode + 1
        /\ file'.lines = OnDisk(wz[w].lines) /\ glued' = glued \cup Damaged(wz[w].lines)
    BY <1>3, <1>9 DEF Replace, Written, Open
  <2>2. Get(wz[w].lines, MASTER) = Get(wz[w].loaded, MASTER)
    <3>1. wz[w].answered \in WizAnswers /\ Reads(wz[w].lines, wz[w].answered, wz[w].loaded)
      BY <1>1, <1>9 DEF Replace, Sound, Clean, WizState
    <3>2. MASTER \in AllKeys /\ MASTER \notin DOMAIN wz[w].answered
      BY <3>1, Keys, Answered
    <3> QED
      BY <3>1, <3>2 DEF Reads
  <2>3. wz[w].lines \in Seq(Text) /\ MASTER \in AllKeys
    BY <1>1, Keys DEF WizState
  <2>4. MASTER \notin glued' => Get(file'.lines, MASTER) = Get(wz[w].loaded, MASTER)
    BY <2>1, <2>2, <2>3, OnDiskReads
  <2> QED
    BY <1>2, <2>1, <2>4
<1> QED
  BY <1>4, <1>5, <1>6, <1>7, <1>8, <1>9 DEF WizardMoves

LEMMA WizardKey ==
  ASSUME KInv, NEW w \in Wizards, WizardMoves(w)
  PROVE  KInv'
<1>1. IInv /\ IInv' /\ OneKey
  BY WizardInv DEF KInv
<1>2. UNCHANGED <<init, keys, rotated, cut>>
  BY DEF WizardMoves, Load, Refuse, Walk, Validate, EndUnsaved, WriteTmp, Replace, Stop
<1>3. \A v \in Wizards \ {w} : wz'[v] = wz[v] /\ (v \in Open' <=> v \in Open)
  BY <1>1, MasterMoves DEF Open
<1>4. /\ \/ UNCHANGED <<file, inode>> /\ w \notin Open'
         \/ UNCHANGED <<file, inode>> /\ w \in Open /\ wz'[w].loaded = wz[w].loaded
         \/ /\ UNCHANGED <<file, inode>> /\ wz'[w].loaded = file.lines
            /\ Get(file.lines, MASTER) # ""
         \/ /\ w \in Open /\ w \notin Open' /\ inode' = inode + 1
            /\ MASTER \notin glued' => Get(file'.lines, MASTER) = Get(wz[w].loaded, MASTER)
      /\ glued \subseteq glued'
  BY <1>1, MasterMoves
<1>5. Open \subseteq Wizards /\ Open' \subseteq Wizards
  BY DEF Open
<1>6. OneKey'
  BY <1>1, <1>2, <1>3, <1>4, <1>5 DEF OneKey
<1> QED
  BY <1>1, <1>6 DEF KInv

LEMMA InitKeyStep ==
  ASSUME KInv,
         \/ \E force, rotate \in BOOLEAN : InitScaffold(force, rotate)
         \/ InitKey \/ InitTruncate \/ InitWrite \/ InitKilled
  PROVE  KInv'
<1>1. IInv' /\ wz' = wz /\ Open' = Open /\ inode' = inode /\ glued' = glued
  BY InitStep DEF KInv, InitScaffold, InitKey, InitTruncate, InitWrite, InitKilled, Open
<1>2. /\ init \in InitRecord(inode) /\ keys \in Seq(Values \ {""})
      /\ init.pc \in {"truncate", "write"} => init.key # ""
      /\ rotated \in BOOLEAN /\ cut \in BOOLEAN
  BY DEF KInv, IInv, Inits, InitRecord
<1>3. ASSUME NEW force \in BOOLEAN, NEW rotate \in BOOLEAN, InitScaffold(force, rotate)
      PROVE  OneKey'
  BY <1>1, <1>2, <1>3 DEF InitScaffold, Idle, KInv, OneKey
<1>4. CASE InitKey
  <2>1. PICK k \in KeyToWrite : init' = [init EXCEPT !.pc = "truncate", !.key = k]
    BY <1>4 DEF InitKey
  <2>2. ASSUME ~rotated, ~cut, MASTER \notin glued, keys # << >>
        PROVE  k = keys[1]
    <3>1. ~init.rotate /\ Get(file.lines, MASTER) = keys[1]
      BY <1>4, <2>2 DEF InitKey, KInv, OneKey
    <3>2. keys[1] # ""
      <4> DEFINE K == Values \ {""}
      <4>1. keys \in Seq(K)
        BY <1>2
      <4>2. "" \notin K
        OBVIOUS
      <4> HIDE DEF K
      <4>3. keys[1] \in K
        BY <2>2, <4>1
      <4> QED
        BY <4>2, <4>3
    <3> QED
      BY <2>1, <3>1, <3>2 DEF KeyToWrite
  <2>3. /\ init'.pc = "truncate" /\ init'.key = k /\ init'.rotate = init.rotate
        /\ UNCHANGED <<file, keys, rotated, cut>> /\ init.pc = "key"
    BY <1>2, <1>4, <2>1 DEF InitKey, InitRecord
  <2> QED
    BY <1>1, <2>2, <2>3 DEF KInv, OneKey
<1>5. CASE InitTruncate
  <2>1. Get(file'.lines, MASTER) = ""
    <3>1. file' = Written(<< >>) /\ init.key \in Values /\ MASTER \in AllKeys
      BY <1>2, <1>5, Keys DEF InitTruncate, InitRecord
    <3>2. Get(<< >>, MASTER) = ""
      BY <3>1, TemplateReads
    <3> QED
      BY <3>1, <3>2, InitText
  <2>2. /\ init'.pc = "write" /\ init'.key = init.key /\ init'.rotate = init.rotate
        /\ init'.fh = inode
    BY <1>2, <1>5 DEF InitTruncate, InitRecord
  <2> QED
    BY <1>1, <1>5, <2>1, <2>2 DEF InitTruncate, KInv, OneKey
<1>6. CASE InitWrite
  <2>1. /\ init.fh = inode => Get(file'.lines, MASTER) = init.key
        /\ init.fh # inode => file' = file
    <3>1. init.key \in Values /\ MASTER \in AllKeys
          /\ (init.fh = inode => file' = Written(Template(init.key)))
          /\ (init.fh # inode => file' = file)
      BY <1>2, <1>6, Keys DEF InitWrite, InitRecord
    <3>2. Get(Template(init.key), MASTER) = init.key
      BY <3>1, TemplateReads
    <3> QED
      BY <3>1, <3>2, InitText
  <2>2. init'.pc = "idle" /\ init'.rotate = FALSE /\ init.pc = "write"
    BY <1>6 DEF InitWrite, Idle
  <2>3. ASSUME ~rotated, ~cut, MASTER \notin glued
        PROVE  Len(keys') <= 1 /\ keys' # << >> /\ keys'[1] = init.key
               /\ (keys # << >> => keys' = keys)
    <3>1. Len(keys) <= 1 /\ (keys # << >> => init.key = keys[1])
      BY <1>6, <2>3 DEF InitWrite, KInv, OneKey
    <3>2. CASE keys = << >>
      <4>1. ~Contains(keys, init.key)
        BY <3>2 DEF Contains
      <4>2. keys' = Append(keys, init.key)
        BY <1>6, <4>1 DEF InitWrite
      <4>3. keys' = <<init.key>>
        BY <3>2, <4>2
      <4> QED
        BY <3>2, <4>3
    <3>3. CASE keys # << >>
      <4> DEFINE K == Values \ {""}
      <4>1. keys \in Seq(K)
        BY <1>2
      <4> HIDE DEF K
      <4>2. Len(keys) \in Nat /\ Len(keys) # 0
        BY <3>3, <4>1
      <4>3. Contains(keys, init.key)
        BY <3>1, <3>3, <4>2 DEF Contains
      <4>4. keys' = keys
        BY <1>6, <4>3 DEF InitWrite
      <4> QED
        BY <3>1, <3>3, <4>4
    <3> QED
      BY <3>2, <3>3
  <2>4. rotated' = rotated /\ cut' = cut
    BY <1>6 DEF InitWrite
  <2>5. ASSUME ~rotated, ~cut, MASTER \notin glued
        PROVE  Get(file'.lines, MASTER) = keys'[1]
    <3>1. CASE init.fh = inode
      BY <2>1, <2>3, <2>5, <3>1
    <3>2. CASE init.fh # inode
      <4>1. keys # << >> /\ Get(file.lines, MASTER) = keys[1]
        BY <2>2, <2>5, <3>2 DEF KInv, OneKey
      <4> QED
        BY <2>1, <2>3, <2>5, <3>2, <4>1
    <3> QED
      BY <3>1, <3>2
  <2> QED
    BY <1>1, <2>2, <2>3, <2>4, <2>5 DEF KInv, OneKey
<1>7. CASE InitKilled
  <2>1. UNCHANGED <<file, keys, rotated>> /\ cut' = (cut \/ init.pc = "write")
        /\ init'.pc = "idle" /\ init'.rotate = FALSE
    BY <1>7 DEF InitKilled, Idle
  <2> QED
    BY <1>1, <2>1 DEF KInv, OneKey
<1> QED
  BY <1>1, <1>3, <1>4, <1>5, <1>6, <1>7 DEF KInv

LEMMA StepKInv == KInv /\ [Next]_vars => KInv'
<1> SUFFICES ASSUME KInv, [Next]_vars PROVE KInv'
  OBVIOUS
<1>1. CASE UNCHANGED vars
  BY <1>1 DEF vars, KInv, IInv, Inits, Opened, OneKey, Open
<1>2. CASE Next
  BY <1>2, WizardKey, InitKeyStep DEF Next, WizardMoves
<1> QED
  BY <1>1, <1>2

-----------------------------------------------------------------------------

\* The file, the wizards and the init keep their shape, and init never sets out to write an
\* empty key (cli/_envfile.py, cli/configure.py, cli/init_cmd.py).
THEOREM TypeCorrect == Spec => []TypeOK
<1>1. KInv => TypeOK
  <2> SUFFICES ASSUME KInv PROVE TypeOK
    OBVIOUS
  <2>1. \A ls \in Seq(Text) : IsLines(ls)
    <3>1. \A x \in Text : x.key \in AllKeys \cup {"#"} /\ x.ended \in BOOLEAN
      BY DEF Text
    <3> QED
      BY <3>1 DEF IsLines
  <2>2. /\ file.there \in BOOLEAN /\ IsLines(file.lines) /\ (file.lines # << >> => file.there)
        /\ \A i \in DOMAIN saved : saved[i].base < i
        /\ Len(saved) \in Nat
    BY <2>1 DEF KInv, IInv, Kept, Earlier
  <2>3. ASSUME NEW w \in Wizards
        PROVE  /\ wz[w].pc \in {"start", "walk", "validate", "replace", "done"}
               /\ IsLines(wz[w].lines) /\ IsLines(wz[w].loaded) /\ IsLines(wz[w].before)
               /\ wz[w].base \in 0..Len(saved)
               /\ ToSet(wz[w].todo) \subseteq Platforms
    <3>1. Sound(wz[w], saved, glued) /\ wz[w] \in WizState
      BY DEF KInv, IInv, Sound
    <3>2. wz[w].base \in 0..Len(saved)
      <4>1. CASE wz[w].pc \in {"start", "done"}
        <5>1. wz[w].base = 0
          BY <3>1, <4>1 DEF Sound, Wizard
        <5> QED
          BY <2>2, <5>1
      <4>2. CASE wz[w].pc \notin {"start", "done"}
        BY <2>2, <3>1, <4>2 DEF Sound
      <4> QED
        BY <4>1, <4>2
    <3> QED
      BY <2>1, <3>1, <3>2 DEF WizState, ToSet
  <2>4. init.pc \in {"idle", "key", "truncate", "write"} /\ init.fh \in 0..inode
    BY DEF KInv, IInv, Inits
  <2> QED
    BY <2>2, <2>3, <2>4 DEF KInv, IInv, Inits, TypeOK
<1> QED
  BY <1>1, InitKInv, StepKInv, PTL DEF Spec

\* Whatever overlaps, is aborted or is killed (cli/_envfile.py, save; cli/configure.py,
\* cmd_configure; cli/init_cmd.py, cmd_init), the file reads as the last version somebody
\* completed, an init that a wizard's save had overtaken in the middle of its write apart,
\* and that version as its writer's answers over the version it had started from.  A last
\* line without its newline garbles two keys and no other.
THEOREM LedgerKept == Spec => []FileIsLedger
<1>1. KInv => FileIsLedger
  BY LedgerDefined DEF KInv, IInv, Kept, FileIsLedger
<1> QED
  BY <1>1, InitKInv, StepKInv, PTL DEF Spec

\* A wizard's copy has every line of the file it loaded in its place but for the keys it
\* has answers to (cli/_envfile.py, set), and one that changed nothing is what it loaded.
THEOREM EditsSurgical == Spec => []CopyIsAnswers
<1>1. KInv => CopyIsAnswers
  <2> SUFFICES ASSUME KInv, NEW w \in Wizards
               PROVE  LET me == wz[w]
                          ks == DOMAIN me.answered \cup DOMAIN me.asked
                      IN /\ Surgical(me.lines, me.loaded, ks)
                         /\ (me.pc = "walk" /\ ~me.changed)
                              => me.lines = me.loaded /\ me.answered = NoAnswers
    BY DEF CopyIsAnswers
  <2>1. Sound(wz[w], saved, glued) /\ wz[w] \in WizState /\ DOMAIN NoAnswers = {}
    BY DEF KInv, IInv, Sound, NoAnswers
  <2>2. CASE wz[w].pc \in {"start", "done"}
    <3>1. wz[w].lines = << >> /\ wz[w].loaded = << >>
      BY <2>1, <2>2 DEF Sound, Wizard
    <3> QED
      BY <2>2, <3>1 DEF Surgical
  <2>3. CASE wz[w].pc \in {"walk", "replace"}
    BY <2>1, <2>3 DEF Sound, Clean
  <2>4. CASE wz[w].pc = "validate"
    <3>1. Surgical(wz[w].lines, wz[w].loaded, DOMAIN wz[w].asked \cup DOMAIN wz[w].answered)
      BY <2>1, <2>4 DEF Sound
    <3> QED
      BY <2>4, <3>1 DEF Surgical
  <2> QED
    BY <2>1, <2>2, <2>3, <2>4 DEF WizState
<1> QED
  BY <1>1, InitKInv, StepKInv, PTL DEF Spec

\* The master key never changes unless a rotation is asked for, an init is killed in the
\* middle of its write or an assignment runs on from the key's line (cli/init_cmd.py,
\* _read_existing_master_key; cli/configure.py, _load_env).
THEOREM MasterKeyKept == Spec => []KeyKept
<1>1. KInv => KeyKept
  BY DEF KInv, OneKey, KeyKept
<1> QED
  BY <1>1, InitKInv, StepKInv, PTL DEF Spec
================================================================================
