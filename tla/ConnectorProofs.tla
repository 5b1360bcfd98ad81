---------------------------- MODULE ConnectorProofs ----------------------------
\* HostCommands, for any configuration, command lines, time limits and order of the
\* timers: what is run is what was asked for, and what an answer promises.  SshPool,
\* for any number of handlers, any TTL and any number of calls: a host never sees two
\* open connections of one connector, and the lock and the line for it agree with
\* what every task waits for.
EXTENDS HostCommands, SshPool, SequenceTheorems, WellFoundedInduction, TLAPS

-----------------------------------------------------------------------------
(* Induction over the natural numbers, from the well-foundedness of <: the       *)
(* statement to prove is given as the set of the numbers it holds for.           *)

Below == {p \in Nat \X Nat : p[1] < p[2]}

\* A set of natural numbers has a least one.
LEMMA LeastNumber ==
  ASSUME NEW T, T \subseteq Nat, T # {}
  PROVE  \E m \in T : \A n \in T : m <= n
<1>1. IsWellFoundedOn(Below, Nat)
  <2>1. Below = OpToRel(<, Nat)
    BY DEF Below, OpToRel
  <2> QED
    BY <2>1, NatLessThanWellFounded
<1>2. PICK m \in T : \A n \in T : ~(<<n, m>> \in Below)
  BY <1>1, WFMin
<1>3. ASSUME NEW n \in T
      PROVE  m <= n
  <2>1. <<n, m>> \in Nat \X Nat /\ <<n, m>>[1] = n /\ <<n, m>>[2] = m
    OBVIOUS
  <2>2. ~(n < m)
    BY <1>2, <2>1 DEF Below
  <2> QED
    BY <2>2
<1> QED
  BY <1>2, <1>3

LEMMA Induction ==
  ASSUME NEW T, 0 \in T, \A n \in Nat : n \in T => n + 1 \in T
  PROVE  Nat \subseteq T
<1> SUFFICES ASSUME Nat \ T # {} PROVE FALSE
  OBVIOUS
<1>1. PICK m \in Nat \ T : \A n \in Nat \ T : m <= n
  BY LeastNumber
<1>2. m # 0 /\ m - 1 \in T
  BY <1>1
<1> QED
  BY <1>1, <1>2

LEMMA MaxExists ==
  ASSUME NEW n \in Nat, NEW s, s \subseteq 1..n, s # {}
  PROVE  Max(s) \in s /\ \A i \in s : i <= Max(s)
<1> DEFINE T == {m \in Nat : \A i \in s : i <= m}
<1>1. n \in T
  OBVIOUS
<1>2. PICK m \in T : \A k \in T : m <= k
  BY <1>1, LeastNumber
<1>3. m \in s
  <2> SUFFICES ASSUME m \notin s PROVE FALSE
    OBVIOUS
  <2>1. PICK j \in s : TRUE
    OBVIOUS
  <2>2. j >= 1 /\ j <= m /\ m \in Nat
    BY <1>2, <2>1
  <2>3. \A i \in s : i \in Nat /\ i <= m /\ i # m
    BY <1>2
  <2>4. m - 1 \in Nat /\ \A i \in s : i <= m - 1
    BY <2>2, <2>3
  <2>5. m - 1 \in T
    BY <2>4
  <2> QED
    BY <1>2, <2>2, <2>5
<1>4. \E i \in s : \A j \in s : i >= j
  <2>1. \A j \in s : m >= j
    BY <1>2
  <2> QED
    BY <1>3, <2>1
<1>5. Max(s) \in s /\ \A j \in s : Max(s) >= j
  BY <1>4 DEF Max
<1> QED
  BY <1>5

LEMMA MaxIs ==
  ASSUME NEW s, s \subseteq Nat, NEW m \in s, \A i \in s : i <= m
  PROVE  Max(s) = m
<1>1. \E i \in s : \A j \in s : i >= j
  OBVIOUS
<1>2. Max(s) \in s /\ \A j \in s : Max(s) >= j
  BY <1>1 DEF Max
<1>3. Max(s) \in Nat /\ m \in Nat /\ Max(s) <= m /\ Max(s) >= m
  BY <1>2
<1> QED
  BY <1>3

-----------------------------------------------------------------------------
(* What ParseHostFlag returns.                                                   *)

\* The words FoldLeft has folded, as a function of the set of their places.
Folded(words, n, f) ==
    f = [s \in SUBSET (1..n) |->
            IF s = {} THEN NoWords ELSE TakeWord(f[s \ {Max(s)}], words[Max(s)])]

LEMMA FoldExists ==
  ASSUME NEW words
  PROVE  \A n \in Nat : \E f : Folded(words, n, f)
<1> DEFINE T == {n \in Nat : \E f : Folded(words, n, f)}
<1>1. 0 \in T
  <2> DEFINE f == [s \in SUBSET (1..0) |-> NoWords]
  <2>1. \A s \in SUBSET (1..0) : s = {}
    OBVIOUS
  <2>2. Folded(words, 0, f)
    BY <2>1 DEF Folded
  <2> QED
    BY <2>2
<1>2. ASSUME NEW n \in Nat, n \in T
      PROVE  n + 1 \in T
  <2>1. PICK f : Folded(words, n, f)
    BY <1>2
  <2> DEFINE g == [s \in SUBSET (1..n + 1) |->
                      IF n + 1 \notin s THEN f[s]
                      ELSE TakeWord(f[s \ {n + 1}], words[n + 1])]
             h == [s \in SUBSET (1..n + 1) |->
                      IF s = {} THEN NoWords ELSE TakeWord(g[s \ {Max(s)}], words[Max(s)])]
  <2>2. ASSUME NEW s \in SUBSET (1..n + 1)
        PROVE  g[s] = h[s]
    <3>1. CASE s = {}
      BY <2>1, <3>1 DEF Folded
    <3>2. CASE n + 1 \in s
      <4>1. Max(s) = n + 1
        <5>1. s \subseteq Nat /\ \A i \in s : i <= n + 1
          OBVIOUS
        <5> QED
          BY <3>2, <5>1, MaxIs
      <4>2. s \ {n + 1} \in SUBSET (1..n)
        OBVIOUS
      <4>3. g[s \ {n + 1}] = f[s \ {n + 1}]
        BY <4>2
      <4> QED
        BY <3>2, <4>1, <4>3
    <3>3. CASE n + 1 \notin s /\ s # {}
      <4>1. s \in SUBSET (1..n)
        BY <3>3
      <4>2. Max(s) \in s
        BY <3>3, <4>1, MaxExists
      <4>3. s \ {Max(s)} \in SUBSET (1..n) /\ n + 1 \notin s \ {Max(s)}
        BY <3>3, <4>1
      <4>4. g[s \ {Max(s)}] = f[s \ {Max(s)}]
        BY <4>3
      <4>6. g[s] = f[s]
        BY <3>3
      <4>5. f[s] = TakeWord(f[s \ {Max(s)}], words[Max(s)])
        BY <2>1, <3>3, <4>1 DEF Folded
      <4> QED
        BY <3>3, <4>4, <4>5, <4>6
    <3> QED
      BY <3>1, <3>2, <3>3
  <2> HIDE DEF g
  <2>3. g = [s \in SUBSET (1..n + 1) |-> g[s]]
    BY DEF g
  <2>4. g = h
    BY <2>2, <2>3
  <2>5. Folded(words, n + 1, g)
    BY <2>4 DEF Folded
  <2> QED
    BY <2>5
<1> HIDE DEF T
<1>3. Nat \subseteq T
  BY <1>1, <1>2, Induction
<1> QED
  BY <1>3 DEF T

\* The words taken so far: each is one of the line's first n, and the host is the one
\* behind a "--host".
TakenFrom(words, n, taken) ==
    /\ taken \in [out : Seq(Range(words)), host : Range(words) \cup {None}, flag : BOOLEAN]
    /\ taken.flag => n > 0 /\ words[n] = "--host"
    /\ taken.host # None =>
          \E i \in 2..n : words[i - 1] = "--host" /\ words[i] = taken.host

LEMMA TakeOne ==
  ASSUME NEW words, NEW n \in Nat, n + 1 \in DOMAIN words, NEW taken,
         TakenFrom(words, n, taken)
  PROVE  TakenFrom(words, n + 1, TakeWord(taken, words[n + 1]))
<1> DEFINE word == words[n + 1]
           R == [out : Seq(Range(words)), host : Range(words) \cup {None}, flag : BOOLEAN]
<1>1. word \in Range(words)
  BY DEF Range
<1>2. taken \in R
  BY DEF TakenFrom
<1> HIDE DEF word
<1>3. CASE taken.flag
  <2> DEFINE next == [taken EXCEPT !.host = word, !.flag = FALSE]
  <2>1. next \in R /\ next.flag = FALSE /\ next.host = word
    BY <1>1, <1>2
  <2>2. n + 1 \in 2..n + 1 /\ words[n + 1 - 1] = "--host" /\ words[n + 1] = next.host
    BY <1>3, <2>1 DEF TakenFrom, word
  <2>3. TakeWord(taken, word) = next
    BY <1>3 DEF TakeWord
  <2> HIDE DEF next
  <2> QED
    BY <2>1, <2>2, <2>3 DEF TakenFrom, word
<1>4. CASE ~taken.flag /\ word = "--host"
  <2> DEFINE next == [taken EXCEPT !.flag = TRUE]
  <2>1. next \in R /\ next.flag = TRUE /\ next.host = taken.host
    BY <1>2
  <2>2. TakeWord(taken, word) = next
    BY <1>4 DEF TakeWord
  <2> HIDE DEF next
  <2> QED
    BY <1>4, <2>1, <2>2 DEF TakenFrom, word
<1>5. CASE ~taken.flag /\ word # "--host"
  <2> DEFINE next == [taken EXCEPT !.out = Append(@, word)]
  <2>1. next \in R /\ next.flag = FALSE /\ next.host = taken.host
    BY <1>1, <1>2, <1>5, SMTT(30)
  <2>2. TakeWord(taken, word) = next
    BY <1>5 DEF TakeWord
  <2> HIDE DEF next
  <2> QED
    BY <2>1, <2>2 DEF TakenFrom, word
<1> QED
  BY <1>3, <1>4, <1>5 DEF word

\* The host ParseHostFlag returns stands behind a "--host", and the other words are
\* words of the line.
LEMMA FlagParsed ==
  ASSUME NEW words, words \in Seq(Range(words))
  PROVE  /\ ParseHostFlag(words).out \in Seq(Range(words))
         /\ ParseHostFlag(words).host # None =>
               \E i \in DOMAIN words : /\ i > 1 /\ words[i - 1] = "--host"
                                       /\ words[i] = ParseHostFlag(words).host
<1> DEFINE len == Len(words)
           f == CHOOSE f : Folded(words, len, f)
           end == FoldLeft(TakeWord, NoWords, words)
           T == {n \in Nat : n <= len => TakenFrom(words, n, f[1..n])}
<1>1. len \in Nat /\ DOMAIN words = 1..len
  OBVIOUS
<1>2. Folded(words, len, f)
  BY <1>1, FoldExists
<1>3. end = f[1..len]
  BY <1>1 DEF FoldLeft, MapThenFoldSet, Folded
<1> HIDE DEF f, end, len
<1>4. 0 \in T
  <2>1. f[1..0] = NoWords
    BY <1>1, <1>2 DEF Folded
  <2>2. << >> \in Seq(Range(words))
    BY EmptySeq
  <2>3. NoWords \in [out : Seq(Range(words)), host : Range(words) \cup {None},
                     flag : BOOLEAN]
        /\ NoWords.flag = FALSE /\ NoWords.host = None
    BY <2>2 DEF NoWords
  <2>4. TakenFrom(words, 0, NoWords)
    BY <2>3 DEF TakenFrom
  <2> QED
    BY <2>1, <2>4
<1>5. ASSUME NEW n \in Nat, n \in T
      PROVE  n + 1 \in T
  <2> SUFFICES ASSUME n + 1 <= len
               PROVE  TakenFrom(words, n + 1, f[1..n + 1])
    OBVIOUS
  <2>1. Max(1..n + 1) = n + 1
    <3>1. 1..n + 1 \subseteq Nat /\ n + 1 \in 1..n + 1 /\ \A i \in 1..n + 1 : i <= n + 1
      OBVIOUS
    <3> QED
      BY <3>1, MaxIs
  <2>2. (1..n + 1) \ {n + 1} = 1..n
    OBVIOUS
  <2>4. 1..n + 1 # {} /\ 1..n + 1 \in SUBSET (1..len)
    BY <1>1
  <2>3. f[1..n + 1] = TakeWord(f[1..n], words[n + 1])
    BY <1>2, <2>1, <2>2, <2>4 DEF Folded
  <2> QED
    BY <1>1, <1>5, <2>3, TakeOne
<1> HIDE DEF T
<1>6. len \in T
  BY <1>1, <1>4, <1>5, Induction
<1>7. TakenFrom(words, len, end)
  BY <1>1, <1>3, <1>6 DEF T
<1>8. ParseHostFlag(words) = IF end.flag THEN [end EXCEPT !.out = Append(@, "--host")]
                             ELSE end
  BY DEF ParseHostFlag, end
<1>9. ParseHostFlag(words).host = end.host
  BY <1>7, <1>8 DEF TakenFrom
<1>10. ParseHostFlag(words).out \in Seq(Range(words))
  <2>1. CASE end.flag
    <3>1. "--host" \in Range(words)
      BY <1>1, <1>7, <2>1 DEF TakenFrom, Range
    <3>2. ParseHostFlag(words).out = Append(end.out, "--host")
      BY <1>7, <1>8, <2>1 DEF TakenFrom
    <3> QED
      BY <1>7, <3>1, <3>2 DEF TakenFrom
  <2>2. CASE ~end.flag
    BY <1>7, <1>8, <2>2 DEF TakenFrom
  <2> QED
    BY <2>1, <2>2
<1>11. \A i \in 2..len : i \in DOMAIN words /\ i > 1
  BY <1>1
<1> QED
  BY <1>7, <1>9, <1>10, <1>11 DEF TakenFrom

-----------------------------------------------------------------------------
(* The invariant.                                                                *)

Named == Hosts \cup {Local} \cup UNION {Range(Services[s].hosts) : s \in DOMAIN Services}

Shape == line \in Lines /\ runs \in [DOMAIN runs -> [host : Named, status : Status]]

\* What is there belongs to a run under way, until the command is over; then to one
\* that has been let go of.
RunsAlive ==
    /\ alive \subseteq DOMAIN runs
    /\ pc # "over" => \A i \in alive : runs[i].status = "running"
    /\ pc = "start" => runs = << >>
    /\ pc # "over" => reply = "none"
    /\ reply = "results" => alive = {} /\ AllDone

\* The records of a command that has not been answered carry no outcome.
OnRecord ==
    /\ pc # "over" => trail \in Seq([event : {"SERVICE_FANOUT"}, host : {None}])
    /\ reply = "timeout" => \A r \in Range(trail) : r.event # "HOST_EXECUTED"
    /\ reply = "results" /\ Remote /\ ~FansOut =>
           \E r \in Range(trail) : r.event = "HOST_EXECUTED" /\ r.host = runs[1].host

\* A host that is not configured has its result before anything is opened.
Configured == \A i \in DOMAIN runs : Touched(i) => runs[i].host \in Hosts \cup {Local}

IInv == Shape /\ RunsAlive /\ OnRecord /\ Configured

-----------------------------------------------------------------------------

LEMMA Records ==
  ASSUME NEW S
  PROVE  /\ << >> \in Seq(S)
         /\ \A x \in S : <<x>> \in Seq(S)
         /\ \A s \in Seq(S), x \in S : Append(s, x) \in Seq(S)
         /\ \A s \in Seq(S) : \A i \in DOMAIN s : s[i] \in S
  BY EmptySeq

LEMMA MoreRecords ==
  ASSUME NEW S, NEW T, S \subseteq T, NEW s \in Seq(S)
  PROVE  s \in Seq(T)
  OBVIOUS

LEMMA TargetsNamed ==
  ASSUME line \in Lines
  PROVE  \A i \in DOMAIN Targets : Targets[i] \in Named
<1>1. \A i \in DOMAIN FanOutTargets : FanOutTargets[i] \in Named
  BY DEF FanOutTargets, Resolves, Named, Range
<1>2. \A i \in DOMAIN SingleTarget : SingleTarget[i] \in Named
  BY DEF SingleTarget, ServesOn, Named
<1>3. \A i \in DOMAIN SshTarget : SshTarget[i] \in Named
  BY DEF SshTarget, Named
<1>4. \A i \in DOMAIN KubectlTarget : KubectlTarget[i] \in Named
  BY DEF KubectlTarget, Named
<1>5. \A i \in DOMAIN RunbookTarget : RunbookTarget[i] \in Named
  BY DEF RunbookTarget, Named
<1> QED
  BY <1>1, <1>2, <1>3, <1>4, <1>5, LineAssumption DEF Targets, FansOut

\* One run's status changes and nothing else of the runs.
Becoming(i, status) ==
    /\ DOMAIN runs' = DOMAIN runs
    /\ runs'[i].status = status
    /\ \A j \in DOMAIN runs : runs'[j].host = runs[j].host
    /\ \A j \in DOMAIN runs \ {i} : runs'[j].status = runs[j].status
    /\ runs' \in [DOMAIN runs' -> [host : Named, status : Status]]

LEMMA RunBecomes ==
  ASSUME Shape, NEW i \in DOMAIN runs, NEW status \in Status, Becomes(i, status)
  PROVE  Becoming(i, status)
<1>1. runs' = [runs EXCEPT ![i] = [runs[i] EXCEPT !.status = status]]
  BY DEF Becomes
<1>2. [runs[i] EXCEPT !.status = status] \in [host : Named, status : Status]
      /\ [runs[i] EXCEPT !.status = status].status = status
      /\ [runs[i] EXCEPT !.status = status].host = runs[i].host
  BY DEF Shape
<1> QED
  BY <1>1, <1>2 DEF Becoming, Shape

LEMMA InitInv ==
  ASSUME Init
  PROVE  IInv
<1>1. DOMAIN << >> = {}
  OBVIOUS
<1> QED
  BY <1>1, Records DEF Init, IInv, Shape, RunsAlive, OnRecord, Configured

\* A step of one run that is under way.
LEMMA RunInv ==
  ASSUME IInv, NEW i \in DOMAIN runs, NEW status \in Status, Becoming(i, status),
         pc = "busy", pc' = pc, reply' = reply, trail' = trail, line' = line,
         \/ status = "running" /\ alive' = alive \cup {i}
         \/ alive' = alive \ {i},
         Touched(i)' => Touched(i)
  PROVE  IInv'
<1> USE DEF IInv, Becoming
<1>1. RunsAlive'
  BY DEF RunsAlive
<1>2. OnRecord'
  BY DEF OnRecord, RunsAlive
<1>3. Configured'
  BY DEF Configured, Touched
<1>4. Shape'
  BY DEF Shape
<1> QED
  BY <1>1, <1>2, <1>3, <1>4

LEMMA StartInv ==
  ASSUME IInv, Start
  PROVE  IInv'
<1> USE DEF IInv
<1>1. CASE Targets = << >>
  BY <1>1 DEF Start, Shape, RunsAlive, OnRecord, Configured
<1>2. CASE Targets # << >>
  <2>1. runs' = [i \in DOMAIN Targets |->
                    [host |-> Targets[i],
                     status |-> IF Targets[i] \in Hosts \cup {Local}
                                THEN "opening" ELSE "unknown"]]
    BY <1>2 DEF Start
  <2>2. Shape' /\ Configured'
    <3>1. line \in Lines /\ line' = line
      BY DEF Start, Shape
    <3>2. \A i \in DOMAIN Targets : Targets[i] \in Named
      BY <3>1, TargetsNamed
    <3>3. DOMAIN runs' = DOMAIN Targets
      BY <2>1
    <3>4. \A i \in DOMAIN Targets :
              /\ runs'[i].host = Targets[i]
              /\ runs'[i].status = IF Targets[i] \in Hosts \cup {Local}
                                   THEN "opening" ELSE "unknown"
              /\ runs'[i] \in [host : Named, status : Status]
      BY <2>1, <3>2 DEF Status, Finished
    <3>5. Configured'
      BY <3>3, <3>4 DEF Configured, Touched
    <3>6. runs' \in [DOMAIN runs' -> [host : Named, status : Status]]
      BY <2>1, <3>3, <3>4
    <3> QED
      BY <3>1, <3>5, <3>6 DEF Shape
  <2>3. alive' = {} /\ pc' = "busy" /\ reply' = "none"
    BY <1>2 DEF Start, RunsAlive
  <2>4. RunsAlive'
    BY <2>3 DEF RunsAlive
  <2>5. trail' \in Seq([event : {"SERVICE_FANOUT"}, host : {None}])
    <3>1. Record("SERVICE_FANOUT", None) \in [event : {"SERVICE_FANOUT"}, host : {None}]
      BY DEF Record
    <3>2. trail' = << >> \/ trail' = <<Record("SERVICE_FANOUT", None)>>
      BY <1>2 DEF Start
    <3>3. << >> \in Seq([event : {"SERVICE_FANOUT"}, host : {None}])
      BY Records
    <3>4. <<Record("SERVICE_FANOUT", None)>> \in Seq([event : {"SERVICE_FANOUT"}, host : {None}])
      BY <3>1, Records
    <3> QED
      BY <3>2, <3>3, <3>4
  <2> QED
    BY <2>2, <2>3, <2>4, <2>5 DEF OnRecord
<1> QED
  BY <1>1, <1>2

\* A limit around the handler goes off, or a program cannot be executed.
LEMMA OverInv ==
  ASSUME IInv, pc = "busy", pc' = "over", reply' \in {"timeout", "error"},
         trail' = Append(trail, Record(IF reply' = "timeout" THEN "COMMAND_TIMEOUT"
                                       ELSE "HANDLER_ERROR", None)),
         alive' = alive, Shape', Configured', DOMAIN runs' = DOMAIN runs
  PROVE  IInv'
<1>1. RunsAlive'
  BY DEF IInv, RunsAlive
<1>2. \A r \in Range(trail') : r.event # "HOST_EXECUTED"
  <2> DEFINE x == Record(IF reply' = "timeout" THEN "COMMAND_TIMEOUT" ELSE "HANDLER_ERROR", None)
             R == [event : {"SERVICE_FANOUT", "COMMAND_TIMEOUT", "HANDLER_ERROR"}, host : {None}]
  <2>1. trail \in Seq(R)
    <3>1. [event : {"SERVICE_FANOUT"}, host : {None}] \subseteq R
      OBVIOUS
    <3> QED
      BY <3>1, MoreRecords DEF IInv, OnRecord
  <2>2. x \in R
    BY DEF Record
  <2>3. \A i \in DOMAIN trail' : trail'[i] \in R
    BY <2>1, <2>2, Records
  <2> QED
    BY <2>3 DEF Range
<1>3. OnRecord'
  BY <1>2 DEF OnRecord
<1> QED
  BY <1>1, <1>3 DEF IInv

LEMMA AnswerInv ==
  ASSUME IInv, Answer
  PROVE  IInv'
<1> DEFINE R == [event : {"SERVICE_FANOUT", "HOST_EXECUTED", "EXECUTED"},
                 host : Named \cup {None, runs[1].host}]
           outcome == IF Remote /\ ~FansOut THEN Outcome(1) ELSE << >>
           end == <<Record("EXECUTED", None)>>
<1>1. alive = {} /\ reply' = "results" /\ AllDone /\ runs' = runs /\ alive' = alive
      /\ pc' = "over" /\ line' = line
  BY DEF Answer, AllDone, Finished, IInv, RunsAlive
<1>2. AllDone'
  BY <1>1 DEF AllDone
<1>3. trail \in Seq(R)
  <2>1. [event : {"SERVICE_FANOUT"}, host : {None}] \subseteq R
    OBVIOUS
  <2> QED
    BY <2>1, MoreRecords DEF IInv, OnRecord, Answer
<1>4. ASSUME Remote, ~FansOut
      PROVE  \E r \in Range(trail') : r.event = "HOST_EXECUTED" /\ r.host = runs[1].host
  <2> DEFINE x == Record("HOST_EXECUTED", runs[1].host)
             y == Record("EXECUTED", None)
  <2>1. trail' = (trail \o <<x>>) \o <<y>>
    BY <1>4 DEF Answer, Outcome
  <2>2. x \in R /\ y \in R /\ x.event = "HOST_EXECUTED" /\ x.host = runs[1].host
    BY DEF Record
  <2> HIDE DEF x, y, R
  <2>3. x \in Range(trail')
    <3>1. Len(trail) + 1 \in DOMAIN trail' /\ trail'[Len(trail) + 1] = x
      BY <1>3, <2>1, <2>2
    <3> QED
      BY <3>1 DEF Range
  <2> QED
    BY <2>2, <2>3
<1>5. OnRecord'
  BY <1>1, <1>4 DEF OnRecord, Remote, FansOut
<1> QED
  BY <1>1, <1>2, <1>5 DEF IInv, Shape, RunsAlive, Configured, Touched

\* Steps that leave the runs and the records alone.
LEMMA QuietInv ==
  ASSUME IInv, UNCHANGED <<line, pc, runs, trail, reply>>, alive' \subseteq alive
  PROVE  IInv'
  BY DEF IInv, Shape, RunsAlive, OnRecord, Configured, Touched, AllDone, Remote, FansOut

LEMMA StepInv == IInv /\ [Next]_vars => IInv'
<1> SUFFICES ASSUME IInv, [Next]_vars
             PROVE  IInv'
  OBVIOUS
<1>0. Shape
  BY DEF IInv
<1>1. CASE Start
  BY <1>1, StartInv
<1>2. ASSUME NEW i \in DOMAIN runs, Opened(i) \/ Ended(i) \/ Stopped(i)
      PROVE  IInv'
  <2>1. CASE Opened(i)
    <3>1. Becoming(i, "running")
      BY <1>0, <2>1, RunBecomes DEF Opened, Status
    <3> QED
      BY <2>1, <3>1, RunInv DEF Opened, Status, Touched
  <2>2. CASE Ended(i)
    <3>1. Becoming(i, "ended")
      BY <1>0, <2>2, RunBecomes DEF Ended, Status, Finished
    <3> QED
      BY <2>2, <3>1, RunInv DEF Ended, Status, Finished, Touched
  <2>3. CASE Stopped(i)
    <3>1. Becoming(i, "timeout")
      BY <1>0, <2>3, RunBecomes DEF Stopped, Status, Finished
    <3>2. alive' = alive \ {i}
      BY <2>3 DEF Stopped, IInv, RunsAlive
    <3> QED
      BY <2>3, <3>1, <3>2, RunInv DEF Stopped, Status, Finished, Touched
  <2> QED
    BY <1>2, <2>1, <2>2, <2>3
<1>3. ASSUME NEW i \in DOMAIN runs, OpenFails(i)
      PROVE  IInv'
  <2>1. Becoming(i, "failed")
    BY <1>0, <1>3, RunBecomes DEF OpenFails, Status, Finished
  <2>2. alive' = alive \ {i}
    BY <1>3 DEF OpenFails, IInv, RunsAlive
  <2>3. CASE Remote
    BY <1>3, <2>1, <2>2, <2>3, RunInv DEF OpenFails, Status, Finished, Touched
  <2>4. CASE ~Remote
    <3>1. Configured' /\ Shape' /\ DOMAIN runs' = DOMAIN runs
      BY <1>0, <1>3, <2>1 DEF OpenFails, Becoming, IInv, Configured, Touched, Shape
    <3> QED
      BY <1>3, <2>4, <3>1, OverInv DEF OpenFails
  <2> QED
    BY <2>3, <2>4
<1>4. ASSUME NEW i \in DOMAIN runs, LeftEnds(i)
      PROVE  IInv'
  BY <1>4, QuietInv DEF LeftEnds
<1>5. ASSUME NEW k \in DOMAIN timers, TimesOut(k)
      PROVE  IInv'
  <2> DEFINE i == timers[k].who
  <2>1. i \in DOMAIN runs /\ Becoming(i, "stopping")
    BY <1>0, <1>5, RunBecomes DEF TimesOut, Status
  <2>2. i \in DOMAIN runs => runs[i].status \in Status
    BY <1>0 DEF Shape
  <2> QED
    BY <1>5, <2>1, <2>2, RunInv DEF TimesOut, Kill, Status, Touched
<1>6. ASSUME NEW k \in DOMAIN timers, Cut(k)
      PROVE  IInv'
  <2>1. Configured' /\ Shape'
    BY <1>0, <1>6 DEF Cut, IInv, Configured, Touched, Shape
  <2> QED
    BY <1>6, <2>1, OverInv DEF Cut
<1>7. CASE Answer
  BY <1>7, AnswerInv
<1>8. CASE Tick
  BY <1>8, QuietInv DEF Tick
<1>9. CASE UNCHANGED vars
  BY <1>9, QuietInv DEF vars
<1> QED
  BY <1>1, <1>2, <1>3, <1>4, <1>5, <1>6, <1>7, <1>8, <1>9 DEF Next

-----------------------------------------------------------------------------
(* What is run is what the line asks for.                                        *)

\* Its runs are those of the line, in their order.
Asked ==
    runs # << >> => /\ Len(runs) = Len(Targets)
                    /\ \A i \in DOMAIN runs : runs[i].host = Targets[i]

AInv == IInv /\ runs \in Seq([host : Named, status : Status]) /\ Asked

LEMMA TargetsLine ==
  ASSUME line \in Lines
  PROVE  Targets \in Seq(Named)
<1>1. FanOutTargets \in Seq(Named)
  <2>1. CASE Len(args) = 1 /\ Resolves(args[1])
    <3> DEFINE hosts == Services[args[1]].hosts
    <3>1. hosts \in Seq(Range(hosts)) /\ Range(hosts) \subseteq Named
      BY <2>1, ServiceAssumption DEF Resolves, Named
    <3>2. hosts \in Seq(Named)
      BY <3>1, MoreRecords
    <3> QED
      BY <2>1, <3>2 DEF FanOutTargets
  <2> QED
    BY <2>1, Records DEF FanOutTargets
<1>2. \A x : x \in Named => <<x>> \in Seq(Named) /\ << >> \in Seq(Named)
  BY Records
<1>3. << >> \in Seq(Named)
  BY Records
<1>4. SingleTarget \in Seq(Named)
  BY <1>2, <1>3 DEF SingleTarget, ServesOn, Named
<1>5. SshTarget \in Seq(Named)
  BY <1>2, <1>3 DEF SshTarget, Named
<1>6. KubectlTarget \in Seq(Named) /\ RunbookTarget \in Seq(Named)
  BY <1>2, <1>3 DEF KubectlTarget, RunbookTarget, Named
<1> QED
  BY <1>1, <1>4, <1>5, <1>6, LineAssumption DEF Targets, FansOut

LEMMA InitAsked == Init => AInv
  BY InitInv, Records DEF Init, AInv, Asked

\* A step that starts nothing leaves what is run alone.
LEMMA SameRuns ==
  ASSUME AInv, IInv', line' = line, DOMAIN runs' = DOMAIN runs,
         \A i \in DOMAIN runs : runs'[i].host = runs[i].host,
         \/ runs' = runs
         \/ \E i \in DOMAIN runs, status \in Status : Becomes(i, status)
  PROVE  AInv'
<1>1. runs' \in Seq([host : Named, status : Status])
  <2>1. CASE runs' = runs
    BY <2>1 DEF AInv
  <2>2. CASE \E i \in DOMAIN runs, status \in Status : Becomes(i, status)
    <3>1. PICK i \in DOMAIN runs, status \in Status : Becomes(i, status)
      BY <2>2
    <3> DEFINE run == [runs[i] EXCEPT !.status = status]
    <3>2. run \in [host : Named, status : Status]
      BY <3>1 DEF AInv, IInv, Shape
    <3>3. runs' = [runs EXCEPT ![i] = run]
      BY <3>1 DEF Becomes
    <3>4. i \in 1..Len(runs)
      BY DEF AInv
    <3> HIDE DEF run
    <3> QED
      BY <3>2, <3>3, <3>4, ExceptSeq DEF AInv
  <2> QED
    BY <2>1, <2>2
<1>2. Targets' = Targets
  BY DEF Targets, FansOut, FanOutTargets, SingleTarget, SshTarget, KubectlTarget,
         RunbookTarget, Resolves, args
<1>3. Len(runs') = Len(runs)
  BY <1>1 DEF AInv
<1>4. runs' # << >> => runs # << >>
  BY <1>1, <1>3 DEF AInv
<1> QED
  BY <1>1, <1>2, <1>3, <1>4 DEF AInv, Asked

LEMMA StepAsked == AInv /\ [Next]_vars => AInv'
<1> SUFFICES ASSUME AInv, [Next]_vars
             PROVE  AInv'
  OBVIOUS
<1>1. IInv' /\ Shape
  BY StepInv DEF AInv, IInv
<1>2. CASE Start
  <2>1. line \in Lines /\ line' = line /\ runs = << >>
    BY <1>2 DEF Start, AInv, IInv, Shape, RunsAlive
  <2>2. Targets \in Seq(Named) /\ Targets' = Targets
    BY <2>1, TargetsLine
       DEF Targets, FansOut, FanOutTargets, SingleTarget, SshTarget, KubectlTarget,
           RunbookTarget, Resolves, args
  <2>3. CASE Targets = << >>
    BY <1>1, <1>2, <2>1, <2>3, Records DEF Start, AInv, Asked
  <2>4. CASE Targets # << >>
    <3> DEFINE run(i) == [host |-> Targets[i],
                          status |-> IF Targets[i] \in Hosts \cup {Local}
                                     THEN "opening" ELSE "unknown"]
    <3>1. runs' = [i \in 1..Len(Targets) |-> run(i)]
      BY <1>2, <2>2, <2>4 DEF Start
    <3>2. \A i \in 1..Len(Targets) : run(i) \in [host : Named, status : Status]
      BY <2>2 DEF Status, Finished
    <3>3. runs' \in Seq([host : Named, status : Status]) /\ Len(runs') = Len(Targets)
      BY <2>2, <3>1, <3>2, IsASeq
    <3>4. \A i \in DOMAIN runs' : runs'[i].host = Targets[i]
      BY <3>1
    <3> QED
      BY <1>1, <2>2, <3>3, <3>4 DEF AInv, Asked
  <2> QED
    BY <2>3, <2>4
<1>3. ASSUME NEW i \in DOMAIN runs,
             Opened(i) \/ OpenFails(i) \/ Ended(i) \/ Stopped(i)
      PROVE  AInv'
  <2>1. line' = line /\ \E status \in Status : Becomes(i, status)
    BY <1>3 DEF Opened, OpenFails, Ended, Stopped, Status, Finished
  <2> QED
    BY <1>1, <2>1, RunBecomes, SameRuns DEF Becoming
<1>4. ASSUME NEW k \in DOMAIN timers, TimesOut(k)
      PROVE  AInv'
  <2>1. line' = line /\ timers[k].who \in DOMAIN runs /\ Becomes(timers[k].who, "stopping")
        /\ "stopping" \in Status
    BY <1>4 DEF TimesOut, Status
  <2> QED
    BY <1>1, <2>1, RunBecomes, SameRuns DEF Becoming
<1>5. CASE UNCHANGED <<line, runs>>
  BY <1>1, <1>5, SameRuns
<1> QED
  BY <1>2, <1>3, <1>4, <1>5 DEF Next, LeftEnds, Cut, Answer, Tick, vars

LEMMA AskedRuns ==
  ASSUME AInv, runs # << >>
  PROVE  /\ Targets \in Seq(Named) /\ Targets # << >>
         /\ Len(runs) \in Nat \ {0} /\ Len(runs) = Len(Targets)
         /\ runs[1].host = Targets[1]
<1>1. Targets \in Seq(Named)
  BY TargetsLine DEF AInv, IInv, Shape
<1>2. Len(runs) \in Nat \ {0} /\ 1 \in DOMAIN runs
  BY DEF AInv
<1>3. Len(runs) = Len(Targets) /\ runs[1].host = Targets[1]
  BY <1>2 DEF AInv, Asked
<1> QED
  BY <1>1, <1>2, <1>3

LEMMA SingleAsked ==
  ASSUME AInv, runs # << >>, line.name = "service", line.action \notin SafeActions
  PROVE  /\ Len(runs) = 1
         /\ \E s \in Range(args) \cap DOMAIN Services :
               /\ line.action \in Services[s].actions
               /\ runs[1].host \in Range(Services[s].hosts)
         /\ \E i \in DOMAIN args : i > 1 /\ args[i - 1] = "--host" /\ args[i] = runs[1].host
<1> DEFINE parsed == ParseHostFlag(args)
<1>1. Targets = SingleTarget /\ args \in Seq(Range(args))
  BY LineAssumption DEF Targets, FansOut, AInv, IInv, Shape, args
<1>2. /\ Targets = <<parsed.host>> /\ Len(parsed.out) = 1 /\ parsed.host # None
      /\ Resolves(parsed.out[1]) /\ ServesOn(parsed.out[1], parsed.host)
  BY <1>1, AskedRuns DEF SingleTarget
<1>3. /\ parsed.out \in Seq(Range(args))
      /\ \E i \in DOMAIN args : i > 1 /\ args[i - 1] = "--host" /\ args[i] = parsed.host
  BY <1>1, <1>2, FlagParsed
<1> HIDE DEF parsed
<1>4. Len(runs) = 1 /\ runs[1].host = parsed.host
  BY <1>2, AskedRuns
<1>5. parsed.out[1] \in Range(args)
  BY <1>2, <1>3
<1> QED
  BY <1>2, <1>3, <1>4, <1>5 DEF Resolves, ServesOn

LEMMA SshAsked ==
  ASSUME AInv, runs # << >>, line.name = "ssh"
  PROVE  /\ Len(runs) = 1
         /\ args = <<runs[1].host>> \o Tail(args)
         /\ Tail(args) \in Allowed[runs[1].host]
<1>1. Targets = SshTarget /\ args \in Seq(Range(args))
  BY LineAssumption DEF Targets, FansOut, AInv, IInv, Shape, args
<1>2. Targets = <<args[1]>> /\ Len(args) >= 2 /\ Tail(args) \in Allowed[args[1]]
  BY <1>1, AskedRuns DEF SshTarget
<1>3. Len(runs) = 1 /\ runs[1].host = args[1]
  BY <1>2, AskedRuns
<1>4. args = <<args[1]>> \o Tail(args)
  BY <1>1, <1>2
<1> QED
  BY <1>2, <1>3, <1>4

-----------------------------------------------------------------------------
(* The limits that are armed.                                                    *)

\* A sequence without its k-th place.
LEMMA WithoutPlace ==
  ASSUME NEW S, NEW s \in Seq(S), NEW k \in 1..Len(s)
  PROVE  /\ RemoveAt(s, k) \in Seq(S)
         /\ Len(RemoveAt(s, k)) = Len(s) - 1
         /\ \A i \in 1..Len(s) - 1 :
               RemoveAt(s, k)[i] = IF i < k THEN s[i] ELSE s[i + 1]
<1> DEFINE a == SubSeq(s, 1, k - 1)
           b == SubSeq(s, k + 1, Len(s))
<1>1. a \in Seq(S) /\ Len(a) = k - 1 /\ \A i \in 1..k - 1 : a[i] = s[i]
  <2>1. \A i \in 1..k - 1 : s[i] \in S
    OBVIOUS
  <2> QED
    BY <2>1, SubSeqProperties
<1>2. b \in Seq(S) /\ Len(b) = Len(s) - k /\ \A i \in 1..Len(s) - k : b[i] = s[k + i]
  <2>1. \A i \in k + 1..Len(s) : s[i] \in S
    OBVIOUS
  <2> QED
    BY <2>1, SubSeqProperties
<1> HIDE DEF a, b
<1>3. /\ a \o b \in Seq(S)
      /\ Len(a \o b) = Len(a) + Len(b)
      /\ \A i \in 1..Len(a) + Len(b) :
            (a \o b)[i] = IF i <= Len(a) THEN a[i] ELSE b[i - Len(a)]
  BY <1>1, <1>2, ConcatProperties
<1>4. Len(a \o b) = Len(s) - 1
  BY <1>1, <1>2, <1>3
<1>5. ASSUME NEW i \in 1..Len(s) - 1
      PROVE  (a \o b)[i] = IF i < k THEN s[i] ELSE s[i + 1]
  <2>1. (a \o b)[i] = IF i <= k - 1 THEN a[i] ELSE b[i - (k - 1)]
    BY <1>1, <1>2, <1>3
  <2>2. CASE i < k
    BY <1>1, <2>1, <2>2
  <2>3. CASE ~(i < k)
    <3>1. i - (k - 1) \in 1..Len(s) - k /\ k + (i - (k - 1)) = i + 1
      BY <2>3
    <3> QED
      BY <1>2, <2>1, <2>3, <3>1
  <2> QED
    BY <2>2, <2>3
<1> QED
  BY <1>3, <1>4, <1>5 DEF a, b, RemoveAt

Limits == [due : Int, limit : Int, who : Int]

\* Nobody has two.
Armed(ts) == /\ ts \in Seq(Limits)
             /\ \A j, k \in DOMAIN ts : ts[j].who = ts[k].who => j = k

Watched(ts) == {ts[k].who : k \in DOMAIN ts}

LEMMA ArmOne ==
  ASSUME NEW ts, Armed(ts), NEW t \in Limits, t.who \notin Watched(ts)
  PROVE  /\ Armed(Append(ts, t))
         /\ Watched(Append(ts, t)) = Watched(ts) \cup {t.who}
<1> DEFINE more == Append(ts, t)
<1>1. ts \in Seq(Limits) /\ DOMAIN ts = 1..Len(ts) /\ Len(ts) \in Nat
  BY DEF Armed
<1>2. /\ more \in Seq(Limits) /\ DOMAIN more = 1..Len(ts) + 1
      /\ \A i \in 1..Len(ts) : more[i] = ts[i]
      /\ more[Len(ts) + 1] = t
  BY <1>1, AppendProperties
<1> HIDE DEF more
<1>3. \A i \in 1..Len(ts) : more[i].who # t.who
  BY <1>1, <1>2 DEF Watched
<1>4. \A j, k \in DOMAIN more : more[j].who = more[k].who => j = k
  BY <1>1, <1>2, <1>3 DEF Armed
<1>5. Watched(more) = Watched(ts) \cup {t.who}
  BY <1>1, <1>2 DEF Watched
<1> QED
  BY <1>2, <1>4, <1>5 DEF Armed, more

LEMMA DisarmOne ==
  ASSUME NEW ts, Armed(ts), NEW k \in DOMAIN ts
  PROVE  /\ Armed(RemoveAt(ts, k))
         /\ Watched(RemoveAt(ts, k)) = Watched(ts) \ {ts[k].who}
<1> DEFINE rest == RemoveAt(ts, k)
           was(i) == IF i < k THEN i ELSE i + 1
<1>1. ts \in Seq(Limits) /\ DOMAIN ts = 1..Len(ts) /\ Len(ts) \in Nat /\ k \in 1..Len(ts)
  BY DEF Armed
<1>2. /\ rest \in Seq(Limits) /\ DOMAIN rest = 1..Len(ts) - 1
      /\ \A i \in 1..Len(ts) - 1 : rest[i] = IF i < k THEN ts[i] ELSE ts[i + 1]
  BY <1>1, WithoutPlace
<1> HIDE DEF rest
<1>3. \A i \in DOMAIN rest : was(i) \in DOMAIN ts \ {k} /\ rest[i] = ts[was(i)]
  BY <1>1, <1>2
<1>4. ASSUME NEW i \in DOMAIN rest, NEW j \in DOMAIN rest, rest[i].who = rest[j].who
      PROVE  i = j
  <2>1. was(i) = was(j)
    BY <1>3, <1>4 DEF Armed
  <2> QED
    BY <1>2, <2>1
<1>5. ASSUME NEW j \in DOMAIN ts \ {k}
      PROVE  \E i \in DOMAIN rest : rest[i] = ts[j]
  <2>1. CASE j < k
    BY <1>1, <1>2, <2>1
  <2>2. CASE j > k
    <3>1. j - 1 \in DOMAIN rest /\ rest[j - 1] = ts[j]
      BY <1>1, <1>2, <2>2
    <3> QED
      BY <3>1
  <2> QED
    BY <1>1, <2>1, <2>2
<1>6. \A j \in DOMAIN ts \ {k} : ts[j].who # ts[k].who
  BY DEF Armed
<1>7. Watched(rest) = Watched(ts) \ {ts[k].who}
  <2>1. \A w : w \in Watched(rest) => \E j \in DOMAIN ts \ {k} : w = ts[j].who
    BY <1>3 DEF Watched
  <2>2. \A w : (\E j \in DOMAIN ts \ {k} : w = ts[j].who) => w \in Watched(rest)
    BY <1>5 DEF Watched
  <2>3. \A w : w \in Watched(ts) \ {ts[k].who} <=> \E j \in DOMAIN ts \ {k} : w = ts[j].who
    BY <1>6 DEF Watched
  <2> QED
    BY <2>1, <2>2, <2>3
<1> QED
  BY <1>2, <1>4, <1>7 DEF Armed, rest

Running == {i \in DOMAIN runs : runs[i].status = "running"}

\* While the handler runs, and only then, each run under way has its limit.
LimitsArmed ==
    /\ Armed(timers)
    /\ pc = "busy" => Watched(timers) \cap DOMAIN runs = Running
    /\ pc # "busy" => timers = << >>

TInv ==
    /\ AInv
    /\ LimitsArmed
    /\ via \in {"direct", "otp"}
    /\ pc \in {"start", "busy", "over"}
    /\ reply \in {"none", "refused", "error", "timeout", "results"}
    /\ pc = "over" <=> reply # "none"
    /\ now \in 0..MaxTime

LEMMA NoLimits == Armed(<< >>) /\ Watched(<< >>) = {}
  BY EmptySeq DEF Armed, Watched

LEMMA LimitsTyped ==
  ASSUME line \in Lines
  PROVE  Limit \in Nat /\ RunLimit \in Nat
  BY LimitAssumption DEF Limit, RunLimit

LEMMA InitTInv == Init => TInv
<1> SUFFICES ASSUME Init PROVE TInv
  OBVIOUS
<1>1. now \in 0..MaxTime
  BY LimitAssumption DEF Init
<1> QED
  BY <1>1, InitAsked, NoLimits DEF Init, TInv, LimitsArmed

\* One run's status changes; its limit is armed, or disarmed, or it had none.
LEMMA LimitOf ==
  ASSUME LimitsArmed, pc = "busy", pc' = "busy", runs \in Seq([host : Named, status : Status]),
         NEW i \in DOMAIN runs, NEW status \in Status, Becoming(i, status),
         \/ /\ status = "running" /\ runs[i].status # "running"
            /\ \E t \in Limits : t.who = i /\ timers' = Append(timers, t)
         \/ status # "running" /\ Disarm(i)
         \/ status # "running" /\ runs[i].status # "running" /\ UNCHANGED timers
  PROVE  LimitsArmed'
<1>1. Armed(timers) /\ Watched(timers) \cap DOMAIN runs = Running /\ DOMAIN runs' = DOMAIN runs
  BY DEF LimitsArmed, Becoming
<1>2. Running' = IF status = "running" THEN Running \cup {i} ELSE Running \ {i}
  BY DEF Running, Becoming
<1>3. CASE /\ status = "running" /\ runs[i].status # "running"
           /\ \E t \in Limits : t.who = i /\ timers' = Append(timers, t)
  <2>1. PICK t \in Limits : t.who = i /\ timers' = Append(timers, t)
    BY <1>3
  <2>2. i \notin Watched(timers)
    BY <1>1, <1>3 DEF Running
  <2>3. Armed(timers') /\ Watched(timers') = Watched(timers) \cup {i}
    BY <1>1, <2>1, <2>2, ArmOne
  <2> QED
    BY <1>1, <1>2, <1>3, <2>3 DEF LimitsArmed
<1>4. CASE status # "running" /\ Disarm(i)
  <2>1. PICK k \in DOMAIN timers : timers[k].who = i /\ timers' = RemoveAt(timers, k)
    BY <1>4 DEF Disarm
  <2>2. Armed(timers') /\ Watched(timers') = Watched(timers) \ {i}
    BY <1>1, <2>1, DisarmOne
  <2> QED
    BY <1>1, <1>2, <1>4, <2>2 DEF LimitsArmed
<1>5. CASE status # "running" /\ runs[i].status # "running" /\ UNCHANGED timers
  <2>1. Running' = Running
    BY <1>2, <1>5 DEF Running
  <2> QED
    BY <1>1, <1>5, <2>1 DEF LimitsArmed
<1> QED
  BY <1>3, <1>4, <1>5

LEMMA StartLimits ==
  ASSUME TInv, AInv', Start
  PROVE  LimitsArmed'
<1>1. CASE Targets = << >>
  BY <1>1, NoLimits DEF Start, TInv, LimitsArmed
<1>2. CASE Targets # << >>
  <2>1. pc' = "busy" /\ timers' = Around
    BY <1>2 DEF Start
  <2>2. Running' = {}
    BY <1>2 DEF Start, Running
  <2>3. DOMAIN runs' \subseteq Nat \ {0}
    BY DEF AInv
  <2>4. Limit \in Nat /\ ShortLimit \in Nat /\ now \in Int
    BY LimitsTyped, LimitAssumption DEF TInv, AInv, IInv, Shape
  <2> DEFINE a == Timer(ShortLimit, Otp)
             b == Timer(Limit, Command)
  <2>5. a \in Limits /\ b \in Limits /\ a.who = -1 /\ b.who = 0
    BY <2>4 DEF Timer, Limits, Otp, Command
  <2> HIDE DEF a, b
  <2>6. Armed(<<b>>) /\ Watched(<<b>>) = {0}
    BY <2>5 DEF Armed, Watched
  <2>8. Armed(<<a, b>>) /\ Watched(<<a, b>>) = {-1, 0}
    <3>1. DOMAIN <<a, b>> = {1, 2} /\ <<a, b>>[1] = a /\ <<a, b>>[2] = b
      OBVIOUS
    <3>2. <<a, b>> \in Seq(Limits)
      BY <2>5
    <3> QED
      BY <2>5, <3>1, <3>2 DEF Armed, Watched
  <2>9. timers' \in {<<a, b>>, <<b>>}
    BY <2>1 DEF Around, a, b
  <2>10. Armed(timers') /\ Watched(timers') \subseteq {-1, 0}
    BY <2>6, <2>8, <2>9
  <2> QED
    BY <2>1, <2>2, <2>3, <2>10 DEF LimitsArmed
<1> QED
  BY <1>1, <1>2

LEMMA StepTInv == TInv /\ [Next]_vars => TInv'
<1> SUFFICES ASSUME TInv, [Next]_vars
             PROVE  TInv'
  OBVIOUS
<1>1. AInv' /\ AInv /\ Shape /\ LimitsArmed /\ runs \in Seq([host : Named, status : Status])
  BY StepAsked DEF TInv, AInv, IInv
<1>2. MaxTime \in Nat /\ now \in 0..MaxTime
  BY LimitAssumption DEF TInv
<1>3. CASE Start
  BY <1>1, <1>3, StartLimits DEF Start, TInv
<1>4. ASSUME NEW i \in DOMAIN runs, Opened(i) \/ OpenFails(i) \/ Ended(i) \/ Stopped(i)
      PROVE  TInv'
  <2>1. CASE Opened(i)
    <3>1. Becoming(i, "running") /\ "running" \in Status
      BY <1>1, <2>1, RunBecomes DEF Opened, Status
    <3>2. Timer(RunLimit, i) \in Limits /\ Timer(RunLimit, i).who = i
      BY <1>1, <1>2, LimitsTyped DEF Timer, Limits, Shape
    <3> QED
      BY <1>1, <2>1, <3>1, <3>2, LimitOf DEF Opened, TInv
  <2>2. CASE OpenFails(i)
    <3>1. Becoming(i, "failed") /\ "failed" \in Status
      BY <1>1, <2>2, RunBecomes DEF OpenFails, Status, Finished
    <3>2. CASE Remote
      BY <1>1, <2>2, <3>1, <3>2, LimitOf DEF OpenFails, TInv
    <3>3. CASE ~Remote
      BY <1>1, <2>2, <3>3, NoLimits DEF OpenFails, TInv, LimitsArmed
    <3> QED
      BY <3>2, <3>3
  <2>3. CASE Ended(i)
    <3>1. Becoming(i, "ended") /\ "ended" \in Status
      BY <1>1, <2>3, RunBecomes DEF Ended, Status, Finished
    <3> QED
      BY <1>1, <2>3, <3>1, LimitOf DEF Ended, TInv
  <2>4. CASE Stopped(i)
    <3>1. Becoming(i, "timeout") /\ "timeout" \in Status
      BY <1>1, <2>4, RunBecomes DEF Stopped, Status, Finished
    <3> QED
      BY <1>1, <2>4, <3>1, LimitOf DEF Stopped, TInv
  <2> QED
    BY <1>4, <2>1, <2>2, <2>3, <2>4
<1>5. ASSUME NEW k \in DOMAIN timers, TimesOut(k)
      PROVE  TInv'
  <2> DEFINE i == timers[k].who
  <2>1. i \in DOMAIN runs /\ Becoming(i, "stopping") /\ "stopping" \in Status
    BY <1>1, <1>5, RunBecomes DEF TimesOut, Status
  <2> QED
    BY <1>1, <1>5, <2>1, LimitOf DEF TimesOut, TInv
<1>6. CASE Answer \/ \E k \in DOMAIN timers : Cut(k)
  BY <1>1, <1>6, NoLimits DEF Answer, Cut, TInv, LimitsArmed
<1>7. CASE UNCHANGED <<via, pc, runs, timers, reply>> /\ now' \in 0..MaxTime
  BY <1>1, <1>7 DEF TInv, LimitsArmed, Running
<1>8. CASE Tick \/ (\E i \in DOMAIN runs : LeftEnds(i)) \/ UNCHANGED vars
  BY <1>2, <1>7, <1>8 DEF Tick, LeftEnds, vars
<1> QED
  BY <1>3, <1>4, <1>5, <1>6, <1>8 DEF Next

-----------------------------------------------------------------------------

\* A command that is answered with results (dispatcher.py, dispatch; service.py and
\* connectors/local.py, execute) has left no process and no channel behind, and a
\* privileged one on a host is on record with its outcome.
THEOREM AnswersComplete == Spec => []AnsweredInFull
<1>1. IInv => AnsweredInFull
  BY DEF IInv, RunsAlive, OnRecord, AnsweredInFull, AllDone
<1> QED
  BY <1>1, InitInv, StepInv, PTL DEF Spec

\* Nothing reaches a host that is not in config.hosts (service.py, _run_fan_out and
\* _run_single_host; ssh.py, install).
THEOREM OnlyConfigured == Spec => []Configured
<1>1. IInv => Configured
  BY DEF IInv
<1> QED
  BY <1>1, InitInv, StepInv, PTL DEF Spec

\* The command keeps its shape, and its limits are armed exactly while they should be
\* (dispatcher.py, dispatch; connectors/local.py, execute; connectors/ssh.py, execute):
\* one for each run under way, none once the command is over.
THEOREM TypeCorrect == Spec => []TypeOK
<1>1. TInv => TypeOK
  <2> SUFFICES ASSUME TInv PROVE TypeOK
    OBVIOUS
  <2>1. /\ line \in Lines /\ alive \subseteq DOMAIN runs
        /\ runs \in Seq([host : Named, status : Status])
    BY DEF TInv, AInv, IInv, Shape, RunsAlive
  <2>2. pc = "busy" => \A i \in DOMAIN runs :
                          (\E k \in DOMAIN timers : timers[k].who = i)
                              <=> runs[i].status = "running"
    BY DEF TInv, LimitsArmed, Watched, Running
  <2> QED
    BY <2>1, <2>2 DEF TInv, LimitsArmed, TypeOK, Named
<1> QED
  BY <1>1, InitTInv, StepTInv, PTL DEF Spec

\* What runs is what the line asks for (service.py, _parse_host_flag and
\* _run_single_host; ssh.py, install): an action that is not on the safe list on the
\* one host behind its --host, a command of /ssh only where that host allows it.
THEOREM AsAsked == Spec => []RunsAsAsked
<1>1. AInv => RunsAsAsked
  BY SingleAsked, SshAsked DEF AInv, IInv, Configured, RunsAsAsked
<1> QED
  BY <1>1, InitAsked, StepAsked, PTL DEF Spec

-----------------------------------------------------------------------------
(* SshPool                                                                       *)

USE PoolAssumption

\* The part of the tasks' shape that does not depend on the queue for the lock:
\* one task at a time is inside the critical section.
PoolShape ==
    /\ clock \in Nat
    /\ conns \in Seq(BOOLEAN)
    /\ cached \in 0..Len(conns)
    /\ holder \in Task \cup {NoTask}
    /\ task \in [Task -> TaskState]
    /\ \A t \in Task : task[t].pc \in {"refresh", "dial", "close"} <=> holder = t

\* Whoever dials does so with an empty cache, and whoever waits for a connection
\* to close has marked it closed.
EmptyWhileDialling ==
    \A t \in Task :
        /\ task[t].pc = "dial" => cached = 0
        /\ task[t].pc \in {"refresh", "close"} /\ cached # 0 => ~conns[cached]

PoolInv == PoolShape /\ OpenIsCached /\ EmptyWhileDialling

-----------------------------------------------------------------------------

LEMMA PoolInitInv == PoolInit => PoolInv
  BY DEF PoolInit, PoolInv, PoolShape, OpenIsCached, EmptyWhileDialling, TaskState, Idle, PC, Task

\* Steps that open, close and cache nothing keep everything but the tasks.
LEMMA QueueInv ==
  ASSUME PoolInv, NEW t \in Task,
         \/ Execute(t) \/ TakeCached(t) \/ RunEnds(t) \/ RunTimesOut(t)
         \/ CloseAll \/ PoolTick
  PROVE  PoolInv'
<1> USE DEF PoolInv, PoolShape, OpenIsCached, EmptyWhileDialling, TaskState, PC, Task
<1>1. CASE Execute(t)
  BY <1>1 DEF Execute, Goes
<1>2. CASE TakeCached(t)
  BY <1>2 DEF TakeCached
<1>3. CASE RunEnds(t)
  BY <1>3 DEF RunEnds, Ends, Idle
<1>4. CASE RunTimesOut(t)
  BY <1>4 DEF RunTimesOut, Goes
<1>5. CASE CloseAll
  BY <1>5 DEF CloseAll, Goes
<1>6. CASE PoolTick
  BY <1>6 DEF PoolTick
<1> QED
  BY <1>1, <1>2, <1>3, <1>4, <1>5, <1>6

\* The lock is taken by a task that finds it free.
LEMMA EnterInv ==
  ASSUME PoolInv, NEW t \in Task, Refresh(t) \/ Dial(t) \/ Close(t)
  PROVE  PoolInv'
<1> USE DEF PoolInv, PoolShape, OpenIsCached, EmptyWhileDialling, TaskState, PC, Task, Enters
<1>1. CASE Refresh(t)
  BY <1>1 DEF Refresh, MarkClosed
<1>2. CASE Dial(t)
  BY <1>2 DEF Dial
<1>3. CASE Close(t)
  <2>1. /\ task[t].pc = "want_close" /\ holder = NoTask
        /\ UNCHANGED <<clock, cached, openedAt, calls>>
        /\ IF cached = 0
           THEN task' = [task EXCEPT ![t] = Idle] /\ UNCHANGED <<conns, holder>>
           ELSE /\ conns' = [conns EXCEPT ![cached] = FALSE]
                /\ task' = [task EXCEPT ![t].pc = "close"] /\ holder' = t
    BY <1>3 DEF Close, MarkClosed, Goes, Ends
  <2>2. CASE cached = 0
    BY <2>1, <2>2 DEF Idle
  <2>3. CASE cached # 0
    <3> HIDE DEF EmptyWhileDialling, Enters, OpenIsCached
    <3>1. conns' \in Seq(BOOLEAN) /\ Len(conns') = Len(conns)
      <4>1. cached \in 1..Len(conns) /\ conns \in Seq(BOOLEAN) /\ FALSE \in BOOLEAN
        BY <2>3
      <4>2. conns' = [conns EXCEPT ![cached] = FALSE]
        BY <2>1, <2>3
      <4> HIDE DEF PoolShape, PoolInv
      <4> QED
        BY <4>1, <4>2, ExceptSeq, Zenon
    <3>2. [task[t] EXCEPT !.pc = "close"] \in TaskState
      OBVIOUS
    <3>3. task' = [task EXCEPT ![t] = [task[t] EXCEPT !.pc = "close"]]
      BY <2>1, <2>3
    <3>4. task' \in [Task -> TaskState]
      BY <3>2, <3>3
    <3>5. \A u \in Task : task'[u].pc \in {"refresh", "dial", "close"} <=> holder' = u
      BY <2>1, <2>3
    <3>6. PoolShape'
      BY <2>1, <3>1, <3>4, <3>5, <2>3
    <3>7. OpenIsCached' /\ EmptyWhileDialling'
      BY <2>1, <2>3, <3>6 DEF OpenIsCached, EmptyWhileDialling
    <3> QED
      BY <3>6, <3>7
  <2> QED
    BY <2>2, <2>3
<1> QED
  BY <1>1, <1>2, <1>3

\* Inside the critical section, and out of it.
LEMMA HolderInv ==
  ASSUME PoolInv, NEW t \in Task,
         Refreshed(t) \/ Dialled(t) \/ DialFails(t) \/ Closed(t) \/ Cancel(t)
  PROVE  PoolInv'
<1> USE DEF PoolInv, PoolShape, OpenIsCached, EmptyWhileDialling, TaskState, PC, Task
<1>1. CASE Refreshed(t)
  BY <1>1, SMTT(30) DEF Refreshed, Forget, Goes
<1>2. CASE Dialled(t)
  BY <1>2 DEF Dialled
<1>3. CASE DialFails(t)
  BY <1>3 DEF DialFails, Ends, Idle
<1>4. CASE Closed(t)
  BY <1>4 DEF Closed, Forget, Ends, Idle
<1>5. CASE Cancel(t)
  BY <1>5 DEF Cancel, Ends, Idle
<1> QED
  BY <1>1, <1>2, <1>3, <1>4, <1>5

LEMMA PoolStepInv == PoolInv /\ [PoolNext]_poolVars => PoolInv'
<1> SUFFICES ASSUME PoolInv, [PoolNext]_poolVars PROVE PoolInv'
  OBVIOUS
<1>1. CASE UNCHANGED poolVars
  BY <1>1 DEF poolVars, PoolInv, PoolShape, OpenIsCached, EmptyWhileDialling
<1>2. CASE PoolNext
  BY <1>2, QueueInv, EnterInv, HolderInv DEF PoolNext, Proceed, Task
<1> QED
  BY <1>1, <1>2

-----------------------------------------------------------------------------
(* The line for the lock. *)

\* Everybody in S stands in line, once, and nobody else.
Lined(queue, S) ==
    /\ queue \in Seq(Task)
    /\ \A i, j \in DOMAIN queue : queue[i] = queue[j] => i = j
    /\ \A t \in Task : (\E i \in DOMAIN queue : queue[i] = t) <=> t \in S

LEMMA JoinLine ==
  ASSUME NEW queue, NEW S, Lined(queue, S), NEW t \in Task, t \notin S
  PROVE  Lined(Append(queue, t), S \cup {t})
<1> DEFINE longer == Append(queue, t)
<1>1. queue \in Seq(Task) /\ DOMAIN queue = 1..Len(queue) /\ Len(queue) \in Nat
  BY DEF Lined
<1>2. /\ longer \in Seq(Task) /\ DOMAIN longer = 1..Len(queue) + 1
      /\ \A i \in 1..Len(queue) : longer[i] = queue[i]
      /\ longer[Len(queue) + 1] = t
  BY <1>1, AppendProperties
<1> HIDE DEF longer
<1>3. \A i \in 1..Len(queue) : queue[i] # t
  BY <1>1 DEF Lined
<1>4. \A i, j \in DOMAIN longer : longer[i] = longer[j] => i = j
  BY <1>1, <1>2, <1>3 DEF Lined
<1>5. \A u \in Task : (\E i \in DOMAIN longer : longer[i] = u) <=> u \in S \cup {t}
  <2> TAKE u \in Task
  <2>1. (\E i \in DOMAIN longer : longer[i] = u)
           <=> u = t \/ (\E i \in DOMAIN queue : queue[i] = u)
    BY <1>1, <1>2
  <2> QED
    BY <2>1 DEF Lined
<1> QED
  BY <1>2, <1>4, <1>5 DEF Lined, longer

LEMMA LeaveLine ==
  ASSUME NEW queue, NEW S, Lined(queue, S), queue # <<>>
  PROVE  Lined(Tail(queue), S \ {Head(queue)}) /\ Head(queue) \in S
<1> DEFINE rest == Tail(queue)
<1>1. queue \in Seq(Task) /\ DOMAIN queue = 1..Len(queue) /\ Len(queue) \in Nat \ {0}
      /\ Head(queue) = queue[1]
  BY DEF Lined
<1>2. /\ rest \in Seq(Task) /\ DOMAIN rest = 1..Len(queue) - 1
      /\ \A i \in 1..Len(queue) - 1 : rest[i] = queue[i + 1]
  BY <1>1, HeadTailProperties
<1> HIDE DEF rest
<1>3. ASSUME NEW i \in DOMAIN rest, NEW j \in DOMAIN rest, rest[i] = rest[j]
      PROVE  i = j
  <2>1. i + 1 \in DOMAIN queue /\ j + 1 \in DOMAIN queue /\ queue[i + 1] = queue[j + 1]
    BY <1>1, <1>2, <1>3
  <2> QED
    BY <1>2, <2>1 DEF Lined
<1>4. \A u \in Task : (\E i \in DOMAIN rest : rest[i] = u) <=> u \in S \ {Head(queue)}
  <2> TAKE u \in Task
  <2>1. ASSUME NEW i \in DOMAIN rest, rest[i] = u
        PROVE  u \in S \ {Head(queue)}
    <3>1. i + 1 \in DOMAIN queue /\ queue[i + 1] = u /\ 1 \in DOMAIN queue /\ i + 1 # 1
      BY <1>1, <1>2, <2>1
    <3> QED
      BY <1>1, <3>1 DEF Lined
  <2>2. ASSUME u \in S \ {Head(queue)}
        PROVE  \E i \in DOMAIN rest : rest[i] = u
    <3>1. PICK i \in DOMAIN queue : queue[i] = u
      BY <2>2 DEF Lined
    <3>2. i - 1 \in DOMAIN rest /\ rest[i - 1] = u
      BY <1>1, <1>2, <2>2, <3>1
    <3> QED
      BY <3>2
  <2> QED
    BY <2>1, <2>2
<1>5. Head(queue) \in S
  BY <1>1 DEF Lined
<1> QED
  BY <1>2, <1>3, <1>4, <1>5 DEF Lined, rest

\* The line without one that stands in it.
LEMMA QuitLine ==
  ASSUME NEW queue, NEW S, Lined(queue, S), NEW t \in Task
  PROVE  Lined(RemoveFirst(queue, t), S \ {t})
<1>1. queue \in Seq(Task) /\ DOMAIN queue = 1..Len(queue) /\ Len(queue) \in Nat
  BY DEF Lined
<1>2. CASE ~ \E i \in 1..Len(queue) : queue[i] = t
  BY <1>1, <1>2 DEF Lined, RemoveFirst
<1>3. CASE \E i \in 1..Len(queue) : queue[i] = t
  <2>1. PICK k \in 1..Len(queue) : queue[k] = t
    BY <1>3
  <2>2. {i \in 1..Len(queue) : queue[i] = t} = {k}
    BY <1>1, <2>1 DEF Lined
  <2>3. RemoveFirst(queue, t) = RemoveAt(queue, k)
    <3>1. Min({k}) = k
      BY DEF Min
    <3>2. SelectInSeq(queue, LAMBDA v : v = t) = k
      BY <2>2, <3>1 DEF SelectInSeq
    <3> QED
      BY <1>3, <3>2 DEF RemoveFirst
  <2> DEFINE rest == RemoveAt(queue, k)
  <2>4. /\ rest \in Seq(Task) /\ DOMAIN rest = 1..Len(queue) - 1
        /\ \A i \in 1..Len(queue) - 1 : rest[i] = IF i < k THEN queue[i] ELSE queue[i + 1]
    BY <1>1, WithoutPlace
  <2> HIDE DEF rest
  <2> DEFINE was(i) == IF i < k THEN i ELSE i + 1
  <2>5. \A i \in DOMAIN rest : /\ was(i) \in DOMAIN queue \ {k}
                               /\ rest[i] = queue[was(i)]
    BY <1>1, <2>4
  <2>7. ASSUME NEW i \in DOMAIN rest, NEW j \in DOMAIN rest, rest[i] = rest[j]
        PROVE  i = j
    <3>1. was(i) = was(j)
      BY <2>5, <2>7 DEF Lined
    <3> QED
      BY <2>4, <3>1
  <2>6. \A u \in Task : (\E i \in DOMAIN rest : rest[i] = u) <=> u \in S \ {t}
    <3> TAKE u \in Task
    <3>1. ASSUME NEW i \in DOMAIN rest, rest[i] = u
          PROVE  u \in S \ {t}
      <4>1. PICK j \in DOMAIN queue \ {k} : queue[j] = u
        BY <2>5, <3>1
      <4> QED
        BY <1>1, <2>1, <4>1 DEF Lined
    <3>2. ASSUME u \in S \ {t}
          PROVE  \E i \in DOMAIN rest : rest[i] = u
      <4>1. PICK j \in DOMAIN queue : queue[j] = u /\ j # k
        BY <2>1, <3>2 DEF Lined
      <4>2. CASE j < k
        BY <1>1, <2>4, <4>1, <4>2
      <4>3. CASE j > k
        <5>1. j - 1 \in DOMAIN rest /\ rest[j - 1] = u
          BY <1>1, <2>4, <4>1, <4>3
        <5> QED
          BY <5>1
      <4> QED
        BY <1>1, <4>1, <4>2, <4>3
    <3> QED
      BY <3>1, <3>2
  <2> QED
    BY <2>3, <2>4, <2>7, <2>6 DEF Lined, rest
<1> QED
  BY <1>2, <1>3

\* Every task that waits for the lock is in its line; a command runs on a connection
\* that was opened.
Waiting == {t \in Task : task[t].pc \in {"want_conn", "want_close"}}

LineInv ==
    /\ PoolInv
    /\ openedAt \in Int
    /\ calls \in Nat
    /\ Lined(waiters, Waiting)
    /\ \A t \in Task : task[t].pc = "run" => task[t].on \in DOMAIN conns

LEMMA InitLineInv == PoolInit => LineInv
<1> SUFFICES ASSUME PoolInit PROVE LineInv
  OBVIOUS
<1>1. Waiting = {}
  BY DEF PoolInit, Waiting, Idle
<1>2. Lined(waiters, {})
  BY EmptySeq DEF PoolInit, Lined
<1>3. \A t \in Task : task[t].pc = "idle"
  BY DEF PoolInit, Idle
<1> QED
  BY <1>1, <1>2, <1>3, PoolInitInv DEF PoolInit, LineInv

\* Nobody comes or goes.
LEMMA SameLine ==
  ASSUME LineInv, UNCHANGED waiters, Waiting' = Waiting
  PROVE  Lined(waiters, Waiting)'
  BY DEF LineInv, Lined

\* One task's program counter changes.
LEMMA OneMoves ==
  ASSUME task \in [Task -> TaskState], NEW t \in Task, NEW s \in TaskState,
         task' = [task EXCEPT ![t] = s]
  PROVE  /\ task'[t] = s
         /\ \A u \in Task \ {t} : task'[u] = task[u]
         /\ Waiting' = IF s.pc \in {"want_conn", "want_close"}
                       THEN Waiting \cup {t} ELSE Waiting \ {t}
  BY DEF Waiting

LEMMA EntersLine ==
  ASSUME LineInv, NEW t \in Task, Enters(t), Waiting' = Waiting \ {t}
  PROVE  Lined(waiters, Waiting)'
<1>1. Lined(Tail(waiters), Waiting \ {Head(waiters)})
  BY LeaveLine DEF LineInv, Enters
<1> QED
  BY <1>1 DEF Enters, Lined

LEMMA JoinsLine ==
  ASSUME LineInv, NEW t \in Task, t \notin Waiting, Joins(t), Waiting' = Waiting \cup {t}
  PROVE  Lined(waiters, Waiting)'
<1>1. Lined(Append(waiters, t), Waiting \cup {t})
  BY JoinLine DEF LineInv
<1> QED
  BY <1>1 DEF Joins, Lined

\* Where t goes, and whether it joins, leaves or has nothing to do with the line.
LEMMA MoveInv ==
  ASSUME LineInv, PoolInv', NEW t \in Task, NEW s \in TaskState,
         task' = [task EXCEPT ![t] = s],
         openedAt' \in Int, calls' \in Nat,
         s.pc = "run" => s.on \in DOMAIN conns',
         DOMAIN conns \subseteq DOMAIN conns',
         \/ /\ s.pc \in {"want_conn", "want_close"} /\ t \notin Waiting /\ Joins(t)
         \/ /\ s.pc \notin {"want_conn", "want_close"}
            /\ \/ Enters(t)
               \/ t \notin Waiting /\ UNCHANGED waiters
               \/ waiters' = RemoveFirst(waiters, t)
  PROVE  LineInv'
<1>1. task \in [Task -> TaskState]
  BY DEF LineInv, PoolInv, PoolShape
<1>2. /\ task'[t] = s
      /\ \A u \in Task \ {t} : task'[u] = task[u]
      /\ Waiting' = IF s.pc \in {"want_conn", "want_close"}
                    THEN Waiting \cup {t} ELSE Waiting \ {t}
  BY <1>1, OneMoves
<1>3. Lined(waiters, Waiting)'
  <2>1. CASE s.pc \in {"want_conn", "want_close"}
    BY <1>2, <2>1, JoinsLine
  <2>2. CASE s.pc \notin {"want_conn", "want_close"} /\ Enters(t)
    BY <1>2, <2>2, EntersLine
  <2>3. CASE s.pc \notin {"want_conn", "want_close"} /\ t \notin Waiting /\ UNCHANGED waiters
    BY <1>2, <2>3, SameLine
  <2>4. CASE s.pc \notin {"want_conn", "want_close"} /\ waiters' = RemoveFirst(waiters, t)
    <3>1. Lined(RemoveFirst(waiters, t), Waiting \ {t})
      BY QuitLine DEF LineInv
    <3> QED
      BY <1>2, <2>4, <3>1 DEF Lined
  <2> QED
    BY <2>1, <2>2, <2>3, <2>4
<1>4. \A u \in Task : task'[u].pc = "run" => task'[u].on \in DOMAIN conns'
  BY <1>2 DEF LineInv
<1> QED
  BY <1>3, <1>4 DEF LineInv

LEMMA StepLineInv == LineInv /\ [PoolNext]_poolVars => LineInv'
<1> SUFFICES ASSUME LineInv, [PoolNext]_poolVars PROVE LineInv'
  OBVIOUS
<1>1. /\ PoolInv' /\ PoolInv /\ task \in [Task -> TaskState] /\ conns \in Seq(BOOLEAN)
      /\ cached \in 0..Len(conns) /\ openedAt \in Int /\ calls \in Nat /\ clock \in Nat
  BY PoolStepInv DEF LineInv, PoolInv, PoolShape
<1>3. \A t \in Task, where \in PC : /\ [task[t] EXCEPT !.pc = where] \in TaskState
                                    /\ [task[t] EXCEPT !.pc = where].pc = where
  BY <1>1 DEF TaskState
<1>4. \A t \in Task, where \in PC : Goes(t, where) =>
         task' = [task EXCEPT ![t] = [task[t] EXCEPT !.pc = where]]
  BY DEF Goes
<1>5. Idle \in TaskState /\ Idle.pc = "idle"
  BY DEF Idle, TaskState, PC
<1>6. \A t \in Task : t \in Waiting <=> task[t].pc \in {"want_conn", "want_close"}
  BY DEF Waiting
<1>7. CASE UNCHANGED poolVars
  BY <1>1, <1>7 DEF LineInv, Waiting, Lined, poolVars
<1>8. ASSUME NEW t \in Task, Execute(t) \/ (t = Teardown /\ CloseAll)
      PROVE  LineInv'
  <2> DEFINE s(where) == [task[t] EXCEPT !.pc = where]
  <2>1. CASE Execute(t)
    <3>1. task' = [task EXCEPT ![t] = s("want_conn")] /\ s("want_conn") \in TaskState
          /\ s("want_conn").pc = "want_conn"
      BY <1>3, <1>4, <2>1 DEF Execute, PC
    <3>2. calls' \in Nat /\ DOMAIN conns' = DOMAIN conns /\ openedAt' = openedAt
          /\ task[t].pc = "idle" /\ Joins(t)
      BY <1>1, <2>1 DEF Execute
    <3> HIDE DEF s
    <3> QED
      BY <1>1, <1>6, <3>1, <3>2, MoveInv
  <2>2. CASE t = Teardown /\ CloseAll
    <3>1. task' = [task EXCEPT ![t] = s("want_close")] /\ s("want_close") \in TaskState
          /\ s("want_close").pc = "want_close"
      BY <1>3, <1>4, <2>2 DEF CloseAll, PC
    <3>2. calls' \in Nat /\ DOMAIN conns' = DOMAIN conns /\ openedAt' = openedAt
          /\ task[t].pc = "idle" /\ Joins(t)
      BY <1>1, <2>2 DEF CloseAll
    <3> HIDE DEF s
    <3> QED
      BY <1>1, <1>6, <3>1, <3>2, MoveInv
  <2> QED
    BY <1>8, <2>1, <2>2
<1>9. ASSUME NEW t \in Task, TakeCached(t) \/ Refresh(t) \/ Dial(t) \/ Close(t)
      PROVE  LineInv'
  <2>1. CASE TakeCached(t)
    <3> DEFINE s == [pc |-> "run", at |-> 0, on |-> cached]
    <3>1. s \in TaskState /\ s.pc = "run" /\ s.on \in DOMAIN conns'
      BY <1>1, <2>1 DEF TakeCached, Fresh, TaskState, PC
    <3> QED
      BY <1>1, <2>1, <3>1, MoveInv DEF TakeCached
  <2>2. CASE Refresh(t)
    <3> DEFINE s == [pc |-> "refresh", at |-> clock, on |-> 0]
    <3>1. s \in TaskState /\ s.pc = "refresh"
      BY <1>1 DEF TaskState, PC
    <3>2. DOMAIN conns' = DOMAIN conns
      BY <1>1, <2>2 DEF Refresh, MarkClosed
    <3> QED
      BY <1>1, <2>2, <3>1, <3>2, MoveInv DEF Refresh
  <2>3. CASE Dial(t)
    <3> DEFINE s == [pc |-> "dial", at |-> clock, on |-> 0]
    <3>1. s \in TaskState /\ s.pc = "dial"
      BY <1>1 DEF TaskState, PC
    <3> QED
      BY <1>1, <2>3, <3>1, MoveInv DEF Dial
  <2>4. CASE Close(t)
    <3> DEFINE s == IF cached = 0 THEN Idle ELSE [task[t] EXCEPT !.pc = "close"]
    <3>1. s \in TaskState /\ s.pc \in {"idle", "close"}
      BY <1>3, <1>5 DEF PC
    <3>2. DOMAIN conns' = DOMAIN conns
      BY <1>1, <2>4 DEF Close, MarkClosed
    <3>3. task' = [task EXCEPT ![t] = s]
      BY <1>4, <2>4 DEF Close, Ends, PC
    <3> HIDE DEF s
    <3> QED
      BY <1>1, <2>4, <3>1, <3>2, <3>3, MoveInv DEF Close
  <2> QED
    BY <1>9, <2>1, <2>2, <2>3, <2>4
<1>10. ASSUME NEW t \in Task,
              Refreshed(t) \/ Dialled(t) \/ DialFails(t) \/ RunEnds(t) \/ RunTimesOut(t) \/ Closed(t)
       PROVE  LineInv'
  <2>1. CASE Refreshed(t)
    <3> DEFINE s == [task[t] EXCEPT !.pc = "dial"]
    <3>1. s \in TaskState /\ s.pc = "dial" /\ task' = [task EXCEPT ![t] = s]
      BY <1>3, <1>4, <2>1 DEF Refreshed, PC
    <3>2. openedAt' \in Int /\ calls' = calls /\ conns' = conns /\ waiters' = waiters
          /\ task[t].pc = "refresh"
      BY <2>1 DEF Refreshed, Forget
    <3> HIDE DEF s
    <3> QED
      BY <1>1, <1>6, <3>1, <3>2, MoveInv
  <2>2. CASE Dialled(t)
    <3> DEFINE s == [pc |-> "run", at |-> 0, on |-> Len(conns) + 1]
    <3>1. s \in TaskState /\ s.pc = "run"
      BY <1>1 DEF TaskState, PC
    <3>2. DOMAIN conns \subseteq DOMAIN conns' /\ Len(conns) + 1 \in DOMAIN conns'
      BY <1>1, <2>2 DEF Dialled
    <3>3. openedAt' \in Int
      BY <1>1, <2>2 DEF Dialled, TaskState
    <3> QED
      BY <1>1, <1>6, <2>2, <3>1, <3>2, <3>3, MoveInv DEF Dialled
  <2>3. CASE DialFails(t)
    BY <1>1, <1>5, <1>6, <2>3, MoveInv DEF DialFails, Ends
  <2>4. CASE RunEnds(t)
    BY <1>1, <1>5, <1>6, <2>4, MoveInv DEF RunEnds, Ends
  <2>5. CASE RunTimesOut(t)
    <3> DEFINE s == [task[t] EXCEPT !.pc = "want_close"]
    <3>1. s \in TaskState /\ s.pc = "want_close" /\ task' = [task EXCEPT ![t] = s]
      BY <1>3, <1>4, <2>5 DEF RunTimesOut, PC
    <3> HIDE DEF s
    <3> QED
      BY <1>1, <1>6, <2>5, <3>1, MoveInv DEF RunTimesOut
  <2>6. CASE Closed(t)
    <3>1. openedAt' \in Int /\ calls' = calls /\ conns' = conns /\ waiters' = waiters
          /\ task[t].pc = "close" /\ task' = [task EXCEPT ![t] = Idle]
      BY <2>6 DEF Closed, Forget, Ends
    <3> QED
      BY <1>1, <1>5, <1>6, <3>1, MoveInv
  <2> QED
    BY <1>10, <2>1, <2>2, <2>3, <2>4, <2>5, <2>6
<1>11. ASSUME NEW t \in Task, Cancel(t)
       PROVE  LineInv'
  BY <1>1, <1>5, <1>11, MoveInv DEF Cancel, Ends
<1>12. CASE PoolTick
  BY <1>1, <1>12 DEF PoolTick, LineInv, Waiting, Lined
<1> QED
  BY <1>7, <1>8, <1>9, <1>10, <1>11, <1>12 DEF PoolNext, Proceed, Task

-----------------------------------------------------------------------------

\* The lock is held by the one task inside the critical section, and those that wait
\* for it are in its line once each (connectors/ssh.py, _dial_lock): no cancellation,
\* failed dial or close leaves it with a task that has gone.
THEOREM PoolTypeCorrect == PoolSpec => []PoolTypeOK
<1>1. LineInv => PoolTypeOK
  <2> SUFFICES ASSUME LineInv PROVE PoolTypeOK
    OBVIOUS
  <2>1. \A t \in Task : (\E i \in DOMAIN waiters : waiters[i] = t)
                           <=> task[t].pc \in {"want_conn", "want_close"}
    BY DEF LineInv, Lined, Waiting
  <2> QED
    BY <2>1 DEF LineInv, PoolInv, PoolShape, Lined, PoolTypeOK
<1> QED
  BY <1>1, InitLineInv, StepLineInv, PTL DEF PoolSpec

\* No connection leaks (connectors/ssh.py, _get_conn and _close_locked): one that
\* has not been closed is the cached one.
THEOREM NoLeak == PoolSpec => []OpenIsCached
<1>1. PoolInv => OpenIsCached
  BY DEF PoolInv
<1> QED
  BY <1>1, PoolInitInv, PoolStepInv, PTL DEF PoolSpec
=============================================================================
