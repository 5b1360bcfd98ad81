---------------------------- MODULE StorageProofs ----------------------------
(***************************************************************************)
(* The programs that share the SQLite file, for any users, settings,       *)
(* processes, releases and faults.  OtpLockout: a lockout is earned, only  *)
(* an unlock takes it away, and guessing stays slow whatever is cut short. *)
(* Migrator: a process that started has its whole schema, and the database *)
(* goes from one migration to the next.                                    *)
(***************************************************************************)
EXTENDS OtpLockout, Migrator, FiniteSetTheorems, SequenceTheorems, TLAPS

-----------------------------------------------------------------------------
(* OtpLockout. *)

\* Each of these rows is one of the first n of these guesses, no two the same one.
Matched(rows, all, n) ==
    \E f \in [1..Len(rows) -> 1..n] :
        /\ \A i, j \in 1..Len(rows) : i # j => f[i] # f[j]
        /\ \A i \in 1..Len(rows) : rows[i] = all[f[i]]

\* The last guess is not among the rows while its INSERT is still to come.
Adding(u) == bot.pc = "add_failure" /\ bot.user = u

Recorded(u) == IF Adding(u) THEN Len(guesses[u]) - 1 ELSE Len(guesses[u])

RowsAreGuesses == \A u \in User : Matched(failures[u], guesses[u], Recorded(u))

\* The handler's `now` is the time of its user's last guess.
InTime ==
    /\ \A u \in User : \A i \in 1..Len(guesses[u]) : guesses[u][i] <= now
    /\ bot.pc \in Counting =>
           \A i \in 1..Len(guesses[bot.user]) : guesses[bot.user][i] <= bot.at
    /\ bot.pc = "add_failure" =>
           LET all == guesses[bot.user] IN Len(all) # 0 /\ all[Len(all)] = bot.at

\* MaxFailures guesses within one window that ends at t.
Enough(all, t) ==
    Cardinality({i \in DOMAIN all : all[i] \in t - FailureWindow .. t}) >= MaxFailures

Earned ==
    /\ \A u \in User : lockouts[u] # 0 => Enough(guesses[u], lockouts[u] - LockoutTicks)
    /\ bot.pc = "set_lockout" => Enough(guesses[bot.user], bot.at)

IInv == Types /\ Unlocked /\ RowsAreGuesses /\ InTime /\ Earned

-----------------------------------------------------------------------------
(* Rows and guesses. *)

LEMMA Settings ==
  /\ MaxFailures \in Nat \ {0} /\ LockoutTicks \in Nat \ {0} /\ FailureWindow \in Nat \ {0}
  /\ NoUser \notin User
  BY LockoutAssumption

LEMMA NoRows ==
  ASSUME NEW all, NEW n \in Nat
  PROVE  Matched(<<>>, all, n)
<1>1. Len(<<>>) = 0 /\ 1..0 = {}
  BY EmptySeq
<1>2. [i \in {} |-> 1] \in [{} -> 1..n]
  OBVIOUS
<1> QED
  BY <1>1, <1>2 DEF Matched

\* More guesses do not unmatch a row.
LEMMA RowsKept ==
  ASSUME NEW rows \in Seq(Nat), NEW all, NEW more, NEW n \in Nat, NEW m \in Nat,
         n <= m, \A i \in 1..n : more[i] = all[i], Matched(rows, all, n)
  PROVE  Matched(rows, more, m)
<1>1. PICK f \in [1..Len(rows) -> 1..n] :
           /\ \A i, j \in 1..Len(rows) : i # j => f[i] # f[j]
           /\ \A i \in 1..Len(rows) : rows[i] = all[f[i]]
  BY DEF Matched
<1>2. 1..n \subseteq 1..m
  OBVIOUS
<1>3. f \in [1..Len(rows) -> 1..m]
  BY <1>2
<1>4. \A i \in 1..Len(rows) : rows[i] = more[f[i]]
  BY <1>1
<1> QED
  BY <1>1, <1>3, <1>4 DEF Matched

LEMMA RowsStand ==
  ASSUME NEW rows \in Seq(Nat), NEW all \in Seq(Nat), NEW x \in Nat,
         Matched(rows, all, Len(all))
  PROVE  Matched(rows, Append(all, x), Len(all))
<1> DEFINE more == Append(all, x)  n == Len(all)
<1>1. n \in Nat /\ n <= n /\ \A i \in 1..n : more[i] = all[i]
  OBVIOUS
<1> HIDE DEF more
<1>2. Matched(rows, more, n)
  BY <1>1, RowsKept
<1> QED
  BY <1>2 DEF more

\* The INSERT matches the guess that was left over.
LEMMA RowAdded ==
  ASSUME NEW rows \in Seq(Nat), NEW all \in Seq(Nat), Len(all) # 0,
         Matched(rows, all, Len(all) - 1)
  PROVE  Matched(Append(rows, all[Len(all)]), all, Len(all))
<1> DEFINE n == Len(rows)  m == Len(all)  new == Append(rows, all[m])
<1>1. PICK f \in [1..n -> 1..m - 1] :
           /\ \A i, j \in 1..n : i # j => f[i] # f[j]
           /\ \A i \in 1..n : rows[i] = all[f[i]]
  BY DEF Matched
<1>2. n \in Nat /\ m \in Nat \ {0} /\ all[m] \in Nat
  OBVIOUS
<1>3. Len(new) = n + 1 /\ new[n + 1] = all[m] /\ \A i \in 1..n : new[i] = rows[i]
  BY <1>2
<1> DEFINE g == [i \in 1..n + 1 |-> IF i = n + 1 THEN m ELSE f[i]]
<1> HIDE DEF n, m, new
<1>4. g \in [1..n + 1 -> 1..m]
  BY <1>2
<1>5. \A i, j \in 1..n + 1 : i # j => g[i] # g[j]
  BY <1>1, <1>2
<1>6. \A i \in 1..n + 1 : new[i] = all[g[i]]
  BY <1>1, <1>2, <1>3
<1> HIDE DEF g
<1> DEFINE Fits(k) == \E h \in [1..k -> 1..m] :
                          /\ \A i, j \in 1..k : i # j => h[i] # h[j]
                          /\ \A i \in 1..k : new[i] = all[h[i]]
<1>7. Fits(n + 1)
  BY <1>4, <1>5, <1>6, Zenon
<1>8. Matched(new, all, m) <=> Fits(Len(new))
  BY Zenon DEF Matched
<1> HIDE DEF Fits
<1> QED
  BY <1>3, <1>7, <1>8 DEF new, m

\* What the SELECT counts are guesses inside the window.
LEMMA CountedGuesses ==
  ASSUME NEW rows \in Seq(Nat), NEW all \in Seq(Nat), NEW n \in 0..Len(all),
         NEW t \in Nat, NEW w \in Nat, Matched(rows, all, n),
         \A i \in 1..Len(all) : all[i] <= t
  PROVE  CountSince(rows, t - w) <= Cardinality({i \in DOMAIN all : all[i] \in t - w .. t})
<1>0. PICK f \in [1..Len(rows) -> 1..n] :
           /\ \A i, j \in 1..Len(rows) : i # j => f[i] # f[j]
           /\ \A i \in 1..Len(rows) : rows[i] = all[f[i]]
  BY DEF Matched
<1> DEFINE S == {i \in DOMAIN rows : rows[i] >= t - w}
           T == {i \in DOMAIN all : all[i] \in t - w .. t}
           g == [i \in S |-> f[i]]
<1>1. IsFiniteSet(T)
  BY FS_Interval, FS_Subset
<1>2. ASSUME NEW i \in S
      PROVE  g[i] \in T /\ i \in 1..Len(rows)
  <2>1. i \in 1..Len(rows) /\ rows[i] = all[f[i]] /\ f[i] \in 1..n /\ rows[i] \in Nat
    BY <1>0
  <2>2. f[i] \in 1..Len(all) /\ all[f[i]] \in Nat /\ all[f[i]] <= t
    BY <2>1
  <2> QED
    BY <2>1, <2>2
<1>3. g \in [S -> T]
  BY <1>2
<1>4. ASSUME NEW i \in S, NEW j \in S, g[i] = g[j]
      PROVE  i = j
  <2>1. f[i] = f[j]
    BY <1>4
  <2> QED
    BY <1>0, <1>2, <2>1
<1> HIDE DEF S, T, g
<1>5. g \in Injection(S, T)
  BY <1>3, <1>4 DEF Injection, IsInjective
<1>6. Cardinality(S) <= Cardinality(T)
  BY <1>1, <1>5, FS_Injection
<1> QED
  BY <1>6 DEF CountSince, S, T

LEMMA RowSets ==
  ASSUME NEW s \in Seq(Nat), NEW S \in SUBSET DOMAIN s
  PROVE  IsFiniteSet(S) /\ Cardinality(S) \in Nat
<1>1. IsFiniteSet(1..Len(s)) /\ S \subseteq 1..Len(s)
  BY FS_Interval
<1> QED
  BY <1>1, FS_Subset, FS_CardinalityType

\* Once the rows reach the limit, so do the guesses.
LEMMA LimitIsEarned ==
  ASSUME NEW rows \in Seq(Nat), NEW all \in Seq(Nat), NEW t \in Nat,
         Matched(rows, all, Len(all)), \A i \in 1..Len(all) : all[i] <= t,
         ~(CountSince(rows, t - FailureWindow) < MaxFailures)
  PROVE  Enough(all, t)
<1> DEFINE S == {i \in DOMAIN rows : rows[i] >= t - FailureWindow}
           T == {i \in DOMAIN all : all[i] \in t - FailureWindow .. t}
<1>1. Len(all) \in 0..Len(all) /\ FailureWindow \in Nat
  BY Settings
<1>2. CountSince(rows, t - FailureWindow) <= Cardinality(T)
  BY <1>1, CountedGuesses
<1>3. Cardinality(S) \in Nat /\ Cardinality(T) \in Nat
  <2>1. S \subseteq DOMAIN rows /\ T \subseteq DOMAIN all
    OBVIOUS
  <2> HIDE DEF S, T
  <2> QED
    BY <2>1, RowSets
<1>4. CountSince(rows, t - FailureWindow) = Cardinality(S)
  BY DEF CountSince
<1>5. Cardinality(T) >= MaxFailures
  BY <1>2, <1>3, <1>4, Settings
<1> QED
  BY <1>5 DEF Enough

\* Another guess does not make them fewer.
LEMMA EnoughStays ==
  ASSUME NEW all \in Seq(Nat), NEW x \in Nat, NEW t \in Int, Enough(all, t)
  PROVE  Enough(Append(all, x), t)
<1> DEFINE in(s) == {i \in DOMAIN s : s[i] \in t - FailureWindow .. t}
<1>1. in(all) \subseteq in(Append(all, x))
  OBVIOUS
<1>2. IsFiniteSet(in(Append(all, x)))
  <2>1. 1 \in Int /\ Len(all) + 1 \in Int /\ in(Append(all, x)) \subseteq 1..Len(all) + 1
    OBVIOUS
  <2>2. IsFiniteSet(1..Len(all) + 1)
    BY <2>1, FS_Interval
  <2> QED
    BY <2>1, <2>2, FS_Subset
<1>3. IsFiniteSet(in(all))
  BY <1>1, <1>2, FS_Subset
<1> HIDE DEF in
<1>4. Cardinality(in(all)) <= Cardinality(in(Append(all, x)))
  BY <1>1, <1>2, FS_Subset
<1>5. Cardinality(in(all)) \in Nat /\ Cardinality(in(Append(all, x))) \in Nat
  BY <1>2, <1>3, FS_CardinalityType
<1>6. Cardinality(in(all)) >= MaxFailures
  BY DEF Enough, in
<1>7. Cardinality(in(Append(all, x))) >= MaxFailures
  BY <1>4, <1>5, <1>6, Settings
<1> QED
  BY <1>7 DEF Enough, in

-----------------------------------------------------------------------------
(* Each part of the invariant is kept by every step. *)

BotPrograms == [pc : BotStatement, user : User \cup {NoUser}, at : Nat]

\* What an action makes of the handler's program.
Moves ==
    /\ \A s \in BotStatement : BotGoes(s) =>
           bot' \in BotPrograms /\ bot'.pc = s /\ bot'.user = bot.user /\ bot'.at = bot.at
    /\ \A u \in User, s \in BotStatement : Serve(u, s) =>
           bot' \in BotPrograms /\ bot'.pc = s /\ bot'.user = u
    /\ bot' = BotIdle => bot' \in BotPrograms /\ bot'.pc = "idle"
    /\ bot' = [bot EXCEPT !.pc = "add_failure", !.at = now] =>
           /\ bot' \in BotPrograms
           /\ bot'.pc = "add_failure" /\ bot'.user = bot.user /\ bot'.at = now

LEMMA MovesHold ==
  ASSUME Types
  PROVE  Moves
<1>1. bot \in BotPrograms /\ now \in Nat
  BY DEF Types, BotPrograms
<1>2. "add_failure" \in BotStatement /\ "idle" \in BotStatement
  BY DEF BotStatement
<1>3. ASSUME NEW s \in BotStatement, BotGoes(s)
      PROVE  bot' \in BotPrograms /\ bot'.pc = s /\ bot'.user = bot.user /\ bot'.at = bot.at
  BY <1>1, <1>3 DEF BotPrograms, BotGoes
<1>4. ASSUME NEW u \in User, NEW s \in BotStatement, Serve(u, s)
      PROVE  bot' \in BotPrograms /\ bot'.pc = s /\ bot'.user = u
  BY <1>4 DEF BotPrograms, Serve
<1>5. bot' = BotIdle => bot' \in BotPrograms /\ bot'.pc = "idle"
  BY <1>2 DEF BotPrograms, BotIdle
<1>6. bot' = [bot EXCEPT !.pc = "add_failure", !.at = now] =>
           /\ bot' \in BotPrograms
           /\ bot'.pc = "add_failure" /\ bot'.user = bot.user /\ bot'.at = now
  BY <1>1, <1>2 DEF BotPrograms
<1> QED
  BY <1>3, <1>4, <1>5, <1>6 DEF Moves

LEMMA InitInv ==
  ASSUME Init
  PROVE  IInv
<1>1. Types
  <2>1. <<>> \in Seq(Nat)
    BY EmptySeq
  <2> QED
    BY <2>1, Settings DEF Init, Types, BotIdle, CliIdle, BotStatement, CliStatement
<1>2. Unlocked /\ Earned
  BY DEF Init, Unlocked, Earned, BotIdle, Counting
<1>3. RowsAreGuesses
  <2>1. \A u \in User : failures[u] = <<>> /\ Recorded(u) \in Nat
    BY EmptySeq DEF Init, Recorded, Adding, BotIdle
  <2> QED
    BY <2>1, NoRows DEF RowsAreGuesses
<1>4. InTime
  <2>1. \A u \in User : Len(guesses[u]) = 0
    BY EmptySeq DEF Init
  <2> QED
    BY <2>1 DEF Init, InTime, BotIdle, Counting
<1> QED
  BY <1>1, <1>2, <1>3, <1>4 DEF IInv

LEMMA TypeNext ==
  ASSUME Types, [Next]_vars
  PROVE  Types'
<1> USE MovesHold DEF Types, BotStatement, CliStatement, CliIdle, BotPrograms, Moves
<1>1. CASE Handler
  <2>1. CASE \E u \in User : Snapshot(u)
    BY <2>1, Settings DEF Snapshot
  <2>2. CASE ClearFailures
    BY <2>2, EmptySeq DEF ClearFailures
  <2>3. CASE ClearLockout
    BY <2>3 DEF ClearLockout
  <2>4. CASE NothingPending
    BY <2>4 DEF NothingPending
  <2>5. CASE RightCode
    BY <2>5 DEF RightCode
  <2>6. CASE WrongCode
    BY <2>6, SMTT(30) DEF WrongCode
  <2>7. CASE AddFailure
    BY <2>7 DEF AddFailure
  <2>8. CASE GetLockout
    BY <2>8 DEF GetLockout
  <2>9. CASE CountFailures
    BY <2>9 DEF CountFailures
  <2>10. CASE SetLockout
    <3>1. bot.at + LockoutTicks \in Nat
      BY Settings
    <3> QED
      BY <2>10, <3>1 DEF SetLockout
  <2> QED
    BY <1>1, <2>1, <2>2, <2>3, <2>4, <2>5, <2>6, <2>7, <2>8, <2>9, <2>10 DEF Handler
<1>2. CASE BotFault
  BY <1>2 DEF BotFault
<1>3. CASE Unlock
  <2>0. \A u \in User : <<>> \in Seq(Nat) /\ Len(guesses[u]) \in Nat
    BY EmptySeq
  <2>1. ASSUME NEW u \in User, UnlockFailures(u)
        PROVE  Types'
    BY <2>0, <2>1 DEF UnlockFailures
  <2>2. CASE UnlockLockout
    BY <2>0, <2>2, Settings DEF UnlockLockout
  <2> QED
    BY <1>3, <2>1, <2>2 DEF Unlock
<1>4. CASE CliFault
  BY <1>4, SMTT(30) DEF CliFault
<1>5. CASE Tick
  BY <1>5 DEF Tick
<1>6. CASE UNCHANGED vars
  BY <1>6 DEF vars
<1> QED
  BY <1>1, <1>2, <1>3, <1>4, <1>5, <1>6 DEF Next

LEMMA UnlockedNext ==
  ASSUME Types, Unlocked, [Next]_vars
  PROVE  Unlocked'
<1> USE MovesHold DEF Types, BotStatement, Moves, Unlocked, Counting
<1>1. CASE Handler
  <2>1. CASE \E u \in User : Snapshot(u)
    BY <2>1 DEF Snapshot
  <2>2. CASE ClearFailures
    BY <2>2 DEF ClearFailures
  <2>3. CASE ClearLockout
    BY <2>3 DEF ClearLockout
  <2>4. CASE NothingPending \/ RightCode \/ WrongCode
    BY <2>4 DEF NothingPending, RightCode, WrongCode
  <2>5. CASE AddFailure \/ GetLockout \/ CountFailures
    BY <2>5 DEF AddFailure, GetLockout, CountFailures
  <2>6. CASE SetLockout
    BY <2>6 DEF SetLockout
  <2> QED
    BY <1>1, <2>1, <2>2, <2>3, <2>4, <2>5, <2>6 DEF Handler
<1>2. CASE BotFault
  BY <1>2 DEF BotFault
<1>3. CASE Unlock
  BY <1>3, SMTT(30) DEF Unlock, UnlockFailures, UnlockLockout
<1>4. CASE CliFault
  BY <1>4 DEF CliFault
<1>5. CASE Tick
  BY <1>5 DEF Tick
<1>6. CASE UNCHANGED vars
  BY <1>6 DEF vars
<1> QED
  BY <1>1, <1>2, <1>3, <1>4, <1>5, <1>6 DEF Next

LEMMA InTimeNext ==
  ASSUME Types, InTime, [Next]_vars
  PROVE  InTime'
<1> USE MovesHold DEF Types, BotStatement, Moves, InTime, Counting
<1>1. CASE Handler
  <2>1. CASE \E u \in User : Snapshot(u)
    BY <2>1 DEF Snapshot
  <2>2. CASE ClearFailures
    BY <2>2 DEF ClearFailures
  <2>5. CASE ClearLockout
    BY <2>5 DEF ClearLockout
  <2>6. CASE NothingPending
    BY <2>6 DEF NothingPending
  <2>7. CASE RightCode
    BY <2>7 DEF RightCode
  <2>3. CASE WrongCode
    <3>1. guesses' = [guesses EXCEPT ![bot.user] = Append(guesses[bot.user], now)]
          /\ now' = now /\ bot'.at = now /\ bot'.user = bot.user /\ bot.user \in User
          /\ bot'.pc = "add_failure"
      BY <2>3 DEF WrongCode
    <3>2. \A u \in User : guesses'[u] = IF u = bot.user THEN Append(guesses[u], now)
                                       ELSE guesses[u]
      BY <3>1
    <3>3. \A s \in Seq(Nat), x \in Nat :
              /\ Len(Append(s, x)) = Len(s) + 1 /\ Len(s) \in Nat
              /\ Append(s, x)[Len(s) + 1] = x
              /\ \A i \in 1..Len(s) : Append(s, x)[i] = s[i]
      OBVIOUS
    <3>4. ASSUME NEW u \in User, NEW i \in 1..Len(guesses'[u])
          PROVE  guesses'[u][i] <= now
      <4>1. CASE u = bot.user
        <5>1. guesses'[u] = Append(guesses[u], now) /\ guesses[u] \in Seq(Nat)
          BY <3>2, <4>1
        <5>2. i \in 1..Len(guesses[u]) + 1
          BY <3>3, <3>4, <5>1
        <5> QED
          BY <3>3, <5>1, <5>2
      <4>2. CASE u # bot.user
        BY <3>2, <3>4, <4>2
      <4> QED
        BY <4>1, <4>2
    <3>5. LET all == guesses'[bot.user] IN Len(all) # 0 /\ all[Len(all)] = now
      BY <3>1, <3>2, <3>3
    <3> QED
      BY <3>1, <3>4, <3>5 DEF InTime
  <2>4. CASE AddFailure
    BY <2>4 DEF AddFailure
  <2>8. CASE GetLockout
    BY <2>8 DEF GetLockout
  <2>9. CASE CountFailures
    BY <2>9 DEF CountFailures
  <2>10. CASE SetLockout
    BY <2>10 DEF SetLockout
  <2> QED
    BY <1>1, <2>1, <2>2, <2>3, <2>4, <2>5, <2>6, <2>7, <2>8, <2>9, <2>10 DEF Handler
<1>2. CASE BotFault
  BY <1>2 DEF BotFault
<1>3. CASE Unlock
  <2>1. UNCHANGED <<now, bot, guesses>>
    BY <1>3 DEF Unlock, UnlockFailures, UnlockLockout
  <2> QED
    BY <2>1
<1>4. CASE CliFault
  BY <1>4 DEF CliFault
<1>5. CASE Tick
  BY <1>5 DEF Tick
<1>6. CASE UNCHANGED vars
  BY <1>6 DEF vars
<1> QED
  BY <1>1, <1>2, <1>3, <1>4, <1>5, <1>6 DEF Next

LEMMA EarnedNext ==
  ASSUME Types, RowsAreGuesses, InTime, Earned, [Next]_vars
  PROVE  Earned'
<1> USE MovesHold DEF BotStatement, Moves, Earned
<1>1. CASE Handler
  <2>1. CASE \E u \in User : Snapshot(u)
    BY <2>1 DEF Snapshot, Types
  <2>2. CASE ClearFailures \/ ClearLockout \/ NothingPending \/ RightCode
    BY <2>2 DEF ClearFailures, ClearLockout, NothingPending, RightCode, Types
  <2>3. CASE WrongCode
    <3>1. SUFFICES ASSUME NEW u \in User, lockouts[u] # 0
                   PROVE  Enough(guesses'[u], lockouts[u] - LockoutTicks)
      BY <2>3 DEF WrongCode, Types
    <3>2. Enough(guesses[u], lockouts[u] - LockoutTicks)
      BY <3>1
    <3>3. lockouts[u] - LockoutTicks \in Int /\ guesses[u] \in Seq(Nat) /\ now \in Nat
      BY Settings DEF Types
    <3>4. guesses'[u] \in {guesses[u], Append(guesses[u], now)}
      BY <2>3 DEF WrongCode, Types
    <3> QED
      BY <3>2, <3>3, <3>4, EnoughStays
  <2>4. CASE AddFailure \/ GetLockout
    BY <2>4 DEF AddFailure, GetLockout, Types
  <2>5. CASE CountFailures
    <3>1. CASE Count(bot.user) < MaxFailures
      BY <2>5, <3>1 DEF CountFailures, Types
    <3>2. CASE ~(Count(bot.user) < MaxFailures)
      <4> DEFINE all == guesses[bot.user]  rows == failures[bot.user]
      <4>1. bot.user \in User /\ rows \in Seq(Nat) /\ all \in Seq(Nat) /\ bot.at \in Nat
            /\ Len(all) \in 0..Len(all)
        BY <2>5 DEF CountFailures, Types
      <4>2. Matched(rows, all, Len(all)) /\ \A i \in 1..Len(all) : all[i] <= bot.at
        BY <2>5, <4>1 DEF CountFailures, RowsAreGuesses, Recorded, Adding, InTime, Counting
      <4>3. Enough(all, bot.at)
        BY <3>2, <4>1, <4>2, LimitIsEarned DEF Count
      <4> QED
        BY <2>5, <3>2, <4>3 DEF CountFailures, Types
    <3> QED
      BY <3>1, <3>2
  <2>6. CASE SetLockout
    <3>1. bot.at + LockoutTicks - LockoutTicks = bot.at
      BY Settings DEF Types
    <3>2. Enough(guesses[bot.user], bot.at) /\ guesses' = guesses /\ bot'.pc = "idle"
      BY <2>6 DEF SetLockout, Types
    <3>3. \A u \in User : lockouts'[u] =
              IF u = bot.user THEN bot.at + LockoutTicks ELSE lockouts[u]
      BY <2>6 DEF SetLockout, Types
    <3>4. ASSUME NEW u \in User, lockouts'[u] # 0
          PROVE  Enough(guesses[u], lockouts'[u] - LockoutTicks)
      <4>1. CASE u = bot.user
        <5>1. lockouts'[u] = bot.at + LockoutTicks
          BY <3>3, <4>1
        <5>2. lockouts'[u] - LockoutTicks = bot.at
          BY <3>1, <5>1, Settings DEF Types
        <5> QED
          BY <3>2, <4>1, <5>2
      <4>2. CASE u # bot.user
        <5>1. lockouts'[u] = lockouts[u]
          BY <3>3, <4>2
        <5> QED
          BY <3>4, <5>1
      <4> QED
        BY <4>1, <4>2
    <3> QED
      BY <3>2, <3>4
  <2> QED
    BY <1>1, <2>1, <2>2, <2>3, <2>4, <2>5, <2>6 DEF Handler
<1>2. CASE BotFault
  BY <1>2 DEF BotFault, Types
<1>3. CASE Unlock
  BY <1>3 DEF Unlock, UnlockFailures, UnlockLockout, Types
<1>4. CASE CliFault
  BY <1>4 DEF CliFault, Types
<1>5. CASE Tick
  BY <1>5 DEF Tick, Types
<1>6. CASE UNCHANGED vars
  BY <1>6 DEF vars, Types
<1> QED
  BY <1>1, <1>2, <1>3, <1>4, <1>5, <1>6 DEF Next

LEMMA RowsNext ==
  ASSUME Types, RowsAreGuesses, InTime, [Next]_vars
  PROVE  RowsAreGuesses'
<1>0. \A u \in User : failures[u] \in Seq(Nat) /\ guesses[u] \in Seq(Nat)
                      /\ Len(guesses[u]) \in Nat
  BY DEF Types
\* A row stays matched as long as no guess goes and no INSERT is begun anew.
<1>1. ASSUME NEW u \in User, guesses' = guesses, failures'[u] = failures[u],
             Adding(u)' => Adding(u)
      PROVE  Matched(failures'[u], guesses'[u], Recorded(u)')
  <2>1. Adding(u) => Len(guesses[u]) # 0
    BY DEF Adding, InTime
  <2>2. Recorded(u) \in Nat /\ Recorded(u)' \in Nat /\ Recorded(u) <= Recorded(u)'
    BY <1>0, <1>1, <2>1 DEF Recorded
  <2>3. Matched(failures[u], guesses[u], Recorded(u))
    BY DEF RowsAreGuesses
  <2>4. Matched(failures[u], guesses[u], Recorded(u)')
    BY <1>0, <2>2, <2>3, RowsKept
  <2> QED
    BY <1>1, <2>4
<1>2. ASSUME guesses' = guesses, failures' = failures, \A u \in User : Adding(u)' => Adding(u)
      PROVE  RowsAreGuesses'
  BY <1>1, <1>2 DEF RowsAreGuesses
<1>3. ASSUME NEW v \in User, guesses' = guesses,
             failures' = [failures EXCEPT ![v] = <<>>],
             \A u \in User : Adding(u)' => Adding(u)
      PROVE  RowsAreGuesses'
  <2>1. SUFFICES ASSUME NEW u \in User
                 PROVE  Matched(failures'[u], guesses'[u], Recorded(u)')
    BY DEF RowsAreGuesses
  <2>2. CASE u = v
    <3>1. failures'[u] = <<>>
      BY <1>3, <2>2 DEF Types
    <3>2. Recorded(u)' \in Nat
      <4>1. Adding(u)' => Len(guesses[u]) # 0
        BY <1>3 DEF Adding, InTime
      <4> QED
        BY <1>0, <1>3, <4>1 DEF Recorded
    <3> QED
      BY <3>1, <3>2, NoRows
  <2>3. CASE u # v
    BY <1>1, <1>3, <2>3 DEF Types
  <2> QED
    BY <2>2, <2>3
<1>4. CASE Handler
  <2> USE MovesHold DEF Moves, Adding, BotStatement
  <2>1. CASE \E u \in User : Snapshot(u)
    BY <1>2, <2>1 DEF Snapshot
  <2>2. CASE ClearFailures
    BY <1>3, <2>2 DEF ClearFailures, Types
  <2>3. CASE ClearLockout
    BY <1>2, <2>3 DEF ClearLockout
  <2>4. CASE NothingPending
    BY <1>2, <2>4 DEF NothingPending
  <2>5. CASE RightCode
    BY <1>2, <2>5 DEF RightCode
  <2>6. CASE WrongCode
    <3>1. SUFFICES ASSUME NEW u \in User
                   PROVE  Matched(failures'[u], guesses'[u], Recorded(u)')
      BY DEF RowsAreGuesses
    <3>2. bot.user \in User /\ now \in Nat /\ ~Adding(u) /\ failures' = failures
          /\ bot'.pc = "add_failure" /\ bot'.user = bot.user
      BY <2>6 DEF WrongCode, Types
    <3>3. Matched(failures[u], guesses[u], Len(guesses[u]))
      BY <3>2 DEF RowsAreGuesses, Recorded
    <3>4. CASE u = bot.user
      <4>1. guesses'[u] = Append(guesses[u], now)
        BY <2>6, <3>4 DEF WrongCode, Types
      <4>2. /\ Len(guesses'[u]) = Len(guesses[u]) + 1
            /\ \A i \in 1..Len(guesses[u]) : guesses'[u][i] = guesses[u][i]
        BY <1>0, <3>2, <4>1
      <4>3. Recorded(u)' = Len(guesses[u])
        BY <1>0, <3>2, <3>4, <4>2 DEF Recorded
      <4>4. Matched(failures[u], guesses'[u], Len(guesses[u]))
        BY <1>0, <3>2, <3>3, <4>1, RowsStand
      <4> QED
        BY <3>2, <4>3, <4>4
    <3>5. CASE u # bot.user
      <4>1. guesses'[u] = guesses[u] /\ Recorded(u)' = Len(guesses[u])
        BY <2>6, <3>2, <3>5 DEF WrongCode, Types, Recorded
      <4> QED
        BY <3>2, <3>3, <4>1
    <3> QED
      BY <3>4, <3>5
  <2>7. CASE AddFailure
    <3>1. SUFFICES ASSUME NEW u \in User
                   PROVE  Matched(failures'[u], guesses'[u], Recorded(u)')
      BY DEF RowsAreGuesses
    <3>2. bot.pc = "add_failure" /\ bot.user \in User /\ guesses' = guesses
          /\ bot'.pc = "get_lockout"
      BY <2>7 DEF AddFailure, Types
    <3>3. CASE u = bot.user
      <4>1. Len(guesses[u]) # 0 /\ guesses[u][Len(guesses[u])] = bot.at
        BY <3>2, <3>3 DEF InTime
      <4>2. failures'[u] = Append(failures[u], bot.at)
        BY <2>7, <3>3 DEF AddFailure, Types
      <4>3. Matched(failures[u], guesses[u], Len(guesses[u]) - 1)
        BY <3>2, <3>3 DEF RowsAreGuesses, Recorded
      <4>4. Recorded(u)' = Len(guesses[u])
        BY <3>2 DEF Recorded
      <4> QED
        BY <1>0, <3>2, <4>1, <4>2, <4>3, <4>4, RowAdded
    <3>4. CASE u # bot.user
      <4>1. failures'[u] = failures[u]
        BY <2>7, <3>4 DEF AddFailure, Types
      <4> QED
        BY <1>1, <3>2, <4>1
    <3> QED
      BY <3>3, <3>4
  <2>8. CASE GetLockout
    BY <1>2, <2>8 DEF GetLockout
  <2>9. CASE CountFailures
    BY <1>2, <2>9 DEF CountFailures
  <2>10. CASE SetLockout
    BY <1>2, <2>10 DEF SetLockout
  <2> QED
    BY <1>4, <2>1, <2>2, <2>3, <2>4, <2>5, <2>6, <2>7, <2>8, <2>9, <2>10 DEF Handler
<1>5. CASE BotFault
  BY <1>2, <1>5, MovesHold DEF BotFault, Moves, Adding
<1>6. CASE Unlock
  <2>1. ASSUME NEW u \in User, UnlockFailures(u)
        PROVE  RowsAreGuesses'
    BY <1>3, <2>1 DEF UnlockFailures, Adding
  <2>2. CASE UnlockLockout
    BY <1>2, <2>2 DEF UnlockLockout, Adding
  <2> QED
    BY <1>6, <2>1, <2>2 DEF Unlock
<1>7. CASE CliFault
  BY <1>2, <1>7 DEF CliFault, Adding
<1>8. CASE Tick
  BY <1>2, <1>8 DEF Tick, Adding
<1>9. CASE UNCHANGED vars
  BY <1>2, <1>9 DEF vars, Adding
<1> QED
  BY <1>4, <1>5, <1>6, <1>7, <1>8, <1>9 DEF Next

-----------------------------------------------------------------------------

\* The rows of the tables (auth/lockout_store.py) and the handler's place in
\* auth/lockout.py stay in step with the guesses that were made.
THEOREM InvariantHolds == Spec => []IInv
<1>1. Init => IInv
  BY InitInv
<1>2. IInv /\ [Next]_vars => IInv'
  BY TypeNext, UnlockedNext, RowsNext, InTimeNext, EarnedNext DEF IInv
<1> QED
  BY <1>1, <1>2, PTL DEF Spec

\* The two tables (auth/lockout_store.py), the handler's and the unlock's progress
\* and the histories keep their shape; and a code is evaluated (record_failure in
\* auth/lockout.py) only while its user has no lockout row.
THEOREM TypeCorrect == Spec => []TypeOK
<1>1. IInv => TypeOK
  BY DEF IInv, TypeOK
<1> QED
  BY <1>1, InvariantHolds, PTL

\* Nobody is locked out (record_failure in auth/lockout.py) without MaxFailures wrong
\* codes of his own in one window, whichever statements an unlock, a crash or an error fell between.
THEOREM LockoutsEarned == Spec => []LockoutEarned
<1>1. IInv => LockoutEarned
  BY DEF IInv, Earned, Enough, LockoutEarned
<1> QED
  BY <1>1, InvariantHolds, PTL

\* While a lockout lasts only the second DELETE of this user's admin_unlock
\* (auth/lockout.py) takes it away; the DELETEs of the bot come when it has run out.
THEOREM OnlyAdminLifts == Spec => OnlyUnlockLifts
<1> DEFINE Lift == \A u \in User :
                       lockouts[u] > now /\ lockouts'[u] # lockouts[u]
                           => cli.pc = "clear_lockout" /\ cli.user = u
<1>1. ASSUME IInv, Next
      PROVE  Lift
  <2>1. SUFFICES ASSUME NEW u \in User, lockouts[u] > now, lockouts'[u] # lockouts[u]
                 PROVE  cli.pc = "clear_lockout" /\ cli.user = u
    OBVIOUS
  <2>2. lockouts[u] \in Nat /\ now \in Nat /\ Types
    BY <1>1 DEF IInv, Types
  <2>3. CASE ClearLockout
    <3>1. lockouts'[bot.user] = 0 /\ u = bot.user
      BY <2>1, <2>2, <2>3 DEF ClearLockout, Types
    <3>2. lockouts[u] <= now \/ lockouts[u] = 0
      BY <1>1, <2>3, <3>1 DEF ClearLockout, IInv, Unlocked
    <3> QED
      BY <2>1, <2>2, <3>2
  <2>4. CASE SetLockout
    <3>1. u = bot.user
      BY <2>1, <2>2, <2>4 DEF SetLockout, Types
    <3>2. lockouts[u] = 0
      BY <1>1, <2>4, <3>1 DEF SetLockout, IInv, Unlocked, Counting
    <3> QED
      BY <2>1, <2>2, <3>2
  <2>5. CASE UnlockLockout
    BY <2>1, <2>2, <2>5 DEF UnlockLockout, Types
  <2>6. CASE UNCHANGED lockouts
    BY <2>1, <2>6
  <2> QED
    BY <1>1, <2>3, <2>4, <2>5, <2>6
       DEF Next, Handler, Snapshot, ClearFailures, NothingPending, RightCode, WrongCode,
           AddFailure, GetLockout, CountFailures, BotFault, Unlock, UnlockFailures,
           CliFault, Tick
<1>2. UNCHANGED vars => Lift
  BY DEF vars
<1>3. IInv /\ [Next]_vars => [Lift]_vars
  BY <1>1, <1>2
<1>4. Spec => [][Lift]_vars
  BY <1>3, InvariantHolds, PTL DEF Spec
<1> QED
  BY <1>4 DEF OnlyUnlockLifts

-----------------------------------------------------------------------------
(* How fast one can guess. *)

\* The handler still has to count this user's last guess.
Evaluating(u) == bot.pc \in Counting /\ bot.user = u

\* Guesses are in the order of their times, and the one that is evaluated is the last.
InTurn ==
    /\ \A u \in User : \A i, j \in 1..Len(guesses[u]) : i <= j => guesses[u][i] <= guesses[u][j]
    /\ bot.pc \in Counting =>
           LET all == guesses[bot.user] IN Len(all) # 0 /\ all[Len(all)] = bot.at

\* A lockout outlasts its user's last guess by LockoutTicks.
LocksLast ==
    \A u \in User : lockouts[u] # 0 =>
        \A i \in 1..Len(guesses[u]) : guesses[u][i] + LockoutTicks <= lockouts[u]

AllPardoned(u) == pardoned[u] = Len(guesses[u])

\* Rows go after a right code, an unlock, or a lockout that has run out.
Excused ==
    /\ \A u \in User : pardoned[u] <= Len(guesses[u])
    /\ bot.pc = "reset_failures" => AllPardoned(bot.user)
    /\ bot.pc = "expire_failures" /\ lockouts[bot.user] = 0 => AllPardoned(bot.user)

\* Guesses from `first` up to `last` are long past, and were when later ones were made.
Waited(all, first, last, t) ==
    \A i \in first + 1 .. last :
        /\ all[i] + LeastWait <= t
        /\ \A j \in last + 1 .. Len(all) : all[i] + LeastWait <= all[j]

\* Of the guesses after `last`, no more than f have no row.
RowsCount(all, rows, last, n, f) ==
    \A i \in last + 1 .. n : CountSince(rows, all[i]) >= n - i + 1 - f

\* The last guess is more than a window away from the first n.
Spread(all, last, n) ==
    \A i \in last + 1 .. Len(all) : i <= n => all[Len(all)] - all[i] > FailureWindow

\* The guesses that the next one, or the one that is evaluated, must be far from.
Far(u) == Len(guesses[u]) + 1 - MaxFailures - faults - (IF Evaluating(u) THEN 1 ELSE 0)

\* Some guesses are settled, by a pardon or a lockout that ran out; the others have
\* their rows, but for one a fault, and while no lockout stands they are spread out.
Slow(u) ==
    \E last \in pardoned[u] .. Len(guesses[u]) :
        /\ Waited(guesses[u], pardoned[u], last, now)
        /\ RowsCount(guesses[u], failures[u], last, Recorded(u), faults)
        /\ lockouts[u] = 0 => Spread(guesses[u], last, Far(u))

RateInv == InTurn /\ LocksLast /\ Excused /\ GuessRateBounded /\ \A u \in User : Slow(u)

-----------------------------------------------------------------------------

LEMMA LeastWaitIs ==
  /\ LeastWait \in Nat \ {0} /\ LeastWait <= LockoutTicks /\ LeastWait <= FailureWindow + 1
  BY Settings DEF LeastWait

LEMMA CountIsNat ==
  ASSUME NEW rows \in Seq(Nat), NEW t
  PROVE  /\ CountSince(rows, t) \in Nat
         /\ IsFiniteSet({i \in DOMAIN rows : rows[i] >= t})
<1> DEFINE S == {i \in DOMAIN rows : rows[i] >= t}
<1>1. S \in SUBSET DOMAIN rows
  OBVIOUS
<1>2. IsFiniteSet(S) /\ Cardinality(S) \in Nat
  BY <1>1, RowSets
<1> QED
  BY <1>2 DEF CountSince

\* A longer window has no fewer rows.
LEMMA CountEarlier ==
  ASSUME NEW rows \in Seq(Nat), NEW t \in Int, NEW s \in Int, t <= s
  PROVE  CountSince(rows, s) <= CountSince(rows, t)
<1> DEFINE S == {i \in DOMAIN rows : rows[i] >= s}
           T == {i \in DOMAIN rows : rows[i] >= t}
<1>1. S \subseteq T
  OBVIOUS
<1>2. IsFiniteSet(T)
  BY CountIsNat
<1>3. Cardinality(S) <= Cardinality(T)
  BY <1>1, <1>2, FS_Subset
<1> QED
  BY <1>3 DEF CountSince

\* One INSERT more.
LEMMA CountAppended ==
  ASSUME NEW rows \in Seq(Nat), NEW x \in Nat, NEW t \in Int, x >= t
  PROVE  CountSince(Append(rows, x), t) = CountSince(rows, t) + 1
<1> DEFINE new == Append(rows, x)  n == Len(rows)
           S == {i \in DOMAIN rows : rows[i] >= t}
           T == {i \in DOMAIN new : new[i] >= t}
<1>1. n \in Nat /\ DOMAIN rows = 1..n
  OBVIOUS
<1>2. DOMAIN new = 1..n + 1 /\ new[n + 1] = x /\ \A i \in 1..n : new[i] = rows[i]
  OBVIOUS
<1> HIDE DEF new, n
<1>3. T = S \cup {n + 1} /\ n + 1 \notin S
  BY <1>1, <1>2
<1>4. IsFiniteSet(S) /\ Cardinality(S) \in Nat
  <2>1. CountSince(rows, t) \in Nat /\ IsFiniteSet(S)
    BY CountIsNat
  <2> QED
    BY <2>1 DEF CountSince
<1>5. Cardinality(T) = Cardinality(S) + 1
  BY <1>3, <1>4, FS_AddElement
<1> QED
  BY <1>5 DEF CountSince, new

\* Of one user, what the steps below need.
LEMMA Typed ==
  ASSUME Types, NEW u \in User
  PROVE  /\ guesses[u] \in Seq(Nat) /\ Len(guesses[u]) \in Nat
         /\ \A i \in 1..Len(guesses[u]) : guesses[u][i] \in Nat
         /\ failures[u] \in Seq(Nat) /\ pardoned[u] \in Nat /\ lockouts[u] \in Nat
         /\ now \in Nat /\ faults \in Nat
         /\ Recorded(u) \in Int /\ Recorded(u) <= Len(guesses[u])
         /\ Len(guesses[u]) - 1 <= Recorded(u)
         /\ Far(u) \in Int /\ (Adding(u) => Evaluating(u))
<1>1. /\ guesses[u] \in Seq(Nat) /\ failures[u] \in Seq(Nat) /\ pardoned[u] \in Nat
      /\ lockouts[u] \in Nat /\ now \in Nat /\ faults \in Nat
  BY DEF Types
<1>2. Len(guesses[u]) \in Nat /\ \A i \in 1..Len(guesses[u]) : guesses[u][i] \in Nat
  BY <1>1
<1> QED
  BY <1>1, <1>2, Settings DEF Recorded, Far, Adding, Evaluating, Counting

LEMMA TypedNext ==
  ASSUME Types', NEW u \in User
  PROVE  /\ Len(guesses'[u]) \in Nat /\ pardoned'[u] \in Nat /\ now' \in Nat /\ faults' \in Nat
         /\ Recorded(u)' \in Int /\ Recorded(u)' <= Len(guesses'[u]) /\ Far(u)' \in Int
<1>1. /\ guesses'[u] \in Seq(Nat) /\ pardoned'[u] \in Nat /\ now' \in Nat /\ faults' \in Nat
  BY DEF Types
<1>2. Len(guesses'[u]) \in Nat
  BY <1>1
<1> QED
  BY <1>1, <1>2, Settings DEF Recorded, Far

\* A step that adds neither guess nor row: what it leaves out of the rows it makes up for
\* with a fault.
LEMMA SlowStays ==
  ASSUME Types, Types', NEW u \in User, Slow(u),
         guesses'[u] = guesses[u], failures'[u] = failures[u], pardoned'[u] = pardoned[u],
         lockouts'[u] = 0 => lockouts[u] = 0 /\ Far(u)' <= Far(u), now <= now',
         Recorded(u)' - faults' <= Recorded(u) - faults
  PROVE  Slow(u)'
<1> DEFINE all == guesses[u]  rows == failures[u]  n == Recorded(u)  m == Recorded(u)'
<1>1. PICK last \in pardoned[u] .. Len(all) :
        /\ Waited(all, pardoned[u], last, now)
        /\ RowsCount(all, rows, last, n, faults)
        /\ lockouts[u] = 0 => Spread(all, last, Far(u))
  BY DEF Slow
<1>2. /\ Len(all) \in Nat /\ pardoned[u] \in Nat /\ now \in Nat /\ faults \in Nat
      /\ n \in Int /\ Far(u) \in Int /\ rows \in Seq(Nat)
      /\ \A i \in 1..Len(all) : all[i] \in Nat
  BY Typed
<1>3. now' \in Nat /\ faults' \in Nat /\ m \in Int /\ m <= Len(all) /\ Far(u)' \in Int
  <2>1. /\ now' \in Nat /\ faults' \in Nat /\ Recorded(u)' \in Int /\ Far(u)' \in Int
        /\ Recorded(u)' <= Len(guesses'[u])
    BY TypedNext
  <2> QED
    BY <2>1
<1>4. Waited(all, pardoned[u], last, now')
  <2>1. SUFFICES ASSUME NEW i \in pardoned[u] + 1 .. last
                 PROVE  all[i] + LeastWait <= now'
    BY <1>1 DEF Waited
  <2>2. all[i] + LeastWait <= now /\ all[i] \in Nat
    BY <1>1, <1>2 DEF Waited
  <2>3. now \in Nat /\ now' \in Nat /\ now <= now' /\ LeastWait \in Nat
    BY <1>2, <1>3, LeastWaitIs
  <2> HIDE DEF all
  <2> QED
    BY <2>2, <2>3
<1>5. RowsCount(all, rows, last, m, faults')
  <2>1. SUFFICES ASSUME NEW i \in last + 1 .. m
                 PROVE  CountSince(rows, all[i]) >= m - i + 1 - faults'
    BY DEF RowsCount
  <2>2. CountSince(rows, all[i]) \in Nat
    BY <1>2, CountIsNat
  <2>3. CASE i <= n
    <3>1. CountSince(rows, all[i]) >= n - i + 1 - faults
      BY <1>1, <1>2, <2>3 DEF RowsCount
    <3> DEFINE count == CountSince(rows, all[i])
    <3>2. /\ count \in Nat /\ n \in Int /\ m \in Int /\ i \in Int
          /\ faults \in Nat /\ faults' \in Nat
          /\ count >= n - i + 1 - faults /\ m - faults' <= n - faults
      BY <1>2, <1>3, <2>2, <3>1
    <3> HIDE DEF all, rows, n, m, count
    <3>3. count >= m - i + 1 - faults'
      BY <3>2
    <3> QED
      BY <3>3 DEF count
  <2>4. CASE i > n
    BY <1>2, <1>3, <2>2, <2>4
  <2> QED
    BY <1>2, <2>3, <2>4
<1>6. lockouts'[u] = 0 => Spread(all, last, Far(u)')
  BY <1>1, <1>2, <1>3 DEF Spread
<1> HIDE DEF all, rows, n, m
<1>7. /\ Waited(guesses'[u], pardoned'[u], last, now')
      /\ RowsCount(guesses'[u], failures'[u], last, Recorded(u)', faults')
      /\ lockouts'[u] = 0 => Spread(guesses'[u], last, Far(u)')
      /\ last \in pardoned'[u] .. Len(guesses'[u])
  BY <1>4, <1>5, <1>6 DEF all, rows, m
<1> QED
  BY <1>7 DEF Slow

\* All guesses are settled.
LEMMA SlowAfresh ==
  ASSUME Types', NEW u \in User, pardoned'[u] <= Len(guesses'[u]),
         \A i \in pardoned'[u] + 1 .. Len(guesses'[u]) : guesses'[u][i] + LeastWait <= now'
  PROVE  Slow(u)'
<1> DEFINE n == Len(guesses'[u])
<1>1. /\ n \in Nat /\ pardoned'[u] \in Nat /\ now' \in Nat
      /\ Recorded(u)' \in Int /\ Recorded(u)' <= n
  BY TypedNext
<1>2. Waited(guesses'[u], pardoned'[u], n, now')
  BY <1>1 DEF Waited
<1>3. RowsCount(guesses'[u], failures'[u], n, Recorded(u)', faults')
  BY <1>1 DEF RowsCount
<1>4. Spread(guesses'[u], n, Far(u)')
  BY <1>1 DEF Spread
<1>5. n \in pardoned'[u] .. n
  BY <1>1
<1> QED
  BY <1>2, <1>3, <1>4, <1>5 DEF Slow

LEMMA InTurnNext ==
  ASSUME Types, InTime, InTurn, [Next]_vars
  PROVE  InTurn'
<1> USE MovesHold DEF Types, BotStatement, Moves, InTurn, Counting
<1>1. CASE Handler
  <2>1. CASE (\E u \in User : Snapshot(u)) \/ ClearFailures \/ ClearLockout
    BY <2>1 DEF Snapshot, ClearFailures, ClearLockout
  <2>2. CASE NothingPending \/ RightCode
    BY <2>2 DEF NothingPending, RightCode
  <2>3. CASE WrongCode
    <3>1. guesses' = [guesses EXCEPT ![bot.user] = Append(guesses[bot.user], now)]
          /\ bot'.at = now /\ bot'.user = bot.user /\ bot.user \in User
          /\ bot'.pc = "add_failure"
      BY <2>3 DEF WrongCode
    <3>2. \A u \in User : guesses'[u] = IF u = bot.user THEN Append(guesses[u], now)
                                       ELSE guesses[u]
      BY <3>1
    <3>3. \A s \in Seq(Nat), x \in Nat :
              /\ Len(Append(s, x)) = Len(s) + 1 /\ Len(s) \in Nat
              /\ Append(s, x)[Len(s) + 1] = x
              /\ \A i \in 1..Len(s) : Append(s, x)[i] = s[i]
      OBVIOUS
    <3>4. ASSUME NEW u \in User, NEW i \in 1..Len(guesses'[u]), NEW j \in 1..Len(guesses'[u]),
                 i <= j
          PROVE  guesses'[u][i] <= guesses'[u][j]
      <4>1. CASE u = bot.user
        <5>1. guesses'[u] = Append(guesses[u], now) /\ guesses[u] \in Seq(Nat) /\ now \in Nat
          BY <3>2, <4>1
        <5>2. Len(guesses'[u]) = Len(guesses[u]) + 1 /\ Len(guesses[u]) \in Nat
              /\ guesses'[u][Len(guesses[u]) + 1] = now
              /\ \A l \in 1..Len(guesses[u]) : guesses'[u][l] = guesses[u][l]
          BY <3>3, <5>1
        <5>3. \A l \in 1..Len(guesses[u]) : guesses[u][l] <= now
          BY DEF InTime
        <5>4. CASE j \in 1..Len(guesses[u])
          <6>1. i \in 1..Len(guesses[u])
            BY <3>4, <5>2, <5>4
          <6>2. guesses[u][i] <= guesses[u][j]
            BY <3>4, <5>4, <6>1
          <6> QED
            BY <5>2, <5>4, <6>1, <6>2
        <5>5. CASE j = Len(guesses[u]) + 1
          <6>1. CASE i = Len(guesses[u]) + 1
            BY <5>1, <5>2, <5>5, <6>1
          <6>2. CASE i \in 1..Len(guesses[u])
            BY <5>2, <5>3, <5>5, <6>2
          <6> QED
            BY <3>4, <5>2, <6>1, <6>2
        <5> QED
          BY <3>4, <5>2, <5>4, <5>5
      <4>2. CASE u # bot.user
        BY <3>2, <3>4, <4>2
      <4> QED
        BY <4>1, <4>2
    <3>5. LET all == guesses'[bot.user] IN Len(all) # 0 /\ all[Len(all)] = now
      BY <3>1, <3>2, <3>3
    <3> QED
      BY <3>1, <3>4, <3>5 DEF InTurn
  <2>4. CASE AddFailure \/ GetLockout
    BY <2>4 DEF AddFailure, GetLockout
  <2>5. CASE CountFailures \/ SetLockout
    BY <2>5 DEF CountFailures, SetLockout
  <2> QED
    BY <1>1, <2>1, <2>2, <2>3, <2>4, <2>5 DEF Handler
<1>2. CASE BotFault
  BY <1>2 DEF BotFault
<1>3. CASE Unlock
  <2>1. UNCHANGED <<bot, guesses>>
    BY <1>3 DEF Unlock, UnlockFailures, UnlockLockout
  <2> QED
    BY <2>1
<1>4. CASE CliFault \/ Tick
  BY <1>4 DEF CliFault, Tick
<1>5. CASE UNCHANGED vars
  BY <1>5 DEF vars
<1> QED
  BY <1>1, <1>2, <1>3, <1>4, <1>5 DEF Next

LEMMA LocksLastNext ==
  ASSUME Types, Unlocked, InTime, LocksLast, [Next]_vars
  PROVE  LocksLast'
<1>1. CASE guesses' = guesses /\ \A u \in User : lockouts'[u] \in {0, lockouts[u]}
  BY <1>1 DEF LocksLast
<1>2. CASE WrongCode
  <2>1. bot.user \in User /\ lockouts[bot.user] = 0 /\ lockouts' = lockouts
    BY <1>2 DEF WrongCode, Types, Unlocked, Counting
  <2>2. \A u \in User : u # bot.user => guesses'[u] = guesses[u]
    BY <1>2 DEF WrongCode, Types
  <2> QED
    BY <2>1, <2>2 DEF LocksLast
<1>3. CASE SetLockout
  <2>1. bot.user \in User /\ bot.at \in Nat /\ guesses' = guesses
        /\ \A u \in User : lockouts'[u] =
               IF u = bot.user THEN bot.at + LockoutTicks ELSE lockouts[u]
    BY <1>3 DEF SetLockout, Types
  <2>2. \A i \in 1..Len(guesses[bot.user]) : guesses[bot.user][i] <= bot.at
    BY <1>3 DEF SetLockout, InTime, Counting
  <2>3. ASSUME NEW u \in User, lockouts'[u] # 0, NEW i \in 1..Len(guesses[u])
        PROVE  guesses[u][i] + LockoutTicks <= lockouts'[u]
    <3>1. guesses[u][i] \in Nat
      BY <2>3, Typed
    <3>2. CASE u = bot.user
      BY <2>1, <2>2, <2>3, <3>1, <3>2, Settings
    <3>3. CASE u # bot.user
      BY <2>1, <2>3, <3>3 DEF LocksLast
    <3> QED
      BY <3>2, <3>3
  <2> QED
    BY <2>1, <2>3 DEF LocksLast
<1>4. CASE ClearLockout \/ UnlockLockout
  <2>1. guesses' = guesses /\ \A u \in User : lockouts'[u] \in {0, lockouts[u]}
    BY <1>4 DEF ClearLockout, UnlockLockout, Types
  <2> QED
    BY <1>1, <2>1
<1>5. CASE UNCHANGED <<guesses, lockouts>>
  BY <1>1, <1>5
<1> QED
  BY <1>2, <1>3, <1>4, <1>5
     DEF Next, Handler, Snapshot, ClearFailures, NothingPending, RightCode, AddFailure,
         GetLockout, CountFailures, BotFault, Unlock, UnlockFailures, CliFault, Tick, vars

LEMMA ExcusedNext ==
  ASSUME Types, Excused, [Next]_vars
  PROVE  Excused'
<1> USE MovesHold DEF Types, BotStatement, Moves, Excused, AllPardoned
<1>0. \A u \in User : Len(guesses[u]) \in Nat
  OBVIOUS
<1>1. CASE Handler
  <2>1. CASE \E u \in User : Snapshot(u)
    BY <2>1 DEF Snapshot
  <2>2. CASE ClearFailures
    BY <2>2 DEF ClearFailures
  <2>3. CASE ClearLockout
    BY <2>3 DEF ClearLockout
  <2>4. CASE NothingPending
    BY <2>4 DEF NothingPending
  <2>5. CASE RightCode
    BY <1>0, <2>5 DEF RightCode
  <2>6. CASE WrongCode
    <3>1. bot'.pc = "add_failure" /\ pardoned' = pardoned /\ bot.user \in User
      BY <2>6 DEF WrongCode
    <3>2. \A u \in User : Len(guesses'[u]) >= Len(guesses[u])
      <4>1. \A u \in User : guesses'[u] \in {guesses[u], Append(guesses[u], now)}
        BY <2>6 DEF WrongCode
      <4>2. ASSUME NEW u \in User
            PROVE  Len(Append(guesses[u], now)) = Len(guesses[u]) + 1
        <5>1. guesses[u] \in Seq(Nat) /\ now \in Nat
          OBVIOUS
        <5> QED
          BY <5>1
      <4>3. ASSUME NEW u \in User
            PROVE  Len(guesses'[u]) >= Len(guesses[u])
        <5>1. Len(guesses[u]) \in Nat
          BY <1>0
        <5>2. CASE guesses'[u] = guesses[u]
          BY <5>1, <5>2
        <5>3. CASE guesses'[u] = Append(guesses[u], now)
          <6>1. Len(guesses'[u]) = Len(guesses[u]) + 1
            BY <4>2, <5>3
          <6> QED
            BY <5>1, <6>1
        <5> QED
          BY <4>1, <5>2, <5>3
      <4> QED
        BY <4>3
    <3>3. \A u \in User : Len(guesses'[u]) \in Nat
      <4>1. guesses' \in [User -> Seq(Nat)]
        BY TypeNext DEF Types
      <4> QED
        BY <4>1
    <3> QED
      BY <1>0, <3>1, <3>2, <3>3
  <2>7. CASE AddFailure \/ GetLockout
    BY <2>7 DEF AddFailure, GetLockout
  <2>8. CASE CountFailures \/ SetLockout
    BY <2>8 DEF CountFailures, SetLockout
  <2> QED
    BY <1>1, <2>1, <2>2, <2>3, <2>4, <2>5, <2>6, <2>7, <2>8 DEF Handler
<1>2. CASE BotFault
  BY <1>2 DEF BotFault
<1>3. CASE Unlock
  <2>1. ASSUME NEW u \in User, UnlockFailures(u)
        PROVE  Excused'
    BY <1>0, <2>1 DEF UnlockFailures
  <2>2. CASE UnlockLockout
    <3>1. /\ UNCHANGED <<bot, guesses>>
          /\ \A u \in User : IF u = cli.user THEN pardoned'[u] = Len(guesses[u])
                             ELSE pardoned'[u] = pardoned[u] /\ lockouts'[u] = lockouts[u]
      BY <2>2 DEF UnlockLockout
    <3>2. ASSUME NEW u \in User
          PROVE  pardoned'[u] <= Len(guesses'[u])
      <4>1. Len(guesses[u]) \in Nat /\ guesses'[u] = guesses[u] /\ pardoned[u] <= Len(guesses[u])
        BY <1>0, <3>1
      <4>2. pardoned'[u] = Len(guesses[u]) \/ pardoned'[u] = pardoned[u]
        BY <3>1
      <4> QED
        BY <4>1, <4>2
    <3>3. bot.pc # "idle" => bot.user \in User
      OBVIOUS
    <3>4. bot'.pc = "reset_failures" => pardoned'[bot'.user] = Len(guesses'[bot'.user])
      BY <3>1, <3>3
    <3>5. bot'.pc = "expire_failures" /\ lockouts'[bot'.user] = 0 =>
              pardoned'[bot'.user] = Len(guesses'[bot'.user])
      BY <3>1, <3>3
    <3> QED
      BY <3>2, <3>4, <3>5
  <2> QED
    BY <1>3, <2>1, <2>2 DEF Unlock
<1>4. CASE CliFault \/ Tick
  BY <1>4 DEF CliFault, Tick
<1>5. CASE UNCHANGED vars
  BY <1>5 DEF vars
<1> QED
  BY <1>1, <1>2, <1>3, <1>4, <1>5 DEF Next

\* A wrong code, when no lockout stands: it comes long after the guess that is
\* MaxFailures and the faults before it.
LEMMA Guessed ==
  ASSUME NEW all \in Seq(Nat), NEW rows \in Seq(Nat), NEW t \in Nat, NEW p \in Nat,
         NEW last \in p .. Len(all), NEW f \in Nat,
         Waited(all, p, last, t), RowsCount(all, rows, last, Len(all), f),
         Spread(all, last, Len(all) + 1 - MaxFailures - f),
         \A i \in 1..Len(all) : all[i] <= t,
         \A i \in p + 1 .. Len(all) - (MaxFailures + f) :
             all[i + (MaxFailures + f)] - all[i] >= LeastWait
  PROVE  LET more == Append(all, t) IN
         /\ Len(more) = Len(all) + 1
         /\ Waited(more, p, last, t)
         /\ RowsCount(more, rows, last, Len(all), f)
         /\ Spread(more, last, Len(all) + 1 - MaxFailures - f)
         /\ \A i \in p + 1 .. Len(all) + 1 - (MaxFailures + f) :
                more[i + (MaxFailures + f)] - more[i] >= LeastWait
<1> DEFINE more == Append(all, t)  n == Len(all)  k == MaxFailures + f
<1>1. /\ n \in Nat /\ k \in Nat \ {0} /\ \A i \in 1..n : all[i] \in Nat
      /\ FailureWindow \in Nat /\ LeastWait \in Nat /\ LeastWait <= FailureWindow + 1
      /\ n + 1 - MaxFailures - f = n + 1 - k
  BY Settings, LeastWaitIs
<1>2. Len(more) = n + 1 /\ more[n + 1] = t /\ \A i \in 1..n : more[i] = all[i]
  OBVIOUS
<1>3. \A i \in p + 1 .. last : i \in 1..n
  BY <1>1
<1> HIDE DEF more, n, k
<1>4. Waited(more, p, last, t)
  <2>1. SUFFICES ASSUME NEW i \in p + 1 .. last
                 PROVE  /\ more[i] + LeastWait <= t
                        /\ \A j \in last + 1 .. n + 1 : more[i] + LeastWait <= more[j]
    BY <1>2 DEF Waited
  <2>2. all[i] + LeastWait <= t /\ more[i] = all[i]
    BY <1>2, <1>3 DEF Waited
  <2>3. ASSUME NEW j \in last + 1 .. n + 1
        PROVE  all[i] + LeastWait <= more[j]
    <3>1. CASE j = n + 1
      BY <1>2, <2>2, <3>1
    <3>2. CASE j \in 1..n
      <4>1. j \in last + 1 .. n
        BY <1>1, <3>2
      <4> QED
        BY <1>2, <3>2, <4>1 DEF Waited, n
    <3> QED
      BY <1>1, <3>1, <3>2
  <2> QED
    BY <2>2, <2>3
<1>5. RowsCount(more, rows, last, n, f)
  <2>1. \A i \in last + 1 .. n : i \in 1..n /\ more[i] = all[i]
    BY <1>1, <1>2
  <2> QED
    BY <2>1 DEF RowsCount, n
<1>6. ASSUME NEW i \in last + 1 .. n, i <= n + 1 - k
      PROVE  more[i] = all[i] /\ all[i] \in Nat /\ t - all[i] > FailureWindow
  <2>1. i \in 1..n /\ n \in 1..n
    BY <1>1
  <2>2. all[n] - all[i] > FailureWindow
    BY <1>1, <1>6 DEF Spread, n
  <2>3. all[n] \in Nat /\ all[i] \in Nat /\ all[n] <= t
    BY <1>1, <2>1 DEF n
  <2> QED
    BY <1>1, <1>2, <2>1, <2>2, <2>3, SMTT(30)
<1>7. Spread(more, last, n + 1 - k)
  <2>1. ASSUME NEW i \in last + 1 .. n + 1, i <= n + 1 - k
        PROVE  more[n + 1] - more[i] > FailureWindow
    <3>1. i \in last + 1 .. n
      BY <1>1, <2>1
    <3> QED
      BY <1>2, <1>6, <2>1, <3>1
  <2> QED
    BY <1>2, <2>1 DEF Spread
<1>8. ASSUME NEW i \in p + 1 .. n + 1 - k
      PROVE  more[i + k] - more[i] >= LeastWait
  <2>1. i \in 1..n /\ more[i] = all[i] /\ all[i] \in Nat
    BY <1>1, <1>2
  <2>2. CASE i + k \in 1..n
    <3>1. i \in p + 1 .. n - k
      BY <1>1, <2>1, <2>2
    <3>2. all[i + k] - all[i] >= LeastWait
      BY <3>1 DEF n, k
    <3> QED
      BY <1>2, <2>1, <2>2, <3>2
  <2>3. CASE i + k = n + 1
    <3>0. more[i + k] = t
      BY <1>2, <2>3
    <3>1. CASE i <= last
      <4>1. all[i] + LeastWait <= t
        BY <1>1, <3>1 DEF Waited
      <4> QED
        BY <1>1, <2>1, <3>0, <4>1
    <3>2. CASE i > last
      <4>1. i \in last + 1 .. n /\ i <= n + 1 - k
        BY <1>1, <2>1, <3>2
      <4>2. t - all[i] > FailureWindow
        BY <1>6, <4>1
      <4> QED
        BY <1>1, <2>1, <3>0, <4>2
    <3> QED
      BY <1>1, <3>1, <3>2
  <2> QED
    BY <1>1, <2>1, <2>2, <2>3
<1>9. Spread(more, last, n + 1 - MaxFailures - f)
  BY <1>1, <1>7
<1> QED
  BY <1>2, <1>4, <1>5, <1>8, <1>9 DEF more, n, k

\* Its INSERT.
LEMMA Inserted ==
  ASSUME NEW all \in Seq(Nat), NEW rows \in Seq(Nat), NEW last \in Nat, NEW f \in Nat,
         Len(all) # 0, \A i, j \in 1..Len(all) : i <= j => all[i] <= all[j],
         RowsCount(all, rows, last, Len(all) - 1, f)
  PROVE  RowsCount(all, Append(rows, all[Len(all)]), last, Len(all), f)
<1> DEFINE n == Len(all)
<1>1. n \in Nat \ {0} /\ n \in 1..n /\ \A i \in 1..n : all[i] \in Nat
  OBVIOUS
<1>2. SUFFICES ASSUME NEW i \in last + 1 .. n
               PROVE  CountSince(Append(rows, all[n]), all[i]) >= n - i + 1 - f
  BY DEF RowsCount
<1>3. i \in 1..n /\ all[i] <= all[n] /\ all[i] \in Nat /\ all[n] \in Nat
  <2>1. i \in 1..n /\ i <= n
    BY <1>1
  <2> QED
    BY <1>1, <2>1
<1>4. CountSince(rows, all[i]) \in Nat
  BY CountIsNat
<1>5. CountSince(Append(rows, all[n]), all[i]) = CountSince(rows, all[i]) + 1
  BY <1>3, CountAppended
<1>6. CASE i <= n - 1
  <2>1. i \in last + 1 .. n - 1
    BY <1>1, <1>3, <1>6
  <2>2. CountSince(rows, all[i]) >= n - 1 - i + 1 - f
    BY <2>1 DEF RowsCount
  <2> HIDE DEF n
  <2> QED
    BY <1>1, <1>3, <1>4, <1>5, <2>2
<1>7. CASE i = n
  <2> HIDE DEF n
  <2> QED
    BY <1>1, <1>4, <1>5, <1>7
<1> QED
  BY <1>1, <1>3, <1>6, <1>7

\* The SELECT found fewer than MaxFailures rows: the guesses are spread out.
LEMMA Counted ==
  ASSUME NEW all \in Seq(Nat), NEW rows \in Seq(Nat), NEW last \in Nat, NEW f \in Nat,
         Len(all) # 0, RowsCount(all, rows, last, Len(all), f),
         Spread(all, last, Len(all) + 1 - MaxFailures - f - 1),
         CountSince(rows, all[Len(all)] - FailureWindow) < MaxFailures
  PROVE  Spread(all, last, Len(all) + 1 - MaxFailures - f)
<1> DEFINE n == Len(all)
<1>1. /\ n \in Nat \ {0} /\ n \in 1..n /\ \A i \in 1..n : all[i] \in Nat
      /\ MaxFailures \in Nat \ {0} /\ FailureWindow \in Nat \ {0}
  BY Settings
<1>2. SUFFICES ASSUME NEW i \in last + 1 .. n, i <= n + 1 - MaxFailures - f,
                      ~(all[n] - all[i] > FailureWindow)
               PROVE  FALSE
  BY DEF Spread
<1>3. i \in 1..n /\ all[i] \in Nat /\ all[n] \in Nat
  BY <1>1
<1>4. i = n + 1 - MaxFailures - f
  <2>1. ~(i <= n + 1 - MaxFailures - f - 1)
    BY <1>2 DEF Spread
  <2> HIDE DEF n
  <2> QED
    BY <1>1, <1>2, <1>3, <2>1
<1>5. CountSince(rows, all[i]) >= n - i + 1 - f
  BY DEF RowsCount
<1> HIDE DEF n
<1>6. all[n] - FailureWindow \in Int /\ all[n] - FailureWindow <= all[i]
  <2> DEFINE x == all[i]  y == all[n]
  <2>1. x \in Nat /\ y \in Nat /\ FailureWindow \in Nat /\ ~(y - x > FailureWindow)
    BY <1>1, <1>2, <1>3
  <2> HIDE DEF x, y
  <2>2. y - FailureWindow \in Int /\ y - FailureWindow <= x
    BY <2>1
  <2> QED
    BY <2>2 DEF x, y
<1>7. CountSince(rows, all[i]) <= CountSince(rows, all[n] - FailureWindow)
  BY <1>3, <1>6, CountEarlier
<1>8. CountSince(rows, all[i]) \in Nat /\ CountSince(rows, all[n] - FailureWindow) \in Nat
  BY CountIsNat
<1>9. CountSince(rows, all[n] - FailureWindow) < MaxFailures
  BY DEF n
<1> QED
  BY <1>1, <1>3, <1>4, <1>5, <1>7, <1>8, <1>9

-----------------------------------------------------------------------------

\* Nothing of this user's changes but the clock and the faults.
LEMMA SlowCalm ==
  ASSUME Types, Types', NEW u \in User, Slow(u),
         guesses'[u] = guesses[u], failures'[u] = failures[u], pardoned'[u] = pardoned[u],
         lockouts'[u] = 0 => lockouts[u] = 0, now <= now', faults <= faults',
         Adding(u)' <=> Adding(u), Evaluating(u)' <=> Evaluating(u)
  PROVE  Slow(u)'
<1>1. /\ Recorded(u) \in Int /\ Len(guesses[u]) \in Nat /\ faults \in Nat
      /\ Recorded(u)' \in Int /\ faults' \in Nat
  BY Typed, TypedNext
<1>2. Recorded(u)' = Recorded(u)
  BY DEF Recorded
<1>3. Far(u)' <= Far(u)
  <2>1. CASE Evaluating(u)
    BY <1>1, <2>1, Settings DEF Far
  <2>2. CASE ~Evaluating(u)
    BY <1>1, <2>2, Settings DEF Far
  <2> QED
    BY <2>1, <2>2
<1>4. Recorded(u)' - faults' <= Recorded(u) - faults
  BY <1>1, <1>2
<1> QED
  BY <1>3, <1>4, SlowStays

\* A fault pays for the row or the lockout that is not written.
LEMMA SlowFault ==
  ASSUME Types, Types', NEW u \in User, Slow(u), BotFault
  PROVE  Slow(u)'
<1>1. /\ UNCHANGED <<now, failures, lockouts, guesses, pardoned>>
      /\ faults' = faults + 1 /\ bot' = BotIdle
  BY DEF BotFault
<1>2. /\ Recorded(u) \in Int /\ Len(guesses[u]) \in Nat /\ faults \in Nat /\ now \in Nat
      /\ Len(guesses[u]) - 1 <= Recorded(u)
  BY Typed
<1>3. ~Adding(u)' /\ ~Evaluating(u)'
  BY <1>1 DEF Adding, Evaluating, BotIdle, Counting
<1>4. Recorded(u)' = Len(guesses[u])
  BY <1>1, <1>3 DEF Recorded
<1>5. Recorded(u)' - faults' <= Recorded(u) - faults
  BY <1>1, <1>2, <1>4
<1>6. Far(u)' <= Far(u)
  <2>1. Far(u)' = Len(guesses[u]) + 1 - MaxFailures - (faults + 1)
    BY <1>1, <1>2, <1>3, Settings DEF Far
  <2>2. CASE Evaluating(u)
    BY <1>2, <2>1, <2>2, Settings DEF Far
  <2>3. CASE ~Evaluating(u)
    BY <1>2, <2>1, <2>3, Settings DEF Far
  <2> QED
    BY <2>2, <2>3
<1>7. now <= now'
  BY <1>1, <1>2
<1> QED
  BY <1>1, <1>5, <1>6, <1>7, SlowStays

\* The user of a program is the only one it evaluates.
LEMMA OthersCalm ==
  ASSUME Types, NEW u \in User, u # bot.user,
         bot'.pc \notin Counting \/ bot'.user = bot.user
  PROVE  ~Adding(u) /\ ~Evaluating(u) /\ ~Adding(u)' /\ ~Evaluating(u)'
  BY DEF Adding, Evaluating, Counting

LEMMA SlowGuess ==
  ASSUME Types, Types', Unlocked, RowsAreGuesses, InTime, NEW u \in User, Slow(u),
         WrongCode, u = bot.user, GuessRateBounded
  PROVE  /\ Slow(u)'
         /\ Len(guesses'[u]) = Len(guesses[u]) + 1
         /\ \A i \in pardoned[u] + 1 .. Len(guesses[u]) + 1 - (MaxFailures + faults) :
                guesses'[u][i + (MaxFailures + faults)] - guesses'[u][i] >= LeastWait
<1> DEFINE all == guesses[u]
<1>1. /\ bot.pc = "verify" /\ bot'.pc = "add_failure" /\ bot'.user = u
      /\ guesses'[u] = Append(all, now)
      /\ UNCHANGED <<now, failures, lockouts, pardoned, faults>>
  BY MovesHold DEF WrongCode, Types, Moves
<1>2. lockouts[u] = 0 /\ ~Evaluating(u) /\ Evaluating(u)' /\ ~Adding(u) /\ Adding(u)'
  BY <1>1 DEF Unlocked, Evaluating, Adding, Counting
<1>3. /\ all \in Seq(Nat) /\ failures[u] \in Seq(Nat) /\ now \in Nat /\ faults \in Nat
      /\ pardoned[u] \in Nat /\ Len(all) \in Nat
  BY Typed
<1>4. Recorded(u) = Len(all) /\ Far(u) = Len(all) + 1 - MaxFailures - faults
  BY <1>2, <1>3, Settings DEF Recorded, Far
<1>5. PICK last \in pardoned[u] .. Len(all) :
        /\ Waited(all, pardoned[u], last, now)
        /\ RowsCount(all, failures[u], last, Len(all), faults)
        /\ Spread(all, last, Len(all) + 1 - MaxFailures - faults)
  BY <1>2, <1>4 DEF Slow
<1>6. \A i \in 1..Len(all) : all[i] <= now
  BY DEF InTime
<1>7. \A i \in pardoned[u] + 1 .. Len(all) - (MaxFailures + faults) :
          all[i + (MaxFailures + faults)] - all[i] >= LeastWait
  BY DEF GuessRateBounded
<1> DEFINE more == guesses'[u]
<1>8. /\ Len(more) = Len(all) + 1
      /\ Waited(more, pardoned[u], last, now)
      /\ RowsCount(more, failures[u], last, Len(all), faults)
      /\ Spread(more, last, Len(all) + 1 - MaxFailures - faults)
      /\ \A i \in pardoned[u] + 1 .. Len(all) + 1 - (MaxFailures + faults) :
             more[i + (MaxFailures + faults)] - more[i] >= LeastWait
  <2> DEFINE added == Append(all, now)
  <2>1. /\ Len(added) = Len(all) + 1
        /\ Waited(added, pardoned[u], last, now)
        /\ RowsCount(added, failures[u], last, Len(all), faults)
        /\ Spread(added, last, Len(all) + 1 - MaxFailures - faults)
        /\ \A i \in pardoned[u] + 1 .. Len(all) + 1 - (MaxFailures + faults) :
               added[i + (MaxFailures + faults)] - added[i] >= LeastWait
    <3> HIDE DEF all
    <3> QED
      BY <1>3, <1>5, <1>6, <1>7, Guessed
  <2>2. more = added
    BY <1>1
  <2> HIDE DEF added, more
  <2> QED
    BY <2>1, <2>2
<1>9. Recorded(u)' = Len(all)
  BY <1>2, <1>3, <1>8 DEF Recorded
<1>10. Far(u)' = Len(all) + 1 - MaxFailures - faults
  BY <1>1, <1>2, <1>3, <1>8, Settings DEF Far
<1>11. last \in pardoned'[u] .. Len(more)
  BY <1>1, <1>3, <1>8
<1>12. Slow(u)'
  BY <1>1, <1>8, <1>9, <1>10, <1>11 DEF Slow
<1> QED
  BY <1>8, <1>12

LEMMA SlowInsert ==
  ASSUME Types, Types', InTurn, NEW u \in User, Slow(u), AddFailure, u = bot.user
  PROVE  Slow(u)'
<1> DEFINE all == guesses[u]
<1>1. /\ bot.pc = "add_failure" /\ bot'.pc = "get_lockout" /\ bot'.user = u
      /\ failures'[u] = Append(failures[u], bot.at)
      /\ UNCHANGED <<now, lockouts, guesses, pardoned, faults>>
  BY MovesHold DEF AddFailure, Types, Moves, BotStatement
<1>2. /\ Evaluating(u) /\ Evaluating(u)' /\ Adding(u) /\ ~Adding(u)'
      /\ Len(all) # 0 /\ all[Len(all)] = bot.at
  BY <1>1 DEF Evaluating, Adding, Counting, InTurn
<1>3. all \in Seq(Nat) /\ failures[u] \in Seq(Nat) /\ faults \in Nat /\ pardoned[u] \in Nat
      /\ Len(all) \in Nat
  BY Typed
<1>4. Recorded(u) = Len(all) - 1 /\ Recorded(u)' = Len(all) /\ Far(u)' = Far(u)
  BY <1>1, <1>2 DEF Recorded, Far
<1>5. PICK last \in pardoned[u] .. Len(all) :
        /\ Waited(all, pardoned[u], last, now)
        /\ RowsCount(all, failures[u], last, Len(all) - 1, faults)
        /\ lockouts[u] = 0 => Spread(all, last, Far(u))
  BY <1>4 DEF Slow
<1>6. last \in Nat /\ \A i, j \in 1..Len(all) : i <= j => all[i] <= all[j]
  BY <1>3 DEF InTurn
<1>7. RowsCount(all, failures'[u], last, Len(all), faults)
  <2> HIDE DEF all
  <2> QED
    BY <1>1, <1>2, <1>3, <1>5, <1>6, Inserted
<1> QED
  BY <1>1, <1>4, <1>5, <1>7 DEF Slow

\* The count stays under the limit: the handler is done with this guess.
LEMMA SlowCount ==
  ASSUME Types, Types', Unlocked, InTurn, NEW u \in User, Slow(u),
         CountFailures, u = bot.user, Count(u) < MaxFailures
  PROVE  Slow(u)'
<1> DEFINE all == guesses[u]
<1>1. /\ bot.pc = "count_failures" /\ bot'.pc = "idle"
      /\ UNCHANGED <<now, failures, lockouts, guesses, pardoned, faults>>
  BY DEF CountFailures, BotIdle
<1>2. /\ Evaluating(u) /\ ~Evaluating(u)' /\ ~Adding(u) /\ ~Adding(u)'
      /\ Len(all) # 0 /\ all[Len(all)] = bot.at
  BY <1>1 DEF Evaluating, Adding, Counting, InTurn
<1>3. all \in Seq(Nat) /\ failures[u] \in Seq(Nat) /\ faults \in Nat /\ pardoned[u] \in Nat
      /\ Len(all) \in Nat
  BY Typed
<1>4. /\ Recorded(u) = Len(all) /\ Recorded(u)' = Len(all)
      /\ Far(u) = Len(all) + 1 - MaxFailures - faults - 1
      /\ Far(u)' = Len(all) + 1 - MaxFailures - faults
  BY <1>1, <1>2, <1>3, Settings DEF Recorded, Far
<1>5. PICK last \in pardoned[u] .. Len(all) :
        /\ Waited(all, pardoned[u], last, now)
        /\ RowsCount(all, failures[u], last, Len(all), faults)
        /\ lockouts[u] = 0 => Spread(all, last, Len(all) + 1 - MaxFailures - faults - 1)
  BY <1>4 DEF Slow
<1>6. lockouts[u] = 0
  BY <1>1 DEF Unlocked, Counting
<1>7. CountSince(failures[u], all[Len(all)] - FailureWindow) < MaxFailures
  BY <1>2 DEF Count
<1>8. Spread(all, last, Len(all) + 1 - MaxFailures - faults)
  <2>1. last \in Nat
    BY <1>3
  <2> HIDE DEF all
  <2> QED
    BY <1>2, <1>3, <1>5, <1>6, <1>7, <2>1, Counted
<1> QED
  BY <1>1, <1>4, <1>5, <1>8 DEF Slow

\* Rows go, or a lockout, when all the guesses are pardoned or the lockout has run out.
LEMMA SlowSettled ==
  ASSUME Types, Types', LocksLast, NEW u \in User,
         UNCHANGED <<now, guesses, pardoned>>, pardoned[u] <= Len(guesses[u]),
         AllPardoned(u) \/ (lockouts[u] # 0 /\ lockouts[u] <= now)
  PROVE  Slow(u)'
<1>1. /\ pardoned[u] \in Nat /\ Len(guesses[u]) \in Nat /\ lockouts[u] \in Nat /\ now \in Nat
      /\ \A i \in 1..Len(guesses[u]) : guesses[u][i] \in Nat
  BY Typed
<1>2. ASSUME NEW i \in pardoned[u] + 1 .. Len(guesses[u])
      PROVE  guesses[u][i] + LeastWait <= now
  <2>1. i \in 1..Len(guesses[u]) /\ ~AllPardoned(u)
    BY <1>1 DEF AllPardoned
  <2>2. guesses[u][i] + LockoutTicks <= lockouts[u]
    BY <2>1 DEF LocksLast
  <2>3. lockouts[u] <= now /\ guesses[u][i] \in Nat
    BY <1>1, <2>1
  <2> QED
    BY <1>1, <2>2, <2>3, LeastWaitIs, Settings
<1> QED
  BY <1>2, SlowAfresh

\* A right code or an unlock settles all the guesses.
LEMMA SlowPardoned ==
  ASSUME Types', NEW u \in User, pardoned'[u] = Len(guesses'[u])
  PROVE  Slow(u)'
<1>1. Len(guesses'[u]) \in Nat
  BY TypedNext
<1> QED
  BY <1>1, SlowAfresh

LEMMA SlowNext ==
  ASSUME Types, Types', Unlocked, RowsAreGuesses, InTime, RateInv, [Next]_vars,
         NEW u \in User
  PROVE  Slow(u)'
<1>0. /\ InTurn /\ LocksLast /\ Excused /\ GuessRateBounded /\ Slow(u)
      /\ now \in Nat /\ faults \in Nat /\ lockouts[u] \in Nat /\ pardoned[u] <= Len(guesses[u])
  BY Typed DEF RateInv, Excused
<1>1. CASE \E v \in User : Snapshot(v)
  <2>1. /\ UNCHANGED <<now, failures, lockouts, guesses, pardoned, faults>>
        /\ bot.pc = "idle" /\ bot'.pc \in {"verify", "expire_failures", "idle"}
    BY <1>1, MovesHold DEF Snapshot, Moves, BotStatement
  <2>2. ~Adding(u) /\ ~Adding(u)' /\ ~Evaluating(u) /\ ~Evaluating(u)'
    BY <2>1 DEF Adding, Evaluating, Counting
  <2> QED
    BY <1>0, <2>1, <2>2, SlowCalm
<1>2. CASE ClearFailures
  <2>1. /\ UNCHANGED <<now, lockouts, guesses, pardoned, faults>>
        /\ bot.pc \in {"expire_failures", "reset_failures"} /\ bot.user \in User
        /\ bot'.pc \in {"expire_lockout", "reset_lockout"}
        /\ u # bot.user => failures'[u] = failures[u]
    BY <1>2, MovesHold DEF ClearFailures, Moves, BotStatement, Types
  <2>2. CASE u # bot.user
    <3>1. ~Adding(u) /\ ~Adding(u)' /\ ~Evaluating(u) /\ ~Evaluating(u)'
      BY <2>1 DEF Adding, Evaluating, Counting
    <3> QED
      BY <1>0, <2>1, <2>2, <3>1, SlowCalm
  <2>3. CASE u = bot.user
    <3>1. AllPardoned(u) \/ (lockouts[u] # 0 /\ lockouts[u] <= now)
      BY <1>0, <2>1, <2>3 DEF Excused, Unlocked
    <3> QED
      BY <1>0, <2>1, <3>1, SlowSettled
  <2> QED
    BY <2>2, <2>3
<1>3. CASE ClearLockout
  <2>1. /\ UNCHANGED <<now, failures, guesses, pardoned, faults>>
        /\ bot.pc \in {"expire_lockout", "reset_lockout"} /\ bot.user \in User
        /\ bot'.pc \in {"verify", "idle"}
        /\ lockouts'[u] = IF u = bot.user THEN 0 ELSE lockouts[u]
    BY <1>3, MovesHold DEF ClearLockout, Moves, BotStatement, Types
  <2>2. CASE u # bot.user \/ lockouts[u] = 0
    <3>1. ~Adding(u) /\ ~Adding(u)' /\ ~Evaluating(u) /\ ~Evaluating(u)'
      BY <2>1 DEF Adding, Evaluating, Counting
    <3> QED
      BY <1>0, <2>1, <2>2, <3>1, SlowCalm
  <2>3. CASE u = bot.user /\ lockouts[u] # 0
    <3>1. lockouts[u] <= now
      BY <2>1, <2>3 DEF Unlocked
    <3> QED
      BY <1>0, <2>1, <2>3, <3>1, SlowSettled
  <2> QED
    BY <2>2, <2>3
<1>4. CASE NothingPending
  <2>1. /\ UNCHANGED <<now, failures, lockouts, guesses, pardoned, faults>>
        /\ bot.pc = "verify" /\ bot'.pc = "idle"
    BY <1>4 DEF NothingPending, BotIdle
  <2>2. ~Adding(u) /\ ~Adding(u)' /\ ~Evaluating(u) /\ ~Evaluating(u)'
    BY <2>1 DEF Adding, Evaluating, Counting
  <2> QED
    BY <1>0, <2>1, <2>2, SlowCalm
<1>5. CASE RightCode
  <2>1. /\ UNCHANGED <<now, failures, lockouts, guesses, faults>>
        /\ bot.pc = "verify" /\ bot'.pc = "reset_failures"
        /\ pardoned'[u] = IF u = bot.user THEN Len(guesses[u]) ELSE pardoned[u]
    BY <1>5, MovesHold DEF RightCode, Moves, BotStatement, Types
  <2>2. CASE u # bot.user
    <3>1. ~Adding(u) /\ ~Adding(u)' /\ ~Evaluating(u) /\ ~Evaluating(u)'
      BY <2>1 DEF Adding, Evaluating, Counting
    <3> QED
      BY <1>0, <2>1, <2>2, <3>1, SlowCalm
  <2>3. CASE u = bot.user
    BY <2>1, <2>3, SlowPardoned
  <2> QED
    BY <2>2, <2>3
<1>6. CASE WrongCode
  <2>1. CASE u = bot.user
    BY <1>0, <1>6, <2>1, SlowGuess
  <2>2. CASE u # bot.user
    <3>1. /\ UNCHANGED <<now, failures, lockouts, pardoned, faults>>
          /\ guesses'[u] = guesses[u] /\ bot'.user = bot.user
      BY <1>6, <2>2, MovesHold DEF WrongCode, Moves, Types
    <3>2. ~Adding(u) /\ ~Adding(u)' /\ ~Evaluating(u) /\ ~Evaluating(u)'
      BY <2>2, <3>1, OthersCalm
    <3> QED
      BY <1>0, <3>1, <3>2, SlowCalm
  <2> QED
    BY <2>1, <2>2
<1>7. CASE AddFailure
  <2>1. CASE u = bot.user
    BY <1>0, <1>7, <2>1, SlowInsert
  <2>2. CASE u # bot.user
    <3>1. /\ UNCHANGED <<now, guesses, lockouts, pardoned, faults>>
          /\ failures'[u] = failures[u] /\ bot'.user = bot.user
      BY <1>7, <2>2, MovesHold DEF AddFailure, Moves, Types, BotStatement
    <3>2. ~Adding(u) /\ ~Adding(u)' /\ ~Evaluating(u) /\ ~Evaluating(u)'
      BY <2>2, <3>1, OthersCalm
    <3> QED
      BY <1>0, <3>1, <3>2, SlowCalm
  <2> QED
    BY <2>1, <2>2
<1>8. CASE GetLockout
  <2>1. /\ UNCHANGED <<now, failures, lockouts, guesses, pardoned, faults>>
        /\ bot.pc = "get_lockout" /\ bot.user \in User /\ bot.at \in Nat
    BY <1>8 DEF GetLockout, Types
  <2>2. lockouts[bot.user] = 0
    BY <2>1 DEF Unlocked, Counting
  <2>3. bot'.pc = "count_failures" /\ bot'.user = bot.user
    BY <1>8, <2>1, <2>2, MovesHold DEF GetLockout, Moves, BotStatement
  <2>4. (Adding(u)' <=> Adding(u)) /\ (Evaluating(u)' <=> Evaluating(u))
    BY <2>1, <2>3 DEF Adding, Evaluating, Counting
  <2> QED
    BY <1>0, <2>1, <2>4, SlowCalm
<1>9. CASE CountFailures
  <2>1. /\ UNCHANGED <<now, failures, lockouts, guesses, pardoned, faults>>
        /\ bot.pc = "count_failures"
    BY <1>9 DEF CountFailures
  <2>2. CASE Count(bot.user) < MaxFailures
    <3>1. CASE u = bot.user
      BY <1>0, <1>9, <2>2, <3>1, SlowCount
    <3>2. CASE u # bot.user
      <4>1. bot'.pc = "idle"
        BY <1>9, <2>2 DEF CountFailures, BotIdle
      <4>2. ~Adding(u) /\ ~Adding(u)' /\ ~Evaluating(u) /\ ~Evaluating(u)'
        BY <3>2, <4>1 DEF Adding, Evaluating, Counting
      <4> QED
        BY <1>0, <2>1, <4>2, SlowCalm
    <3> QED
      BY <3>1, <3>2
  <2>3. CASE ~(Count(bot.user) < MaxFailures)
    <3>1. bot'.pc = "set_lockout" /\ bot'.user = bot.user
      BY <1>9, <2>3, MovesHold DEF CountFailures, Moves, BotStatement
    <3>2. (Adding(u)' <=> Adding(u)) /\ (Evaluating(u)' <=> Evaluating(u))
      BY <2>1, <3>1 DEF Adding, Evaluating, Counting
    <3> QED
      BY <1>0, <2>1, <3>2, SlowCalm
  <2> QED
    BY <2>2, <2>3
<1>10. CASE SetLockout
  <2>1. /\ UNCHANGED <<now, failures, guesses, pardoned, faults>>
        /\ bot.pc = "set_lockout" /\ bot'.pc = "idle" /\ bot.at \in Nat
        /\ lockouts'[u] = IF u = bot.user THEN bot.at + LockoutTicks ELSE lockouts[u]
    BY <1>10 DEF SetLockout, Types, BotIdle
  <2>2. ~Adding(u) /\ ~Adding(u)'
    BY <2>1 DEF Adding
  <2>3. CASE u = bot.user
    <3>1. lockouts'[u] # 0
      BY <2>1, <2>3, Settings
    <3>2. Recorded(u)' = Recorded(u) /\ Recorded(u) \in Int
      BY <2>1, <2>2, Typed DEF Recorded
    <3>3. Recorded(u)' - faults' <= Recorded(u) - faults /\ now <= now'
      BY <1>0, <2>1, <3>2
    <3> QED
      BY <1>0, <2>1, <3>1, <3>3, SlowStays
  <2>4. CASE u # bot.user
    <3>1. ~Evaluating(u) /\ ~Evaluating(u)'
      BY <2>1, <2>4 DEF Evaluating, Counting
    <3> QED
      BY <1>0, <2>1, <2>2, <2>4, <3>1, SlowCalm
  <2> QED
    BY <2>3, <2>4
<1>11. CASE BotFault
  BY <1>0, <1>11, SlowFault
<1>12. ASSUME NEW v \in User, UnlockFailures(v)
       PROVE  Slow(u)'
  <2>1. /\ UNCHANGED <<now, lockouts, bot, guesses, faults>>
        /\ u = v => pardoned'[u] = Len(guesses'[u])
        /\ u # v => failures'[u] = failures[u] /\ pardoned'[u] = pardoned[u]
    BY <1>12 DEF UnlockFailures, Types
  <2>2. CASE u = v
    BY <2>1, <2>2, SlowPardoned
  <2>3. CASE u # v
    <3>1. (Adding(u)' <=> Adding(u)) /\ (Evaluating(u)' <=> Evaluating(u))
      BY <2>1 DEF Adding, Evaluating
    <3> QED
      BY <1>0, <2>1, <2>3, <3>1, SlowCalm
  <2> QED
    BY <2>2, <2>3
<1>13. CASE UnlockLockout
  <2>1. /\ UNCHANGED <<now, failures, bot, guesses, faults>>
        /\ u = cli.user => pardoned'[u] = Len(guesses'[u])
        /\ u # cli.user => lockouts'[u] = lockouts[u] /\ pardoned'[u] = pardoned[u]
    BY <1>13 DEF UnlockLockout, Types
  <2>2. CASE u = cli.user
    BY <2>1, <2>2, SlowPardoned
  <2>3. CASE u # cli.user
    <3>1. (Adding(u)' <=> Adding(u)) /\ (Evaluating(u)' <=> Evaluating(u))
      BY <2>1 DEF Adding, Evaluating
    <3> QED
      BY <1>0, <2>1, <2>3, <3>1, SlowCalm
  <2> QED
    BY <2>2, <2>3
<1>14. CASE CliFault \/ Tick \/ UNCHANGED vars
  <2>1. /\ UNCHANGED <<failures, lockouts, bot, guesses, pardoned>>
        /\ now' \in {now, now + 1} /\ faults' \in {faults, faults + 1}
    BY <1>14 DEF CliFault, Tick, vars
  <2>2. now <= now' /\ faults <= faults'
    BY <1>0, <2>1
  <2>3. (Adding(u)' <=> Adding(u)) /\ (Evaluating(u)' <=> Evaluating(u))
    BY <2>1 DEF Adding, Evaluating
  <2> QED
    BY <1>0, <2>1, <2>2, <2>3, SlowCalm
<1> QED
  BY <1>1, <1>2, <1>3, <1>4, <1>5, <1>6, <1>7, <1>8, <1>9, <1>10, <1>11, <1>12, <1>13, <1>14
     DEF Next, Handler, Unlock

\* Guesses that are further apart lie further apart in time.
LEMMA Farther ==
  ASSUME NEW all, NEW n \in Nat, \A j \in 1..n : all[j] \in Nat,
         \A j, l \in 1..n : j <= l => all[j] <= all[l],
         NEW k \in Nat, NEW m \in Nat, k <= m, NEW p \in Nat, NEW q \in Nat, p <= q,
         NEW w \in Nat, \A i \in p + 1 .. n - k : all[i + k] - all[i] >= w
  PROVE  \A i \in q + 1 .. n - m : all[i + m] - all[i] >= w
<1>1. SUFFICES ASSUME NEW i \in q + 1 .. n - m
               PROVE  all[i + m] - all[i] >= w
  OBVIOUS
<1>2. /\ i \in p + 1 .. n - k /\ i \in 1..n /\ i + k \in 1..n /\ i + m \in 1..n
      /\ i + k <= i + m
  OBVIOUS
<1>3. all[i + k] - all[i] >= w /\ all[i + k] <= all[i + m]
  BY <1>2
<1>4. all[i] \in Nat /\ all[i + k] \in Nat /\ all[i + m] \in Nat
  BY <1>2
<1> QED
  BY <1>3, <1>4

LEMMA MoreFaults ==
  ASSUME NEW a \in Nat, NEW b \in Nat, NEW c \in Nat, b <= c
  PROVE  a + b \in Nat /\ a + c \in Nat /\ a + b <= a + c
  OBVIOUS

LEMMA SameLess ==
  ASSUME NEW a \in Int, NEW b \in Int, NEW c \in Int, a = c
  PROVE  a - b = c - b
  OBVIOUS

\* What is pardoned and what has failed only becomes more.
LEMMA RateNext ==
  ASSUME Types, Types', Unlocked, RowsAreGuesses, InTime, RateInv, [Next]_vars
  PROVE  GuessRateBounded'
<1>1. SUFFICES ASSUME NEW u \in User
               PROVE  \A i \in pardoned'[u] + 1 .. Len(guesses'[u]) - (MaxFailures + faults') :
                          guesses'[u][i + (MaxFailures + faults')] - guesses'[u][i] >= LeastWait
  BY DEF GuessRateBounded
<1>2. /\ GuessRateBounded /\ Slow(u) /\ pardoned[u] <= Len(guesses[u])
      /\ \A j, l \in 1..Len(guesses[u]) : j <= l => guesses[u][j] <= guesses[u][l]
  BY DEF RateInv, Excused, InTurn
<1>3. /\ Len(guesses[u]) \in Nat /\ pardoned[u] \in Nat /\ faults \in Nat
      /\ \A j \in 1..Len(guesses[u]) : guesses[u][j] \in Nat
      /\ pardoned'[u] \in Nat /\ faults' \in Nat /\ MaxFailures \in Nat /\ LeastWait \in Nat
  BY Typed, TypedNext, LeastWaitIs, Settings
<1>4. CASE guesses'[u] = guesses[u] /\ pardoned[u] <= pardoned'[u] /\ faults <= faults'
  <2> DEFINE k == MaxFailures + faults  m == MaxFailures + faults'
  <2>1. \A i \in pardoned[u] + 1 .. Len(guesses[u]) - k :
            guesses[u][i + k] - guesses[u][i] >= LeastWait
    BY <1>2 DEF GuessRateBounded
  <2>2. k \in Nat /\ m \in Nat /\ k <= m
    <3>1. MaxFailures \in Nat /\ faults \in Nat /\ faults' \in Nat
      BY <1>3
    <3>2. faults <= faults'
      BY <1>4
    <3> QED
      BY <3>1, <3>2, MoreFaults
  <2> HIDE DEF k, m
  <2>3. \A i \in pardoned'[u] + 1 .. Len(guesses[u]) - m :
            guesses[u][i + m] - guesses[u][i] >= LeastWait
    BY <1>2, <1>3, <1>4, <2>1, <2>2, Farther
  <2> QED
    BY <1>4, <2>3 DEF m
<1>5. CASE WrongCode /\ u = bot.user
  <2> DEFINE k == MaxFailures + faults
  <2>1. pardoned' = pardoned /\ faults' = faults
    BY <1>5 DEF WrongCode
  <2>2. /\ Len(guesses'[u]) = Len(guesses[u]) + 1
        /\ \A j \in pardoned[u] + 1 .. Len(guesses[u]) + 1 - k :
               guesses'[u][j + k] - guesses'[u][j] >= LeastWait
    BY <1>2, <1>5, SlowGuess
  <2>3. Len(guesses'[u]) - k = Len(guesses[u]) + 1 - k
    <3>1. Len(guesses'[u]) = Len(guesses[u]) + 1
      BY <2>2
    <3>2. Len(guesses'[u]) \in Int /\ Len(guesses[u]) + 1 \in Int /\ k \in Int
      BY <1>3, <3>1
    <3> QED
      BY <3>1, <3>2, SameLess
  <2> HIDE DEF k
  <2>4. \A j \in pardoned[u] + 1 .. Len(guesses'[u]) - k :
            guesses'[u][j + k] - guesses'[u][j] >= LeastWait
    BY <2>2, <2>3, Zenon
  <2> QED
    BY <2>1, <2>4 DEF k
<1>6. CASE ~(WrongCode /\ u = bot.user)
  <2>1. guesses'[u] = guesses[u]
    BY <1>6 DEF Next, Handler, Snapshot, ClearFailures, ClearLockout, NothingPending,
         RightCode, WrongCode, AddFailure, GetLockout, CountFailures, SetLockout, BotFault,
         Unlock, UnlockFailures, UnlockLockout, CliFault, Tick, vars, Types
  <2>2. faults' \in {faults, faults + 1}
    BY DEF Next, Handler, Snapshot, ClearFailures, ClearLockout, NothingPending,
         RightCode, WrongCode, AddFailure, GetLockout, CountFailures, SetLockout, BotFault,
         Unlock, UnlockFailures, UnlockLockout, CliFault, Tick, vars
  <2>3. pardoned'[u] \in {pardoned[u], Len(guesses[u])}
    BY ZenonT(60) DEF Next, Handler, Snapshot, ClearFailures, ClearLockout, NothingPending,
         RightCode, WrongCode, AddFailure, GetLockout, CountFailures, SetLockout, BotFault,
         Unlock, UnlockFailures, UnlockLockout, CliFault, Tick, vars, Types
  <2>4. pardoned[u] <= pardoned'[u] /\ faults <= faults'
    BY <1>2, <1>3, <2>2, <2>3
  <2> QED
    BY <1>4, <2>1, <2>4
<1> QED
  BY <1>5, <1>6

LEMMA RateInit == Init => RateInv
<1> SUFFICES ASSUME Init PROVE RateInv
  OBVIOUS
<1>1. Types
  BY InitInv DEF IInv
<1>2. /\ \A u \in User : Len(guesses[u]) = 0 /\ pardoned[u] = 0 /\ lockouts[u] = 0
      /\ bot.pc = "idle"
  BY EmptySeq DEF Init, BotIdle
<1>3. InTurn /\ LocksLast /\ Excused
  BY <1>2 DEF InTurn, LocksLast, Excused, Counting
<1>4. GuessRateBounded
  <2>1. faults = 0 /\ MaxFailures \in Nat \ {0}
    BY Settings DEF Init
  <2> QED
    BY <1>2, <2>1 DEF GuessRateBounded
<1>5. ASSUME NEW u \in User
      PROVE  Slow(u)
  <2>1. Recorded(u) \in Int /\ Recorded(u) <= 0
    BY <1>1, <1>2, Typed
  <2>2. Waited(guesses[u], 0, 0, now)
    BY DEF Waited
  <2>3. RowsCount(guesses[u], failures[u], 0, Recorded(u), faults)
    BY <2>1 DEF RowsCount
  <2>4. Spread(guesses[u], 0, Far(u))
    BY <1>2 DEF Spread
  <2>5. 0 \in pardoned[u] .. Len(guesses[u])
    BY <1>2
  <2> QED
    BY <1>2, <2>2, <2>3, <2>4, <2>5 DEF Slow
<1> QED
  BY <1>3, <1>4, <1>5 DEF RateInv

\* Short of a right code or an unlock (reset and admin_unlock in auth/lockout.py) a user has
\* no more than MaxFailures wrong codes evaluated, and one for each crash or failing
\* statement, within a lockout or a sliding window, wherever record_failure is cut short.
THEOREM GuessesAreSlow == Spec => []GuessRateBounded
<1>1. Init => RateInv
  BY RateInit
<1>2. IInv /\ IInv' /\ RateInv /\ [Next]_vars => RateInv'
  <2> SUFFICES ASSUME IInv, IInv', RateInv, [Next]_vars PROVE RateInv'
    OBVIOUS
  <2>1. Types /\ Unlocked /\ RowsAreGuesses /\ InTime /\ Types'
    BY DEF IInv
  <2>2. InTurn /\ LocksLast /\ Excused
    BY DEF RateInv
  <2>3. InTurn' /\ LocksLast' /\ Excused'
    BY <2>1, <2>2, InTurnNext, LocksLastNext, ExcusedNext
  <2>4. GuessRateBounded'
    BY <2>1, RateNext
  <2>5. \A u \in User : Slow(u)'
    BY <2>1, SlowNext
  <2> QED
    BY <2>3, <2>4, <2>5 DEF RateInv
<1>3. RateInv => GuessRateBounded
  BY DEF RateInv
<1> QED
  BY <1>1, <1>2, <1>3, InvariantHolds, PTL DEF Spec

-----------------------------------------------------------------------------
(* Migrator. *)

USE MigratorAssumption

\* What a process read of _migrations stays true: rows are never changed.
ReadingsStand ==
    \A p \in Procs, v \in 1..MaxVersion :
        applied[p][v] # None => book[v] = applied[p][v]

\* At COMMIT every statement of the file has been executed, and its number is
\* still free: the primary key was tested, and the lock held since.
AboutToCommit(p) ==
    /\ writer = p
    /\ done[p] = Len(Script[file[p].sum])
    /\ book[file[p].version] = None

\* Of its release, a process has dealt with all files but those still `left`
\* and the one it is applying.
Progress(p) ==
    /\ ~ Clashes(edition[p])
    /\ \A f \in edition[p] :
          f \in left[p] \/ f = file[p] \/ book[f.version] = f.sum
    /\ pc[p] = "ready" => left[p] = {}

MigratorInv ==
    /\ MigratorTypeOK
    /\ ReadingsStand
    /\ \A p \in Procs : pc[p] = "commit" => AboutToCommit(p)
    /\ \A p \in Procs :
          pc[p] \in {"next", "stmt", "commit", "ready"} => Progress(p)

-----------------------------------------------------------------------------

LEMMA MigratorInitInv == MigratorInit => MigratorInv
  BY DEF MigratorInit, MigratorInv, MigratorTypeOK, ReadingsStand, Books, InTransaction

\* Giving up: what is committed stays, and the lock is free again.
LEMMA RaiseInv == ASSUME NEW p \in Procs, MigratorInv, Raise(p) PROVE MigratorInv'
<1> USE DEF Raise, Rollback, MigratorInv, MigratorTypeOK, InTransaction
<1>1. MigratorTypeOK'
  OBVIOUS
<1>2. ReadingsStand'
  BY DEF ReadingsStand
<1>3. ASSUME NEW q \in Procs, pc'[q] = "commit" PROVE AboutToCommit(q)'
  BY <1>3 DEF AboutToCommit
<1>4. ASSUME NEW q \in Procs, pc'[q] \in {"next", "stmt", "commit", "ready"}
      PROVE  Progress(q)'
  BY <1>4 DEF Progress, Clashes
<1> QED
  BY <1>1, <1>2, <1>3, <1>4

LEMMA OpenInv == ASSUME NEW p \in Procs, MigratorInv, Open(p) PROVE MigratorInv'
<1> USE DEF Open, MigratorInv, MigratorTypeOK, InTransaction
<1>1. MigratorTypeOK'
  OBVIOUS
<1>2. ReadingsStand'
  BY DEF ReadingsStand, Books
<1>3. ASSUME NEW q \in Procs, pc'[q] = "commit" PROVE AboutToCommit(q)'
  BY <1>3 DEF AboutToCommit
<1>4. ASSUME NEW q \in Procs, pc'[q] \in {"next", "stmt", "commit", "ready"}
      PROVE  Progress(q)'
  BY <1>4 DEF Progress, Clashes
<1> QED
  BY <1>1, <1>2, <1>3, <1>4

\* A file is passed over only when the database has its content: the row it
\* was compared with still stands.
LEMMA SkipInv == ASSUME NEW p \in Procs, MigratorInv, Skip(p) PROVE MigratorInv'
<1> USE DEF MigratorInv, MigratorTypeOK, InTransaction
<1>1. /\ pc[p] = "next"
      /\ UNCHANGED <<book, effects, writer, edition, applied, file, done, restarts>>
  BY DEF Skip
<1>2. PICK f \in left[p] :
        /\ applied[p][f.version] # None
        /\ \/ pc' = [pc EXCEPT ![p] = "raised"] /\ left' = left
           \/ /\ ~ Edited(p, f)
              /\ left' = [left EXCEPT ![p] = @ \ {f}] /\ pc' = pc
  BY DEF Skip
<1>3. f \in File
  OBVIOUS
<1>4. MigratorTypeOK'
  <2>1. CASE pc' = [pc EXCEPT ![p] = "raised"] /\ left' = left
    BY <1>1, <2>1
  <2>2. CASE left' = [left EXCEPT ![p] = @ \ {f}] /\ pc' = pc
    BY <1>1, <2>2
  <2> QED
    BY <1>2, <2>1, <2>2
<1>5. ReadingsStand'
  BY <1>1 DEF ReadingsStand
<1>6. ASSUME NEW q \in Procs, pc'[q] = "commit" PROVE AboutToCommit(q)'
  BY <1>1, <1>2, <1>6 DEF AboutToCommit
<1>7. ~ Edited(p, f) => book[f.version] = f.sum
  BY <1>2, <1>3 DEF ReadingsStand, Edited, File
<1>8. ASSUME NEW q \in Procs, pc'[q] \in {"next", "stmt", "commit", "ready"}
      PROVE  Progress(q)'
  <2>1. CASE pc' = [pc EXCEPT ![p] = "raised"] /\ left' = left
    BY <1>1, <1>8, <2>1 DEF Progress, Clashes
  <2>2. CASE ~ Edited(p, f) /\ left' = [left EXCEPT ![p] = @ \ {f}] /\ pc' = pc
    BY <1>1, <1>7, <1>8, <2>2 DEF Progress, Clashes
  <2> QED
    BY <1>2, <2>1, <2>2
<1> QED
  BY <1>4, <1>5, <1>6, <1>8

LEMMA BeginInv == ASSUME NEW p \in Procs, MigratorInv, Begin(p) PROVE MigratorInv'
<1> USE DEF Begin, MigratorInv, MigratorTypeOK, InTransaction
<1>1. PICK f \in left[p] : /\ file' = [file EXCEPT ![p] = f]
                           /\ left' = [left EXCEPT ![p] = @ \ {f}]
  OBVIOUS
<1>2. f \in File
  OBVIOUS
<1>3. MigratorTypeOK'
  BY <1>1, <1>2
<1>4. ReadingsStand'
  BY DEF ReadingsStand
<1>5. ASSUME NEW q \in Procs, pc'[q] = "commit" PROVE AboutToCommit(q)'
  BY <1>1, <1>5 DEF AboutToCommit
<1>6. ASSUME NEW q \in Procs, pc'[q] \in {"next", "stmt", "commit", "ready"}
      PROVE  Progress(q)'
  BY <1>1, <1>6 DEF Progress, Clashes
<1> QED
  BY <1>3, <1>4, <1>5, <1>6

LEMMA ExecuteInv == ASSUME NEW p \in Procs, MigratorInv, Execute(p) PROVE MigratorInv'
<1>1. CASE Raise(p)
  BY <1>1, RaiseInv
<1>2. CASE ~ Raise(p)
  <2> USE DEF Execute, MigratorInv, MigratorTypeOK, InTransaction
  <2>1. /\ writer \in {p, Nobody} /\ writer' = p
        /\ done' = [done EXCEPT ![p] = @ + 1]
        /\ UNCHANGED <<book, effects, pc, edition, applied, left, file, restarts>>
    BY <1>2
  <2>2. MigratorTypeOK'
    BY <2>1
  <2>3. ReadingsStand'
    BY <2>1 DEF ReadingsStand
  <2>4. ASSUME NEW q \in Procs, pc'[q] = "commit" PROVE AboutToCommit(q)'
    BY <2>1, <2>4 DEF AboutToCommit
  <2>5. ASSUME NEW q \in Procs, pc'[q] \in {"next", "stmt", "commit", "ready"}
        PROVE  Progress(q)'
    BY <2>1, <2>5 DEF Progress, Clashes
  <2> QED
    BY <2>2, <2>3, <2>4, <2>5
<1> QED
  BY <1>1, <1>2

\* The row is inserted under the lock, so its number stays free until COMMIT.
LEMMA InsertInv == ASSUME NEW p \in Procs, MigratorInv, Insert(p) PROVE MigratorInv'
<1>1. CASE Raise(p)
  BY <1>1, RaiseInv
<1>2. CASE ~ Raise(p)
  <2> USE DEF Insert, MigratorInv, MigratorTypeOK, InTransaction
  <2>1. /\ done[p] = Len(Script[file[p].sum])
        /\ ~ RowTaken(file[p].version)
        /\ writer \in {p, Nobody} /\ writer' = p
        /\ pc[p] = "stmt" /\ pc' = [pc EXCEPT ![p] = "commit"]
        /\ UNCHANGED <<book, effects, edition, applied, left, file, done, restarts>>
    BY <1>2
  <2>2. MigratorTypeOK'
    BY <2>1
  <2>3. ReadingsStand'
    BY <2>1 DEF ReadingsStand
  <2>4. ASSUME NEW q \in Procs, pc'[q] = "commit" PROVE AboutToCommit(q)'
    BY <2>1, <2>4 DEF AboutToCommit, RowTaken
  <2>5. ASSUME NEW q \in Procs, pc'[q] \in {"next", "stmt", "commit", "ready"}
        PROVE  Progress(q)'
    BY <2>1, <2>5 DEF Progress, Clashes
  <2> QED
    BY <2>2, <2>3, <2>4, <2>5
<1> QED
  BY <1>1, <1>2

\* A process about to commit has executed its file to the end.
LEMMA WholeFile ==
    ASSUME NEW p \in Procs, MigratorInv, pc[p] = "commit"
    PROVE  /\ file[p] \in File
           /\ Private(p) = Script[file[p].sum]
<1>1. file[p] \in File
  BY DEF MigratorInv, MigratorTypeOK, InTransaction
<1>2. Script[file[p].sum] \in Seq(Statements)
  BY <1>1 DEF File
<1>3. done[p] = Len(Script[file[p].sum])
  BY DEF MigratorInv, AboutToCommit
<1> QED
  BY <1>1, <1>2, <1>3 DEF Private

\* Nobody else is about to commit, and the row written was free, so every
\* reading and every file already dealt with still stands.
LEMMA CommitInv == ASSUME NEW p \in Procs, MigratorInv, Commit(p) PROVE MigratorInv'
<1> USE DEF Commit, Rollback, MigratorInv, MigratorTypeOK, InTransaction
<1>1. /\ file[p] \in File
      /\ file[p].version \in 1..MaxVersion /\ file[p].sum \in Sums
      /\ Private(p) \in Seq(Statements)
  <2>1. file[p] \in File /\ Private(p) = Script[file[p].sum]
    BY WholeFile
  <2> QED
    BY <2>1 DEF File
<1>2. AboutToCommit(p)
  OBVIOUS
<1>3. book' = [book EXCEPT ![file[p].version] = file[p].sum]
  OBVIOUS
<1>4. MigratorTypeOK'
  <2>1. effects' \in Seq(Statements)
    BY <1>1
  <2>2. book' \in Books
    BY <1>1, <1>3 DEF Books
  <2> QED
    BY <2>1, <2>2, <1>2 DEF AboutToCommit
<1>5. ReadingsStand'
  BY <1>1, <1>2, <1>3 DEF ReadingsStand, AboutToCommit, Books
<1>6. ASSUME NEW q \in Procs, pc'[q] = "commit" PROVE AboutToCommit(q)'
  BY <1>2, <1>6 DEF AboutToCommit
<1>7. ASSUME NEW q \in Procs, pc'[q] \in {"next", "stmt", "commit", "ready"}
      PROVE  Progress(q)'
  <2>1. Progress(q)
    BY <1>7
  <2>2. ASSUME NEW f \in edition'[q]
        PROVE  f \in left'[q] \/ f = file'[q] \/ book'[f.version] = f.sum
    <3>1. f \in File
      BY <2>2
    <3>2. CASE f.version # file[p].version
      BY <3>1, <3>2, <2>1, <2>2, <1>1, <1>3 DEF Progress, File, Books
    <3>3. CASE f.version = file[p].version
      BY <3>1, <3>3, <2>1, <2>2, <1>1, <1>2, <1>3
         DEF Progress, AboutToCommit, File, Books
    <3> QED
      BY <3>2, <3>3
  <2>3. ~ Clashes(edition'[q]) /\ (pc'[q] = "ready" => left'[q] = {})
    BY <2>1 DEF Progress
  <2> QED
    BY <2>2, <2>3 DEF Progress, Clashes
<1> QED
  BY <1>4, <1>5, <1>6, <1>7

LEMMA FinishInv == ASSUME NEW p \in Procs, MigratorInv, Finish(p) PROVE MigratorInv'
<1> USE DEF Finish, MigratorInv, MigratorTypeOK, InTransaction
<1>1. MigratorTypeOK'
  OBVIOUS
<1>2. ReadingsStand'
  BY DEF ReadingsStand
<1>3. ASSUME NEW q \in Procs, pc'[q] = "commit" PROVE AboutToCommit(q)'
  BY <1>3 DEF AboutToCommit
<1>4. ASSUME NEW q \in Procs, pc'[q] \in {"next", "stmt", "commit", "ready"}
      PROVE  Progress(q)'
  BY <1>4 DEF Progress, Clashes
<1> QED
  BY <1>1, <1>2, <1>3, <1>4

LEMMA RestartInv == ASSUME NEW p \in Procs, MigratorInv, Restart(p) PROVE MigratorInv'
<1> USE DEF Restart, Rollback, MigratorInv, MigratorTypeOK, InTransaction
<1>1. PICK e \in Editions : edition' = [edition EXCEPT ![p] = e]
  OBVIOUS
<1>2. MigratorTypeOK'
  BY <1>1
<1>3. ReadingsStand'
  BY DEF ReadingsStand
<1>4. ASSUME NEW q \in Procs, pc'[q] = "commit" PROVE AboutToCommit(q)'
  BY <1>4 DEF AboutToCommit
<1>5. ASSUME NEW q \in Procs, pc'[q] \in {"next", "stmt", "commit", "ready"}
      PROVE  Progress(q)'
  BY <1>1, <1>5 DEF Progress, Clashes
<1> QED
  BY <1>2, <1>3, <1>4, <1>5

LEMMA MigratorStepInv == MigratorInv /\ [MigratorNext]_migratorVars => MigratorInv'
<1> SUFFICES ASSUME MigratorInv, [MigratorNext]_migratorVars PROVE MigratorInv'
  OBVIOUS
<1>1. CASE UNCHANGED migratorVars
  BY <1>1 DEF migratorVars, MigratorInv, MigratorTypeOK, InTransaction, ReadingsStand, AboutToCommit,
              Progress, Clashes
<1>2. ASSUME NEW p \in Procs, Step(p) PROVE MigratorInv'
  <2>1. Fail(p) => Raise(p)
    BY DEF Fail
  <2> QED
    BY <1>2, <2>1, OpenInv, SkipInv, BeginInv, ExecuteInv, InsertInv, CommitInv,
       RaiseInv, FinishInv, RestartInv DEF Step
<1> QED
  BY <1>1, <1>2 DEF MigratorNext

\* The invariant holds in every reachable state.
LEMMA MigratorInvariance == MigratorSpec => []MigratorInv
  BY MigratorInitInv, MigratorStepInv, PTL DEF MigratorSpec

-----------------------------------------------------------------------------

\* Types, and no lock outlives its transaction.
THEOREM MigratorTypeCorrect == MigratorSpec => []MigratorTypeOK
<1>1. MigratorInv => MigratorTypeOK
  BY DEF MigratorInv
<1> QED
  BY <1>1, MigratorInvariance, PTL

\* A process that started has the database its release asks for.
THEOREM ReadyCorrect == MigratorSpec => []ReadyMeansMigrated
<1>1. MigratorInv => ReadyMeansMigrated
  <2> SUFFICES ASSUME MigratorInv, NEW p \in Procs, pc[p] = "ready"
               PROVE  /\ ~ Clashes(edition[p])
                      /\ \A f \in edition[p] : book[f.version] = f.sum
    BY DEF ReadyMeansMigrated
  <2>1. Progress(p) /\ file[p] = None
    BY DEF MigratorInv, MigratorTypeOK, InTransaction
  <2>2. edition[p] \subseteq File
    BY DEF MigratorInv, MigratorTypeOK
  <2> QED
    BY <2>1, <2>2 DEF Progress
<1> QED
  BY <1>1, MigratorInvariance, PTL

\* The migrator implements SchemaBook: a commit is one whole migration, and
\* nothing else is seen of the database.
THEOREM Refinement == MigratorSpec => WholeMigrations
<1>1. MigratorInit => Book!Init
  BY DEF MigratorInit, Book!Init
<1>2. MigratorInv /\ [MigratorNext]_migratorVars => [Book!Next]_<<book, effects>>
  <2> SUFFICES ASSUME MigratorInv, [MigratorNext]_migratorVars,
                      ~ UNCHANGED <<book, effects>>
               PROVE  Book!Next
    OBVIOUS
  <2>1. PICK p \in Procs : Commit(p)
    BY DEF MigratorNext, Step, migratorVars, Open, Skip, Begin, Execute, Insert, Fail, Raise,
           Finish, Restart
  <2>2. /\ file[p].version \in 1..MaxVersion /\ file[p].sum \in Sums
        /\ Private(p) = Script[file[p].sum]
    BY <2>1, WholeFile DEF Commit, File
  <2>3. Book!Migrate(file[p].version, file[p].sum)
    BY <2>1, <2>2 DEF Commit, MigratorInv, AboutToCommit, Book!Migrate
  <2> QED
    BY <2>2, <2>3 DEF Book!Next
<1> QED
  BY <1>1, <1>2, MigratorInvariance, PTL DEF MigratorSpec, WholeMigrations, Book!Spec
=============================================================================
