------------------------- MODULE DiscordGatewayProofs -------------------------
\* For any number of events, sessions and faults: no message is skipped, repeated or
\* dispatched out of order.
EXTENDS DiscordGateway, SequenceTheorems, TLAPS

\* The events among the frames q carry the numbers a + 1, a + 2, ... b; f counts them.
Numbering(f, q, a, b) ==
    /\ f \in [Nat -> Nat] /\ f[0] = a /\ f[Len(q)] = b
    /\ \A i \in 1..Len(q) :
           IF q[i].op = "event" THEN f[i] = f[i - 1] + 1 /\ q[i].seq = f[i] ELSE f[i] = f[i - 1]

Numbered(q, a, b) == \E f \in [Nat -> Nat] : Numbering(f, q, a, b)

\* What is on its way continues what the client has seen, up to what has happened.
Continues ==
    \E to \in Nat : /\ Numbered(inbox, lastSeq, to)
                    /\ attached /\ ~silent => to = Len(log)

\* HELLO comes first and alone, and outside a connection nothing is on its way.
Connection ==
    /\ pc # "stream" => inbox = << >> /\ ~attached /\ ~silent
    /\ \A i \in DOMAIN inbox : inbox[i].op = "hello" => Len(inbox) = 1 /\ ~attached /\ heartbeat = "off"
    /\ \A i \in DOMAIN inbox : inbox[i].op = "event" => attached
    /\ silent => inbox = << >>

\* READY opens the log of a session, and nothing has been dispatched before it.
Log ==
    /\ log # << >> => sessions > 0 /\ log[1] = "ready"
    /\ \A n \in 2..Len(log) : log[n] # "ready"
    /\ attached \/ live => log # << >>
    /\ \A i \in DOMAIN dispatched :
           /\ dispatched[i][1] \in 1..sessions
           /\ dispatched[i][1] = session => dispatched[i][2] <= lastSeq
           /\ session = 0 /\ attached => dispatched[i][1] # sessions

IInv == TypeOK /\ Continues /\ Connection /\ Log /\ DispatchedOnceInOrder /\ NothingSkipped

-----------------------------------------------------------------------------
(* Numbering. *)

LEMMA Appended ==
  ASSUME NEW S, NEW q \in Seq(S), NEW e \in S
  PROVE  /\ Append(q, e) \in Seq(S) /\ Len(q) \in Nat
         /\ Len(Append(q, e)) = Len(q) + 1 /\ Append(q, e)[Len(q) + 1] = e
         /\ \A i \in 1..Len(q) : Append(q, e)[i] = q[i]
         /\ DOMAIN q = 1..Len(q) /\ DOMAIN Append(q, e) = 1..Len(q) + 1
  OBVIOUS

LEMMA Dropped ==
  ASSUME NEW S, NEW q \in Seq(S), q # << >>
  PROVE  /\ Tail(q) \in Seq(S) /\ Len(q) \in Nat \ {0} /\ Len(Tail(q)) = Len(q) - 1
         /\ \A i \in 1..Len(q) - 1 : Tail(q)[i] = q[i + 1]
         /\ Head(q) = q[1] /\ 1 \in 1..Len(q) /\ Head(q) \in S
         /\ DOMAIN q = 1..Len(q) /\ DOMAIN Tail(q) = 1..Len(q) - 1
  OBVIOUS

LEMMA NumberedEmpty == \A a \in Nat : Numbered(<< >>, a, a)
<1> SUFFICES ASSUME NEW a \in Nat PROVE Numbered(<< >>, a, a)
  OBVIOUS
<1>1. Numbering([i \in Nat |-> a], << >>, a, a)
  BY DEF Numbering
<1>2. [i \in Nat |-> a] \in [Nat -> Nat]
  OBVIOUS
<1> QED
  BY <1>1, <1>2 DEF Numbered

LEMMA NumberedSignal ==
  ASSUME NEW q \in Seq(Frame), NEW a \in Nat, NEW b \in Nat, Numbered(q, a, b),
         NEW s \in Frame, s.op # "event"
  PROVE  Numbered(Append(q, s), a, b)
<1>1. PICK f \in [Nat -> Nat] : Numbering(f, q, a, b)
  BY DEF Numbered
<1> DEFINE n == Len(q)
           g == [i \in Nat |-> IF i <= n THEN f[i] ELSE b]
<1>2. /\ n \in Nat /\ Len(Append(q, s)) = n + 1 /\ Append(q, s)[n + 1] = s
      /\ \A i \in 1..n : Append(q, s)[i] = q[i]
  BY Appended
<1>0. n \in Nat /\ n + 1 \in Nat /\ ~(n + 1 <= n) /\ 0 \in 0..n
  BY <1>2, SMTT(30)
<1> HIDE DEF n
<1>3. g \in [Nat -> Nat] /\ g[n + 1] = b /\ \A i \in 0..n : g[i] = f[i]
  BY <1>0, SMTT(30)
<1>4. f[0] = a /\ f[n] = b
  BY <1>1 DEF Numbering, n
<1> HIDE DEF g
<1>5. ASSUME NEW i \in 1..n + 1
      PROVE  IF Append(q, s)[i].op = "event"
             THEN g[i] = g[i - 1] + 1 /\ Append(q, s)[i].seq = g[i] ELSE g[i] = g[i - 1]
  <2>1. CASE i \in 1..n
    <3>1. i - 1 \in 0..n /\ i \in 0..n
      BY <1>2, <2>1
    <3> QED
      BY <1>1, <1>2, <1>3, <2>1, <3>1 DEF Numbering, n
  <2>2. CASE i = n + 1
    <3>1. i - 1 = n /\ n \in 0..n
      BY <1>2, <2>2
    <3> QED
      BY <1>2, <1>3, <1>4, <2>2, <3>1
  <2>3. i \in 1..n \/ i = n + 1
    BY <1>0
  <2> QED
    BY <2>1, <2>2, <2>3
<1>7. g[0] = a /\ g[Len(Append(q, s))] = b
  BY <1>0, <1>2, <1>3, <1>4
<1>6. Numbering(g, Append(q, s), a, b)
  <2>1. 1..Len(Append(q, s)) = 1..n + 1
    BY <1>2
  <2> QED
    BY <1>3, <1>5, <1>7, <2>1 DEF Numbering
<1> QED
  BY <1>3, <1>6 DEF Numbered

LEMMA NumberedEvent ==
  ASSUME NEW q \in Seq(Frame), NEW a \in Nat, NEW b \in Nat, Numbered(q, a, b)
  PROVE  Numbered(Append(q, Event(b + 1)), a, b + 1)
<1>1. PICK f \in [Nat -> Nat] : Numbering(f, q, a, b)
  BY DEF Numbered
<1> DEFINE n == Len(q)
           s == Event(b + 1)
           g == [i \in Nat |-> IF i <= n THEN f[i] ELSE b + 1]
<1>2. /\ n \in Nat /\ Len(Append(q, s)) = n + 1 /\ Append(q, s)[n + 1] = s
      /\ \A i \in 1..n : Append(q, s)[i] = q[i]
      /\ s.op = "event" /\ s.seq = b + 1
  <2>1. s \in Frame /\ s.op = "event" /\ s.seq = b + 1
    BY DEF Event, Frame, Op
  <2> HIDE DEF s
  <2> QED
    BY <2>1, Appended
<1> HIDE DEF s
<1> HIDE DEF n
<1>0. n \in Nat /\ n + 1 \in Nat /\ ~(n + 1 <= n) /\ 0 \in 0..n
  <2>1. n \in Nat
    BY <1>2
  <2> QED
    BY <2>1
<1>3. g \in [Nat -> Nat] /\ g[n + 1] = b + 1 /\ \A i \in 0..n : g[i] = f[i]
  BY <1>0, SMTT(30)
<1>4. f[0] = a /\ f[n] = b
  BY <1>1 DEF Numbering, n
<1> HIDE DEF g
<1>5. ASSUME NEW i \in 1..n + 1
      PROVE  IF Append(q, s)[i].op = "event"
             THEN g[i] = g[i - 1] + 1 /\ Append(q, s)[i].seq = g[i] ELSE g[i] = g[i - 1]
  <2>1. CASE i \in 1..n
    <3>1. i - 1 \in 0..n /\ i \in 0..n
      BY <1>2, <2>1
    <3> QED
      BY <1>1, <1>2, <1>3, <2>1, <3>1 DEF Numbering, n
  <2>2. CASE i = n + 1
    <3>1. i - 1 = n /\ n \in 0..n
      BY <1>2, <2>2
    <3> QED
      BY <1>2, <1>3, <1>4, <2>2, <3>1
  <2>3. i \in 1..n \/ i = n + 1
    BY <1>0
  <2> QED
    BY <2>1, <2>2, <2>3
<1>7. g[0] = a /\ g[Len(Append(q, s))] = b + 1
  BY <1>0, <1>2, <1>3, <1>4
<1>6. Numbering(g, Append(q, s), a, b + 1)
  <2>1. 1..Len(Append(q, s)) = 1..n + 1
    BY <1>2
  <2> QED
    BY <1>3, <1>5, <1>7, <2>1 DEF Numbering
<1> QED
  BY <1>3, <1>6 DEF Numbered, s

LEMMA NumberedTail ==
  ASSUME NEW q \in Seq(Frame), q # << >>, NEW a \in Nat, NEW b \in Nat, Numbered(q, a, b)
  PROVE  IF Head(q).op = "event"
         THEN Head(q).seq = a + 1 /\ Numbered(Tail(q), a + 1, b)
         ELSE Numbered(Tail(q), a, b)
<1>1. PICK f \in [Nat -> Nat] : Numbering(f, q, a, b)
  BY DEF Numbered
<1> DEFINE n == Len(q)
           t == Tail(q)
           g == [i \in Nat |-> f[i + 1]]
<1>2. /\ n \in Nat \ {0} /\ Len(t) = n - 1 /\ \A i \in 1..n - 1 : t[i] = q[i + 1]
      /\ Head(q) = q[1] /\ 1 \in 1..n
  BY Dropped
<1>3. g \in [Nat -> Nat] /\ \A i \in Nat : g[i] = f[i + 1]
  BY SMTT(30)
<1>4. /\ f[0] = a /\ f[n] = b
      /\ \A i \in 1..n : IF q[i].op = "event" THEN f[i] = f[i - 1] + 1 /\ q[i].seq = f[i]
                         ELSE f[i] = f[i - 1]
  BY <1>1 DEF Numbering
<1> HIDE DEF n, t, g
<1>5. IF q[1].op = "event" THEN f[1] = a + 1 /\ q[1].seq = a + 1 ELSE f[1] = a
  BY <1>2, <1>4, SMTT(30)
<1>6. ASSUME NEW i \in 1..Len(t)
      PROVE  IF t[i].op = "event" THEN g[i] = g[i - 1] + 1 /\ t[i].seq = g[i] ELSE g[i] = g[i - 1]
  <2>1. i + 1 \in 1..n /\ i \in Nat /\ i - 1 \in Nat /\ (i - 1) + 1 = i /\ (i + 1) - 1 = i
    BY <1>2
  <2>2. t[i] = q[i + 1] /\ g[i] = f[i + 1] /\ g[i - 1] = f[i]
    BY <1>2, <1>3, <2>1
  <2> QED
    BY <1>4, <2>1, <2>2
<1>7. g[0] = f[1] /\ g[Len(t)] = b
  BY <1>2, <1>3, <1>4
<1>8. Numbering(g, t, f[1], b)
  BY <1>3, <1>6, <1>7 DEF Numbering
<1>9. Numbered(t, f[1], b)
  BY <1>3, <1>8 DEF Numbered
<1> QED
  BY <1>2, <1>5, <1>9 DEF t

LEMMA NumberedReplay ==
  ASSUME NEW a \in Nat, NEW b \in Nat, a <= b
  PROVE  Numbered([i \in 1..b - a |-> Event(a + i)], a, b)
<1> DEFINE q == [i \in 1..b - a |-> Event(a + i)]
           f == [i \in Nat |-> a + i]
<1>1. Len(q) = b - a /\ b - a \in Nat
  OBVIOUS
<1>2. f \in [Nat -> Nat] /\ f[0] = a /\ f[Len(q)] = b
  BY <1>1
<1>3. ASSUME NEW i \in 1..Len(q)
      PROVE  q[i].op = "event" /\ f[i] = f[i - 1] + 1 /\ q[i].seq = f[i]
  BY <1>1 DEF Event
<1>4. Numbering(f, q, a, b)
  BY <1>2, <1>3 DEF Numbering
<1> QED
  BY <1>2, <1>4 DEF Numbered

-----------------------------------------------------------------------------

LEMMA InitInv == Init => IInv
<1> SUFFICES ASSUME Init PROVE IInv
  OBVIOUS
<1>1. TypeOK
  <2>1. /\ log \in Seq(Kind \cup {"ready"}) /\ inbox \in Seq(Frame) /\ dispatched \in Seq(Nat \X Nat)
        /\ DOMAIN inbox = {} /\ Len(log) = 0
    BY EmptySeq DEF Init
  <2>2. live \in BOOLEAN /\ attached \in BOOLEAN /\ silent \in BOOLEAN
    BY DEF Init
  <2> QED
    BY <2>1, <2>2 DEF Init, TypeOK
<1>2. Continues
  BY NumberedEmpty DEF Init, Continues
<1>3. Connection /\ Log /\ DispatchedOnceInOrder /\ NothingSkipped
  BY DEF Init, Connection, Log, DispatchedOnceInOrder, NothingSkipped
<1> QED
  BY <1>1, <1>2, <1>3 DEF IInv

\* What the histories promise does not change while the client's do not.
LEMMA HistoryKept ==
  ASSUME IInv, UNCHANGED <<dispatched, session, lastSeq, sessions, log>>,
         attached' => attached, live' => live
  PROVE  Log' /\ DispatchedOnceInOrder' /\ NothingSkipped'
  BY DEF IInv, Log, DispatchedOnceInOrder, NothingSkipped

\* A connection ends: whatever was on its way is gone.
LEMMA LeaveStep ==
  ASSUME IInv, NEW where \in {"connect", "sleep", "stopped"}, Leave(where),
         UNCHANGED <<discord, dispatched>>, unacked' \in 0..2, faults' \in Nat,
         ResetSession \/ UNCHANGED <<session, lastSeq>>
  PROVE  IInv'
<1> USE DEF IInv, Leave, discord, ResetSession
<1>1. /\ sessions' = sessions /\ log' = log /\ live' = live /\ dispatched' = dispatched
      /\ pc' = where /\ heartbeat' = "off" /\ inbox' = << >>
      /\ ~attached' /\ ~silent'
      /\ (session' = 0 /\ lastSeq' = 0) \/ (session' = session /\ lastSeq' = lastSeq)
  OBVIOUS
<1>2. attached' \in BOOLEAN /\ silent' \in BOOLEAN
  OBVIOUS
<1>3. TypeOK'
  BY <1>1, <1>2, EmptySeq DEF TypeOK
<1>4. lastSeq' \in Nat
  BY <1>1 DEF TypeOK
<1>5. Continues'
  BY <1>1, <1>4, NumberedEmpty DEF Continues
<1>6. Connection'
  BY <1>1 DEF Connection
<1>7. Log'
  BY <1>1 DEF Log
<1>8. DispatchedOnceInOrder'
  BY <1>1 DEF DispatchedOnceInOrder
<1>9. NothingSkipped'
  BY <1>1 DEF NothingSkipped
<1> QED
  BY <1>3, <1>5, <1>6, <1>7, <1>8, <1>9

LEMMA LeaveSteps ==
  ASSUME IInv,
         \/ ResumableClose \/ UnknownClose \/ FatalClose \/ Restart
         \/ ReadReconnect \/ ReadInvalid \/ GivenUp
  PROVE  IInv'
<1> USE DEF IInv, TypeOK, Fault
<1>1. CASE ResumableClose
  BY <1>1, LeaveStep DEF ResumableClose
<1>2. CASE UnknownClose
  BY <1>2, LeaveStep DEF UnknownClose
<1>3. CASE FatalClose
  BY <1>3, LeaveStep DEF FatalClose
<1>4. CASE Restart
  BY <1>4, LeaveStep DEF Restart
<1>5. CASE ReadReconnect
  BY <1>5, LeaveStep DEF ReadReconnect
<1>6. CASE ReadInvalid
  BY <1>6, LeaveStep DEF ReadInvalid
<1>7. CASE GivenUp
  BY <1>7, LeaveStep DEF GivenUp
<1> QED
  BY <1>1, <1>2, <1>3, <1>4, <1>5, <1>6, <1>7

\* A frame that is no event arrives, or none does.
LEMMA SignalStep ==
  ASSUME IInv,
         UNCHANGED <<sessions, log, attached, silent, pc, session, lastSeq, dispatched>>,
         live' \in BOOLEAN, live' => live, unacked' \in 0..2, faults' \in Nat,
         heartbeat' \in {"off", "on", "closing"}, heartbeat' # "off" => heartbeat # "off",
         \/ inbox' = inbox
         \/ /\ attached \/ heartbeat # "off"
            /\ ~silent
            /\ \E op \in Op \ {"event", "hello"} : inbox' = Append(inbox, Signal(op))
  PROVE  IInv'
<1> USE DEF IInv
<1>1. CASE inbox' = inbox
  BY <1>1, HistoryKept DEF TypeOK, Continues, Connection
<1>2. CASE /\ attached \/ heartbeat # "off"
           /\ ~silent
           /\ \E op \in Op \ {"event", "hello"} : inbox' = Append(inbox, Signal(op))
  <2>1. PICK op \in Op \ {"event", "hello"} : inbox' = Append(inbox, Signal(op))
    BY <1>2
  <2> DEFINE s == Signal(op)
  <2>2. s \in Frame /\ s.op = op /\ s.op # "event" /\ s.op # "hello"
    BY <2>1 DEF Signal, Frame
  <2> HIDE DEF s
  <2>3. inbox \in Seq(Frame) /\ inbox' = Append(inbox, s)
    BY <2>1 DEF TypeOK, s
  <2>4. /\ inbox' \in Seq(Frame) /\ Len(inbox) \in Nat
        /\ Len(inbox') = Len(inbox) + 1 /\ inbox'[Len(inbox) + 1] = s
        /\ \A i \in 1..Len(inbox) : inbox'[i] = inbox[i]
        /\ DOMAIN inbox = 1..Len(inbox) /\ DOMAIN inbox' = 1..Len(inbox) + 1
    BY <2>2, <2>3, Appended
  <2>9. \A i \in DOMAIN inbox' :
            \/ i \in DOMAIN inbox /\ inbox'[i] = inbox[i]
            \/ inbox'[i] = s
    <3>1. Len(inbox) \in Nat
      BY <2>4
    <3>2. \A i \in 1..Len(inbox) + 1 : i \in 1..Len(inbox) \/ i = Len(inbox) + 1
      BY <3>1
    <3> QED
      BY <2>4, <3>2
  <2>5. pc = "stream"
    BY <1>2 DEF TypeOK, Connection
  <2>6. TypeOK'
    <3>1. \A i \in DOMAIN inbox' : inbox'[i].op = "event" => inbox'[i].seq \in DOMAIN log
      <4>1. ASSUME NEW i \in DOMAIN inbox', inbox'[i].op = "event"
            PROVE  i \in DOMAIN inbox /\ inbox'[i] = inbox[i]
        BY <2>2, <2>9, <4>1
      <4> QED
        BY <4>1 DEF TypeOK
    <3> QED
      BY <2>4, <2>5, <3>1 DEF TypeOK
  <2>7. Continues'
    <3>1. PICK to \in Nat : Numbered(inbox, lastSeq, to) /\ (attached /\ ~silent => to = Len(log))
      BY DEF Continues
    <3>2. lastSeq \in Nat
      BY DEF TypeOK
    <3>3. Numbered(inbox', lastSeq, to)
      BY <2>1, <2>2, <2>3, <3>1, <3>2, NumberedSignal
    <3> QED
      BY <3>1, <3>3 DEF Continues
  <2>8. Connection'
    <3>1. \A i \in DOMAIN inbox : inbox[i].op # "hello"
      BY <1>2 DEF Connection
    <3>2. \A i \in DOMAIN inbox' : inbox'[i].op # "hello"
      BY <2>2, <2>9, <3>1
    <3>3. \A i \in DOMAIN inbox' : inbox'[i].op = "event" => attached
      BY <2>2, <2>9 DEF Connection
    <3> QED
      BY <1>2, <2>5, <3>2, <3>3 DEF Connection
  <2> QED
    BY <2>6, <2>7, <2>8, HistoryKept
<1> QED
  BY <1>1, <1>2

LEMMA SignalSteps ==
  ASSUME IInv, SessionEnds \/ (\E op \in Op : Ask(op)) \/ Beat \/ GiveUp
  PROVE  IInv'
<1> USE DEF IInv, TypeOK, discord, client, connection
<1>1. CASE SessionEnds
  <2>1. live' \in BOOLEAN /\ ~live'
    BY <1>1 DEF SessionEnds
  <2>3. faults' \in Nat
    BY <1>1 DEF SessionEnds, Fault
  <2>2. inbox' = inbox \/ (attached /\ ~silent /\ inbox' = Append(inbox, Signal("invalid")))
    BY <1>1 DEF SessionEnds
  <2> QED
    BY <1>1, <2>1, <2>2, <2>3, SignalStep DEF SessionEnds, Op
<1>2. ASSUME NEW op \in Op, Ask(op) PROVE IInv'
  BY <1>2, SignalStep DEF Ask, Op, Fault
<1>3. CASE Beat
  <2>1. unacked' \in 0..2 /\ faults' \in Nat
    BY <1>3 DEF Beat, Due, Fault
  <2>2. inbox' = inbox \/ (~silent /\ heartbeat # "off" /\ inbox' = Append(inbox, Signal("ack")))
    BY <1>3 DEF Beat, Send
  <2> QED
    BY <1>3, <2>1, <2>2, SignalStep DEF Beat, Op
<1>4. CASE GiveUp
  BY <1>4, SignalStep DEF GiveUp
<1> QED
  BY <1>1, <1>2, <1>3, <1>4

\* Between connections.
LEMMA LoopSteps ==
  ASSUME IInv, Wake \/ ConnectFails \/ Connect \/ FallSilent
  PROVE  IInv'
<1> USE DEF IInv, discord, client, connection
<1>1. CASE Wake \/ ConnectFails
  <2>1. /\ UNCHANGED <<discord, connection, session, lastSeq, heartbeat, unacked, dispatched>>
        /\ pc # "stream" /\ pc' \in {"connect", "sleep"} /\ faults' \in Nat
    BY <1>1 DEF Wake, ConnectFails, Fault, TypeOK
  <2> QED
    BY <2>1, HistoryKept DEF TypeOK, Continues, Connection
<1>2. CASE Connect
  <2> DEFINE s == Signal("hello")
  <2>1. s \in Frame /\ s.op = "hello"
    BY DEF Signal, Frame, Op
  <2>2. inbox = << >> /\ ~attached /\ ~silent /\ heartbeat = "off" /\ inbox' = <<s>>
    BY <1>2 DEF Connect, Connection, TypeOK
  <2> HIDE DEF s
  <2>3. inbox' \in Seq(Frame) /\ Len(inbox') = 1 /\ inbox'[1] = s /\ DOMAIN inbox' = 1..1
    BY <2>1, <2>2
  <2>4. TypeOK'
    BY <1>2, <2>1, <2>3 DEF Connect, TypeOK
  <2>5. Continues'
    <3>1. << >> \in Seq(Frame) /\ lastSeq \in Nat /\ inbox' = Append(<< >>, s) /\ s.op # "event"
      BY <2>1, <2>2, EmptySeq DEF TypeOK
    <3>2. Numbered(inbox', lastSeq, lastSeq)
      BY <2>1, <3>1, NumberedEmpty, NumberedSignal
    <3> QED
      BY <1>2, <2>2, <3>1, <3>2 DEF Connect, Continues
  <2>6. Connection'
    <3>1. pc' = "stream" /\ ~attached' /\ ~silent' /\ heartbeat' = "off"
      BY <1>2, <2>2 DEF Connect
    <3>2. \A i \in DOMAIN inbox' : inbox'[i].op = "hello"
      BY <2>1, <2>3
    <3> QED
      BY <2>3, <3>1, <3>2 DEF Connection
  <2> QED
    BY <1>2, <2>4, <2>5, <2>6, HistoryKept DEF Connect
<1>3. CASE FallSilent
  <2>1. inbox' = << >> /\ pc' = "stream" /\ silent' = TRUE /\ pc = "stream"
        /\ UNCHANGED <<sessions, log, live, attached, session, lastSeq, heartbeat, unacked, dispatched>>
    BY <1>3 DEF FallSilent
  <2>2. silent' \in BOOLEAN /\ faults' \in Nat
    BY <1>3 DEF FallSilent, Fault, TypeOK
  <2>3. TypeOK'
    BY <2>1, <2>2, EmptySeq DEF TypeOK
  <2>4. Continues'
    BY <2>1, NumberedEmpty DEF Continues, TypeOK
  <2>5. Connection'
    BY <2>1 DEF Connection
  <2> QED
    BY <2>1, <2>3, <2>4, <2>5, HistoryKept
<1> QED
  BY <1>1, <1>2, <1>3

\* The session's next event.
LEMMA NewEventStep ==
  ASSUME IInv, NEW k \in Kind, NewEvent(k)
  PROVE  IInv'
<1> USE DEF IInv, client
<1>1. /\ log' = Append(log, k) /\ UNCHANGED <<sessions, live, attached, silent, client, faults>>
      /\ \/ ~(attached /\ ~silent) /\ inbox' = inbox
         \/ attached /\ ~silent /\ inbox' = Append(inbox, Event(Len(log) + 1))
  BY DEF NewEvent
<1>2. /\ log' \in Seq(Kind \cup {"ready"}) /\ Len(log) \in Nat /\ Len(log') = Len(log) + 1
      /\ log'[Len(log) + 1] = k /\ \A n \in 1..Len(log) : log'[n] = log[n]
      /\ DOMAIN log = 1..Len(log) /\ DOMAIN log' = 1..Len(log) + 1 /\ log' # << >> /\ k # "ready"
  <2>1. log \in Seq(Kind \cup {"ready"}) /\ k \in Kind \cup {"ready"} /\ k # "ready"
    BY DEF TypeOK, Kind
  <2>2. log' # << >>
    BY <1>1, <2>1
  <2> QED
    BY <1>1, <2>1, <2>2, Appended
<1> DEFINE e == Event(Len(log) + 1)
<1>3. e \in Frame /\ e.op = "event" /\ e.seq = Len(log) + 1
  BY <1>2 DEF Event, Frame, Op
<1> HIDE DEF e
<1>4. inbox' \in Seq(Frame) /\ \A i \in DOMAIN inbox' :
          (i \in DOMAIN inbox /\ inbox'[i] = inbox[i]) \/ (attached /\ inbox'[i] = e)
  <2>1. inbox \in Seq(Frame)
    BY DEF TypeOK
  <2>2. CASE inbox' = inbox
    BY <2>1, <2>2
  <2>3. CASE attached /\ inbox' = Append(inbox, e)
    <3>1. Len(inbox) \in Nat /\ DOMAIN inbox' = 1..Len(inbox) + 1
          /\ inbox' \in Seq(Frame) /\ inbox'[Len(inbox) + 1] = e
          /\ \A i \in 1..Len(inbox) : inbox'[i] = inbox[i] /\ i \in DOMAIN inbox
      BY <1>3, <2>1, <2>3, Appended
    <3>2. Len(inbox) \in Nat
      BY <3>1
    <3>3. \A i \in 1..Len(inbox) + 1 : i \in 1..Len(inbox) \/ i = Len(inbox) + 1
      BY <3>2
    <3> QED
      BY <2>3, <3>1, <3>3
  <2> QED
    BY <1>1, <2>2, <2>3 DEF e
<1>5. TypeOK'
  <2>1. \A i \in DOMAIN inbox' : inbox'[i].op = "event" => inbox'[i].seq \in 1..Len(log) + 1
    <3> SUFFICES ASSUME NEW i \in DOMAIN inbox', inbox'[i].op = "event"
                 PROVE  inbox'[i].seq \in 1..Len(log) + 1
      OBVIOUS
    <3>1. CASE i \in DOMAIN inbox /\ inbox'[i] = inbox[i]
      <4>1. inbox[i].seq \in 1..Len(log)
        BY <3>1 DEF TypeOK
      <4> QED
        BY <1>2, <3>1, <4>1
    <3>2. CASE inbox'[i] = e
      BY <1>2, <1>3, <3>2
    <3> QED
      BY <1>4, <3>1, <3>2
  <2>2. lastSeq \in 0..Len(log')
    BY <1>2 DEF TypeOK
  <2> QED
    BY <1>1, <1>2, <1>4, <2>1, <2>2 DEF TypeOK
<1>6. Continues'
  <2>1. PICK to \in Nat : Numbered(inbox, lastSeq, to) /\ (attached /\ ~silent => to = Len(log))
    BY DEF Continues
  <2>2. lastSeq \in Nat /\ lastSeq' = lastSeq /\ inbox \in Seq(Frame)
    BY <1>1 DEF TypeOK
  <2>3. CASE ~(attached /\ ~silent) /\ inbox' = inbox
    BY <1>1, <2>1, <2>2, <2>3 DEF Continues
  <2>4. CASE attached /\ ~silent /\ inbox' = Append(inbox, Event(Len(log) + 1))
    <3>1. Numbered(inbox', lastSeq, Len(log) + 1)
      BY <2>1, <2>2, <2>4, NumberedEvent
    <3> QED
      <4>1. Len(log) + 1 \in Nat /\ Len(log') = Len(log) + 1
        BY <1>2
      <4> QED
        BY <2>2, <3>1, <4>1 DEF Continues
  <2> QED
    BY <1>1, <2>3, <2>4
<1>7. Connection'
  <2>1. \A i \in DOMAIN inbox' : inbox'[i].op = "hello" => inbox' = inbox
    <3>1. attached => \A i \in DOMAIN inbox : inbox[i].op # "hello"
      BY DEF Connection
    <3> QED
      BY <1>1, <1>3, <1>4, <3>1
  <2>2. ~attached \/ silent => inbox' = inbox
    BY <1>1
  <2>3. \A i \in DOMAIN inbox' : inbox'[i].op = "event" => attached
    BY <1>4 DEF Connection
  <2> QED
    BY <1>1, <2>1, <2>2, <2>3 DEF Connection
<1>8. Log'
  <2>1. sessions > 0 /\ log # << >> /\ log[1] = "ready"
    BY DEF NewEvent, Log
  <2>2. log'[1] = "ready"
    BY <1>2, <2>1
  <2>3. \A n \in 2..Len(log') : log'[n] # "ready"
    <3>1. \A n \in 2..Len(log) + 1 : n \in 2..Len(log) \/ n = Len(log) + 1
      BY <1>2
    <3> QED
      BY <1>2, <3>1 DEF Log
  <2> QED
    BY <1>1, <1>2, <2>1, <2>2, <2>3 DEF Log
<1>9. DispatchedOnceInOrder'
  BY <1>1 DEF DispatchedOnceInOrder
<1>10. NothingSkipped'
  <2>1. \A n \in 1..lastSeq : log'[n] = log[n]
    BY <1>2 DEF TypeOK
  <2> QED
    BY <1>1, <2>1 DEF NothingSkipped
<1> QED
  BY <1>5, <1>6, <1>7, <1>8, <1>9, <1>10

\* HELLO is answered with IDENTIFY or RESUME.
LEMMA HelloStep ==
  ASSUME IInv, ReadHello
  PROVE  IInv'
<1> USE DEF IInv
<1>1. /\ pc = "stream" /\ ~attached /\ inbox \in Seq(Frame) /\ Tail(inbox) = << >>
      /\ lastSeq \in Nat /\ lastSeq <= Len(log) /\ Len(log) \in Nat /\ ~silent
  <2>1. inbox \in Seq(Frame) /\ inbox # << >> /\ Head(inbox).op = "hello" /\ pc = "stream"
    BY DEF ReadHello, NextIs, TypeOK
  <2>2. Head(inbox) = inbox[1] /\ 1 \in DOMAIN inbox
    BY <2>1
  <2>3. Len(inbox) = 1 /\ ~attached
    BY <2>1, <2>2 DEF Connection
  <2>4. Tail(inbox) = << >>
    <3>1. Tail(inbox) \in Seq(Frame) /\ Len(Tail(inbox)) = 0
      BY <2>1, <2>3, Dropped
    <3> QED
      BY <3>1, EmptySeq
  <2> QED
    BY <2>1, <2>3, <2>4 DEF TypeOK, Connection
<1>2. /\ UNCHANGED <<pc, session, lastSeq, unacked, dispatched, faults>> /\ heartbeat' = "on"
      /\ ~silent'
  BY <1>1 DEF ReadHello
<1>3. silent' \in BOOLEAN
  BY DEF ReadHello, TypeOK
<1>4. CASE session = 0
  <2> DEFINE e == Event(1)
  <2>1. /\ sessions' = sessions + 1 /\ log' = <<"ready">> /\ live' = TRUE /\ attached' = TRUE
        /\ inbox' = Append(<< >>, e)
    BY <1>1, <1>4 DEF ReadHello, Identify
  <2>2. e \in Frame /\ e.op = "event" /\ e.seq = 1
    BY DEF Event, Frame, Op
  <2>3. inbox' = Append(<< >>, Event(0 + 1))
    BY <2>1
  <2> HIDE DEF e
  <2>4. inbox' \in Seq(Frame) /\ Len(inbox') = 1 /\ inbox'[1] = e /\ DOMAIN inbox' = 1..1
    BY <2>1, <2>2
  <2>5. /\ log' \in Seq(Kind \cup {"ready"}) /\ Len(log') = 1 /\ log'[1] = "ready"
        /\ DOMAIN log' = 1..1
    BY <2>1
  <2>6. lastSeq = 0 /\ sessions \in Nat
    BY <1>4 DEF TypeOK
  <2>7. TypeOK'
    <3>1. live' \in BOOLEAN /\ attached' \in BOOLEAN
      BY <2>1
    <3>2. \A i \in DOMAIN inbox' : inbox'[i].op = "event" => inbox'[i].seq \in DOMAIN log'
      BY <2>2, <2>4, <2>5
    <3>3. /\ sessions' \in Nat /\ pc' = "stream" /\ heartbeat' = "on" /\ unacked' \in 0..2
          /\ dispatched' \in Seq(Nat \X Nat) /\ faults' \in Nat
          /\ session' = 0 /\ lastSeq' = 0
      BY <1>1, <1>2, <1>4, <2>1, <2>6 DEF TypeOK
    <3> QED
      BY <1>3, <2>4, <2>5, <3>1, <3>2, <3>3 DEF TypeOK
  <2>8. Continues'
    <3>1. Numbered(<< >>, 0, 0) /\ << >> \in Seq(Frame)
      BY NumberedEmpty, EmptySeq
    <3>2. Numbered(inbox', 0, 0 + 1)
      BY <2>3, <3>1, NumberedEvent
    <3> QED
      BY <1>2, <2>5, <2>6, <3>2 DEF Continues
  <2>9. Connection'
    BY <1>1, <1>2, <2>1, <2>2, <2>4 DEF Connection
  <2>10. Log'
    <3>1. \A i \in DOMAIN dispatched :
              /\ dispatched[i][1] \in 1..sessions + 1 /\ dispatched[i][1] # sessions + 1
              /\ dispatched[i][1] # 0
      BY <2>6 DEF Log
    <3>2. sessions' > 0 /\ sessions' = sessions + 1 /\ session' = 0
      BY <1>2, <1>4, <2>1, <2>6
    <3> QED
      BY <1>2, <2>5, <3>1, <3>2 DEF Log
  <2>11. DispatchedOnceInOrder' /\ NothingSkipped'
    BY <1>2, <2>6 DEF DispatchedOnceInOrder, NothingSkipped
  <2> QED
    BY <2>7, <2>8, <2>9, <2>10, <2>11
<1>5. CASE session # 0
  <2>1. /\ UNCHANGED <<sessions, log, live>>
        /\ attached' = (live /\ session = sessions)
        /\ inbox' = IF live /\ session = sessions
                    THEN << >> \o [i \in 1..Len(log) - lastSeq |-> Event(lastSeq + i)]
                    ELSE Append(<< >>, Signal("invalid"))
    BY <1>1, <1>5 DEF ReadHello, Resume, discord
  <2>2. /\ inbox' \in Seq(Frame)
        /\ \E to \in Nat : Numbered(inbox', lastSeq, to) /\ (attached' => to = Len(log))
        /\ \A i \in DOMAIN inbox' :
               /\ inbox'[i].op # "hello"
               /\ inbox'[i].op = "event" => attached'
               /\ inbox'[i].op = "event" => inbox'[i].seq \in DOMAIN log
        /\ attached' => live
    <3>1. CASE live /\ session = sessions
      <4> DEFINE q == [i \in 1..Len(log) - lastSeq |-> Event(lastSeq + i)]
      <4>1. /\ \A i \in 1..Len(log) - lastSeq :
                   /\ q[i] \in Frame /\ q[i].op = "event" /\ q[i].seq = lastSeq + i
                   /\ lastSeq + i \in 1..Len(log)
            /\ DOMAIN q = 1..Len(log) - lastSeq /\ Len(log) - lastSeq \in Nat
        BY <1>1 DEF Event, Frame, Op
      <4>2. Numbered(q, lastSeq, Len(log))
        BY <1>1, NumberedReplay
      <4>3. q = [i \in 1..Len(log) - lastSeq |-> q[i]]
        OBVIOUS
      <4> HIDE DEF q
      <4>4. q \in Seq(Frame)
        BY <4>1, <4>3
      <4>5. inbox' = q
        BY <2>1, <3>1, <4>4, ConcatEmptySeq DEF q
      <4>6. DOMAIN log = 1..Len(log)
        BY DEF TypeOK
      <4>7. attached'
        BY <2>1, <3>1
      <4> QED
        BY <1>1, <3>1, <4>1, <4>2, <4>4, <4>5, <4>6, <4>7
    <3>2. CASE ~(live /\ session = sessions)
      <4> DEFINE s == Signal("invalid")
      <4>1. s \in Frame /\ s.op = "invalid" /\ << >> \in Seq(Frame)
        BY EmptySeq DEF Signal, Frame, Op
      <4>2. inbox' = Append(<< >>, s) /\ ~attached'
        BY <2>1, <3>2
      <4> HIDE DEF s
      <4>3. Numbered(inbox', lastSeq, lastSeq)
        BY <1>1, <4>1, <4>2, NumberedEmpty, NumberedSignal
      <4>4. inbox' \in Seq(Frame) /\ DOMAIN inbox' = 1..1 /\ inbox'[1] = s
        BY <4>1, <4>2
      <4> QED
        BY <1>1, <4>1, <4>2, <4>3, <4>4
    <3> QED
      BY <3>1, <3>2
  <2>3. attached' \in BOOLEAN /\ live' \in BOOLEAN
    BY <2>1 DEF TypeOK
  <2>4. TypeOK'
    <3>1. /\ log' = log /\ sessions' = sessions /\ pc' = "stream" /\ heartbeat' = "on"
          /\ session' = session /\ lastSeq' = lastSeq /\ unacked' = unacked
          /\ dispatched' = dispatched /\ faults' = faults
      BY <1>1, <1>2, <2>1
    <3> QED
      BY <1>3, <2>2, <2>3, <3>1 DEF TypeOK
  <2>5. Continues'
    <3>1. PICK to \in Nat : Numbered(inbox', lastSeq, to) /\ (attached' => to = Len(log))
      BY <2>2
    <3>2. lastSeq' = lastSeq /\ log' = log
      BY <1>2, <2>1
    <3> QED
      BY <3>1, <3>2 DEF Continues
  <2>6. Connection'
    BY <1>1, <1>2, <2>2 DEF Connection
  <2>7. Log'
    BY <1>2, <1>5, <2>1, <2>2 DEF Log
  <2>8. DispatchedOnceInOrder' /\ NothingSkipped'
    BY <1>2, <2>1 DEF DispatchedOnceInOrder, NothingSkipped
  <2> QED
    BY <2>4, <2>5, <2>6, <2>7, <2>8
<1> QED
  BY <1>4, <1>5

\* Frames that are no events.
LEMMA AckStep ==
  ASSUME IInv, ReadAck \/ ReadBeatPlease
  PROVE  IInv'
<1> USE DEF IInv
<1> DEFINE s == Signal("ack")
<1>1. /\ inbox \in Seq(Frame) /\ inbox # << >> /\ Head(inbox).op \notin {"event", "hello"}
      /\ inbox' = Tail(inbox) \/ inbox' = Append(Tail(inbox), s)
      /\ UNCHANGED <<sessions, log, live, attached, silent, pc, session, lastSeq, heartbeat,
                     dispatched, faults>>
      /\ unacked' \in 0..2 /\ pc = "stream"
  BY DEF ReadAck, ReadBeatPlease, NextIs, TypeOK, discord, client
<1>2. s \in Frame /\ s.op = "ack"
  BY DEF Signal, Frame, Op
<1> HIDE DEF s
<1>3. /\ Tail(inbox) \in Seq(Frame)
      /\ \A i \in DOMAIN Tail(inbox) : \E j \in DOMAIN inbox : Tail(inbox)[i] = inbox[j]
  <2>1. /\ Tail(inbox) \in Seq(Frame) /\ Len(inbox) \in Nat
        /\ \A i \in 1..Len(inbox) - 1 : Tail(inbox)[i] = inbox[i + 1]
        /\ DOMAIN inbox = 1..Len(inbox) /\ DOMAIN Tail(inbox) = 1..Len(inbox) - 1
    BY <1>1, Dropped
  <2>2. \A i \in 1..Len(inbox) - 1 : i + 1 \in 1..Len(inbox)
    BY <2>1
  <2> QED
    BY <2>1, <2>2
<1>4. /\ inbox' \in Seq(Frame)
      /\ \A i \in DOMAIN inbox' : inbox'[i] = s \/ \E j \in DOMAIN inbox : inbox'[i] = inbox[j]
  <2>1. CASE inbox' = Tail(inbox)
    BY <1>3, <2>1
  <2>2. CASE inbox' = Append(Tail(inbox), s)
    <3> DEFINE t == Tail(inbox)
    <3>1. /\ t \in Seq(Frame) /\ Len(t) \in Nat /\ DOMAIN inbox' = 1..Len(t) + 1
          /\ inbox' \in Seq(Frame) /\ inbox'[Len(t) + 1] = s /\ DOMAIN t = 1..Len(t)
          /\ \A i \in 1..Len(t) : inbox'[i] = t[i]
      BY <1>2, <1>3, <2>2, Appended
    <3>2. \A i \in DOMAIN t : \E j \in DOMAIN inbox : t[i] = inbox[j]
      BY <1>3
    <3> HIDE DEF t
    <3>3. \A i \in 1..Len(t) + 1 : i \in 1..Len(t) \/ i = Len(t) + 1
      BY <3>1
    <3> QED
      BY <3>1, <3>2, <3>3
  <2> QED
    BY <1>1, <2>1, <2>2
<1>5. \A i \in DOMAIN inbox : inbox[i].op # "hello"
  <2>1. Head(inbox) = inbox[1] /\ \A i \in DOMAIN inbox : Len(inbox) = 1 => i = 1
    BY <1>1
  <2> QED
    BY <1>1, <2>1 DEF Connection
<1>6. TypeOK'
  <2>1. \A i \in DOMAIN inbox' : inbox'[i].op = "event" => inbox'[i].seq \in DOMAIN log
    BY <1>2, <1>4 DEF TypeOK
  <2> QED
    BY <1>1, <1>4, <2>1 DEF TypeOK
<1>7. Continues'
  <2>1. PICK to \in Nat : Numbered(inbox, lastSeq, to) /\ (attached /\ ~silent => to = Len(log))
    BY DEF Continues
  <2>2. lastSeq \in Nat
    BY DEF TypeOK
  <2>3. Numbered(Tail(inbox), lastSeq, to)
    BY <1>1, <2>1, <2>2, NumberedTail
  <2>4. Numbered(Append(Tail(inbox), s), lastSeq, to)
    BY <1>2, <1>3, <2>2, <2>3, NumberedSignal
  <2>5. Numbered(inbox', lastSeq, to)
    BY <1>1, <2>3, <2>4
  <2> QED
    BY <1>1, <2>1, <2>5 DEF Continues
<1>8. Connection'
  <2>1. \A i \in DOMAIN inbox' : inbox'[i].op # "hello"
    BY <1>2, <1>4, <1>5
  <2>2. \A i \in DOMAIN inbox' : inbox'[i].op = "event" => attached
    BY <1>2, <1>4 DEF Connection
  <2> QED
    BY <1>1, <2>1, <2>2 DEF Connection
<1> QED
  BY <1>1, <1>6, <1>7, <1>8, HistoryKept

\* An event: the number the client notes is the next one.
LEMMA EventStep ==
  ASSUME IInv, ReadReady \/ ReadMessage \/ ReadOther
  PROVE  IInv'
<1> USE DEF IInv
<1> DEFINE n == lastSeq + 1
           h == Head(inbox)
           m == <<session, n>>
<1>1. /\ inbox \in Seq(Frame) /\ inbox # << >> /\ h.op = "event" /\ pc = "stream"
      /\ lastSeq' = h.seq /\ inbox' = Tail(inbox)
      /\ UNCHANGED <<sessions, log, live, attached, silent, pc, heartbeat, unacked, faults>>
  BY DEF ReadReady, ReadMessage, ReadOther, NextIs, Seen, TypeOK, discord
<1>2. lastSeq \in Nat /\ n \in Nat \ {0}
  BY DEF TypeOK
<1>3. PICK to \in Nat : Numbered(inbox, lastSeq, to) /\ (attached /\ ~silent => to = Len(log))
  BY DEF Continues
<1>4. h.seq = n /\ Numbered(Tail(inbox), n, to)
  BY <1>1, <1>2, <1>3, NumberedTail
<1>5. /\ inbox' \in Seq(Frame) /\ Len(inbox) \in Nat /\ h = inbox[1] /\ 1 \in DOMAIN inbox
      /\ \A i \in 1..Len(inbox) - 1 : inbox'[i] = inbox[i + 1]
      /\ DOMAIN inbox = 1..Len(inbox) /\ DOMAIN inbox' = 1..Len(inbox) - 1
  BY <1>1, Dropped
<1>6. \A i \in DOMAIN inbox' : \E j \in DOMAIN inbox : inbox'[i] = inbox[j]
  <2>1. \A i \in 1..Len(inbox) - 1 : i + 1 \in 1..Len(inbox)
    BY <1>5
  <2> QED
    BY <1>5, <2>1
<1>7. n \in 1..Len(log) /\ n \in DOMAIN log /\ DOMAIN log = 1..Len(log) /\ Len(log) \in Nat
  <2>1. h.seq \in DOMAIN log
    BY <1>1, <1>5 DEF TypeOK
  <2> QED
    BY <1>4, <2>1 DEF TypeOK
<1>8. lastSeq' = n
  BY <1>1, <1>4
<1>9. /\ log # << >> /\ sessions > 0 /\ log[1] = "ready" /\ sessions \in Nat
      /\ n # 1 => log[n] # "ready"
  BY <1>2, <1>7 DEF Log, TypeOK
<1> HIDE DEF h, n
<1>10. \/ /\ n = 1 /\ log[n] = "ready" /\ session = 0 /\ session' = sessions
          /\ dispatched' = dispatched
       \/ /\ n # 1 /\ session = sessions /\ session' = session
          /\ log[n] = "other" /\ dispatched' = dispatched
       \/ /\ n # 1 /\ session = sessions /\ session' = session
          /\ log[n] = "message" /\ dispatched' = Append(dispatched, m)
  <2>1. n = 1 <=> session = 0
    BY <1>2 DEF TypeOK, n
  <2>2. session \in {0, sessions}
    BY DEF TypeOK
  <2>3. CASE ReadReady
    BY <1>4, <1>9, <2>1, <2>3 DEF ReadReady, h
  <2>4. CASE ReadMessage
    BY <1>4, <1>9, <2>1, <2>2, <2>4 DEF ReadMessage, h
  <2>5. CASE ReadOther
    BY <1>4, <1>9, <2>1, <2>2, <2>5 DEF ReadOther, h
  <2> QED
    BY <2>3, <2>4, <2>5
<1>11. Connection'
  <2>1. \A i \in DOMAIN inbox : inbox[i].op # "hello"
    <3>1. \A i \in DOMAIN inbox : Len(inbox) = 1 => i = 1
      BY <1>5
    <3> QED
      BY <1>1, <1>5, <3>1 DEF Connection
  <2>2. \A i \in DOMAIN inbox' : inbox'[i].op # "hello"
    BY <1>6, <2>1
  <2>3. ~silent
    BY <1>1 DEF Connection
  <2>4. \A i \in DOMAIN inbox' : inbox'[i].op = "event" => attached
    BY <1>6 DEF Connection
  <2> QED
    BY <1>1, <2>2, <2>3, <2>4 DEF Connection
<1>12. Continues'
  BY <1>1, <1>3, <1>4, <1>8 DEF Continues
<1>13. session' = sessions /\ session' # 0 /\ lastSeq' # 0
  BY <1>2, <1>8, <1>9, <1>10
\* No message was dispatched under this number or a later one.
<1>14. \A i \in DOMAIN dispatched : /\ dispatched[i][1] \in 1..sessions
                                    /\ dispatched[i][1] = sessions => dispatched[i][2] < n
                                    /\ dispatched[i][2] \in Nat
  <2>1. attached
    BY <1>1, <1>5 DEF Connection, h
  <2>2. dispatched \in Seq(Nat \X Nat)
    BY DEF TypeOK
  <2>3. \A i \in DOMAIN dispatched : dispatched[i] \in Nat \X Nat
    BY <2>2
  <2>4. \A i \in DOMAIN dispatched : dispatched[i][1] \in Nat /\ dispatched[i][2] \in Nat
    BY <2>3
  <2>5. session = 0 \/ session = sessions
    BY <1>10
  <2>6. \A i \in DOMAIN dispatched : dispatched[i][1] = sessions => dispatched[i][2] <= lastSeq
    BY <2>1, <2>5 DEF Log
  <2> QED
    BY <1>2, <2>4, <2>6 DEF Log, n
<1> DEFINE k == Len(dispatched)
<1>15. /\ k \in Nat /\ DOMAIN dispatched = 1..k /\ dispatched' \in Seq(Nat \X Nat)
       /\ \/ dispatched' = dispatched
          \/ /\ DOMAIN dispatched' = 1..k + 1 /\ dispatched'[k + 1] = m
             /\ \A i \in 1..k : dispatched'[i] = dispatched[i]
             /\ session = sessions
  <2>1. dispatched \in Seq(Nat \X Nat) /\ m \in Nat \X Nat
    BY <1>2 DEF TypeOK
  <2> HIDE DEF m
  <2>2. CASE dispatched' = dispatched
    BY <2>1, <2>2
  <2>3. CASE dispatched' = Append(dispatched, m) /\ session = sessions
    BY <2>1, <2>3, Appended
  <2> QED
    BY <1>10, <2>2, <2>3
<1>16. m[1] = session /\ m[2] = n
  OBVIOUS
<1> HIDE DEF m, k
<1>17. \A i \in 1..k + 1 : i \in 1..k \/ i = k + 1
  BY <1>15
<1>18. TypeOK'
  <2>1. \A i \in DOMAIN inbox' : inbox'[i].op = "event" => inbox'[i].seq \in DOMAIN log
    BY <1>6 DEF TypeOK
  <2>2. lastSeq' \in 0..Len(log)
    BY <1>7, <1>8
  <2> QED
    BY <1>1, <1>5, <1>13, <1>15, <2>1, <2>2 DEF TypeOK
<1>19. Log'
  <2>1. \A i \in DOMAIN dispatched' :
            /\ dispatched'[i][1] \in 1..sessions
            /\ dispatched'[i][1] = sessions => dispatched'[i][2] <= n
    <3>1. CASE dispatched' = dispatched
      BY <1>2, <1>14, <3>1
    <3>2. CASE dispatched' # dispatched
      <4>1. \A i \in 1..k : /\ dispatched'[i][1] \in 1..sessions
                            /\ dispatched'[i][1] = sessions => dispatched'[i][2] <= n
        <5>1. \A i \in 1..k : i \in DOMAIN dispatched /\ dispatched'[i] = dispatched[i]
          BY <1>15, <3>2
        <5> QED
          BY <1>2, <1>14, <5>1
      <4>2. dispatched'[k + 1][1] \in 1..sessions /\ dispatched'[k + 1][2] <= n
        BY <1>2, <1>9, <1>15, <1>16, <3>2
      <4> QED
        BY <1>15, <1>17, <3>2, <4>1, <4>2
    <3> QED
      BY <3>1, <3>2
  <2>2. sessions' = sessions /\ log' = log /\ attached' = attached /\ live' = live
    BY <1>1
  <2>3. /\ \A i \in 2..Len(log') : log'[i] # "ready"
        /\ log' # << >> => sessions' > 0 /\ log'[1] = "ready"
        /\ attached' \/ live' => log' # << >>
    BY <1>9, <2>2 DEF Log
  <2>4. \A i \in DOMAIN dispatched' :
            /\ dispatched'[i][1] \in 1..sessions'
            /\ dispatched'[i][1] = session' => dispatched'[i][2] <= lastSeq'
            /\ session' = 0 /\ attached' => dispatched'[i][1] # sessions'
    <3>1. session' = sessions /\ sessions' = sessions /\ lastSeq' = n /\ session' # 0
      BY <1>8, <1>13, <2>2
    <3> QED
      BY <2>1, <3>1
  <2> QED
    BY <2>3, <2>4 DEF Log
<1>20. DispatchedOnceInOrder'
  <2>1. CASE dispatched' = dispatched
    BY <2>1 DEF DispatchedOnceInOrder
  <2>2. CASE dispatched' # dispatched
    <3>1. \A i \in 1..k : Before(dispatched[i], m)
      <4>1. m[1] = sessions /\ m[2] = n
        BY <1>15, <1>16, <2>2
      <4>2. ASSUME NEW i \in 1..k PROVE Before(dispatched[i], m)
        <5>1. /\ dispatched[i][1] \in 1..sessions
              /\ dispatched[i][1] = sessions => dispatched[i][2] < n
          BY <1>14, <1>15
        <5>2. dispatched[i][1] < sessions \/ dispatched[i][1] = sessions
          BY <1>9, <5>1
        <5> QED
          BY <4>1, <5>1, <5>2 DEF Before
      <4> QED
        BY <4>2
    <3>2. \A i, j \in 1..k : i < j => Before(dispatched[i], dispatched[j])
      BY <1>15 DEF DispatchedOnceInOrder
    <3>3. ASSUME NEW i \in 1..k + 1, NEW j \in 1..k + 1, i < j
          PROVE  Before(dispatched'[i], dispatched'[j])
      <4>1. i \in 1..k
        BY <1>15, <3>3
      <4>2. j \in 1..k \/ j = k + 1
        BY <1>17
      <4> QED
        BY <1>15, <2>2, <3>1, <3>2, <3>3, <4>1, <4>2
    <3> QED
      BY <1>15, <2>2, <3>3 DEF DispatchedOnceInOrder
  <2> QED
    BY <2>1, <2>2
<1>21. NothingSkipped'
  <2>1. \A x \in 1..n : log[x] = "message" =>
            \E i \in DOMAIN dispatched' : dispatched'[i] = <<sessions, x>>
    <3>1. ASSUME NEW x \in 1..n, log[x] = "message", x # n
          PROVE  \E i \in DOMAIN dispatched' : dispatched'[i] = <<sessions, x>>
      <4>1. x \in 1..lastSeq /\ n # 1
        BY <1>2, <3>1 DEF n
      <4>2. session = sessions
        BY <1>10, <4>1
      <4>3. PICK i \in DOMAIN dispatched : dispatched[i] = <<session, x>>
        BY <3>1, <4>1 DEF NothingSkipped
      <4>4. i \in DOMAIN dispatched' /\ dispatched'[i] = dispatched[i]
        <5>1. CASE dispatched' = dispatched
          BY <5>1
        <5>2. CASE dispatched' # dispatched
          <6>1. i \in 1..k /\ DOMAIN dispatched' = 1..k + 1 /\ dispatched'[i] = dispatched[i]
            BY <1>15, <5>2
          <6>2. i \in 1..k + 1
            BY <1>15, <6>1
          <6> QED
            BY <6>1, <6>2
        <5> QED
          BY <5>1, <5>2
      <4> QED
        BY <4>2, <4>3, <4>4
    <3>2. ASSUME log[n] = "message"
          PROVE  \E i \in DOMAIN dispatched' : dispatched'[i] = <<sessions, n>>
      <4>1. session = sessions /\ dispatched' = Append(dispatched, m)
        BY <1>10, <3>2
      <4>2. dispatched \in Seq(Nat \X Nat) /\ m \in Nat \X Nat /\ m = <<sessions, n>>
        BY <1>2, <4>1 DEF TypeOK, m
      <4>3. k + 1 \in DOMAIN dispatched' /\ dispatched'[k + 1] = m
        <5>1. /\ DOMAIN dispatched' = 1..k + 1 /\ dispatched'[k + 1] = m
          BY <4>1, <4>2, Appended DEF k
        <5> QED
          BY <1>15, <5>1
      <4> QED
        BY <4>2, <4>3
    <3> QED
      BY <3>1, <3>2
  <2>2. session' = sessions /\ lastSeq' = n /\ log' = log
    BY <1>1, <1>8, <1>13
  <2> QED
    BY <2>1, <2>2 DEF NothingSkipped
<1> QED
  BY <1>11, <1>12, <1>18, <1>19, <1>20, <1>21

LEMMA StepInv == IInv /\ [Next]_vars => IInv'
<1> SUFFICES ASSUME IInv, [Next]_vars PROVE IInv'
  OBVIOUS
<1>1. CASE UNCHANGED vars
  BY <1>1, SignalStep DEF vars, discord, connection, client, IInv, TypeOK
<1>2. CASE Discord
  BY <1>2, NewEventStep, SignalSteps, LoopSteps DEF Discord
<1>3. CASE Failure
  BY <1>3, LeaveSteps, LoopSteps DEF Failure
<1>4. CASE Loop
  BY <1>4, LoopSteps DEF Loop
<1>5. CASE Read
  BY <1>5, HelloStep, AckStep, EventStep, LeaveSteps DEF Read
<1>6. CASE Pulse
  BY <1>6, SignalSteps, LeaveSteps DEF Pulse
<1> QED
  BY <1>1, <1>2, <1>3, <1>4, <1>5, <1>6 DEF Next

-----------------------------------------------------------------------------

\* The client's state (adapters/discord/gateway.py) and Discord's stay in their types.
THEOREM TypeCorrect == Spec => []TypeOK
<1>1. IInv => TypeOK
  BY DEF IInv
<1> QED
  BY <1>1, InitInv, StepInv, PTL DEF Spec

\* Resuming (gateway.py, _stream and _handle_payload) repeats no message.
THEOREM NoRepeats == Spec => []DispatchedOnceInOrder
<1>1. IInv => DispatchedOnceInOrder
  BY DEF IInv
<1> QED
  BY <1>1, InitInv, StepInv, PTL DEF Spec

\* Resuming (gateway.py, _stream and _handle_payload) leaves no message out.
THEOREM NoGaps == Spec => []NothingSkipped
<1>1. IInv => NothingSkipped
  BY DEF IInv
<1> QED
  BY <1>1, InitInv, StepInv, PTL DEF Spec
=============================================================================
