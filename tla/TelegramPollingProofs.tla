------------------------- MODULE TelegramPollingProofs -------------------------
\* For any batch limit and any number of updates, faults and restarts: nothing is
\* lost, and what is repeated is bounded by a batch.
EXTENDS TelegramPolling, SequenceTheorems, TLAPS

InHand == {"handle", "busy"}

\* Some process has seen the update through, or there was nothing to see through.
Handled(id) ==
    updates[id] = "text" /\ id \notin purged =>
        \E i \in DOMAIN dispatched : dispatched[i].id = id /\ dispatched[i].done

Batch ==
    /\ pc = "wait" => offset <= low
    /\ pc \in InHand => low <= next /\ next <= last + 1 /\ last < low + BatchLimit
    /\ pc = "busy" =>
           /\ dispatched # << >> /\ low < next
           /\ dispatched[Len(dispatched)].id = next - 1

\* Everything before the offset, and everything of the batch before the update in
\* hand, has been seen through: that is why the offset may be sent.
Progress ==
    /\ \A id \in 1..low - 1 : Handled(id)
    /\ \A id \in 1..offset - 1 : Handled(id) \/ (pc = "busy" /\ id = next - 1)
    /\ pc \in InHand =>
           \A id \in 1..next - 1 : Handled(id) \/ (pc = "busy" /\ id = next - 1)

\* The history in terms of processes and batches.
History ==
    /\ \A i, j \in DOMAIN dispatched : i < j => dispatched[i].boot <= dispatched[j].boot
    /\ \A i \in DOMAIN dispatched :
          /\ dispatched[i].boot <= boot
          /\ dispatched[i].boot = boot => dispatched[i].id < offset
          /\ dispatched[i].boot = boot /\ pc \in InHand => dispatched[i].id < next
          /\ dispatched[i].id < low + BatchLimit

IInv == TypeOK /\ Batch /\ Progress /\ History /\ DispatchedInOrder

-----------------------------------------------------------------------------

LEMMA Bound == BatchLimit \in Nat \ {0}
  BY PollingAssumption

LEMMA InitInv == Init => IInv
<1> SUFFICES ASSUME Init PROVE IInv
  OBVIOUS
<1>1. TypeOK
  BY EmptySeq DEF Init, TypeOK, PC, Sent
<1>2. Batch /\ Progress /\ History /\ DispatchedInOrder
  BY DEF Init, Batch, Progress, History, DispatchedInOrder, InHand
<1> QED
  BY <1>1, <1>2 DEF IInv

LEMMA Below == \A a, b \in Nat : \A id \in 1..b - 1 : id \in Nat /\ id < b /\ (id >= a => a <= id)
  OBVIOUS

LEMMA HistoryTypes ==
  TypeOK => \A i \in DOMAIN dispatched : dispatched[i].id \in Nat /\ dispatched[i].boot \in Nat
<1>1. TypeOK => \A i \in DOMAIN dispatched : dispatched[i] \in Dispatch
  BY DEF TypeOK
<1> QED
  BY <1>1 DEF Dispatch

\* The history stays what it was as the offset and the queue move on.
LEMMA HistoryKept ==
  ASSUME IInv, UNCHANGED <<dispatched, boot>>,
         low' \in Nat, low <= low', offset' \in Nat, offset <= offset', next' \in Nat,
         pc' \in InHand => \/ pc \in InHand /\ next <= next'
                          \/ offset <= next'
  PROVE  History' /\ DispatchedInOrder'
<1>1. /\ \A i \in DOMAIN dispatched : dispatched[i].id \in Nat /\ dispatched[i].boot \in Nat
      /\ low \in Nat /\ offset \in Nat /\ next \in Nat /\ BatchLimit \in Nat
  BY HistoryTypes, Bound DEF IInv, TypeOK, Sent
<1>2. DispatchedInOrder'
  BY DEF IInv, DispatchedInOrder
<1>3. History'
  BY <1>1 DEF IInv, History
<1> QED
  BY <1>2, <1>3

\* What has been handled stays handled.
LEMMA HandledKept ==
  ASSUME IInv, UNCHANGED dispatched, purged \subseteq purged',
         \A id \in 1..Sent : updates'[id] = updates[id]
  PROVE  \A id \in 1..Sent : Handled(id) => Handled(id)'
  BY DEF Handled

\* Steps that change neither the queue nor the history.
LEMMA QuietStep ==
  ASSUME IInv,
         UNCHANGED <<updates, low, boot, dispatched, purged>>,
         hook' \in BOOLEAN, faults' \in Nat,
         \/ UNCHANGED <<pc, offset, next, last>>
         \/ pc' \in PC \ {"handle", "busy", "wait"} /\ pc # "busy" /\ UNCHANGED <<offset, next, last>>
  PROVE  IInv'
<1> USE DEF IInv
<1>1. TypeOK'
  BY DEF TypeOK, Sent, PC
<1>2. Batch'
  BY DEF Batch, InHand
<1>3. Progress'
  BY DEF Progress, InHand, Handled
<1>4. History' /\ DispatchedInOrder'
  BY DEF History, DispatchedInOrder, InHand
<1> QED
  BY <1>1, <1>2, <1>3, <1>4

LEMMA QuietSteps ==
  ASSUME IInv,
         \/ RegisterWebhook \/ GetWebhookInfo \/ Conflict \/ OtherPoller \/ PollFails \/ BadBody
         \/ Wake
         \/ PrepareFails /\ UNCHANGED <<hook, low, purged>>
  PROVE  IInv'
<1> USE DEF IInv, TypeOK, PC
<1>1. CASE RegisterWebhook
  BY <1>1, QuietStep DEF RegisterWebhook, Fault
<1>2. CASE GetWebhookInfo
  BY <1>2, QuietStep DEF GetWebhookInfo
<1>3. CASE Conflict
  BY <1>3, QuietStep DEF Conflict
<1>4. CASE OtherPoller
  BY <1>4, QuietStep DEF OtherPoller, Fault
<1>5. CASE PollFails
  BY <1>5, QuietStep DEF PollFails, Fault
<1>6. CASE BadBody
  BY <1>6, QuietStep DEF BadBody, Fault
<1>7. CASE Wake
  BY <1>7, QuietStep DEF Wake
<1>8. CASE PrepareFails /\ UNCHANGED <<hook, low, purged>>
  BY <1>8, QuietStep DEF PrepareFails, Fault
<1> QED
  BY <1>1, <1>2, <1>3, <1>4, <1>5, <1>6, <1>7, <1>8

\* Telegram carries out deleteWebhook, whatever the daemon sees of the answer.
LEMMA UnhookStep ==
  ASSUME IInv, Unhook, pc = "delete_webhook", pc' \in {"poll", "dead"}, faults' \in Nat,
         UNCHANGED <<updates, offset, next, last, boot, dispatched>>
  PROVE  IInv'
<1> USE DEF IInv
<1>1. /\ low <= low' /\ low' \in 1..Sent + 1 /\ purged \subseteq purged' /\ purged' \subseteq 1..Sent
      /\ \A id \in Nat : low <= id /\ id < low' => id \in purged'
  <2>1. low \in 1..Sent + 1 /\ Sent \in Nat /\ purged \subseteq 1..Sent
    BY DEF Unhook, TypeOK, Sent
  <2> DEFINE top == Sent
  <2> HIDE DEF top
  <2>2. CASE low' = top + 1 /\ purged' = purged \cup (low..top)
    <3>1. top \in Nat /\ low \in 1..top + 1 /\ purged \subseteq 1..top
      BY <2>1 DEF top
    <3>2. low..top \subseteq 1..top /\ \A id \in Nat : low <= id /\ id < top + 1 => id \in low..top
      BY <3>1
    <3> QED
      BY <2>1, <2>2, <3>1, <3>2 DEF top
  <2>3. CASE low' = low /\ purged' = purged
    BY <2>1, <2>3
  <2> QED
    BY <2>2, <2>3 DEF Unhook, top
<1>0. hook' \in BOOLEAN
  BY DEF Unhook
<1>2. TypeOK'
  BY <1>0, <1>1 DEF TypeOK, Sent, PC
<1>3. Batch'
  BY DEF Batch, InHand
<1>4. \A id \in 1..Sent : Handled(id) => Handled(id)'
  BY <1>1, HandledKept
<1>5. Progress'
  <2>1. \A id \in 1..low' - 1 : Handled(id)'
    <3> SUFFICES ASSUME NEW id \in 1..low' - 1 PROVE Handled(id)'
      OBVIOUS
    <3>1. CASE id < low
      BY <1>1, <1>4, <3>1 DEF Progress, TypeOK, Sent
    <3>2. CASE id >= low
      <4>1. id \in purged'
        <5>1. low \in Nat /\ low' \in Nat
          BY <1>1 DEF Sent, TypeOK
        <5>2. id \in Nat /\ id < low' /\ low <= id
          BY <3>2, <5>1, Below
        <5> QED
          BY <1>1, <5>2
      <4> QED
        BY <4>1 DEF Handled
    <3> QED
      BY <1>1, <3>1, <3>2 DEF TypeOK
  <2>2. \A id \in 1..offset' - 1 : Handled(id)'
    BY <1>4 DEF Progress, TypeOK, Sent
  <2> QED
    BY <2>1, <2>2 DEF Progress, InHand
<1>6. History' /\ DispatchedInOrder'
  BY <1>1, HistoryKept DEF InHand, TypeOK
<1> QED
  BY <1>2, <1>3, <1>5, <1>6

LEMMA NewUpdateStep ==
  ASSUME IInv, NEW k \in Kind, NewUpdate(k)
  PROVE  IInv'
<1> USE DEF IInv
<1>1. /\ updates' \in Seq(Kind) /\ Len(updates') = Len(updates) + 1
      /\ \A id \in 1..Len(updates) : updates'[id] = updates[id]
      /\ UNCHANGED <<low, hook, pc, offset, next, last, boot, dispatched, purged, faults>>
  BY DEF NewUpdate, TypeOK
<1>2. TypeOK'
  BY <1>1 DEF TypeOK, Sent
<1>3. Batch' /\ History' /\ DispatchedInOrder'
  BY <1>1 DEF Batch, History, DispatchedInOrder, InHand
<1>4. \A id \in 1..Sent : Handled(id) => Handled(id)'
  BY <1>1 DEF Handled, Sent
<1>5. Progress'
  <2>1. /\ \A id \in 1..low - 1 : id \in 1..Sent /\ Handled(id)
        /\ \A id \in 1..offset - 1 :
               id \in 1..Sent /\ (Handled(id) \/ (pc = "busy" /\ id = next - 1))
        /\ pc \in InHand => \A id \in 1..next - 1 :
               id \in 1..Sent /\ (Handled(id) \/ (pc = "busy" /\ id = next - 1))
    BY SMTT(30) DEF Progress, TypeOK, Sent, Batch
  <2> QED
    BY <1>1, <1>4, <2>1 DEF Progress
<1> QED
  BY <1>2, <1>3, <1>5

LEMMA PollStep ==
  ASSUME IInv, Ask \/ Receive
  PROVE  IInv'
<1> USE DEF IInv
<1>1. CASE Ask
  <2>1. low' = AtLeast(low, offset) /\ low' \in 1..Sent + 1 /\ low <= low' /\ offset <= low'
    BY <1>1 DEF Ask, AtLeast, TypeOK, Sent
  <2>2. /\ pc = "poll" /\ pc' = "wait"
        /\ UNCHANGED <<updates, hook, offset, next, last, boot, dispatched, purged, faults>>
    BY <1>1 DEF Ask
  <2>3. TypeOK'
    BY <2>1, <2>2 DEF TypeOK, Sent, PC
  <2>4. \A id \in 1..Sent : Handled(id) => Handled(id)'
    BY <2>2 DEF Handled
  <2>5. Progress'
    BY <2>1, <2>2, <2>4 DEF Progress, InHand, TypeOK, Sent, AtLeast
  <2>6. Batch'
    BY <2>1, <2>2 DEF Batch, InHand
  <2>7. History' /\ DispatchedInOrder'
    BY <2>1, <2>2, HistoryKept DEF InHand, TypeOK
  <2> QED
    BY <2>3, <2>5, <2>6, <2>7
<1>2. CASE Receive
  <2>1. /\ pc = "wait" /\ next' = low /\ last' = AtMost(low + BatchLimit - 1, Sent)
        /\ pc' = (IF low > Sent THEN "poll" ELSE "handle")
        /\ UNCHANGED <<updates, low, hook, offset, boot, dispatched, purged, faults>>
    BY <1>2 DEF Receive
  <2>2. /\ last' \in 0..Sent /\ last' < low + BatchLimit /\ low <= last' + 1
        /\ pc' = "handle" => low <= last'
    BY <2>1, Bound DEF AtMost, TypeOK, Sent
  <2>3. TypeOK'
    BY <2>1, <2>2 DEF TypeOK, Sent, PC
  <2>4. \A id \in 1..Sent : Handled(id) => Handled(id)'
    BY <2>1 DEF Handled
  <2>5. Progress'
    BY <2>1, <2>4 DEF Progress, InHand, TypeOK, Sent
  <2>6. Batch'
    BY <2>1, <2>2 DEF Batch, InHand, TypeOK
  <2>7. History' /\ DispatchedInOrder'
    BY <2>1, HistoryKept DEF InHand, TypeOK, Batch
  <2> QED
    BY <2>3, <2>5, <2>6, <2>7
<1> QED
  BY <1>1, <1>2

LEMMA SkipStep ==
  ASSUME IInv, SkipUpdate
  PROVE  IInv'
<1> USE DEF IInv
<1>1. /\ pc = "handle" /\ updates[next] = "other" /\ next' = next + 1
      /\ offset' = AtLeast(offset, next + 1)
      /\ pc' = (IF next' > last THEN "poll" ELSE "handle")
      /\ UNCHANGED <<updates, low, hook, last, boot, dispatched, purged, faults>>
  BY DEF SkipUpdate, AdvanceOffsetPast, AfterUpdate
<1>2. next \in 1..Sent /\ last \in 0..Sent /\ next <= last
  BY <1>1 DEF TypeOK, Sent
<1>3. TypeOK'
  BY <1>1, <1>2 DEF TypeOK, Sent, PC, AtLeast
<1>4. \A id \in 1..Sent : Handled(id) => Handled(id)'
  BY <1>1 DEF Handled
<1>5. \A id \in 1..next : id \in 1..Sent /\ Handled(id)'
  <2>1. \A id \in 1..next - 1 : id \in 1..Sent /\ Handled(id)'
    BY <1>1, <1>2, <1>4 DEF Progress, InHand, Sent
  <2>2. \A id \in {next} : Handled(id)'
    BY <1>1 DEF Handled
  <2> QED
    BY <1>2, <2>1, <2>2
<1>6. Progress'
  <2>1. /\ \A id \in 1..low - 1 : id \in 1..Sent /\ Handled(id)
        /\ \A id \in 1..offset - 1 : id \in 1..Sent /\ Handled(id)
    BY <1>1 DEF Progress, TypeOK, Sent
  <2>2. next' - 1 = next /\ \A id \in 1..offset' - 1 : id \in 1..offset - 1 \/ id \in 1..next
    BY <1>1, <1>2 DEF AtLeast, TypeOK, Sent
  <2> QED
    BY <1>1, <1>4, <1>5, <2>1, <2>2 DEF Progress
<1>7. Batch'
  BY <1>1, <1>2 DEF Batch, InHand, TypeOK
<1>8. History' /\ DispatchedInOrder'
  BY <1>1, <1>2, HistoryKept DEF InHand, TypeOK, AtLeast
<1> QED
  BY <1>3, <1>6, <1>7, <1>8

\* The append of a dispatch: what the history and the order gain by it.
LEMMA DispatchHistory ==
  ASSUME IInv, DispatchUpdate
  PROVE  History' /\ DispatchedInOrder'
<1> DEFINE n == Len(dispatched)
           e == [id |-> next, boot |-> boot, done |-> FALSE]
<1>1. /\ n \in Nat /\ DOMAIN dispatched = 1..n /\ DOMAIN dispatched' = 1..n + 1
      /\ dispatched'[n + 1] = e /\ \A i \in 1..n : dispatched'[i] = dispatched[i]
  BY DEF DispatchUpdate, IInv, TypeOK
<1>2. /\ pc = "handle" /\ next' = next + 1 /\ offset' = AtLeast(offset, next + 1)
      /\ UNCHANGED <<low, last, boot>>
  BY DEF DispatchUpdate, AdvanceOffsetPast
<1>3. /\ next \in Nat /\ boot \in Nat /\ low \in Nat /\ offset \in Nat /\ BatchLimit \in Nat
      /\ low <= next /\ next < low + BatchLimit
  BY <1>2, Bound DEF IInv, TypeOK, Batch, InHand, Sent
<1>4. \A i \in 1..n : /\ dispatched[i].id \in Nat /\ dispatched[i].boot \in Nat
                      /\ dispatched[i].boot <= boot
                      /\ dispatched[i].boot = boot => dispatched[i].id < next
                      /\ dispatched[i].boot = boot => dispatched[i].id < offset
                      /\ dispatched[i].id < low + BatchLimit
  BY <1>1, <1>2, HistoryTypes DEF IInv, History, InHand
<1>5. e.id = next /\ e.boot = boot
  OBVIOUS
<1> HIDE DEF n, e
<1>6. History'
  <2>1. \A i, j \in 1..n + 1 : i < j => dispatched'[i].boot <= dispatched'[j].boot
    <3>1. \A i, j \in 1..n : i < j => dispatched[i].boot <= dispatched[j].boot
      BY <1>1 DEF IInv, History
    <3> QED
      BY <1>1, <1>4, <1>5, <3>1
  <2>2. \A i \in 1..n + 1 :
            /\ dispatched'[i].boot <= boot
            /\ dispatched'[i].boot = boot => dispatched'[i].id < next + 1
            /\ dispatched'[i].boot = boot => dispatched'[i].id < AtLeast(offset, next + 1)
            /\ dispatched'[i].id < low + BatchLimit
    BY <1>1, <1>3, <1>4, <1>5 DEF AtLeast
  <2> QED
    BY <1>1, <1>2, <2>1, <2>2 DEF History
<1>7. DispatchedInOrder'
  <2>1. /\ \A i, j \in 1..n : i < j /\ dispatched[i].boot = dispatched[j].boot
               => dispatched[i].id < dispatched[j].id
        /\ \A i, j, k \in 1..n : /\ i < j /\ dispatched[i].id = dispatched[j].id
                                 /\ dispatched[k].boot = dispatched[i].boot
                                 => dispatched[k].id < dispatched[i].id + BatchLimit
        /\ \A i, j \in 1..n : i < j => dispatched[i].boot <= dispatched[j].boot
    BY <1>1 DEF IInv, DispatchedInOrder, History
  <2>2. ASSUME NEW i \in 1..n + 1, NEW j \in 1..n + 1, i < j,
               dispatched'[i].boot = dispatched'[j].boot
        PROVE  dispatched'[i].id < dispatched'[j].id
    <3>1. i \in 1..n /\ dispatched'[i] = dispatched[i]
      BY <1>1, <2>2
    <3>2. CASE j = n + 1
      BY <1>1, <1>4, <1>5, <2>2, <3>1, <3>2
    <3>3. CASE j \in 1..n
      BY <1>1, <2>1, <2>2, <3>1, <3>3
    <3> QED
      BY <1>1, <3>2, <3>3
  <2>3. ASSUME NEW i \in 1..n + 1, NEW j \in 1..n + 1, NEW k \in 1..n + 1, i < j,
               dispatched'[i].id = dispatched'[j].id, dispatched'[k].boot = dispatched'[i].boot
        PROVE  dispatched'[k].id < dispatched'[i].id + BatchLimit
    <3>1. i \in 1..n /\ dispatched'[i] = dispatched[i]
      BY <1>1, <2>3
    <3>2. CASE j = n + 1
      <4>1. dispatched[i].id = next /\ dispatched[i].boot # boot
        BY <1>1, <1>4, <1>5, <2>3, <3>1, <3>2
      <4>2. k \in 1..n /\ dispatched'[k] = dispatched[k]
        BY <1>1, <1>5, <2>3, <3>1, <4>1
      <4> QED
        BY <1>3, <1>4, <3>1, <4>1, <4>2
    <3>3. CASE j \in 1..n /\ k = n + 1
      <4>1. dispatched[i].boot = boot /\ dispatched[j].boot = boot
        BY <1>1, <1>3, <1>4, <1>5, <2>1, <2>3, <3>1, <3>3
      <4> QED
        BY <1>1, <1>4, <2>1, <2>3, <3>1, <3>3, <4>1
    <3>4. CASE j \in 1..n /\ k \in 1..n
      BY <1>1, <2>1, <2>3, <3>1, <3>4
    <3> QED
      BY <1>1, <3>2, <3>3, <3>4
  <2> QED
    BY <1>1, <2>2, <2>3 DEF DispatchedInOrder
<1> QED
  BY <1>6, <1>7

LEMMA DispatchStep ==
  ASSUME IInv, DispatchUpdate
  PROVE  IInv'
<1> USE DEF IInv
<1> DEFINE e == [id |-> next, boot |-> boot, done |-> FALSE]
<1>1. /\ pc = "handle" /\ updates[next] = "text" /\ next' = next + 1 /\ pc' = "busy"
      /\ offset' = AtLeast(offset, next + 1)
      /\ dispatched' = Append(dispatched, e)
      /\ UNCHANGED <<updates, low, hook, last, boot, purged, faults>>
  BY DEF DispatchUpdate, AdvanceOffsetPast
<1>2. next \in 1..Sent /\ last \in 0..Sent /\ next <= last /\ low <= next
  BY <1>1 DEF TypeOK, Sent, Batch, InHand
<1>3. /\ dispatched' \in Seq(Dispatch) /\ Len(dispatched') = Len(dispatched) + 1
      /\ dispatched'[Len(dispatched')] = e /\ dispatched' # << >>
      /\ DOMAIN dispatched \subseteq DOMAIN dispatched'
      /\ \A i \in DOMAIN dispatched : dispatched'[i] = dispatched[i]
  <2>1. e \in Dispatch /\ dispatched \in Seq(Dispatch)
    BY <1>2 DEF Dispatch, TypeOK, Sent
  <2> HIDE DEF e
  <2> QED
    BY <1>1, <2>1
<1>4. TypeOK'
  <2>1. offset' \in 0..Sent + 1
    BY <1>1, <1>2 DEF AtLeast, TypeOK, Sent
  <2> QED
    BY <1>1, <1>2, <1>3, <2>1 DEF TypeOK, Sent, PC
<1>5. \A id \in 1..Sent : Handled(id) => Handled(id)'
  BY <1>1, <1>3 DEF Handled
<1>6. Progress'
  <2>1. /\ \A id \in 1..low - 1 : id \in 1..Sent /\ Handled(id)
        /\ \A id \in 1..offset - 1 : id \in 1..Sent /\ Handled(id)
        /\ \A id \in 1..next - 1 : id \in 1..Sent /\ Handled(id)
    BY <1>1, <1>2 DEF Progress, TypeOK, Sent, InHand
  <2>2. /\ next' - 1 = next
        /\ \A id \in 1..offset' - 1 : id \in 1..offset - 1 \/ id \in 1..next - 1 \/ id = next
        /\ \A id \in 1..next : id \in 1..next - 1 \/ id = next
    BY <1>1, <1>2 DEF AtLeast, TypeOK, Sent
  <2> QED
    BY <1>1, <1>5, <2>1, <2>2 DEF Progress
<1>7. Batch'
  BY <1>1, <1>2, <1>3 DEF Batch, InHand, TypeOK
<1> QED
  BY <1>4, <1>6, <1>7, DispatchHistory

LEMMA FinishStep ==
  ASSUME IInv, FinishUpdate
  PROVE  IInv'
<1> USE DEF IInv
<1> DEFINE n == Len(dispatched)
           e == [dispatched[n] EXCEPT !.done = TRUE]
<1>1. /\ pc = "busy" /\ pc' = (IF next > last THEN "poll" ELSE "handle")
      /\ UNCHANGED <<updates, low, hook, offset, next, last, boot, purged, faults>>
  BY DEF FinishUpdate
<1>2. /\ dispatched \in Seq(Dispatch) /\ n \in Nat \ {0} /\ dispatched[n] \in Dispatch
      /\ dispatched[n].id = next - 1 /\ low < next /\ next <= last + 1
  BY <1>1 DEF TypeOK, Batch, InHand
<1>3. /\ e \in Dispatch /\ e.id = dispatched[n].id /\ e.boot = dispatched[n].boot /\ e.done
  BY <1>2 DEF Dispatch
<1>4. dispatched' = [dispatched EXCEPT ![n] = e]
  BY DEF FinishUpdate
<1> HIDE DEF n, e
<1>5. /\ dispatched' \in Seq(Dispatch) /\ Len(dispatched') = n
      /\ \A i \in 1..n : dispatched'[i] = IF i = n THEN e ELSE dispatched[i]
      /\ DOMAIN dispatched = 1..n /\ DOMAIN dispatched' = 1..n
  <2>1. n = Len(dispatched) /\ n \in 1..Len(dispatched)
    BY <1>2 DEF n
  <2> QED
    BY <1>2, <1>3, <1>4, <2>1, ExceptSeq
<1>6. \A i \in 1..n : dispatched'[i].id = dispatched[i].id /\ dispatched'[i].boot = dispatched[i].boot
  BY <1>3, <1>5
<1>7. TypeOK'
  BY <1>1, <1>2, <1>5 DEF TypeOK, Sent, PC
<1>8. \A id \in 1..Sent : Handled(id) => Handled(id)'
  BY <1>1, <1>3, <1>5, <1>6 DEF Handled
<1>9. \A id \in {next - 1} : Handled(id)'
  BY <1>1, <1>2, <1>3, <1>5, <1>6 DEF Handled
<1>10. Progress'
  <2>1. /\ \A id \in 1..low - 1 : id \in 1..Sent /\ Handled(id)
        /\ \A id \in 1..offset - 1 : id \in 1..Sent /\ (Handled(id) \/ id \in {next - 1})
        /\ \A id \in 1..next - 1 : id \in 1..Sent /\ (Handled(id) \/ id \in {next - 1})
    BY <1>1, <1>2 DEF Progress, TypeOK, Sent, InHand
  <2> QED
    BY <1>1, <1>8, <1>9, <2>1 DEF Progress
<1>11. Batch'
  BY <1>1, <1>2 DEF Batch, InHand, TypeOK
<1>12. History'
  BY <1>1, <1>5, <1>6 DEF History, InHand
<1>13. DispatchedInOrder'
  BY <1>5, <1>6 DEF DispatchedInOrder
<1> QED
  BY <1>7, <1>10, <1>11, <1>12, <1>13

LEMMA RestartStep ==
  ASSUME IInv, Restart
  PROVE  IInv'
<1> USE DEF IInv
<1>1. /\ boot' = boot + 1 /\ pc' = "get_info" /\ offset' = 0 /\ next' = 1 /\ last' = 0
      /\ UNCHANGED <<updates, low, hook, dispatched, purged, faults>>
  BY DEF Restart
<1>2. TypeOK'
  BY <1>1 DEF TypeOK, Sent, PC
<1>3. Batch'
  BY <1>1 DEF Batch, InHand
<1>4. Progress'
  BY <1>1, HandledKept DEF Progress, InHand, TypeOK, Sent
<1>5. History'
  BY <1>1, HistoryTypes DEF History, InHand, TypeOK
<1>6. DispatchedInOrder'
  BY <1>1 DEF DispatchedInOrder
<1> QED
  BY <1>2, <1>3, <1>4, <1>5, <1>6

LEMMA StepInv == IInv /\ [Next]_vars => IInv'
<1> SUFFICES ASSUME IInv, [Next]_vars PROVE IInv'
  OBVIOUS
<1>1. CASE UNCHANGED vars
  BY <1>1, QuietStep DEF vars, IInv, TypeOK
<1>2. ASSUME NEW k \in Kind, NewUpdate(k) PROVE IInv'
  BY <1>2, NewUpdateStep
<1>3. CASE DeleteWebhook
  BY <1>3, UnhookStep DEF DeleteWebhook, IInv, TypeOK
<1>4. CASE PrepareFails
  <2>1. CASE UNCHANGED <<hook, low, purged>>
    BY <1>4, <2>1, QuietSteps
  <2>2. CASE pc = "delete_webhook" /\ Unhook
    BY <1>4, <2>2, UnhookStep DEF PrepareFails, Fault, IInv, TypeOK
  <2> QED
    BY <1>4, <2>1, <2>2 DEF PrepareFails
<1>5. CASE RegisterWebhook \/ OtherPoller \/ PollFails \/ BadBody
  BY <1>5, QuietSteps
<1>6. CASE Daemon
  BY <1>3, <1>6, QuietSteps, PollStep, SkipStep, DispatchStep, FinishStep DEF Daemon
<1>7. CASE Restart
  BY <1>7, RestartStep
<1> QED
  BY <1>1, <1>2, <1>4, <1>5, <1>6, <1>7 DEF Next

-----------------------------------------------------------------------------

\* The daemon (adapters/telegram/daemon.py) stays in its types.
THEOREM TypeCorrect == Spec => []TypeOK
<1>1. IInv => TypeOK
  BY DEF IInv
<1> QED
  BY <1>1, InitInv, StepInv, PTL DEF Spec

\* Telegram is asked to let go of an update (daemon.py, run and
\* _advance_offset_past) only when some process has seen it through.
THEOREM AtLeastOnce == Spec => []NothingLost
<1>1. IInv => NothingLost
  BY DEF IInv, Progress, Handled, NothingLost
<1> QED
  BY <1>1, InitInv, StepInv, PTL DEF Spec

\* A process dispatches each update once and in order, and a restart repeats less than
\* a batch (daemon.py, run).
THEOREM RepeatsBounded == Spec => []DispatchedInOrder
<1>1. IInv => DispatchedInOrder
  BY DEF IInv
<1> QED
  BY <1>1, InitInv, StepInv, PTL DEF Spec
=============================================================================
