----------------------------- MODULE LifespanProofs -----------------------------
\* For every deployment, any number of commands, faults and requests: an
\* acknowledged command is dispatched, and the shutdown closes no client somebody
\* still uses.
EXTENDS Lifespan, SequenceTheorems, TLAPS

\* Slack's side: what Slack has not been told to send is nowhere on the way.
Untyped ==
    \A c \in Commands :
        held[c] = "none" => c \notin acks /\ cur # c /\ \A i \in DOMAIN wire : wire[i] # c

\* The daemons run between the startup and the end, and only where they are mounted.
Daemons ==
    /\ phase = "starting" => \A p \in Platforms : State(p) = "off"
    /\ \A p \in Platforms : mount[p] # "daemon" => State(p) = "off"

\* The order of the shutdown: requests, then daemons, then clients.
Order ==
    /\ phase \in {"awaiting", "raised", "ended"} =>
           \A i \in DOMAIN requests : requests[i].state = "done"
    /\ phase \in {"awaiting", "ended"} =>
           \A p \in Platforms : State(p) \in Ended \/ \E i \in DOMAIN awaiting : awaiting[i] = p
    /\ closed # {} => phase \in {"awaiting", "ended"} /\ awaiting = << >>

SlackInv == SlackTypeOK /\ Untyped /\ AckedIsDispatched /\ (pc = "ack" => cur \in Commands)

\* TypeOK without Slack's part.
LifeType ==
    /\ mount \in [Platforms -> Mounted] /\ secret \in BOOLEAN
    /\ peer \in [Peers -> PeerState]
    /\ requests \in Seq(Request) /\ Len(requests) <= MaxRequests
    /\ phase \in {"starting", "serving", "draining", "awaiting", "raised", "ended"}
    /\ awaiting \in Seq(Platforms) /\ closed \subseteq ToSet(Closing)

IInv == SlackInv /\ LifeType /\ Daemons /\ Order

-----------------------------------------------------------------------------
(* Operators. *)

LEMMA Bounds ==
  /\ InitialPause \in Nat /\ InitialPause >= 1 /\ MaxPause \in Nat /\ InitialPause <= MaxPause
  /\ MaxCommands \in Nat /\ MaxFaults \in Nat
  BY SocketAssumption

LEMMA MountType == \A d \in Deployments : Mount(d) \in [Platforms -> Mounted]
  BY DEF Mount, MountTelegram, MountDiscord, MountSlack, Mounted, Platforms

LEMMA BgTaskType ==
  ASSUME NEW p \in Platforms
  PROVE  BgTask(p) \in Seq(Platforms) /\ (mount[p] = "daemon" => BgTask(p) = <<p>>)
  BY DEF BgTask

LEMMA BgTasksType ==
  /\ BgTasks \in Seq(Platforms)
  /\ \A p \in Platforms : mount[p] = "daemon" => \E i \in DOMAIN BgTasks : BgTasks[i] = p
<1> DEFINE t == BgTask("telegram")
           d == BgTask("discord")
           s == BgTask("slack")
<1>1. /\ t \in Seq(Platforms) /\ d \in Seq(Platforms) /\ s \in Seq(Platforms)
      /\ mount["telegram"] = "daemon" => t = <<"telegram">>
      /\ mount["discord"] = "daemon" => d = <<"discord">>
      /\ mount["slack"] = "daemon" => s = <<"slack">>
  BY BgTaskType DEF Platforms
<1>2. BgTasks = t \o d \o s
  BY DEF BgTasks
<1> HIDE DEF t, d, s
<1>3. t \o d \in Seq(Platforms)
  BY <1>1
<1>4. BgTasks \in Seq(Platforms)
  BY <1>1, <1>2, <1>3
<1>5. /\ \A i \in 1..Len(t) : (t \o d)[i] = t[i]
      /\ \A i \in 1..Len(d) : (t \o d)[Len(t) + i] = d[i]
      /\ Len(t \o d) = Len(t) + Len(d)
  BY <1>1, ConcatProperties
<1>6. /\ \A i \in 1..Len(t \o d) : BgTasks[i] = (t \o d)[i]
      /\ \A i \in 1..Len(s) : BgTasks[Len(t \o d) + i] = s[i]
      /\ Len(BgTasks) = Len(t \o d) + Len(s)
  BY <1>1, <1>2, <1>3, ConcatProperties
<1>7. /\ Len(t) \in Nat /\ Len(d) \in Nat /\ Len(s) \in Nat /\ DOMAIN BgTasks = 1..Len(BgTasks)
  BY <1>1, <1>4
<1>8. ASSUME mount["telegram"] = "daemon" PROVE 1 \in DOMAIN BgTasks /\ BgTasks[1] = "telegram"
  <2>1. Len(t) = 1 /\ t[1] = "telegram"
    BY <1>1, <1>8
  <2> QED
    BY <2>1, <1>5, <1>6, <1>7
<1>9. ASSUME mount["discord"] = "daemon"
      PROVE  Len(t) + 1 \in DOMAIN BgTasks /\ BgTasks[Len(t) + 1] = "discord"
  <2>1. Len(d) = 1 /\ d[1] = "discord"
    BY <1>1, <1>9
  <2> QED
    BY <2>1, <1>5, <1>6, <1>7
<1>10. ASSUME mount["slack"] = "daemon"
       PROVE  Len(t \o d) + 1 \in DOMAIN BgTasks /\ BgTasks[Len(t \o d) + 1] = "slack"
  <2>1. Len(s) = 1 /\ s[1] = "slack"
    BY <1>1, <1>10
  <2> QED
    BY <2>1, <1>5, <1>6, <1>7
<1> QED
  BY <1>4, <1>8, <1>9, <1>10 DEF Platforms

-----------------------------------------------------------------------------

LEMMA InitInv == Init => IInv
<1> SUFFICES ASSUME Init PROVE IInv
  OBVIOUS
<1>1. SlackTypeOK /\ LifeType
  <2>1. SlackTypeOK
    <3>1. held \in [Commands -> Held] /\ kind \in [Commands -> Kind]
      BY DEF Init, SlackInit, Held, Kind
    <3>2. wire \in Seq(Frame) /\ started \in Seq(Commands) /\ acks \subseteq Commands
      BY EmptySeq DEF Init, SlackInit
    <3>3. up \in BOOLEAN /\ pc \in PC /\ cur \in Frame /\ stop \in BOOLEAN
      BY DEF Init, SlackInit, PC, Frame
    <3>4. pause \in InitialPause..MaxPause /\ faults \in 0..MaxFaults
      BY Bounds DEF Init, SlackInit
    <3> QED
      BY <3>1, <3>2, <3>3, <3>4 DEF SlackTypeOK
  <2>2. mount \in [Platforms -> Mounted] /\ secret \in BOOLEAN
    BY MountType DEF Init
  <2>3. requests \in Seq(Request) /\ Len(requests) <= MaxRequests
    BY LifespanAssumption DEF Init
  <2> QED
    BY <2>1, <2>2, <2>3 DEF Init, LifeType, PeerState
<1>2. Untyped /\ AckedIsDispatched /\ (pc = "ack" => cur \in Commands) /\ Daemons /\ Order
  BY DEF Init, SlackInit, Untyped, AckedIsDispatched, Daemons, Order, State, Commands, Peers,
         Platforms
<1> QED
  BY <1>1, <1>2 DEF IInv, SlackInv

-----------------------------------------------------------------------------
(* The steps of Slack and its daemon keep the types and what Slack's side promises. *)

LEMMA SlackTypeStep ==
  ASSUME SlackTypeOK, pc = "ack" => cur \in Commands, SlackNext
  PROVE  SlackTypeOK'
<1>0. Commands \subseteq Frame /\ 0 \in Frame
  BY DEF Frame
<1> USE <1>0, EmptySeq DEF SlackTypeOK, Held, Kind, PC, Ended
<1>1. ASSUME NEW c \in Commands, NEW k \in Kind, Type(c, k) PROVE SlackTypeOK'
  BY <1>1 DEF Type
<1>2. ASSUME NEW c \in Commands, Deliver(c) PROVE SlackTypeOK'
  BY <1>2 DEF Deliver
<1>3. ASSUME NEW c \in Commands, TakeAck(c) PROVE SlackTypeOK'
  BY <1>3 DEF TakeAck
<1>4. ASSUME NEW c \in Commands, Expire(c) PROVE SlackTypeOK'
  BY <1>4, Bounds DEF Expire, Fault
<1>5. CASE AskReconnect
  BY <1>5, Bounds DEF AskReconnect, Fault
<1>6. CASE Break
  <2>1. PICK n \in 0..Len(wire) : wire' = SubSeq(wire, 1, n)
    BY <1>6 DEF Break
  <2>2. wire' \in Seq(Frame)
    BY <2>1
  <2>3. faults' \in 0..MaxFaults
    BY <1>6, Bounds DEF Break, Fault
  <2> QED
    BY <1>6, <2>2, <2>3 DEF Break
<1>7. CASE Fetch
  BY <1>7, Bounds DEF Fetch, Fault
<1>8. CASE Connect
  <2>1. pc' \in {"read", "sleep"} /\ faults' \in 0..MaxFaults
    BY <1>8, Bounds DEF Connect, Fault
  <2>3. up' \in BOOLEAN
    BY <1>8 DEF Connect
  <2>2. wire' \in Seq(Frame)
    BY <1>8 DEF Connect
  <2> QED
    BY <1>8, <2>1, <2>2, <2>3 DEF Connect
<1>9. CASE ReadClosed
  BY <1>9 DEF ReadClosed
<1>10. CASE AckFails
  BY <1>10 DEF AckFails
<1>11. CASE Sleep
  BY <1>11, Bounds DEF Sleep, AtMost
<1>12. CASE Read
  <2>1. /\ wire \in Seq(Frame) /\ wire # << >>
        /\ Head(wire) \in Frame /\ Tail(wire) \in Seq(Frame)
    BY <1>12 DEF Read
  <2>2. /\ pc' \in {"fetch", "ack"} /\ cur' \in Frame /\ up' \in BOOLEAN
        /\ wire' \in Seq(Frame) /\ acks' = acks
    BY <1>12, <2>1 DEF Read, Close
  <2> QED
    BY <1>12, <2>2 DEF Read
<1>13. CASE Ack
  <2>1. cur \in Commands /\ acks' \subseteq Commands
    BY <1>13 DEF Ack
  <2>2. started' \in Seq(Commands)
    BY <1>13, <2>1, SMTT(30) DEF Ack
  <2> QED
    BY <1>13, <2>1, <2>2 DEF Ack
<1>14. CASE Cancelled
  <2>1. acks' \subseteq Commands
    BY <1>14 DEF Cancelled
  <2> QED
    BY <1>14, <2>1 DEF Cancelled
<1> QED
  BY <1>1, <1>2, <1>3, <1>4, <1>5, <1>6, <1>7, <1>8, <1>9, <1>10, <1>11, <1>12, <1>13, <1>14
     DEF SlackNext, Daemon

LEMMA SlackStep ==
  ASSUME SlackInv, SlackNext
  PROVE  SlackInv'
<1>0. SlackTypeOK /\ SlackTypeOK'
  BY SlackTypeStep DEF SlackInv
<1> USE <1>0 DEF SlackInv, Untyped, AckedIsDispatched, Contains
<1>1. ASSUME NEW c \in Commands, NEW k \in Kind, Type(c, k) PROVE SlackInv'
  BY <1>1 DEF Type, SlackTypeOK
<1>2. ASSUME NEW c \in Commands, Deliver(c) PROVE SlackInv'
  BY <1>2 DEF Deliver, SlackTypeOK
<1>3. ASSUME NEW c \in Commands, TakeAck(c) PROVE SlackInv'
  BY <1>3 DEF TakeAck, SlackTypeOK
<1>4. ASSUME NEW c \in Commands, Expire(c) PROVE SlackInv'
  BY <1>4 DEF Expire, SlackTypeOK
<1>5. CASE AskReconnect
  BY <1>5 DEF AskReconnect, SlackTypeOK, Commands
<1>6. CASE Break
  BY <1>6 DEF Break, SlackTypeOK
<1>7. CASE Fetch
  BY <1>7 DEF Fetch
<1>8. CASE Connect
  BY <1>8 DEF Connect
<1>9. CASE ReadClosed
  BY <1>9 DEF ReadClosed
<1>10. CASE AckFails
  BY <1>10 DEF AckFails, Commands
<1>11. CASE Sleep
  BY <1>11 DEF Sleep
<1>12. CASE Read
  <2>1. /\ wire \in Seq(Frame) /\ wire # << >> /\ wire[1] = Head(wire)
        /\ \A i \in DOMAIN Tail(wire) : i + 1 \in DOMAIN wire /\ Tail(wire)[i] = wire[i + 1]
        /\ 1 \in DOMAIN wire /\ Head(wire) \in Frame
    BY <1>12 DEF Read, SlackTypeOK
  <2>2. /\ pc = "read" /\ UNCHANGED <<held, kind, started, acks>>
        /\ \/ pc' = "fetch" /\ cur' = cur /\ wire' = << >>
           \/ pc' = "ack" /\ cur' = wire[1] /\ wire' = Tail(wire) /\ wire[1] # 0
    BY <1>12, <2>1 DEF Read, Close
  <2>3. Untyped'
    BY <2>1, <2>2
  <2>4. AckedIsDispatched'
    BY <2>2
  <2>5. pc' = "ack" => cur' \in Commands
    BY <2>1, <2>2 DEF Frame
  <2> QED
    BY <2>3, <2>4, <2>5
<1>13. CASE Ack
  <2>1. /\ cur \in Commands /\ held[cur] # "none" /\ pc' = "read" /\ cur' = 0 /\ pc = "ack"
        /\ UNCHANGED <<held, kind, wire>> /\ acks' = acks \cup {cur}
    BY <1>13 DEF Ack
  <2>2. \A c \in Commands : Contains(started, c) => Contains(started', c)
    <3>1. CASE started' = started
      BY <3>1
    <3>2. CASE started' = Append(started, cur)
      <4>1. /\ Len(started) \in Nat /\ Len(started') = Len(started) + 1
            /\ \A i \in 1..Len(started) : started'[i] = started[i]
        BY <2>1, <3>2 DEF SlackTypeOK
      <4> QED
        BY <4>1
    <3> QED
      BY <1>13, <3>1, <3>2 DEF Ack
  <2>3. kind[cur] = "command" => Contains(started', cur)
    <3> SUFFICES ASSUME kind[cur] = "command" PROVE Contains(started', cur)
      OBVIOUS
    <3>1. started' = Append(started, cur) /\ started \in Seq(Commands)
      BY <1>13 DEF Ack, SlackTypeOK
    <3>2. Len(started') = Len(started) + 1 /\ started'[Len(started) + 1] = cur
          /\ Len(started) \in Nat
      BY <3>1, <2>1
    <3> QED
      BY <3>2
  <2>4. Untyped'
    BY <2>1 DEF Commands
  <2>5. AckedIsDispatched'
    <3> HIDE DEF Contains
    <3> QED
      BY <2>1, <2>2, <2>3
  <2> QED
    BY <1>0, <2>1, <2>4, <2>5
<1>14. CASE Cancelled
  BY <1>14 DEF Cancelled, Running, Ended
<1> QED
  BY <1>1, <1>2, <1>3, <1>4, <1>5, <1>6, <1>7, <1>8, <1>9, <1>10, <1>11, <1>12, <1>13, <1>14
     DEF SlackNext, Daemon

\* A daemon that has ended, or was never started, does nothing any more.
LEMMA EndedStays ==
  ASSUME SlackInv, SlackNext
  PROVE  /\ pc \in Ended => pc' = pc
         /\ pc' # "off" \/ pc = "off"
<1> USE DEF Ended, Running
<1>1. ASSUME NEW c \in Commands, NEW k \in Kind, Type(c, k) PROVE pc' = pc
  BY <1>1 DEF Type
<1>2. ASSUME NEW c \in Commands, Deliver(c) \/ TakeAck(c) \/ Expire(c) PROVE pc' = pc
  BY <1>2 DEF Deliver, TakeAck, Expire
<1>3. CASE AskReconnect \/ Break
  BY <1>3 DEF AskReconnect, Break
<1>4. CASE Daemon
  BY <1>4 DEF Daemon, Fetch, Connect, Read, ReadClosed, Ack, AckFails, Sleep, Close
<1>5. CASE Cancelled
  BY <1>5 DEF Cancelled
<1> QED
  BY <1>1, <1>2, <1>3, <1>4, <1>5 DEF SlackNext

-----------------------------------------------------------------------------
(* The steps of the process. *)

\* Slack and its daemon step.
LEMMA SlackInvStep ==
  ASSUME IInv, Slack
  PROVE  IInv'
<1>1. SlackInv /\ LifeType /\ Daemons /\ Order /\ SlackNext /\ UNCHANGED lifeVars
  BY DEF IInv, Slack
<1>2. SlackInv' /\ (pc \in Ended => pc' = pc) /\ (pc' # "off" \/ pc = "off")
  BY <1>1, SlackStep, EndedStays
<1>3. LifeType'
  BY <1>1 DEF LifeType, lifeVars
<1>4. \A p \in Platforms : State(p) \in Ended => State(p)' = State(p)
  BY <1>1, <1>2 DEF State, lifeVars
<1>5. Daemons'
  BY <1>1, <1>2, <1>4 DEF Daemons, lifeVars, Ended, SlackInv
<1>6. Order'
  BY <1>1, <1>4 DEF Order, lifeVars
<1> QED
  BY <1>2, <1>3, <1>5, <1>6 DEF IInv

\* Every other step leaves Slack's side alone, but for the startup and the cancelling.
LEMMA SlackKept ==
  ASSUME IInv,
         \/ UNCHANGED slackVars
         \/ Startup \/ CancelAll
         \/ \E p \in Peers : PeerEnds(p)
  PROVE  SlackInv'
<1> USE DEF SlackInv, Untyped, AckedIsDispatched
<1>1. SlackInv /\ Daemons
  BY DEF IInv
<1>2. SlackTypeOK /\ SlackTypeOK'
  <2>1. SlackTypeOK
    BY <1>1
  <2>2. CASE UNCHANGED slackVars
    BY <2>1, <2>2 DEF SlackTypeOK, slackVars
  <2>3. CASE Startup
    BY <2>1, <2>3 DEF SlackTypeOK, Startup, PC
  <2>4. CASE CancelAll
    BY <2>1, <2>4 DEF SlackTypeOK, CancelAll
  <2>5. ASSUME NEW p \in Peers, PeerEnds(p) PROVE SlackTypeOK'
    BY <2>1, <2>5, Bounds DEF SlackTypeOK, PeerEnds, Fault
  <2> QED
    BY <2>1, <2>2, <2>3, <2>4, <2>5
<1>3. CASE UNCHANGED slackVars
  BY <1>1, <1>2, <1>3 DEF slackVars
<1>4. CASE Startup
  <2>1. pc = "off" /\ pc' \in {"fetch", "off"}
    BY <1>1, <1>4 DEF Startup, Daemons, State, Platforms
  <2> QED
    BY <1>1, <1>2, <1>4, <2>1 DEF Startup
<1>5. CASE CancelAll
  BY <1>1, <1>2, <1>5 DEF CancelAll
<1>6. ASSUME NEW p \in Peers, PeerEnds(p) PROVE SlackInv'
  BY <1>1, <1>2, <1>6 DEF PeerEnds
<1> QED
  BY <1>3, <1>4, <1>5, <1>6

LEMMA LifeStep ==
  ASSUME IInv,
         \/ Startup \/ Terminate \/ CancelAll \/ Await \/ CloseNext
         \/ \E p \in Peers : PeerEnds(p) \/ PeerCancelled(p)
  PROVE  LifeType' /\ Daemons' /\ Order'
<1>1. LifeType /\ Daemons /\ Order /\ SlackInv
  BY DEF IInv
<1> USE DEF LifeType, Daemons, Order, State, Platforms, Peers, Ended, PeerState
<1>2. CASE Startup
  BY <1>1, <1>2 DEF Startup
<1>3. CASE Terminate
  BY <1>1, <1>3 DEF Terminate, slackVars
<1>4. CASE CancelAll
  BY <1>1, <1>4, BgTasksType DEF CancelAll
<1>5. CASE Await
  <2> DEFINE d == Head(awaiting)
  <2>1. /\ awaiting \in Seq(Platforms) /\ awaiting # << >> /\ State(d) \in Ended
        /\ phase = "awaiting" /\ closed = {}
        /\ UNCHANGED <<mount, secret, peer, requests, closed, pc>>
        /\ \/ phase' = "raised" /\ awaiting' = awaiting
           \/ awaiting' = Tail(awaiting) /\ phase' = phase
    BY <1>1, <1>5 DEF Await, slackVars
  <2>2. /\ Tail(awaiting) \in Seq(Platforms)
        /\ \A p \in Platforms :
               (\E i \in DOMAIN awaiting : awaiting[i] = p) =>
                   p = d \/ \E i \in DOMAIN Tail(awaiting) : Tail(awaiting)[i] = p
    <3>1. /\ Tail(awaiting) \in Seq(Platforms) /\ Len(Tail(awaiting)) = Len(awaiting) - 1
          /\ \A i \in 1..Len(Tail(awaiting)) : Tail(awaiting)[i] = awaiting[i + 1]
          /\ d = awaiting[1] /\ Len(awaiting) \in Nat \ {0}
      BY <2>1
    <3>2. ASSUME NEW i \in DOMAIN awaiting, i # 1
          PROVE  i - 1 \in DOMAIN Tail(awaiting) /\ Tail(awaiting)[i - 1] = awaiting[i]
      BY <2>1, <3>1, <3>2
    <3> QED
      BY <3>1, <3>2
  <2> HIDE DEF d
  <2>3. \A p \in Platforms : State(p)' = State(p)
    BY <2>1
  <2> HIDE DEF State, Platforms, Ended
  <2>4. LifeType' /\ Daemons'
    BY <1>1, <2>1, <2>2, <2>3
  <2>5. Order'
    BY <1>1, <2>1, <2>2, <2>3, ZenonT(60)
  <2> QED
    BY <2>4, <2>5
<1>6. CASE CloseNext
  BY <1>1, <1>6 DEF CloseNext, CloseFirst, Open, ToSet, slackVars
<1>7. ASSUME NEW p \in Peers, PeerEnds(p) PROVE LifeType' /\ Daemons' /\ Order'
  BY <1>1, <1>7 DEF PeerEnds
<1>8. ASSUME NEW p \in Peers, PeerCancelled(p) PROVE LifeType' /\ Daemons' /\ Order'
  BY <1>1, <1>8 DEF PeerCancelled, slackVars
<1> QED
  BY <1>2, <1>3, <1>4, <1>5, <1>6, <1>7, <1>8

LEMMA RequestStep ==
  ASSUME IInv,
         \/ \E p \in Platforms : Arrive(p)
         \/ \E i \in DOMAIN requests : BackgroundEnds(i)
  PROVE  LifeType' /\ Daemons' /\ Order'
<1>1. LifeType /\ Daemons /\ Order
  BY DEF IInv
<1>2. ASSUME NEW p \in Platforms, Arrive(p) PROVE LifeType' /\ Daemons' /\ Order'
  <2>1. PICK r \in Request : requests' = Append(requests, r)
    BY <1>2 DEF Arrive, Request
  <2>2. requests' \in Seq(Request) /\ Len(requests') <= MaxRequests
    BY <1>1, <1>2, <2>1, LifespanAssumption DEF LifeType, Arrive
  <2>3. /\ UNCHANGED <<slackVars, mount, secret, peer, phase, awaiting, closed>>
        /\ phase = "serving"
    BY <1>2 DEF Arrive
  <2> QED
    BY <1>1, <2>2, <2>3 DEF LifeType, Daemons, Order, State, slackVars
<1>3. ASSUME NEW i \in DOMAIN requests, BackgroundEnds(i) PROVE LifeType' /\ Daemons' /\ Order'
  <2> DEFINE e == [requests[i] EXCEPT !.state = "done"]
  <2>1. /\ requests \in Seq(Request) /\ i \in 1..Len(requests) /\ e \in Request
        /\ requests' = [requests EXCEPT ![i] = e]
    <3>1. requests \in Seq(Request) /\ i \in 1..Len(requests) /\ requests[i] \in Request
      BY <1>1, <1>3 DEF LifeType
    <3>2. e \in Request
      BY <3>1 DEF Request
    <3>3. requests' = [requests EXCEPT ![i] = e]
      BY <1>3 DEF BackgroundEnds
    <3> QED
      BY <3>1, <3>2, <3>3
  <2> HIDE DEF e
  <2>2. requests' \in Seq(Request) /\ Len(requests') = Len(requests)
    BY <2>1, ExceptSeq, Zenon
  <2>3. /\ UNCHANGED <<slackVars, mount, secret, peer, phase, awaiting, closed>>
        /\ requests[i].state = "task"
    BY <1>3 DEF BackgroundEnds
  <2>4. phase \notin {"awaiting", "raised", "ended"}
    BY <1>1, <2>3 DEF Order
  <2> QED
    BY <1>1, <2>2, <2>3, <2>4 DEF LifeType, Daemons, Order, State, slackVars
<1> QED
  BY <1>2, <1>3

LEMMA StepInv == IInv /\ [Next]_vars => IInv'
<1> SUFFICES ASSUME IInv, [Next]_vars PROVE IInv'
  OBVIOUS
<1>1. CASE UNCHANGED vars
  <2>1. LifeType' /\ Daemons' /\ Order' /\ SlackInv'
    BY <1>1, SlackKept
       DEF IInv, vars, lifeVars, LifeType, Daemons, Order, State, slackVars
  <2> QED
    BY <2>1 DEF IInv
<1>2. CASE Slack
  BY <1>2, SlackInvStep
<1>3. CASE \/ Startup \/ Terminate \/ CancelAll \/ Await \/ CloseNext
           \/ \E p \in Peers : PeerEnds(p) \/ PeerCancelled(p)
  <2>1. SlackInv'
    BY <1>3, SlackKept DEF Terminate, Await, CloseNext, PeerCancelled
  <2> QED
    BY <1>3, <2>1, LifeStep DEF IInv
<1>4. CASE \/ \E p \in Platforms : Arrive(p)
           \/ \E i \in DOMAIN requests : BackgroundEnds(i)
  <2>1. SlackInv'
    BY <1>4, SlackKept DEF Arrive, BackgroundEnds
  <2> QED
    BY <1>4, <2>1, RequestStep DEF IInv
<1> QED
  BY <1>1, <1>2, <1>3, <1>4 DEF Next

-----------------------------------------------------------------------------

\* The state of the process (main.py, lifespan; adapters/slack/socket.py) stays in
\* its types.
THEOREM TypeCorrect == Spec => []TypeOK
<1>1. IInv => TypeOK
  BY DEF IInv, SlackInv, LifeType, TypeOK
<1> QED
  BY <1>1, InitInv, StepInv, PTL DEF Spec

\* Slack's daemon (adapters/slack/socket.py, _handle_event) acknowledges nothing it
\* does not dispatch.
THEOREM NothingAckedInVain == Spec => []AckedIsDispatched
<1>1. IInv => AckedIsDispatched
  BY DEF IInv, SlackInv
<1> QED
  BY <1>1, InitInv, StepInv, PTL DEF Spec

\* The lifespan (main.py) closes no client while a daemon runs or a request is being
\* handled.
THEOREM ShutdownInOrder == Spec => []ClientsOutliveUsers
<1>1. IInv => ClientsOutliveUsers
  BY DEF IInv, LifeType, Order, ClientsOutliveUsers
<1> QED
  BY <1>1, InitInv, StepInv, PTL DEF Spec
=============================================================================
