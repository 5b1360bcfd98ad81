----------------------------- MODULE DiscordGateway -----------------------------
(***************************************************************************)
(* DiscordGatewayDaemon against Discord's gateway: identify and resume,    *)
(* the numbering of events, heartbeats and the ways a connection ends.     *)
(* Discord keeps the events of a session and replays, to a client that     *)
(* resumes it, those behind the number the client names; it may forget a   *)
(* session at any time.                                                    *)
(*                                                                         *)
(* Two tasks share a connection: the read loop, which takes one frame at a *)
(* time, and the heartbeat, which sleeps between two beats.  What the      *)
(* client sends, Discord answers at once; the answer waits in inbox for as *)
(* long as it likes.                                                       *)
(***************************************************************************)
EXTENDS Integers, Sequences, FiniteSets

CONSTANTS MaxEvents, MaxFaults   \* bounds of the checked instance

ASSUME GatewayAssumption == {MaxEvents, MaxFaults} \subseteq Nat

VARIABLES
    sessions,    \* Discord: how many sessions it has opened for the bot
    log,         \* Discord: the events of the last one, in order
    live,        \* Discord: the last session can still be resumed
    attached,    \* Discord: the connection is identified or resumed
    silent,      \* Discord: no frame of the gateway comes through the connection any more
    inbox,       \* frames on their way to the client
    pc,          \* the read loop
    session,     \* _session_id and, set and reset with it, _resume_url; 0 for None
    lastSeq,     \* _last_seq, 0 for None
    heartbeat,   \* _heartbeat_task
    unacked,     \* _heartbeat_unacked
    dispatched,  \* history: the messages handed to dispatch tasks
    faults

discord == <<sessions, log, live>>
connection == <<attached, silent, inbox>>
client == <<pc, session, lastSeq, heartbeat, unacked, dispatched>>
vars == <<discord, connection, client, faults>>

\* A command for the bot, or any other event but READY.
Kind == {"message", "other"}

Op == {"hello", "event", "ack", "beat_please", "reconnect", "invalid", "invalid_resumable"}

Frame == [op : Op, seq : Nat]
Signal(op) == [op |-> op, seq |-> 0]
Event(n) == [op |-> "event", seq |-> n]

Acks == Cardinality({i \in DOMAIN inbox : inbox[i].op = "ack"})

Fault == faults < MaxFaults /\ faults' = faults + 1

--------------------------------------------------------------------------------
(* Discord. *)

\* A new event belongs to the session, and is sent if the session has a connection.
NewEvent(k) ==
    /\ live
    /\ Len(log) < MaxEvents
    /\ log' = Append(log, k)
    /\ inbox' = IF attached /\ ~silent THEN Append(inbox, Event(Len(log) + 1)) ELSE inbox
    /\ UNCHANGED <<sessions, live, attached, silent, client, faults>>

\* The session is too old, or was closed with a code that ends it.
SessionEnds ==
    /\ live
    /\ Fault
    /\ live' = FALSE
    /\ inbox' = IF attached /\ ~silent THEN Append(inbox, Signal("invalid")) ELSE inbox
    /\ UNCHANGED <<sessions, log, attached, silent, client>>

\* Opcodes 7, 9 with d = true, and 1, which Discord may send at any time.
Ask(op) ==
    /\ op \in {"reconnect", "invalid_resumable", "beat_please"}
    /\ attached /\ ~silent
    /\ Fault
    /\ inbox' = Append(inbox, Signal(op))
    /\ UNCHANGED <<discord, attached, silent, client>>

\* The connection stays up, and may still answer the library's pings, but the gateway
\* behind it says no more.  One that does not answer pings is a ResumableClose (1006).
FallSilent ==
    /\ pc = "stream"
    /\ ~silent
    /\ Fault
    /\ silent' = TRUE
    /\ inbox' = <<>>
    /\ UNCHANGED <<discord, attached, client>>

--------------------------------------------------------------------------------
(* The outer loop. *)

\* Slip: the number of the last event outlives its session.
ResetSessionOnly == session' = 0 /\ UNCHANGED lastSeq

\* _reset_session.
ResetSession == session' = 0 /\ lastSeq' = 0

\* The end of _stream: the heartbeat is stopped, then the socket is closed.
Leave(next) ==
    /\ pc' = next
    /\ heartbeat' = "off"
    /\ inbox' = <<>>
    /\ attached' = FALSE
    /\ silent' = FALSE

Connect ==
    /\ pc = "connect"
    /\ pc' = "stream"
    /\ unacked' = 0
    /\ inbox' = <<Signal("hello")>>
    /\ UNCHANGED <<discord, attached, silent, session, lastSeq, heartbeat,
                   dispatched, faults>>

\* The socket does not open: OSError or WebSocketException.
ConnectFails ==
    /\ pc = "connect"
    /\ Fault
    /\ pc' = "sleep"
    /\ UNCHANGED <<discord, connection, session, lastSeq, heartbeat, unacked, dispatched>>

\* The back-off, or the two seconds after an invalid session, are over.
Wake ==
    /\ pc = "sleep"
    /\ pc' = "connect"
    /\ UNCHANGED <<discord, connection, session, lastSeq, heartbeat, unacked,
                   dispatched, faults>>

\* The connection ends with a code in _RESUMABLE_CLOSE_CODES, without any, or because
\* the library's pings are not answered.
ResumableClose ==
    /\ pc = "stream"
    /\ Fault
    /\ Leave("connect")
    /\ UNCHANGED <<discord, session, lastSeq, unacked, dispatched>>

\* A code the daemon does not know: the session is given up, then the back-off.
UnknownClose ==
    /\ pc = "stream"
    /\ Fault
    /\ Leave("sleep")
    /\ ResetSession
    /\ UNCHANGED <<discord, unacked, dispatched>>

\* A code that calls for the operator: the daemon ends.
FatalClose ==
    /\ pc = "stream"
    /\ Fault
    /\ Leave("stopped")
    /\ ResetSession
    /\ UNCHANGED <<discord, unacked, dispatched>>

--------------------------------------------------------------------------------
(* The read loop, one frame at a time. *)

NextIs(op) == pc = "stream" /\ inbox # <<>> /\ Head(inbox).op = op

Identify ==
    /\ sessions' = sessions + 1
    /\ log' = <<"ready">>
    /\ live' = TRUE
    /\ inbox' = Append(Tail(inbox), Event(1))

\* Slip: asks for what comes after the next event.
ResumeFromNext(seq) ==
    /\ inbox' = IF live /\ session = sessions
                THEN Tail(inbox) \o [i \in 1..Len(log) - seq - 1 |-> Event(seq + 1 + i)]
                ELSE Append(Tail(inbox), Signal("invalid"))
    /\ UNCHANGED discord

\* RESUME with the number of the last event the client has seen.
Resume(seq) ==
    /\ inbox' = IF live /\ session = sessions
                THEN Tail(inbox) \o [i \in 1..Len(log) - seq |-> Event(seq + i)]
                ELSE Append(Tail(inbox), Signal("invalid"))
    /\ UNCHANGED discord

ReadHello ==
    /\ NextIs("hello")
    /\ heartbeat' = "on"
    /\ IF session = 0
       THEN Identify /\ attached' = TRUE
       ELSE Resume(lastSeq) /\ attached' = (live /\ session = sessions)
    /\ UNCHANGED <<silent, pc, session, lastSeq, unacked, dispatched, faults>>

ReadAck ==
    /\ NextIs("ack")
    /\ unacked' = 0
    /\ inbox' = Tail(inbox)
    /\ UNCHANGED <<discord, attached, silent, pc, session, lastSeq, heartbeat,
                   dispatched, faults>>

\* A beat out of turn; it is answered like any other but not counted.
ReadBeatPlease ==
    /\ NextIs("beat_please")
    /\ heartbeat # "closing"
    /\ inbox' = Append(Tail(inbox), Signal("ack"))
    /\ UNCHANGED <<discord, attached, silent, client, faults>>

\* Reconnect, or invalid but resumable: straight back, to resume.
ReadReconnect ==
    /\ NextIs("reconnect") \/ NextIs("invalid_resumable")
    /\ Leave("connect")
    /\ UNCHANGED <<discord, session, lastSeq, unacked, dispatched, faults>>

\* _SessionInvalidated.
ReadInvalid ==
    /\ NextIs("invalid")
    /\ Leave("sleep")
    /\ ResetSession
    /\ UNCHANGED <<discord, unacked, dispatched, faults>>

Seen == lastSeq' = Head(inbox).seq

\* READY is number 1 of its session.
ReadReady ==
    /\ NextIs("event")
    /\ log[Head(inbox).seq] = "ready"
    /\ Seen
    /\ session' = sessions
    /\ inbox' = Tail(inbox)
    /\ UNCHANGED <<discord, attached, silent, pc, heartbeat, unacked, dispatched, faults>>

\* Slip: the number is noted only once the message has been answered.
ReadMessageUnseen ==
    /\ NextIs("event")
    /\ log[Head(inbox).seq] = "message"
    /\ dispatched' = Append(dispatched, <<session, Head(inbox).seq>>)
    /\ inbox' = Tail(inbox)
    /\ UNCHANGED <<discord, attached, silent, pc, session, lastSeq, heartbeat, unacked, faults>>

\* A task of its own dispatches the message; tasks begin in the order of their creation.
ReadMessage ==
    /\ NextIs("event")
    /\ log[Head(inbox).seq] = "message"
    /\ Seen
    /\ dispatched' = Append(dispatched, <<session, Head(inbox).seq>>)
    /\ inbox' = Tail(inbox)
    /\ UNCHANGED <<discord, attached, silent, pc, session, heartbeat, unacked, faults>>

\* RESUMED, events of other types, and messages that are malformed or not for the bot.
ReadOther ==
    /\ NextIs("event")
    /\ log[Head(inbox).seq] = "other"
    /\ Seen
    /\ inbox' = Tail(inbox)
    /\ UNCHANGED <<discord, attached, silent, pc, session, heartbeat, unacked,
                   dispatched, faults>>

--------------------------------------------------------------------------------
(* The heartbeat task. *)

\* A frame is far quicker than the interval, forty seconds; only now and then is a
\* beat due while the answer to an earlier one has not been read.
Due == IF silent \/ Acks = 0 THEN UNCHANGED faults ELSE Fault

Send == inbox' = IF silent THEN inbox ELSE Append(inbox, Signal("ack"))

\* Slip: beats are not counted.
BeatUncounted ==
    /\ heartbeat = "on"
    /\ unacked < 2
    /\ Due
    /\ Send
    /\ UNCHANGED <<discord, attached, silent, client>>

Beat ==
    /\ heartbeat = "on"
    /\ unacked < 2
    /\ Due
    /\ unacked' = unacked + 1
    /\ Send
    /\ UNCHANGED <<discord, attached, silent, pc, session, lastSeq, heartbeat, dispatched>>

\* Two beats without an answer: close with code 4000, while the read loop reads on.
GiveUp ==
    /\ heartbeat = "on"
    /\ unacked >= 2
    /\ heartbeat' = "closing"
    /\ UNCHANGED <<discord, connection, pc, session, lastSeq, unacked, dispatched, faults>>

\* The close is through, or the wait for it is: the read loop sees 4000 or 1006.
GivenUp ==
    /\ heartbeat = "closing"
    /\ Leave("connect")
    /\ UNCHANGED <<discord, session, lastSeq, unacked, dispatched, faults>>

\* A crash or a redeploy: Discord still has the session, the bot no longer does.
Restart ==
    /\ Fault
    /\ Leave("connect")
    /\ ResetSession
    /\ unacked' = 0
    /\ UNCHANGED <<discord, dispatched>>

Init ==
    /\ sessions = 0 /\ log = <<>> /\ live = FALSE
    /\ attached = FALSE /\ silent = FALSE /\ inbox = <<>>
    /\ pc = "connect"
    /\ session = 0 /\ lastSeq = 0
    /\ heartbeat = "off" /\ unacked = 0
    /\ dispatched = <<>>
    /\ faults = 0

Discord ==
    \/ \E k \in Kind : NewEvent(k)
    \/ SessionEnds
    \/ \E op \in Op : Ask(op)
    \/ FallSilent

Failure == ConnectFails \/ ResumableClose \/ UnknownClose \/ FatalClose \/ Restart

Read ==
    \/ ReadHello \/ ReadAck \/ ReadBeatPlease \/ ReadReconnect \/ ReadInvalid
    \/ ReadReady \/ ReadMessage \/ ReadOther

Pulse == Beat \/ GiveUp \/ GivenUp

Loop == Connect \/ Wake

Next == Discord \/ Failure \/ Loop \/ Read \/ Pulse

Spec == Init /\ [][Next]_vars

\* Sleeps end, connecting has a time limit, a frame that has arrived is read and the
\* heartbeat wakes up; failures are only assumed to be finitely many.
FairSpec == Spec /\ WF_vars(Loop) /\ WF_vars(Read) /\ WF_vars(Pulse)

--------------------------------------------------------------------------------

\* The client, its connection and Discord's side of the session keep their shape; a
\* number is only ever remembered together with the session it belongs to.
TypeOK ==
    /\ sessions \in Nat /\ log \in Seq(Kind \cup {"ready"}) /\ live \in BOOLEAN
    /\ attached \in BOOLEAN /\ silent \in BOOLEAN
    /\ inbox \in Seq(Frame)
    /\ \A i \in DOMAIN inbox : inbox[i].op = "event" => inbox[i].seq \in DOMAIN log
    /\ pc \in {"connect", "stream", "sleep", "stopped"}
    /\ session \in {0, sessions} /\ lastSeq \in 0..Len(log)
    /\ session = 0 <=> lastSeq = 0
    /\ heartbeat \in {"off", "on", "closing"}
    /\ heartbeat # "off" => pc = "stream"
    /\ unacked \in 0..2
    /\ dispatched \in Seq(Nat \X Nat)
    /\ faults \in Nat

Before(m, n) == m[1] < n[1] \/ (m[1] = n[1] /\ m[2] < n[2])

\* No message is dispatched twice and none before an earlier one, however often the
\* connection is lost with events on their way and the session is resumed.
DispatchedOnceInOrder ==
    \A i, j \in DOMAIN dispatched : i < j => Before(dispatched[i], dispatched[j])

\* The number that RESUME names never runs ahead of the dispatcher: nothing behind
\* it will be replayed, so every message behind it has been dispatched.
NothingSkipped ==
    \A n \in 1..lastSeq :
        log[n] = "message" => \E i \in DOMAIN dispatched : dispatched[i] = <<session, n>>

\* Nothing but the heartbeat watches for the gateway's answers, and it starts with
\* HELLO: on a connection that falls silent before, the read loop waits for good.
NeverGreeted == silent /\ heartbeat = "off"

\* A message of the session is dispatched in the end, unless the session is lost,
\* the daemon has stopped or HELLO never came.
EveryMessageDispatched ==
    \A k \in 1..MaxFaults + 1, n \in 1..MaxEvents :
        (session = k /\ n \in DOMAIN log /\ log[n] = "message")
            ~> \/ \E i \in DOMAIN dispatched : dispatched[i] = <<k, n>>
               \/ session # k
               \/ NeverGreeted
================================================================================
