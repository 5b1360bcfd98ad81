------------------------------ MODULE SlackSocket ------------------------------
(***************************************************************************)
(* SlackSocketDaemon against the Slack end of Socket Mode.  Slack sends    *)
(* each slash command in an envelope and wants it acknowledged; one that   *)
(* is not is sent again or given up.  The daemon acknowledges first and    *)
(* then starts a task nobody keeps a reference to or waits for; what that  *)
(* task does is CommandGate's and OtpGate's matter.  Requests fail,        *)
(* sockets break with acknowledgements in them, Slack asks for a           *)
(* reconnect, and the daemon's task is cancelled at shutdown.              *)
(*                                                                         *)
(* hello frames and frames that are not JSON leave no trace and are left   *)
(* out.  The module has no specification of its own: Lifespan runs it.     *)
(***************************************************************************)
EXTENDS Integers, Sequences, SequencesExt

CONSTANTS
    InitialPause, MaxPause,   \* _INITIAL_BACKOFF_S and _MAX_BACKOFF_S
    MaxCommands, MaxFaults    \* bounds of the checked instance

ASSUME SocketAssumption ==
    /\ {InitialPause, MaxPause} \subseteq Nat \ {0} /\ InitialPause <= MaxPause
    /\ {MaxCommands, MaxFaults} \subseteq Nat

VARIABLES
    held,      \* Slack: how far each command is
    kind,      \* Slack: what each envelope carries
    up,        \* the socket, as far as the daemon knows
    wire,      \* envelopes the daemon has not read yet; 0 asks for a reconnect
    acks,      \* acknowledgements Slack has not seen yet
    pc,        \* run()
    cur,       \* the envelope in hand
    pause,     \* backoff_s
    stop,      \* the task has been asked to cancel
    started,   \* history: commands a dispatch task was created for, in order
    faults

slackVars == <<held, kind, up, wire, acks, pc, cur, pause, stop, started, faults>>

Commands == 1..MaxCommands

\* A slash command, or an event type or a payload the daemon has no use for.
Kind == {"command", "other"}

\* What the socket carries: an envelope, or 0 for a "disconnect".
Frame == {0} \cup Commands

Held == {"none", "held", "sent", "acked", "lost"}

PC == {"off", "fetch", "connect", "read", "ack", "sleep", "returned", "failed", "cancelled"}

Ended == {"off", "returned", "failed", "cancelled"}

Running == pc \notin Ended

AtMost(a, b) == IF a <= b THEN a ELSE b

Fault == faults < MaxFaults /\ faults' = faults + 1

--------------------------------------------------------------------------------
(* Slack. *)

Type(c, k) ==
    /\ Running
    /\ held[c] = "none" /\ \A d \in 1..(c - 1) : held[d] # "none"
    /\ held' = [held EXCEPT ![c] = "held"]
    /\ kind' = [kind EXCEPT ![c] = k]
    /\ UNCHANGED <<up, wire, acks, pc, cur, pause, stop, started, faults>>

Deliver(c) ==
    /\ held[c] = "held" /\ up
    /\ held' = [held EXCEPT ![c] = "sent"]
    /\ wire' = Append(wire, c)
    /\ UNCHANGED <<kind, up, acks, pc, cur, pause, stop, started, faults>>

TakeAck(c) ==
    /\ c \in acks
    /\ acks' = acks \ {c}
    /\ held' = [held EXCEPT ![c] = IF @ = "lost" THEN @ ELSE "acked"]
    /\ UNCHANGED <<kind, up, wire, pc, cur, pause, stop, started, faults>>

\* Three seconds without an acknowledgement: "Slack treats the request as unhandled
\* and may retry".
Expire(c) ==
    /\ held[c] = "sent"
    /\ \/ Fault /\ held' = [held EXCEPT ![c] = "held"]
       \/ held' = [held EXCEPT ![c] = "lost"] /\ UNCHANGED faults
    /\ UNCHANGED <<kind, up, wire, acks, pc, cur, pause, stop, started>>

AskReconnect ==
    /\ up
    /\ Fault
    /\ wire' = Append(wire, 0)
    /\ UNCHANGED <<held, kind, up, acks, pc, cur, pause, stop, started>>

\* The socket breaks; what had arrived can still be read, acknowledgements under way
\* are lost.
Break ==
    /\ up
    /\ Fault
    /\ up' = FALSE
    /\ \E n \in 0..Len(wire) : wire' = SubSeq(wire, 1, n)
    /\ acks' = {}
    /\ UNCHANGED <<held, kind, pc, cur, pause, stop, started>>

--------------------------------------------------------------------------------
(* run(). *)

\* apps.connections.open.  A URL resets the back-off; 401 and 403 end the daemon; any
\* other status, ok=false and transport errors are tried again; an answer that is not
\* JSON or has no url raises something run() does not catch.
Fetch ==
    /\ pc = "fetch"
    /\ \/ pc' = "connect" /\ pause' = InitialPause /\ UNCHANGED faults
       \/ Fault /\ pc' \in {"returned", "sleep", "failed"} /\ UNCHANGED pause
    /\ UNCHANGED <<held, kind, up, wire, acks, cur, stop, started>>

Connect ==
    /\ pc = "connect"
    /\ \/ pc' = "read" /\ up' = TRUE /\ wire' = << >> /\ UNCHANGED faults
       \/ Fault /\ pc' = "sleep" /\ UNCHANGED <<up, wire>>
    /\ UNCHANGED <<held, kind, acks, cur, pause, stop, started>>

Close == up' = FALSE /\ wire' = << >> /\ acks' = acks

\* Slip: the envelope is acknowledged as it is read.
ReadAndAck ==
    /\ pc = "read" /\ wire # << >>
    /\ IF Head(wire) = 0
       THEN pc' = "fetch" /\ Close /\ UNCHANGED cur
       ELSE /\ pc' = "ack" /\ cur' = Head(wire) /\ wire' = Tail(wire) /\ UNCHANGED up
            /\ acks' = IF up THEN acks \cup {Head(wire)} ELSE acks
    /\ UNCHANGED <<held, kind, pause, stop, started, faults>>

\* _handle_event, up to the acknowledgement; "disconnect" leaves the rest unread.
Read ==
    /\ pc = "read" /\ wire # << >>
    /\ IF Head(wire) = 0
       THEN pc' = "fetch" /\ Close /\ UNCHANGED cur
       ELSE pc' = "ack" /\ cur' = Head(wire) /\ wire' = Tail(wire) /\ UNCHANGED <<up, acks>>
    /\ UNCHANGED <<held, kind, pause, stop, started, faults>>

\* Slip: a closed socket is waited on.
ReadOn == pc = "read" /\ wire = << >> /\ ~up /\ UNCHANGED slackVars

\* _iter_frames ends quietly and the loop starts again at once.
ReadClosed ==
    /\ pc = "read" /\ wire = << >> /\ ~up
    /\ pc' = "fetch"
    /\ UNCHANGED <<held, kind, up, wire, acks, cur, pause, stop, started, faults>>

\* ws.send and, for a slash command with a payload that parses, the dispatch task.
Ack ==
    /\ pc = "ack" /\ up
    /\ acks' = acks \cup {cur}
    /\ IF kind[cur] = "command"
       THEN started' = Append(started, cur)
       ELSE UNCHANGED started
    /\ pc' = "read" /\ cur' = 0
    /\ UNCHANGED <<held, kind, up, wire, pause, stop, faults>>

\* send on a closed socket raises ConnectionClosed, a WebSocketException.
AckFails ==
    /\ pc = "ack" /\ ~up
    /\ pc' = "sleep" /\ cur' = 0
    /\ wire' = << >>
    /\ UNCHANGED <<held, kind, up, acks, pause, stop, started, faults>>

\* Slip: no ceiling.
SleepLonger ==
    /\ pc = "sleep"
    /\ pc' = "fetch"
    /\ pause' = 2 * pause
    /\ UNCHANGED <<held, kind, up, wire, acks, cur, stop, started, faults>>

Sleep ==
    /\ pc = "sleep"
    /\ pc' = "fetch"
    /\ pause' = AtMost(2 * pause, MaxPause)
    /\ UNCHANGED <<held, kind, up, wire, acks, cur, stop, started, faults>>

\* CancelledError at whatever run() is awaiting; in the middle of a send the
\* acknowledgement may be out although no task was created.
Cancelled ==
    /\ Running /\ stop
    /\ pc' = "cancelled"
    /\ up' = FALSE /\ wire' = << >>
    /\ \/ acks' = acks
       \/ pc = "ack" /\ up /\ acks' = acks \cup {cur}
    /\ UNCHANGED <<held, kind, cur, pause, stop, started, faults>>

--------------------------------------------------------------------------------

SlackInit ==
    /\ held = [c \in Commands |-> "none"] /\ kind = [c \in Commands |-> "other"]
    /\ up = FALSE /\ wire = << >> /\ acks = {}
    /\ pc = "off" /\ cur = 0 /\ pause = InitialPause /\ stop = FALSE
    /\ started = << >> /\ faults = 0

Daemon == Fetch \/ Connect \/ Read \/ ReadClosed \/ Ack \/ AckFails \/ Sleep

SlackNext ==
    \/ Daemon \/ Cancelled \/ AskReconnect \/ Break
    \/ \E c \in Commands : \/ \E k \in Kind : Type(c, k)
                           \/ Deliver(c) \/ TakeAck(c) \/ Expire(c)

SlackTypeOK ==
    /\ held \in [Commands -> Held] /\ kind \in [Commands -> Kind]
    /\ up \in BOOLEAN /\ wire \in Seq(Frame) /\ acks \subseteq Commands
    /\ pc \in PC /\ cur \in Frame
    /\ pause \in InitialPause..MaxPause /\ stop \in BOOLEAN
    /\ started \in Seq(Commands)
    /\ faults \in 0..MaxFaults

\* A slash command Slack believes to be in hand has got its dispatch task, whatever
\* broke in between; the one exception is the envelope being acknowledged at the
\* moment the daemon is cancelled.
AckedIsDispatched ==
    \A c \in Commands :
        (kind[c] = "command" /\ (held[c] = "acked" \/ c \in acks)) =>
            Contains(started, c) \/ (pc = "cancelled" /\ cur = c)

================================================================================
