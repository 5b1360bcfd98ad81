-------------------------------- MODULE SshPool --------------------------------
(***************************************************************************)
(* SshConnector: one cached connection to one host, shared by the command  *)
(* handlers that run on it, dialled and closed under an asyncio lock.      *)
(* Hosts do not interact: SshConnectorPool keeps one connector for each.   *)
(*                                                                         *)
(* A task gives up control only where the code awaits, so each action runs *)
(* from one await to the next.  A command's own time limit, /otp's and the *)
(* end of the process cancel a task wherever it is waiting.                *)
(***************************************************************************)
EXTENDS Integers, Sequences, SequencesExt

CONSTANTS
    Handler,   \* tasks that run commands on the host
    Teardown,  \* the task that calls close_all on the way out
    NoTask,
    PoolTTL,   \* ssh.pool_ttl_s
    MaxClock, MaxCalls   \* bounds of the checked instance

Task == Handler \cup {Teardown}

ASSUME PoolAssumption ==
    /\ Teardown \notin Handler
    /\ NoTask \notin Task
    /\ PoolTTL \in Int
    /\ {MaxClock, MaxCalls} \subseteq Nat

VARIABLES
    clock,     \* time.monotonic()
    conns,     \* every connection ever opened, in order: is it still open?
    cached,    \* _conn: an index into conns, 0 for None
    openedAt,  \* _conn_opened_at, -1 for None
    holder,    \* of _dial_lock
    waiters,   \* those in line for it; asyncio.Lock is first come, first served
    task,      \* what each task is waiting for
    calls      \* commands begun so far

poolVars == <<clock, conns, cached, openedAt, holder, waiters, task, calls>>

PC == {"idle", "want_conn", "refresh", "dial", "run", "want_close", "close"}

\* at: the time read under the lock.  on: the connection its command runs on.
TaskState == [pc : PC, at : Nat, on : Nat]
Idle == [pc |-> "idle", at |-> 0, on |-> 0]

Goes(t, pc) == task' = [task EXCEPT ![t].pc = pc]
Ends(t) == task' = [task EXCEPT ![t] = Idle]

Joins(t) == waiters' = Append(waiters, t)

\* It is t's turn: a free lock goes to the first in line.
Enters(t) ==
    /\ holder = NoTask
    /\ waiters # <<>> /\ Head(waiters) = t
    /\ waiters' = Tail(waiters)

\* The loop has nobody to wake: only then does it wait for a timer.
AllAsleep == holder # NoTask \/ waiters = <<>>

\* close() marks the cached connection closed before its wait_closed is awaited.
MarkClosed == conns' = [conns EXCEPT ![cached] = FALSE]
Forget == cached' = 0 /\ openedAt' = -1

\* The cached connection may be handed out.
Fresh == cached # 0 /\ openedAt # -1 /\ clock - openedAt < PoolTTL

--------------------------------------------------------------------------------
(* execute *)

Execute(t) ==
    /\ task[t].pc = "idle"
    /\ calls < MaxCalls
    /\ calls' = calls + 1
    /\ Goes(t, "want_conn")
    /\ Joins(t)
    /\ UNCHANGED <<clock, conns, cached, openedAt, holder>>

\* _get_conn finds a connection young enough; it lets go of the lock at once.
TakeCached(t) ==
    /\ task[t].pc = "want_conn"
    /\ Enters(t)
    /\ Fresh
    /\ task' = [task EXCEPT ![t] = [pc |-> "run", at |-> 0, on |-> cached]]
    /\ UNCHANGED <<clock, conns, cached, openedAt, holder, calls>>

\* _get_conn finds one too old and closes it, whoever is still using it.
Refresh(t) ==
    /\ task[t].pc = "want_conn"
    /\ Enters(t)
    /\ cached # 0 /\ ~Fresh
    /\ MarkClosed
    /\ holder' = t
    /\ task' = [task EXCEPT ![t] = [pc |-> "refresh", at |-> clock, on |-> 0]]
    /\ UNCHANGED <<clock, cached, openedAt, calls>>

Refreshed(t) ==
    /\ task[t].pc = "refresh"
    /\ Forget
    /\ Goes(t, "dial")
    /\ UNCHANGED <<clock, waiters, conns, holder, calls>>

\* Slip: dialling without the lock.
DialUnlocked(t) ==
    /\ task[t].pc = "want_conn"
    /\ Enters(t)
    /\ cached = 0
    /\ task' = [task EXCEPT ![t] = [pc |-> "dial", at |-> clock, on |-> 0]]
    /\ UNCHANGED <<clock, conns, cached, openedAt, holder, calls>>

Dial(t) ==
    /\ task[t].pc = "want_conn"
    /\ Enters(t)
    /\ cached = 0
    /\ holder' = t
    /\ task' = [task EXCEPT ![t] = [pc |-> "dial", at |-> clock, on |-> 0]]
    /\ UNCHANGED <<clock, conns, cached, openedAt, calls>>

\* asyncssh.connect returns; the age counts from before the dial.
Dialled(t) ==
    /\ task[t].pc = "dial"
    /\ conns' = Append(conns, TRUE)
    /\ cached' = Len(conns) + 1
    /\ openedAt' = task[t].at
    /\ holder' = NoTask
    /\ task' = [task EXCEPT ![t] = [pc |-> "run", at |-> 0, on |-> Len(conns) + 1]]
    /\ UNCHANGED <<clock, waiters, calls>>

\* asyncssh.connect raises: a result that says so, nothing cached.
DialFails(t) ==
    /\ task[t].pc = "dial"
    /\ holder' = NoTask
    /\ Ends(t)
    /\ UNCHANGED <<clock, waiters, conns, cached, openedAt, calls>>

\* conn.run returns or raises, as it must on a closed connection.  Neither touches
\* the cache: a connection the host has dropped stays there.
RunEnds(t) ==
    /\ task[t].pc = "run"
    /\ Ends(t)
    /\ UNCHANGED <<clock, waiters, conns, cached, openedAt, holder, calls>>

\* The connector's own time limit, on a command or a host that does not answer.
RunTimesOut(t) ==
    /\ task[t].pc = "run"
    /\ AllAsleep
    /\ conns[task[t].on]
    /\ Goes(t, "want_close")
    /\ Joins(t)
    /\ UNCHANGED <<clock, conns, cached, openedAt, holder, calls>>

--------------------------------------------------------------------------------
(* close: of whatever is cached by now, not of the connection the command was on. *)

\* Slip: the lock is not taken.
CloseUnlocked(t) ==
    /\ task[t].pc = "want_close"
    /\ IF cached = 0
       THEN Ends(t) /\ UNCHANGED <<conns, holder>>
       ELSE MarkClosed /\ Goes(t, "close") /\ UNCHANGED holder
    /\ UNCHANGED <<clock, waiters, cached, openedAt, calls>>

Close(t) ==
    /\ task[t].pc = "want_close"
    /\ Enters(t)
    /\ IF cached = 0
       THEN Ends(t) /\ UNCHANGED <<conns, holder>>
       ELSE MarkClosed /\ Goes(t, "close") /\ holder' = t
    /\ UNCHANGED <<clock, cached, openedAt, calls>>

Closed(t) ==
    /\ task[t].pc = "close"
    /\ Forget
    /\ holder' = NoTask
    /\ Ends(t)
    /\ UNCHANGED <<clock, waiters, conns, calls>>

\* SshConnectorPool.close_all, from the lifespan's finally block.  Its _connectors.clear()
\* is left out: a command asks for its connector as it starts, and none starts so late.
CloseAll ==
    /\ task[Teardown].pc = "idle"
    /\ calls < MaxCalls
    /\ calls' = calls + 1
    /\ Goes(Teardown, "want_close")
    /\ Joins(Teardown)
    /\ UNCHANGED <<clock, conns, cached, openedAt, holder>>

--------------------------------------------------------------------------------

\* Slip: a cancelled task keeps the lock.
CancelHolding(t) ==
    /\ task[t].pc # "idle"
    /\ waiters' = RemoveFirst(waiters, t)
    /\ Ends(t)
    /\ UNCHANGED <<clock, conns, cached, openedAt, holder, calls>>

\* CancelledError at the await: it is not an Exception, so neither execute's except
\* clauses nor the suppress around wait_closed see it; the lock is let go of, and
\* a connection being closed stays in the cache.
Cancel(t) ==
    /\ task[t].pc # "idle"
    /\ holder' = IF holder = t THEN NoTask ELSE holder
    /\ waiters' = RemoveFirst(waiters, t)
    /\ Ends(t)
    /\ UNCHANGED <<clock, conns, cached, openedAt, calls>>

PoolTick ==
    /\ clock < MaxClock
    /\ AllAsleep
    /\ clock' = clock + 1
    /\ UNCHANGED <<conns, cached, openedAt, holder, waiters, task, calls>>

PoolInit ==
    /\ clock = 0
    /\ conns = <<>>
    /\ cached = 0
    /\ openedAt = -1
    /\ holder = NoTask
    /\ waiters = <<>>
    /\ task = [t \in Task |-> Idle]
    /\ calls = 0

\* What a task does once it has begun and is left alone.
Proceed(t) ==
    \/ TakeCached(t) \/ Refresh(t) \/ Refreshed(t)
    \/ Dial(t) \/ Dialled(t) \/ DialFails(t)
    \/ RunEnds(t) \/ RunTimesOut(t)
    \/ Close(t) \/ Closed(t)

PoolNext ==
    \/ \E t \in Handler : Execute(t)
    \/ \E t \in Task : Proceed(t) \/ Cancel(t)
    \/ CloseAll
    \/ PoolTick

PoolSpec == PoolInit /\ [][PoolNext]_poolVars

\* Every await is answered or times out, and the lock is handed on.
PoolFairSpec == PoolSpec /\ \A t \in Task : WF_poolVars(Proceed(t))

--------------------------------------------------------------------------------

\* The connector and its tasks keep their shape; whoever waits inside the critical
\* section holds the lock and nobody else does.
PoolTypeOK ==
    /\ clock \in Nat
    /\ conns \in Seq(BOOLEAN)
    /\ cached \in 0..Len(conns)
    /\ openedAt \in Int
    /\ holder \in Task \cup {NoTask}
    /\ waiters \in Seq(Task)
    /\ \A t \in Task : (\E i \in DOMAIN waiters : waiters[i] = t)
                         <=> task[t].pc \in {"want_conn", "want_close"}
    /\ task \in [Task -> TaskState]
    /\ \A t \in Task : /\ task[t].pc \in {"refresh", "dial", "close"} <=> holder = t
                       /\ task[t].pc = "run" => task[t].on \in DOMAIN conns
    /\ calls \in Nat

\* No connection leaks: one that has not been closed is the cached one, so a host
\* never sees two at a time however handlers, refreshes and cancellations overlap.
OpenIsCached ==
    \A c \in DOMAIN conns : conns[c] => c = cached

\* Every command comes to an end: no cancellation, failed dial or close inside the
\* critical section leaves the lock taken for those behind it.
CommandsEnd ==
    \A t \in Handler : task[t].pc # "idle" ~> task[t].pc = "idle"
================================================================================
