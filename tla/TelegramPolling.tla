---------------------------- MODULE TelegramPolling ----------------------------
(***************************************************************************)
(* TelegramDaemon, the long-polling loop, against the queue of updates the *)
(* Bot API keeps for the bot.  Telegram numbers updates consecutively and  *)
(* lets go of those below the offset of a getUpdates call; the daemon      *)
(* keeps that offset in memory only.  Requests fail, answers get lost, a   *)
(* webhook is registered from elsewhere and the process restarts.          *)
(*                                                                         *)
(* updates is never shortened: low is the first update Telegram still      *)
(* holds, so held updates are low..Len(updates), and a batch is the        *)
(* interval next..last of updates the daemon has fetched and not yet seen. *)
(***************************************************************************)
EXTENDS Integers, Sequences

CONSTANTS
    BatchLimit,   \* updates in one answer, Telegram's default of 100
    DropPending,  \* what TELEGRAM_POLLING_DROP_PENDING may be set to
    MaxUpdates, MaxFaults, MaxRestarts   \* bounds of the checked instance

ASSUME PollingAssumption ==
    /\ BatchLimit \in Nat \ {0}
    /\ DropPending \subseteq BOOLEAN
    /\ {MaxUpdates, MaxFaults, MaxRestarts} \subseteq Nat

VARIABLES
    updates,     \* every update ever sent to the bot, by kind
    low,         \* Telegram: the first update it still holds
    hook,        \* Telegram: a webhook is registered
    pc,          \* the daemon's task
    offset,      \* _next_offset, 0 for None
    next, last,  \* the rest of the batch in hand
    boot,        \* which process this is
    dispatched,  \* history: what reached the dispatcher, in order
    purged,      \* history: updates thrown away by delete_webhook
    faults

vars == <<updates, low, hook, pc, offset, next, last, boot, dispatched, purged, faults>>

\* A text message, or an update that fails validation or that the adapter ignores.
Kind == {"text", "other"}

PC == {"get_info", "delete_webhook", "poll", "wait", "handle", "busy", "sleep",
       "stopped", "dead"}

Dispatch == [id : Nat, boot : Nat, done : BOOLEAN]

Sent == Len(updates)
AtMost(a, b) == IF a <= b THEN a ELSE b
AtLeast(a, b) == IF a >= b THEN a ELSE b

Fault == faults < MaxFaults /\ faults' = faults + 1

--------------------------------------------------------------------------------
(* Telegram and its users. *)

NewUpdate(k) ==
    /\ Sent < MaxUpdates
    /\ updates' = Append(updates, k)
    /\ UNCHANGED <<low, hook, pc, offset, next, last, boot, dispatched, purged, faults>>

\* just set-telegram-bot-webhook in another terminal.
RegisterWebhook ==
    /\ ~hook
    /\ Fault
    /\ hook' = TRUE
    /\ UNCHANGED <<updates, low, pc, offset, next, last, boot, dispatched, purged>>

--------------------------------------------------------------------------------
(* The daemon. *)

\* _prepare_for_polling, first call; its answer is only logged.
GetWebhookInfo ==
    /\ pc = "get_info"
    /\ pc' = "delete_webhook"
    /\ UNCHANGED <<updates, low, hook, offset, next, last, boot, dispatched, purged, faults>>

\* Telegram carries out deleteWebhook.
Unhook ==
    /\ hook' = FALSE
    /\ \/ TRUE \in DropPending /\ low' = Sent + 1 /\ purged' = purged \cup (low..Sent)
       \/ FALSE \in DropPending /\ UNCHANGED <<low, purged>>

DeleteWebhook ==
    /\ pc = "delete_webhook"
    /\ Unhook
    /\ pc' = "poll"
    /\ UNCHANGED <<updates, offset, next, last, boot, dispatched, faults>>

\* Neither call is retried: an error leaves run() and ends the task.
PrepareFails ==
    /\ pc \in {"get_info", "delete_webhook"}
    /\ Fault
    /\ \/ UNCHANGED <<hook, low, purged>>
       \/ pc = "delete_webhook" /\ Unhook
    /\ pc' = "dead"
    /\ UNCHANGED <<updates, offset, next, last, boot, dispatched>>

\* getUpdates reaches Telegram, which forgets everything below the offset.
Ask ==
    /\ pc = "poll"
    /\ ~hook
    /\ low' = AtLeast(low, offset)
    /\ pc' = "wait"
    /\ UNCHANGED <<updates, hook, offset, next, last, boot, dispatched, purged, faults>>

\* The answer, possibly empty, arrives.
Receive ==
    /\ pc = "wait"
    /\ next' = low
    /\ last' = AtMost(low + BatchLimit - 1, Sent)
    /\ pc' = IF low > Sent THEN "poll" ELSE "handle"
    /\ UNCHANGED <<updates, low, hook, offset, boot, dispatched, purged, faults>>

\* A webhook is registered: 409 ends the loop for good.
Conflict ==
    /\ pc = "poll"
    /\ hook
    /\ pc' = "stopped"
    /\ UNCHANGED <<updates, low, hook, offset, next, last, boot, dispatched, purged, faults>>

\* A second poller on the same token, an old process still up, gets one a 409 too.
OtherPoller ==
    /\ pc \in {"poll", "wait"}
    /\ Fault
    /\ pc' = "stopped"
    /\ UNCHANGED <<updates, low, hook, offset, next, last, boot, dispatched, purged>>

\* 5xx, a refused connection or a timeout, before or after Telegram acted.
PollFails ==
    /\ pc \in {"poll", "wait"}
    /\ Fault
    /\ pc' = "sleep"
    /\ UNCHANGED <<updates, low, hook, offset, next, last, boot, dispatched, purged>>

\* A 200 whose body is not JSON raises ValueError, which no clause of run() catches.
BadBody ==
    /\ pc = "wait"
    /\ Fault
    /\ pc' = "dead"
    /\ UNCHANGED <<updates, low, hook, offset, next, last, boot, dispatched, purged>>

\* The back-off is over.
Wake ==
    /\ pc = "sleep"
    /\ pc' = "poll"
    /\ UNCHANGED <<updates, low, hook, offset, next, last, boot, dispatched, purged, faults>>

\* Slips: one too many, one too few.
AdvanceTooFar(id) == offset' = AtLeast(offset, id + 2)
AdvanceUpTo(id) == offset' = AtLeast(offset, id)

\* _advance_offset_past.
AdvanceOffsetPast(id) == offset' = AtLeast(offset, id + 1)

AfterUpdate == IF next' > last THEN "poll" ELSE "handle"

\* Slip: an update that cannot be parsed ends the batch and stays at its head.
SkipBatch ==
    /\ pc = "handle"
    /\ updates[next] = "other"
    /\ pc' = "poll"
    /\ UNCHANGED <<updates, low, hook, offset, next, last, boot, dispatched, purged, faults>>

\* Nothing for the dispatcher: logged and skipped.
SkipUpdate ==
    /\ pc = "handle"
    /\ updates[next] = "other"
    /\ AdvanceOffsetPast(next)
    /\ next' = next + 1
    /\ pc' = AfterUpdate
    /\ UNCHANGED <<updates, low, hook, last, boot, dispatched, purged, faults>>

DispatchUpdate ==
    /\ pc = "handle"
    /\ updates[next] = "text"
    /\ AdvanceOffsetPast(next)
    /\ next' = next + 1
    /\ dispatched' = Append(dispatched, [id |-> next, boot |-> boot, done |-> FALSE])
    /\ pc' = "busy"
    /\ UNCHANGED <<updates, low, hook, last, boot, purged, faults>>

\* The handler and the reply are over; _process swallows what they raise.
FinishUpdate ==
    /\ pc = "busy"
    /\ dispatched' = [dispatched EXCEPT ![Len(dispatched)].done = TRUE]
    /\ pc' = IF next > last THEN "poll" ELSE "handle"
    /\ UNCHANGED <<updates, low, hook, offset, next, last, boot, purged, faults>>

\* Slip: the offset outlives the process, as if it had been written to disk.
RestartWithOffset ==
    /\ boot < MaxRestarts
    /\ boot' = boot + 1
    /\ pc' = "get_info"
    /\ next' = 1
    /\ last' = 0
    /\ UNCHANGED <<updates, low, hook, offset, dispatched, purged, faults>>

\* A crash or a redeploy, at any point.
Restart ==
    /\ boot < MaxRestarts
    /\ boot' = boot + 1
    /\ pc' = "get_info"
    /\ offset' = 0
    /\ next' = 1
    /\ last' = 0
    /\ UNCHANGED <<updates, low, hook, dispatched, purged, faults>>

Init ==
    /\ updates = <<>>
    /\ low = 1
    /\ hook \in BOOLEAN
    /\ pc = "get_info"
    /\ offset = 0
    /\ next = 1
    /\ last = 0
    /\ boot = 0
    /\ dispatched = <<>>
    /\ purged = {}
    /\ faults = 0

\* What the daemon does as long as nothing goes wrong.
Daemon ==
    \/ GetWebhookInfo \/ DeleteWebhook
    \/ Ask \/ Conflict \/ Receive \/ Wake
    \/ SkipUpdate \/ DispatchUpdate \/ FinishUpdate

Next ==
    \/ \E k \in Kind : NewUpdate(k)
    \/ RegisterWebhook
    \/ Daemon
    \/ PrepareFails \/ OtherPoller \/ PollFails \/ BadBody
    \/ Restart

Spec == Init /\ [][Next]_vars

\* Requests and handlers run under timeouts and sleeps end, so a step of the
\* daemon that can be taken is taken; failures are only assumed to be finitely many.
FairSpec == Spec /\ WF_vars(Daemon)

--------------------------------------------------------------------------------

\* The daemon, the queue and the histories keep their shape.
TypeOK ==
    /\ updates \in Seq(Kind)
    /\ low \in 1..Sent + 1
    /\ hook \in BOOLEAN
    /\ pc \in PC
    /\ offset \in 0..Sent + 1
    /\ next \in Nat \ {0} /\ last \in 0..Sent
    /\ pc = "handle" => next <= last
    /\ boot \in Nat
    /\ dispatched \in Seq(Dispatch)
    /\ purged \subseteq 1..Sent
    /\ faults \in Nat

\* Within one process the dispatcher sees updates in the order they were sent and
\* none twice, whatever answers were lost and repeated; and what a restart repeats is
\* no more than the batch that was in hand: an update is not dispatched again once
\* BatchLimit more have been fetched behind it.
DispatchedInOrder ==
    /\ \A i, j \in DOMAIN dispatched :
          i < j /\ dispatched[i].boot = dispatched[j].boot
             => dispatched[i].id < dispatched[j].id
    /\ \A i, j, k \in DOMAIN dispatched :
          /\ i < j /\ dispatched[i].id = dispatched[j].id
          /\ dispatched[k].boot = dispatched[i].boot
          => dispatched[k].id < dispatched[i].id + BatchLimit

\* At least once: Telegram lets go of a text message only after some process has
\* dispatched it to the end, unless the operator asked for the backlog to be dropped.
NothingLost ==
    \A id \in 1..low - 1 :
        updates[id] = "text" /\ id \notin purged =>
            \E i \in DOMAIN dispatched : dispatched[i].id = id /\ dispatched[i].done

\* A message that has been sent is dispatched in the end, thrown away on request,
\* or the loop has ended.
EveryTextDispatched ==
    \A id \in 1..MaxUpdates :
        (id <= Sent /\ updates[id] = "text")
            ~> \/ \E i \in DOMAIN dispatched : dispatched[i].id = id
               \/ id \in purged
               \/ pc \in {"stopped", "dead"}
================================================================================
