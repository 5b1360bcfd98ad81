------------------------------ MODULE CommandGate ------------------------------
(***************************************************************************)
(* What bot_cmder promises about privileged chat commands, with nothing    *)
(* said about how: a privileged handler starts only for a user the access  *)
(* list allows, and only on the strength of a one-time code nobody has     *)
(* spent in this run of the bot, or inside a bounded window that such a    *)
(* code has opened.  A restart closes every window.  OtpGate is the        *)
(* implementation; its sessions, lockouts and replies are invisible here.  *)
(***************************************************************************)
EXTENDS Integers, Sequences

CONSTANTS User, Privileged, Acls, StepTicks, EmergencyCap

VARIABLES
    now,      \* the wall clock
    epoch,    \* which run of the bot process this is
    wired,    \* whether this run of the bot has a second factor at all
    acl,      \* user -> the commands the loaded configuration allows
    spent,    \* the codes used so far: [user, step, epoch]
    open,     \* user -> the end of the user's bypass window, 0 for none
    started   \* every handler started so far, in order: [user, cmd, at]

gateVars == <<now, epoch, wired, acl, spent, open, started>>

\* A code is good for the step it belongs to and the two neighbouring ones.
AcceptableSteps == (now \div StepTicks) - 1 .. (now \div StepTicks) + 1

Fresh(u, s) == [user |-> u, step |-> s, epoch |-> epoch] \notin spent

SpendCode(u, s) ==
    /\ wired
    /\ Fresh(u, s)
    /\ spent' = spent \cup {[user |-> u, step |-> s, epoch |-> epoch]}

Start(u, c) ==
    /\ c \in acl[u]
    /\ started' = Append(started, [user |-> u, cmd |-> c, at |-> now])

Init ==
    /\ now \in Nat
    /\ epoch = 0
    /\ wired \in BOOLEAN
    /\ acl \in Acls
    /\ spent = {}
    /\ open = [u \in User |-> 0]
    /\ started = <<>>

\* Without a second factor the access list is all there is.
RunUngated(u, c) ==
    /\ ~wired
    /\ c \in Privileged
    /\ Start(u, c)
    /\ UNCHANGED <<now, epoch, wired, acl, spent, open>>

\* One code, one privileged command.
RunOnCode(u, c, s) ==
    /\ c \in Privileged
    /\ SpendCode(u, s)
    /\ Start(u, c)
    /\ UNCHANGED <<now, epoch, wired, acl, open>>

\* One code, one window no longer than the cap.
OpenOnCode(u, s, d) ==
    /\ d \in 1..EmergencyCap
    /\ SpendCode(u, s)
    /\ open' = [open EXCEPT ![u] = now + d]
    /\ UNCHANGED <<now, epoch, wired, acl, started>>

RunInWindow(u, c) ==
    /\ c \in Privileged
    /\ now < open[u]
    /\ Start(u, c)
    /\ UNCHANGED <<now, epoch, wired, acl, spent, open>>

Close(u) ==
    /\ open' = [open EXCEPT ![u] = 0]
    /\ UNCHANGED <<now, epoch, wired, acl, spent, started>>

Advance ==
    /\ now' = now + 1
    /\ UNCHANGED <<epoch, wired, acl, spent, open, started>>

\* A new process: new configuration, no window survives.
Restart ==
    /\ epoch' = epoch + 1
    /\ wired' \in BOOLEAN
    /\ acl' \in Acls
    /\ open' = [u \in User |-> 0]
    /\ UNCHANGED <<now, spent, started>>

Next ==
    \/ \E u \in User, c \in Privileged : RunUngated(u, c)
    \/ \E u \in User, c \in Privileged, s \in AcceptableSteps : RunOnCode(u, c, s)
    \/ \E u \in User, s \in AcceptableSteps, d \in 1..EmergencyCap : OpenOnCode(u, s, d)
    \/ \E u \in User, c \in Privileged : RunInWindow(u, c)
    \/ \E u \in User : Close(u)
    \/ Advance
    \/ Restart

Spec == Init /\ [][Next]_gateVars
================================================================================
