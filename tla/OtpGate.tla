-------------------------------- MODULE OtpGate --------------------------------
(***************************************************************************)
(* The OTP gate of bot_cmder: the dispatcher, the /otp builtin and the     *)
(* four stores they share (pending sessions, emergency windows, the TOTP   *)
(* replay watermark, the lockout tables), together with the command        *)
(* handlers they start, the clock, restarts of the bot and the admin CLI.  *)
(*                                                                         *)
(* A step is what one task does on the event loop between two awaits.  The *)
(* dispatcher awaits nothing before it calls the handler, and /otp awaits  *)
(* nothing before it calls the resumed handler, so each message is decided *)
(* in one step; the handlers it starts then overlap freely.                *)
(***************************************************************************)
EXTENDS Integers, Sequences, FiniteSets

CONSTANTS
    User,           \* norm_ids, "telegram:111"
    Chat,           \* (platform, chat id) pairs
    Privileged,     \* commands whose effective_2fa is true
    Otp,            \* the name of the /otp builtin
    Emergency,      \* "__emergency_activate__", the tag of an activation request
    NoSession,      \* no entry in the pending table
    Acls,           \* the access lists a configuration file may hold
    CodeAt(_, _),   \* the six digits of a user's secret for a TOTP step
    Code,           \* what may be typed after /otp
    Requested,      \* durations asked for in /otp emergency
    StepTicks,      \* TOTP interval
    PendingTTL,     \* totp.session_ttl_s
    EmergencyCap,   \* totp.emergency_max_minutes
    MaxFailures,    \* totp.lockout.max_failures
    LockoutTicks,   \* totp.lockout.lockout_minutes
    FailureWindow,  \* totp.lockout.failure_window_minutes
    OtpTimeout,     \* timeout_s of the /otp command itself
    CmdTimeout,     \* command -> its timeout_s
    MaxTime, MaxRequests, MaxRuns, MaxRestarts   \* bounds of the checked instance

ASSUME NamesAssumption ==
    /\ Otp \notin Privileged
    /\ Emergency \notin Privileged
    /\ Acls \subseteq [User -> SUBSET (Privileged \cup {Otp})]

ASSUME TuningAssumption ==
    /\ StepTicks \in Nat \ {0}
    /\ PendingTTL \in Int
    /\ EmergencyCap \in Int
    /\ MaxFailures \in Nat \ {0}
    /\ LockoutTicks \in Nat \ {0}
    /\ FailureWindow \in Nat \ {0}
    /\ OtpTimeout \in Nat
    /\ CmdTimeout \in [Privileged -> Nat]
    /\ Requested \subseteq Nat \ {0}
    /\ MaxRequests \in Nat

VARIABLES
    now,        \* time.time() and datetime.now, one clock
    epoch,      \* how many times the bot has been restarted
    wired,      \* BOT_CMDER_MASTER_KEY was set and valid at startup: TOTP is there
    acl,        \* user -> commands the configuration loaded at startup allows
    pending,    \* PendingOTPSessions._sessions
    windows,    \* EmergencyWindows._windows
    lastUsed,   \* TOTPVerifier._last_used_step
    failures,   \* otp_failures: user -> failed_at of each row
    lockouts,   \* otp_lockouts: user -> locked_until, 0 for no row
    runs,       \* every handler started, in order
    nreq,       \* sessions stashed so far, to tell them apart
    uses        \* history: every code verify() accepted

vars == <<now, epoch, wired, acl, pending, windows, lastUsed, failures,
          lockouts, runs, nreq, uses>>

Session == [req : Nat, user : User, chat : Chat,
            cmd : Privileged \cup {Emergency},
            minutes : Nat, expires : Int, epoch : Nat]

Window == [granted : Nat, expires : Nat]
NoWindow == [granted |-> 0, expires |-> 0]

ASSUME NoSessionAssumption == NoSession \notin Session

\* How a handler came to run: with no gate wired, inside an emergency window, or
\* resumed by /otp.
Via == {"ungated", "emergency", "otp"}

Run == [user : User, chat : Chat, cmd : Privileged, via : Via,
        session : Session \cup {NoSession}, step : Int,
        start : Nat, epoch : Nat,
        status : {"running", "done", "lost"},
        audited : Privileged \cup {Otp, Emergency}]

\* audited before the handler has ended; no command has this name.
NotAudited == Emergency

Use == [user : User, step : Int, at : Nat, epoch : Nat, req : Nat]

--------------------------------------------------------------------------------
(* The stores. *)

Allowed(u, c) == c \in acl[u]

\* EmergencyWindow.is_active: strictly before expires_at.
WindowActive(u) == now < windows[u].expires

\* Slip: the cap is forgotten.
GrantedUncapped(m) == IF m < 1 THEN 1 ELSE m

\* EmergencyWindows.grant: the cap wins, and one minute is the least.
Granted(m) ==
    LET capped == IF m > EmergencyCap THEN EmergencyCap ELSE m IN
    IF capped < 1 THEN 1 ELSE capped

\* What the cap amounts to; nothing stops a configuration from setting it below one.
LongestWindow == IF EmergencyCap < 1 THEN 1 ELSE EmergencyCap

\* EmergencyWindows.get drops a window it finds expired.
EvictIfExpired(u) ==
    windows' = [windows EXCEPT ![u] = IF WindowActive(u) THEN @ ELSE NoWindow]

\* PendingOTPSessions.is_expired: the session still counts at its expires_at.
SessionExpired(s) == s.expires < now

\* PendingOTPSessions.stash replaces whatever the user had pending.
Stash(u, ch, c, m) ==
    /\ nreq < MaxRequests
    /\ nreq' = nreq + 1
    /\ pending' = [pending EXCEPT ![u] =
          [req |-> nreq + 1, user |-> u, chat |-> ch, cmd |-> c, minutes |-> m,
           expires |-> now + PendingTTL, epoch |-> epoch]]

\* The steps verify() tries, and the one it settles on: the earliest that fits.
TriedSteps == (now \div StepTicks) - 1 .. (now \div StepTicks) + 1
Matching(u, code) == {s \in TriedSteps : CodeAt(u, s) = code}
FirstMatch(u, code) == CHOOSE s \in Matching(u, code) : \A t \in Matching(u, code) : s <= t

\* Slip: the watermark only refuses the very last step.
VerifiesUnlessLast(u, code) ==
    /\ Matching(u, code) # {}
    /\ FirstMatch(u, code) # lastUsed[u]

\* Slip: no watermark at all.
VerifiesAlways(u, code) == Matching(u, code) # {}

\* verify() returns True.  A user without a secret is one whose codes never match:
\* enrolling and revoking add no outcome to those of a right and a wrong code.
Verifies(u, code) ==
    /\ Matching(u, code) # {}
    /\ FirstMatch(u, code) > lastUsed[u]

Locked(u) == now < lockouts[u]

\* What /otp finds after clearing a lockout that has run out.
FailuresLeft(u) == IF lockouts[u] # 0 THEN <<>> ELSE failures[u]

CountSince(rows, t) == Cardinality({i \in DOMAIN rows : rows[i] >= t})

\* OTPLockoutState.record_failure on top of the rows that are left.
RecordFailure(u) ==
    LET rows == Append(FailuresLeft(u), now) IN
    /\ failures' = [failures EXCEPT ![u] = rows]
    /\ lockouts' = [lockouts EXCEPT ![u] =
          IF CountSince(rows, now - FailureWindow) >= MaxFailures
          THEN now + LockoutTicks ELSE 0]

\* OTPLockoutState.reset and admin_unlock.
ResetLockout(u) ==
    /\ failures' = [failures EXCEPT ![u] = <<>>]
    /\ lockouts' = [lockouts EXCEPT ![u] = 0]

\* Clears the expired lockout, if there is one, and nothing else.
CleanUpLockout(u) ==
    /\ failures' = [failures EXCEPT ![u] = FailuresLeft(u)]
    /\ lockouts' = [lockouts EXCEPT ![u] = 0]

\* A handler enters the event loop under wait_for.
StartRun(u, ch, c, via, session, step) ==
    /\ Len(runs) < MaxRuns
    /\ runs' = Append(runs,
          [user |-> u, chat |-> ch, cmd |-> c, via |-> via, session |-> session,
           step |-> step, start |-> now, epoch |-> epoch,
           status |-> "running", audited |-> NotAudited])

--------------------------------------------------------------------------------
(* The dispatcher.  A message the access list refuses changes nothing but   *)
(* the audit log, so refusals are steps that leave vars alone.              *)

Init ==
    /\ now = StepTicks
    /\ epoch = 0
    /\ wired \in BOOLEAN
    /\ acl \in Acls
    /\ pending = [u \in User |-> NoSession]
    /\ windows = [u \in User |-> NoWindow]
    /\ lastUsed = [u \in User |-> -1]
    /\ failures = [u \in User |-> <<>>]
    /\ lockouts = [u \in User |-> 0]
    /\ runs = <<>>
    /\ nreq = 0
    /\ uses = {}

\* Without a master key no PendingOTPSessions is injected and the gate is skipped.
RunUngated(u, ch, c) ==
    /\ ~wired
    /\ c \in Privileged
    /\ Allowed(u, c)
    /\ StartRun(u, ch, c, "ungated", NoSession, -1)
    /\ UNCHANGED <<now, epoch, wired, acl, pending, windows, lastUsed,
                   failures, lockouts, nreq, uses>>

RunInWindow(u, ch, c) ==
    /\ wired
    /\ c \in Privileged
    /\ Allowed(u, c)
    /\ WindowActive(u)
    /\ StartRun(u, ch, c, "emergency", NoSession, -1)
    /\ UNCHANGED <<now, epoch, wired, acl, pending, windows, lastUsed,
                   failures, lockouts, nreq, uses>>

StashCommand(u, ch, c) ==
    /\ wired
    /\ c \in Privileged
    /\ Allowed(u, c)
    /\ ~WindowActive(u)
    /\ EvictIfExpired(u)
    /\ Stash(u, ch, c, 0)
    /\ UNCHANGED <<now, epoch, wired, acl, lastUsed, failures, lockouts, runs, uses>>

--------------------------------------------------------------------------------
(* The /otp builtin: registered only when TOTP is wired, subject to the     *)
(* access list, never to the gate.                                          *)

OtpAllowed(u) == wired /\ Allowed(u, Otp)

RequestEmergency(u, ch, m) ==
    /\ OtpAllowed(u)
    /\ Stash(u, ch, Emergency, m)
    /\ UNCHANGED <<now, epoch, wired, acl, windows, lastUsed, failures,
                   lockouts, runs, uses>>

EmergencyStatus(u) ==
    /\ OtpAllowed(u)
    /\ EvictIfExpired(u)
    /\ UNCHANGED <<now, epoch, wired, acl, pending, lastUsed, failures,
                   lockouts, runs, nreq, uses>>

EndEmergency(u) ==
    /\ OtpAllowed(u)
    /\ windows' = [windows EXCEPT ![u] = NoWindow]
    /\ UNCHANGED <<now, epoch, wired, acl, pending, lastUsed, failures,
                   lockouts, runs, nreq, uses>>

\* The lockout is consulted before the session is touched.
SubmitLocked(u) ==
    /\ OtpAllowed(u)
    /\ Locked(u)
    /\ UNCHANGED vars

SubmitNoPending(u) ==
    /\ OtpAllowed(u)
    /\ ~Locked(u)
    /\ pending[u] = NoSession
    /\ CleanUpLockout(u)
    /\ UNCHANGED <<now, epoch, wired, acl, pending, windows, lastUsed, runs,
                   nreq, uses>>

\* Slip: the session is read but left in the table.
PeekSession(u) == UNCHANGED pending

PopSession(u) == pending' = [pending EXCEPT ![u] = NoSession]

\* Slip: the code may come from any chat.
UsableAnywhere(u, ch) ==
    /\ pending[u] # NoSession
    /\ ~SessionExpired(pending[u])

\* The session is usable: same chat, still in time.
Usable(u, ch) ==
    /\ pending[u] # NoSession
    /\ pending[u].chat = ch
    /\ ~SessionExpired(pending[u])

\* A session of another chat, or one that came too late, is used up unanswered.
SubmitUnusable(u, ch) ==
    /\ OtpAllowed(u)
    /\ ~Locked(u)
    /\ pending[u] # NoSession
    /\ ~Usable(u, ch)
    /\ PopSession(u)
    /\ CleanUpLockout(u)
    /\ UNCHANGED <<now, epoch, wired, acl, windows, lastUsed, runs, nreq, uses>>

SubmitInvalid(u, ch, code) ==
    /\ OtpAllowed(u)
    /\ ~Locked(u)
    /\ Usable(u, ch)
    /\ ~Verifies(u, code)
    /\ PopSession(u)
    /\ RecordFailure(u)
    /\ UNCHANGED <<now, epoch, wired, acl, windows, lastUsed, runs, nreq, uses>>

\* verify() returned True: the step is burnt and the failure log cleared.
AcceptCode(u, ch, code) ==
    /\ OtpAllowed(u)
    /\ ~Locked(u)
    /\ Usable(u, ch)
    /\ Verifies(u, code)
    /\ PopSession(u)
    /\ lastUsed' = [lastUsed EXCEPT ![u] = FirstMatch(u, code)]
    /\ uses' = uses \cup {[user |-> u, step |-> FirstMatch(u, code), at |-> now,
                           epoch |-> epoch, req |-> pending[u].req]}
    /\ ResetLockout(u)

\* Slip: a window still open is prolonged, and by more than the cap leaves.
ExtendEmergency(u, ch, code) ==
    /\ AcceptCode(u, ch, code)
    /\ pending[u].cmd = Emergency
    /\ windows' = [windows EXCEPT ![u] =
          [granted |-> now, expires |-> Granted(pending[u].minutes)
                                        + IF WindowActive(u) THEN @.expires ELSE now]]
    /\ UNCHANGED <<now, epoch, wired, acl, runs, nreq>>

ActivateEmergency(u, ch, code) ==
    /\ AcceptCode(u, ch, code)
    /\ pending[u].cmd = Emergency
    /\ windows' = [windows EXCEPT ![u] =
          [granted |-> now, expires |-> now + Granted(pending[u].minutes)]]
    /\ UNCHANGED <<now, epoch, wired, acl, runs, nreq>>

\* The stashed command runs with its stashed arguments; no second look at the
\* access list.
ResumeCommand(u, ch, code) ==
    /\ AcceptCode(u, ch, code)
    /\ pending[u].cmd # Emergency
    /\ StartRun(u, ch, pending[u].cmd, "otp", pending[u], FirstMatch(u, code))
    /\ UNCHANGED <<now, epoch, wired, acl, windows, nreq>>

SubmitCode(u, ch, code) ==
    \/ SubmitInvalid(u, ch, code)
    \/ ActivateEmergency(u, ch, code)
    \/ ResumeCommand(u, ch, code)

--------------------------------------------------------------------------------
(* Handlers in flight. *)

Running(i) == i \in DOMAIN runs /\ runs[i].status = "running"

\* /otp's own budget covers the handler it resumed; on a tie the outer timer,
\* started first, wins.
CutByOtp(r) == r.via = "otp" /\ OtpTimeout <= CmdTimeout[r.cmd]

Ended(r, name) == [r EXCEPT !.status = "done", !.audited = name]

EndRun(i, name) ==
    /\ runs' = [runs EXCEPT ![i] = Ended(@, name)]
    /\ UNCHANGED <<now, epoch, wired, acl, pending, windows, lastUsed,
                   failures, lockouts, nreq, uses>>

\* The handler returns or raises: EXECUTED or HANDLER_ERROR under its own name.
FinishRun(i) ==
    /\ Running(i)
    /\ EndRun(i, runs[i].cmd)

\* COMMAND_TIMEOUT under the command's own name.
TimeoutRun(i) ==
    /\ Running(i)
    /\ ~CutByOtp(runs[i])
    /\ now >= runs[i].start + CmdTimeout[runs[i].cmd]
    /\ EndRun(i, runs[i].cmd)

\* The timeout of /otp cancels the resumed handler; the only record is COMMAND_TIMEOUT otp.
TimeoutOtp(i) ==
    /\ Running(i)
    /\ CutByOtp(runs[i])
    /\ now >= runs[i].start + OtpTimeout
    /\ EndRun(i, Otp)

--------------------------------------------------------------------------------
(* The world around the bot. *)

Tick ==
    /\ now < MaxTime
    /\ now' = now + 1
    /\ UNCHANGED <<epoch, wired, acl, pending, windows, lastUsed, failures,
                   lockouts, runs, nreq, uses>>

\* A handler that was running when the process died.
Cut(r) == IF r.status = "running" THEN [r EXCEPT !.status = "lost"] ELSE r

\* Crash or redeploy: memory is gone, SQLite stays, the configuration is read anew.
Restart ==
    /\ epoch < MaxRestarts
    /\ epoch' = epoch + 1
    /\ wired' \in BOOLEAN
    /\ acl' \in Acls
    /\ pending' = [u \in User |-> NoSession]
    /\ windows' = [u \in User |-> NoWindow]
    /\ lastUsed' = [u \in User |-> -1]
    /\ runs' = [i \in DOMAIN runs |-> Cut(runs[i])]
    /\ UNCHANGED <<now, failures, lockouts, nreq, uses>>

\* bot-cmder unlock-totp, in a process of its own.
AdminUnlock(u) ==
    /\ ResetLockout(u)
    /\ UNCHANGED <<now, epoch, wired, acl, pending, windows, lastUsed, runs,
                   nreq, uses>>

Dispatch(u, ch) ==
    \E c \in Privileged :
        \/ RunUngated(u, ch, c)
        \/ RunInWindow(u, ch, c)
        \/ StashCommand(u, ch, c)

OtpCommand(u, ch) ==
    \/ \E m \in Requested : RequestEmergency(u, ch, m)
    \/ EmergencyStatus(u)
    \/ EndEmergency(u)
    \/ SubmitLocked(u)
    \/ SubmitNoPending(u)
    \/ SubmitUnusable(u, ch)
    \/ \E code \in Code : SubmitCode(u, ch, code)

Next ==
    \/ \E u \in User, ch \in Chat : Dispatch(u, ch) \/ OtpCommand(u, ch)
    \/ \E i \in DOMAIN runs : FinishRun(i) \/ TimeoutRun(i) \/ TimeoutOtp(i)
    \/ \E u \in User : AdminUnlock(u)
    \/ Tick
    \/ Restart

Spec == Init /\ [][Next]_vars

--------------------------------------------------------------------------------
(* What the gate promises. *)

CodeOf(x) == [user |-> x.user, step |-> x.step, epoch |-> x.epoch]
StartOf(r) == [user |-> r.user, cmd |-> r.cmd, at |-> r.start]
Started(rs) == [i \in DOMAIN rs |-> StartOf(rs[i])]

Gate == INSTANCE CommandGate WITH
    spent <- {CodeOf(x) : x \in uses},
    open <- [u \in User |-> windows[u].expires],
    started <- Started(runs),
    EmergencyCap <- LongestWindow

\* The implementation is a CommandGate: while TOTP is wired every privileged start
\* is paid for by a code not yet spent in this boot or happens inside a capped
\* window such a code opened, and no restart, expiry, overwrite or cancellation
\* of sessions and handlers lets one through otherwise.
GateSpec == Gate!Spec

\* The stores and histories keep their shape.
Types ==
    /\ now \in Nat
    /\ epoch \in Nat
    /\ wired \in BOOLEAN
    /\ acl \in Acls
    /\ pending \in [User -> Session \cup {NoSession}]
    /\ windows \in [User -> Window]
    /\ lastUsed \in [User -> Int]
    /\ failures \in [User -> Seq(Nat)]
    /\ lockouts \in [User -> Nat]
    /\ runs \in Seq(Run)
    /\ nreq \in Nat
    /\ uses \subseteq Use

\* Without a master key nothing is stashed or granted.
IdleUnwired ==
    ~wired => \A u \in User : pending[u] = NoSession /\ windows[u] = NoWindow

\* Types; besides, what is in memory is of this boot: a session belongs to the user it is
\* filed under and is not older than the process, however often the bot is restarted, a
\* window is no longer than the cap even when it was granted while another was open, and
\* a process that has lost its master key has neither.
TypeOK ==
    /\ Types
    /\ \A u \in User : pending[u] # NoSession =>
          pending[u].user = u /\ pending[u].epoch = epoch /\ pending[u].req <= nreq
    /\ \A u \in User : windows[u].expires <= windows[u].granted + LongestWindow
    /\ IdleUnwired

\* A stashed request is answered by one code at most and run at most once, over
\* the whole life of the bot, restarts included: pop() removes what it returns
\* and nothing puts it back.
RequestAnsweredOnce ==
    /\ \A x, y \in uses : x.req = y.req => x = y
    /\ \A i, j \in DOMAIN runs :
          runs[i].via = "otp" /\ runs[j].via = "otp"
             /\ runs[i].session.req = runs[j].session.req => i = j

\* Within one boot a user's later request is always answered with a code of a
\* later TOTP step: the watermark in TOTPVerifier never moves back, so neither a
\* repeated code nor an older one still inside the tolerance works again.
CodesAscend ==
    \A x, y \in uses :
        x.user = y.user /\ x.epoch = y.epoch /\ x.req < y.req => x.step < y.step

\* What /otp resumes is what this user asked for, in this chat, in this boot, no
\* longer than the session TTL ago.
ResumedAsAsked ==
    \A i \in DOMAIN runs : runs[i].via = "otp" =>
        LET r == runs[i]  s == r.session IN
        /\ s # NoSession
        /\ s.user = r.user /\ s.chat = r.chat /\ s.cmd = r.cmd /\ s.epoch = r.epoch
        /\ s.expires - PendingTTL <= r.start /\ r.start <= s.expires

\* A handler that ran inside an emergency window started less than the cap after
\* a code of the same user, accepted in the same boot: use never extends a window.
WindowBacked ==
    \A i \in DOMAIN runs : runs[i].via = "emergency" =>
        \E x \in uses : /\ x.user = runs[i].user
                        /\ x.epoch = runs[i].epoch
                        /\ x.at <= runs[i].start
                        /\ runs[i].start < x.at + LongestWindow

\* A locked-out user spends nothing: no code is accepted and no pending session
\* is used up, whatever the user types ("BEFORE pop()ping", otp.py).
SpendsNothing(u) ==
    /\ pending[u] # NoSession => pending'[u] # NoSession
    /\ \A x \in uses' \ uses : x.user # u

LockedOutSpendsNothing ==
    [][\A u \in User : Locked(u) /\ epoch' = epoch => SpendsNothing(u)]_vars

--------------------------------------------------------------------------------
(* A statement of the comments that the code does not live up to.           *)

\* main.py and builtin/__init__.py: with no pending store the dispatcher refuses
\* privileged commands, "fails closed rather than open".
FailsClosed ==
    ~wired => \A i \in DOMAIN runs : runs[i].cmd \notin Privileged
================================================================================
