------------------------------ MODULE OtpLockout ------------------------------
(***************************************************************************)
(* The brute-force lockout of /otp, one SQL statement at a time.  OtpGate  *)
(* takes record_failure and reset as single steps; here each statement is  *)
(* a transaction of its own on the SQLite file, as in LockoutStore, so the *)
(* bot's handler, the bot-cmder unlock-totp process, a crash and a failing *)
(* statement can fall between any two of them.                             *)
(*                                                                         *)
(* The handler awaits nothing between its first and its last statement, so *)
(* one bot process has at most one of these programs in progress.          *)
(***************************************************************************)
EXTENDS Integers, Sequences, FiniteSets, FiniteSetsExt

CONSTANTS
    User,
    NoUser,         \* nobody is being served
    MaxFailures,    \* totp.lockout.max_failures
    LockoutTicks,   \* totp.lockout.lockout_minutes
    FailureWindow,  \* totp.lockout.failure_window_minutes
    MaxTime, MaxGuesses, MaxFaults   \* bounds of the checked instance

ASSUME LockoutAssumption ==
    /\ NoUser \notin User
    /\ MaxFailures \in Nat \ {0}
    /\ LockoutTicks \in Nat \ {0}
    /\ FailureWindow \in Nat \ {0}
    /\ {MaxTime, MaxGuesses, MaxFaults} \subseteq Nat

VARIABLES
    now,        \* the clock both processes read
    failures,   \* otp_failures: user -> failed_at of each row
    lockouts,   \* otp_lockouts: user -> locked_until, 0 for no row
    bot,        \* the /otp handler: its next statement, its user, its `now`
    cli,        \* unlock-totp: its next statement and its user
    guesses,    \* history: user -> the times of all wrong codes
    pardoned,   \* history: user -> guesses made before the last success or unlock
    faults      \* handlers and unlocks cut short so far

vars == <<now, failures, lockouts, bot, cli, guesses, pardoned, faults>>

BotStatement == {"idle", "expire_failures", "expire_lockout", "verify",
                 "reset_failures", "reset_lockout", "add_failure", "get_lockout",
                 "count_failures", "set_lockout"}
CliStatement == {"idle", "clear_lockout"}

BotIdle == [pc |-> "idle", user |-> NoUser, at |-> 0]
CliIdle == [pc |-> "idle", user |-> NoUser]

BotGoes(pc) == bot' = [bot EXCEPT !.pc = pc]

CountSince(rows, t) == Cardinality({i \in DOMAIN rows : rows[i] >= t})

\* Slip: the count lacks its WHERE user_norm_id = ?.
CountOfAnybody(u) ==
    Cardinality({p \in User \X (1..MaxGuesses) :
                    /\ p[2] \in DOMAIN failures[p[1]]
                    /\ failures[p[1]][p[2]] >= bot.at - FailureWindow})

\* Slip: the window is open at its far end.
CountStrictly(u) ==
    Cardinality({i \in DOMAIN failures[u] : failures[u][i] > bot.at - FailureWindow})

\* count_failures_since at the start of the sliding window.
Count(u) == CountSince(failures[u], bot.at - FailureWindow)

--------------------------------------------------------------------------------
(* The bot. *)

\* The handler goes on to its next statement, for this user.
Serve(u, pc) == bot' = [pc |-> pc, user |-> u, at |-> 0]

\* Slip: any lockout row is taken for one that has run out.
SnapshotExpired(u) ==
    /\ bot.pc = "idle"
    /\ IF lockouts[u] = 0 THEN Serve(u, "verify") ELSE Serve(u, "expire_failures")
    /\ UNCHANGED <<now, failures, lockouts, cli, guesses, pardoned, faults>>

\* lockout.snapshot, the first statement of /otp <code>: refuse while locked, clean
\* up first if the row has run out.
Snapshot(u) ==
    /\ bot.pc = "idle"
    /\ IF lockouts[u] = 0 THEN Serve(u, "verify")
       ELSE IF now < lockouts[u] THEN bot' = BotIdle
       ELSE Serve(u, "expire_failures")
    /\ UNCHANGED <<now, failures, lockouts, cli, guesses, pardoned, faults>>

\* Slip: reset() is content with the first DELETE.
ClearFailuresOnly ==
    /\ \/ bot.pc = "expire_failures" /\ BotGoes("verify")
       \/ bot.pc = "reset_failures" /\ bot' = BotIdle
    /\ failures' = [failures EXCEPT ![bot.user] = <<>>]
    /\ UNCHANGED <<now, lockouts, cli, guesses, pardoned, faults>>

\* The first and the second DELETE of reset(), after an expiry or a success.
ClearFailures ==
    /\ \/ bot.pc = "expire_failures" /\ BotGoes("expire_lockout")
       \/ bot.pc = "reset_failures" /\ BotGoes("reset_lockout")
    /\ failures' = [failures EXCEPT ![bot.user] = <<>>]
    /\ UNCHANGED <<now, lockouts, cli, guesses, pardoned, faults>>

ClearLockout ==
    /\ \/ bot.pc = "expire_lockout" /\ BotGoes("verify")
       \/ bot.pc = "reset_lockout" /\ bot' = BotIdle
    /\ lockouts' = [lockouts EXCEPT ![bot.user] = 0]
    /\ UNCHANGED <<now, failures, cli, guesses, pardoned, faults>>

\* No pending session, another chat, too late: verify() is never asked.
NothingPending ==
    /\ bot.pc = "verify"
    /\ bot' = BotIdle
    /\ UNCHANGED <<now, failures, lockouts, cli, guesses, pardoned, faults>>

RightCode ==
    /\ bot.pc = "verify"
    /\ BotGoes("reset_failures")
    /\ pardoned' = [pardoned EXCEPT ![bot.user] = Len(guesses[bot.user])]
    /\ UNCHANGED <<now, failures, lockouts, cli, guesses, faults>>

Guesses == MapThenSumSet(LAMBDA u : Len(guesses[u]), User)

\* record_failure takes its `now` once, before its first statement.
WrongCode ==
    /\ bot.pc = "verify"
    /\ Guesses < MaxGuesses
    /\ bot' = [bot EXCEPT !.pc = "add_failure", !.at = now]
    /\ guesses' = [guesses EXCEPT ![bot.user] = Append(@, now)]
    /\ UNCHANGED <<now, failures, lockouts, cli, pardoned, faults>>

AddFailure ==
    /\ bot.pc = "add_failure"
    /\ failures' = [failures EXCEPT ![bot.user] = Append(@, bot.at)]
    /\ BotGoes("get_lockout")
    /\ UNCHANGED <<now, lockouts, cli, guesses, pardoned, faults>>

GetLockout ==
    /\ bot.pc = "get_lockout"
    /\ IF bot.at < lockouts[bot.user] THEN bot' = BotIdle ELSE BotGoes("count_failures")
    /\ UNCHANGED <<now, failures, lockouts, cli, guesses, pardoned, faults>>

CountFailures ==
    /\ bot.pc = "count_failures"
    /\ IF Count(bot.user) < MaxFailures THEN bot' = BotIdle ELSE BotGoes("set_lockout")
    /\ UNCHANGED <<now, failures, lockouts, cli, guesses, pardoned, faults>>

SetLockout ==
    /\ bot.pc = "set_lockout"
    /\ lockouts' = [lockouts EXCEPT ![bot.user] = bot.at + LockoutTicks]
    /\ bot' = BotIdle
    /\ UNCHANGED <<now, failures, cli, guesses, pardoned, faults>>

\* The process dies, or the statement raises (disk full, database is locked) and
\* the dispatcher turns the exception into HANDLER_ERROR: the rest is not done.
BotFault ==
    /\ bot.pc # "idle"
    /\ faults < MaxFaults
    /\ faults' = faults + 1
    /\ bot' = BotIdle
    /\ UNCHANGED <<now, failures, lockouts, cli, guesses, pardoned>>

Handler ==
    \/ \E u \in User : Snapshot(u)
    \/ ClearFailures \/ ClearLockout
    \/ NothingPending \/ RightCode \/ WrongCode
    \/ AddFailure \/ GetLockout \/ CountFailures \/ SetLockout

--------------------------------------------------------------------------------
(* bot-cmder unlock-totp. *)

UnlockFailures(u) ==
    /\ cli.pc = "idle"
    /\ failures' = [failures EXCEPT ![u] = <<>>]
    /\ cli' = [pc |-> "clear_lockout", user |-> u]
    /\ pardoned' = [pardoned EXCEPT ![u] = Len(guesses[u])]
    /\ UNCHANGED <<now, lockouts, bot, guesses, faults>>

UnlockLockout ==
    /\ cli.pc = "clear_lockout"
    /\ lockouts' = [lockouts EXCEPT ![cli.user] = 0]
    /\ cli' = CliIdle
    /\ pardoned' = [pardoned EXCEPT ![cli.user] = Len(guesses[cli.user])]
    /\ UNCHANGED <<now, failures, bot, guesses, faults>>

CliFault ==
    /\ cli.pc # "idle"
    /\ faults < MaxFaults
    /\ faults' = faults + 1
    /\ cli' = CliIdle
    /\ UNCHANGED <<now, failures, lockouts, bot, guesses, pardoned>>

Unlock == (\E u \in User : UnlockFailures(u)) \/ UnlockLockout

Tick ==
    /\ now < MaxTime
    /\ now' = now + 1
    /\ UNCHANGED <<failures, lockouts, bot, cli, guesses, pardoned, faults>>

Init ==
    /\ now = 0
    /\ failures = [u \in User |-> <<>>]
    /\ lockouts = [u \in User |-> 0]
    /\ bot = BotIdle
    /\ cli = CliIdle
    /\ guesses = [u \in User |-> <<>>]
    /\ pardoned = [u \in User |-> 0]
    /\ faults = 0

Next == Handler \/ BotFault \/ Unlock \/ CliFault \/ Tick

Spec == Init /\ [][Next]_vars

--------------------------------------------------------------------------------

\* The tables, the two programs and the histories keep their shape.
Types ==
    /\ now \in Nat
    /\ failures \in [User -> Seq(Nat)]
    /\ lockouts \in [User -> Nat]
    /\ bot \in [pc : BotStatement, user : User \cup {NoUser}, at : Nat]
    /\ bot.pc # "idle" => bot.user \in User
    /\ cli \in [pc : CliStatement, user : User \cup {NoUser}]
    /\ cli.pc # "idle" => cli.user \in User
    /\ guesses \in [User -> Seq(Nat)]
    /\ pardoned \in [User -> Nat]
    /\ faults \in Nat

\* Once a code has been found wrong.
Counting == {"add_failure", "get_lockout", "count_failures", "set_lockout"}

\* From the snapshot on the handler is not refused: the user is not locked out, and
\* no lockout row is there once a code is evaluated.
Unlocked ==
    /\ bot.pc \in {"expire_failures", "expire_lockout"} => lockouts[bot.user] <= now
    /\ bot.pc \in Counting \cup {"verify", "reset_failures", "reset_lockout"} =>
           lockouts[bot.user] = 0

\* Types; besides, what record_failure takes for granted ("Already-locked norm_ids never
\* trigger again here"): whatever an unlock does and wherever an earlier handler was cut
\* short, no code is evaluated, and no failure counted, over a lockout row that stands.
TypeOK == Types /\ Unlocked

LeastWait == IF LockoutTicks <= FailureWindow THEN LockoutTicks ELSE FailureWindow + 1

\* Guessing is slow: short of a right code or an unlock, a user gets no more than
\* MaxFailures wrong codes evaluated per lockout or sliding window, whatever is
\* interrupted, plus one for each interruption: a crash between the INSERT and the
\* lockout does not let the guesses start over.
GuessRateBounded ==
    \A u \in User :
        LET k == MaxFailures + faults IN
        \A i \in pardoned[u] + 1 .. Len(guesses[u]) - k :
            guesses[u][i + k] - guesses[u][i] >= LeastWait

\* A lockout row is earned: the same user had MaxFailures wrong codes within one
\* window that ended when the lockout began, even when an unlock ran in between.
LockoutEarned ==
    \A u \in User : lockouts[u] # 0 =>
        LET began == lockouts[u] - LockoutTicks IN
        Cardinality({i \in DOMAIN guesses[u] :
                        guesses[u][i] \in began - FailureWindow .. began}) >= MaxFailures

\* While a lockout lasts, only unlock-totp for that very user shortens it: not the
\* bot's own clean-up, not a success, not another user's handler or unlock.
OnlyUnlockLifts ==
    [][\A u \in User :
          lockouts[u] > now /\ lockouts'[u] # lockouts[u]
             => cli.pc = "clear_lockout" /\ cli.user = u]_vars
================================================================================
