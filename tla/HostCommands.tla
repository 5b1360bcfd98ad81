---------------------------- MODULE HostCommands ----------------------------
\* commands/builtin/{service,ssh,kubectl,runbook}.py over the connectors: one
\* command that touches hosts, from the moment the dispatcher (or /otp, which
\* resumes it) starts its handler until it is answered.  Time limits nest: /otp's
\* own, the command's, and the connector's for each run.  A timer armed earlier
\* with a limit no longer than another's goes off first.
EXTENDS Integers, Sequences, SequencesExt

CONSTANTS
    Lines,         \* what users type: [name, action, args]
    Hosts,         \* config.hosts
    Services,      \* config.services: name -> [hosts, actions]
    SafeActions,   \* _SAFE_ACTION_NAMES
    Reserved,      \* _RESERVED_SUBCOMMANDS
    Allowed,       \* host -> the commands its allowed_commands match
    KubectlVerbs,  \* kubectl.allowed_subcommands
    Runbooks,      \* executable files in runbook.dir
    PlainArgs,     \* words _ARG_RE accepts
    ShortLimit,    \* 30 s: /otp, /ssh, /kubectl
    ActionLimit,   \* 60 s: /service <action>
    RunbookLimit,  \* 120 s: /runbook run
    CommandTimeout, \* ssh.command_timeout_s
    Local, None,
    MaxTime        \* bound of the clock

ASSUME LimitAssumption ==
    /\ {ShortLimit, ActionLimit, RunbookLimit, CommandTimeout, MaxTime} \subseteq Nat
    /\ ShortLimit < ActionLimit /\ ActionLimit < RunbookLimit
    /\ Local \notin Hosts

ASSUME LineAssumption ==
    \A l \in Lines : /\ l.name \in {"service", "ssh", "kubectl", "runbook"}
                     /\ l.args \in Seq(Range(l.args))

ASSUME ServiceAssumption ==
    \A s \in DOMAIN Services : Services[s].hosts \in Seq(Range(Services[s].hosts))

VARIABLES
    line,    \* the command
    via,     \* "direct", or "otp" for one that /otp resumes
    pc,
    runs,    \* its runs: [host, status], in the order their results are shown
    alive,   \* the runs whose process, or remote channel, is there
    timers,  \* limits armed and not disarmed, in that order: [due, limit, who];
             \* who is a run, or one of the limits around the handler
    trail,   \* the records it has written: [event, host]
    reply,
    now      \* time since it was dispatched

vars == <<line, via, pc, runs, alive, timers, trail, reply, now>>

args == line.args

-----------------------------------------------------------------------------
(* service.py: install, _classify                                           *)

\* The subcommands of /service: every action of any service.
Registered == (UNION {Services[s].actions : s \in DOMAIN Services}) \ Reserved

FansOut == line.name = "service" /\ line.action \in SafeActions

Remote == line.name \in {"service", "ssh"}

Limit == CASE line.name = "service" -> ActionLimit
           [] line.name = "runbook" -> RunbookLimit
           [] OTHER -> ShortLimit

\* The connector's: LocalConnector is given the limit of the command itself.
RunLimit == IF Remote THEN CommandTimeout ELSE Limit

-----------------------------------------------------------------------------
(* The handlers up to their first await: what the line asks to run          *)

NoWords == [out |-> << >>, host |-> None, flag |-> FALSE]

\* One more word of the line; flag: the last one was a "--host" still without its host.
TakeWord(taken, word) ==
    IF taken.flag THEN [taken EXCEPT !.host = word, !.flag = FALSE]
    ELSE IF word = "--host" THEN [taken EXCEPT !.flag = TRUE]
    ELSE [taken EXCEPT !.out = Append(@, word)]

\* `--host X` is taken out wherever it stands; the last one counts, and a
\* "--host" with nothing behind it is a word like any other.
ParseHostFlag(words) ==
    LET end == FoldLeft(TakeWord, NoWords, words) IN
    IF end.flag THEN [end EXCEPT !.out = Append(@, "--host")] ELSE end

\* _resolve_action
Resolves(service) ==
    service \in DOMAIN Services /\ line.action \in Services[service].actions

\* Slip: only the host's own configuration is looked at.
KnownHost(service, host) == host \in Hosts

ServesOn(service, host) ==
    host \in Range(Services[service].hosts) /\ host \in Hosts

\* _run_fan_out: every host the service lists.
FanOutTargets ==
    IF Len(args) = 1 /\ Resolves(args[1]) THEN Services[args[1]].hosts ELSE << >>

\* _run_single_host: the one host named.
SingleTarget ==
    LET parsed == ParseHostFlag(args) IN
    IF /\ Len(parsed.out) = 1 /\ parsed.host # None
       /\ Resolves(parsed.out[1])
       /\ ServesOn(parsed.out[1], parsed.host)
    THEN <<parsed.host>> ELSE << >>

\* ssh.py: a configured host, and a command its allow-list matches in full.
SshTarget ==
    IF Len(args) >= 2 /\ args[1] \in Hosts /\ Tail(args) \in Allowed[args[1]]
    THEN <<args[1]>> ELSE << >>

KubectlTarget ==
    IF args # << >> /\ args[1] \in KubectlVerbs THEN <<Local>> ELSE << >>

RunbookTarget ==
    IF args # << >> /\ args[1] \in Runbooks /\ Range(Tail(args)) \subseteq PlainArgs
    THEN <<Local>> ELSE << >>

Targets == CASE FansOut -> FanOutTargets
             [] line.name = "service" /\ ~FansOut -> SingleTarget
             [] line.name = "ssh" -> SshTarget
             [] line.name = "kubectl" -> KubectlTarget
             [] line.name = "runbook" -> RunbookTarget

Record(event, host) == [event |-> event, host |-> host]

\* What ssh.py puts on record when it refuses.
Refusal ==
    IF line.name # "ssh" \/ Len(args) < 2 THEN << >>
    ELSE IF args[1] \notin Hosts THEN <<Record("SSH_UNKNOWN_HOST", None)>>
    ELSE <<Record("SSH_REFUSED", args[1])>>

-----------------------------------------------------------------------------

Otp == -1
Command == 0

Timer(limit, who) == [due |-> now + limit, limit |-> limit, who |-> who]

\* The limits around the handler, the outermost first.
Around == IF via = "otp" THEN <<Timer(ShortLimit, Otp), Timer(Limit, Command)>>
          ELSE <<Timer(Limit, Command)>>

Init ==
    /\ line \in {l \in Lines : l.name = "service" => l.action \in Registered}
    /\ via \in IF FansOut THEN {"direct"} ELSE {"direct", "otp"}
    /\ pc = "start"
    /\ runs = << >> /\ alive = {} /\ timers = << >> /\ trail = << >>
    /\ reply = "none"
    /\ now = 0

\* The handler begins: the records and checks before anything is run.  A listed
\* host that is not configured has its result at once.
Start ==
    /\ pc = "start"
    /\ IF Targets = << >>
       THEN /\ pc' = "over" /\ reply' = "refused"
            /\ trail' = Append(Refusal, Record("EXECUTED", None))
            /\ UNCHANGED <<runs, timers>>
       ELSE /\ pc' = "busy"
            /\ runs' = [i \in DOMAIN Targets |->
                           [host |-> Targets[i],
                            status |-> IF Targets[i] \in Hosts \cup {Local}
                                       THEN "opening" ELSE "unknown"]]
            /\ trail' = IF FansOut THEN <<Record("SERVICE_FANOUT", None)>> ELSE << >>
            /\ timers' = Around
            /\ reply' = reply
    /\ UNCHANGED <<line, via, alive, now>>

Becomes(i, status) == runs' = [runs EXCEPT ![i].status = status]

\* The connection is there, or the subprocess is: the run's own limit begins.
Opened(i) ==
    /\ pc = "busy" /\ runs[i].status = "opening"
    /\ Becomes(i, "running")
    /\ alive' = alive \cup {i}
    /\ timers' = Append(timers, Timer(RunLimit, i))
    /\ UNCHANGED <<line, via, pc, trail, reply, now>>

\* An SSH connection that fails is a result; a program that cannot be executed
\* is an exception out of the handler.
OpenFails(i) ==
    /\ pc = "busy" /\ runs[i].status = "opening"
    /\ Becomes(i, "failed")
    /\ IF Remote
       THEN UNCHANGED <<pc, timers, trail, reply>>
       ELSE /\ pc' = "over" /\ reply' = "error" /\ timers' = << >>
            /\ trail' = Append(trail, Record("HANDLER_ERROR", None))
    /\ UNCHANGED <<line, via, alive, now>>

\* Slip: the limit stays armed behind the result.
StayArmed(i) == UNCHANGED timers

Disarm(i) == \E k \in DOMAIN timers :
                timers[k].who = i /\ timers' = RemoveAt(timers, k)

\* The command ends, with whatever exit code, or its connection breaks.
Ended(i) ==
    /\ pc = "busy" /\ runs[i].status = "running"
    /\ Becomes(i, "ended")
    /\ alive' = alive \ {i}
    /\ Disarm(i)
    /\ UNCHANGED <<line, via, pc, trail, reply, now>>

\* The timer that is due before the others.
GoesOff(k) ==
    /\ timers[k].due <= now
    /\ \A j \in DOMAIN timers :
          /\ timers[j].due >= timers[k].due
          /\ j < k => timers[j].due > timers[k].due \/ timers[j].limit > timers[k].limit

\* Slip: the result is returned with the process still there.
LetGo(i) == alive' = alive

\* proc.kill(); for a host, the connection is closed under the command.
Kill(i) == alive' = alive \ {i}

\* The connector's limit; it then waits for the process, or the connection, to go.
TimesOut(k) ==
    /\ pc = "busy" /\ GoesOff(k) /\ timers[k].who \in DOMAIN runs
    /\ runs[timers[k].who].status = "running"
    /\ Kill(timers[k].who)
    /\ Becomes(timers[k].who, "stopping")
    /\ Disarm(timers[k].who)
    /\ UNCHANGED <<line, via, pc, trail, reply, now>>

Stopped(i) ==
    /\ pc = "busy" /\ runs[i].status = "stopping"
    /\ Becomes(i, "timeout")
    /\ UNCHANGED <<line, via, pc, alive, timers, trail, reply, now>>

\* An outer limit: the handler is cancelled, and with it whatever it awaits.  No
\* except clause of the connectors takes CancelledError, so nobody ends the runs.
Cut(k) ==
    /\ pc = "busy" /\ GoesOff(k) /\ timers[k].who \in {Otp, Command}
    /\ pc' = "over" /\ reply' = "timeout" /\ timers' = << >>
    /\ trail' = Append(trail, Record("COMMAND_TIMEOUT", None))
    /\ UNCHANGED <<line, via, runs, alive, now>>

Finished == {"ended", "failed", "timeout", "unknown"}

\* asyncio.gather waits for all of them.
AllDone == \A i \in DOMAIN runs : runs[i].status \in Finished

\* SERVICE_EXECUTED or SSH_EXECUTED, with the exit code.
Outcome(i) == <<Record("HOST_EXECUTED", runs[i].host)>>

Answer ==
    /\ pc = "busy" /\ AllDone
    /\ pc' = "over" /\ reply' = "results" /\ timers' = << >>
    /\ trail' = trail \o (IF Remote /\ ~FansOut THEN Outcome(1) ELSE << >>)
                      \o <<Record("EXECUTED", None)>>
    /\ UNCHANGED <<line, via, runs, alive, now>>

\* What the bot has let go of ends by itself, if it does.
LeftEnds(i) ==
    /\ pc = "over" /\ i \in alive
    /\ alive' = alive \ {i}
    /\ UNCHANGED <<line, via, pc, runs, timers, trail, reply, now>>

Tick ==
    /\ pc = "busy" /\ now < MaxTime
    /\ \A k \in DOMAIN timers : timers[k].due > now
    /\ now' = now + 1
    /\ UNCHANGED <<line, via, pc, runs, alive, timers, trail, reply>>

Next ==
    \/ Start
    \/ \E i \in DOMAIN runs :
          Opened(i) \/ OpenFails(i) \/ Ended(i) \/ Stopped(i) \/ LeftEnds(i)
    \/ \E k \in DOMAIN timers : TimesOut(k) \/ Cut(k)
    \/ Answer
    \/ Tick

Spec == Init /\ [][Next]_vars

-----------------------------------------------------------------------------

Status == Finished \cup {"opening", "running", "stopping"}

\* Types; limits are armed exactly while the handler runs, one for each run under way.
TypeOK ==
    /\ line \in Lines /\ via \in {"direct", "otp"}
    /\ pc \in {"start", "busy", "over"}
    /\ runs \in Seq([host : Hosts \cup {Local} \cup UNION {Range(Services[s].hosts) :
                                                            s \in DOMAIN Services},
                     status : Status])
    /\ alive \subseteq DOMAIN runs
    /\ reply \in {"none", "refused", "error", "timeout", "results"}
    /\ pc = "over" <=> reply # "none"
    /\ pc # "busy" => timers = << >>
    /\ pc = "busy" => \A i \in DOMAIN runs :
                         (\E k \in DOMAIN timers : timers[k].who = i)
                             <=> runs[i].status = "running"
    /\ now \in 0..MaxTime

Touched(i) == runs[i].status \notin {"unknown", "failed"}

\* What runs is what was asked for: an action that is not on the safe list runs on one
\* host, which the line names with --host and the named service lists; /ssh runs only
\* what that host allows; and nothing reaches a host that is not configured.
RunsAsAsked ==
    /\ \A i \in DOMAIN runs : Touched(i) => runs[i].host \in Hosts \cup {Local}
    /\ runs # << >> /\ line.name = "service" /\ line.action \notin SafeActions =>
          /\ Len(runs) = 1
          /\ \E s \in Range(args) \cap DOMAIN Services :
                /\ line.action \in Services[s].actions
                /\ runs[1].host \in Range(Services[s].hosts)
          /\ \E i \in DOMAIN args : i > 1 /\ args[i - 1] = "--host" /\ args[i] = runs[1].host
    /\ runs # << >> /\ line.name = "ssh" =>
          Len(runs) = 1 /\ args = <<runs[1].host>> \o Tail(args)
                        /\ Tail(args) \in Allowed[runs[1].host]

\* A command that was answered has left nothing behind: every run has its result, no
\* process or channel is still there, and a privileged one on a host is on record with
\* its outcome.  Only a command cut by a limit around its handler may leave a run going,
\* and that run is on record without an outcome.
AnsweredInFull ==
    /\ reply = "results" =>
          /\ alive = {}
          /\ \A i \in DOMAIN runs : runs[i].status \in Finished
          /\ Remote /\ ~FansOut =>
                \E r \in Range(trail) : r.event = "HOST_EXECUTED" /\ r.host = runs[1].host
    /\ reply = "timeout" => \A r \in Range(trail) : r.event # "HOST_EXECUTED"
=============================================================================
