-------------------------------- MODULE Lifespan --------------------------------
(***************************************************************************)
(* The process from startup to shutdown: which daemons and routers         *)
(* create_app mounts, the tasks the lifespan starts, webhook requests with *)
(* their background tasks, and the order in which the lifespan's finally   *)
(* clause cancels, awaits and closes.  Slack's daemon is SlackSocket in    *)
(* full; the daemons of Telegram and Discord, which have modules of their  *)
(* own, are here only what the shutdown sees of them.                      *)
(***************************************************************************)
EXTENDS SlackSocket

CONSTANTS
    Deployments,  \* what .env may hold: the three modes, and the credentials that are set
    MaxRequests   \* bound of the checked instance

Platforms == {"telegram", "discord", "slack"}

\* Any other mode is a ValueError, and the process does not start.
ASSUME LifespanAssumption ==
    /\ \A d \in Deployments : /\ d.mode["telegram"] \in {"webhook", "polling"}
                              /\ d.mode["discord"] \in {"interactions", "gateway"}
                              /\ d.mode["slack"] \in {"events", "socket"}
    /\ MaxRequests \in Nat

VARIABLES
    mount,    \* how each platform comes in: a daemon, a router or not at all
    secret,   \* TELEGRAM_WEBHOOK_SECRET is set
    peer,     \* the daemons of Telegram and Discord
    requests, \* webhook requests
    phase,    \* the lifespan
    awaiting, \* daemons still to be awaited
    closed    \* clients that have been closed

lifeVars == <<mount, secret, peer, requests, phase, awaiting, closed>>
vars == <<slackVars, lifeVars>>

Peers == {"telegram", "discord"}

Mounted == {"daemon", "router", "off"}

MountTelegram(d) ==
    IF "TELEGRAM_TOKEN" \notin d.set THEN "off"
    ELSE IF d.mode["telegram"] = "polling" THEN "daemon" ELSE "router"

MountDiscord(d) ==
    IF {"DISCORD_BOT_TOKEN", "DISCORD_APPLICATION_ID"} \subseteq d.set
    THEN IF d.mode["discord"] = "gateway" THEN "daemon"
         ELSE IF "DISCORD_PUBLIC_KEY" \in d.set THEN "router" ELSE "off"
    ELSE "off"

MountSlack(d) ==
    IF d.mode["slack"] = "socket" /\ "SLACK_APP_TOKEN" \in d.set THEN "daemon"
    ELSE IF d.mode["slack"] = "events" /\ "SLACK_SIGNING_SECRET" \in d.set THEN "router"
    ELSE "off"

\* create_app.
Mount(d) == [telegram |-> MountTelegram(d), discord |-> MountDiscord(d), slack |-> MountSlack(d)]

\* What the lifespan closes, in its order; slack_http is the daemon's own client.
Closing == <<"slack_http", "telegram", "discord", "slack", "ssh">>

Open == ToSet(Closing) \ closed

\* bg_tasks, in the order they were started.
BgTask(p) == IF mount[p] = "daemon" THEN <<p>> ELSE << >>
BgTasks == BgTask("telegram") \o BgTask("discord") \o BgTask("slack")

PeerState == {"off", "running", "returned", "failed", "cancelled"}

\* A request that has been answered: its command is on its way, or there is no more.
Request == [to : Platforms, state : {"task", "done"}]

--------------------------------------------------------------------------------
(* Serving. *)

\* The lifespan's startup: daemons become tasks.
Startup ==
    /\ phase = "starting"
    /\ phase' = "serving"
    /\ peer' = [p \in Peers |-> IF mount[p] = "daemon" THEN "running" ELSE "off"]
    /\ pc' = IF mount["slack"] = "daemon" THEN "fetch" ELSE "off"
    /\ UNCHANGED <<held, kind, up, wire, acks, cur, pause, stop, started, faults,
                   mount, secret, requests, awaiting, closed>>

\* A daemon ends before it is asked to, for a bad token or with an exception.
PeerEnds(p) ==
    /\ peer[p] = "running" /\ phase \in {"serving", "draining"}
    /\ Fault
    /\ \E how \in {"returned", "failed"} : peer' = [peer EXCEPT ![p] = how]
    /\ UNCHANGED <<held, kind, up, wire, acks, pc, cur, pause, stop, started,
                   mount, secret, requests, phase, awaiting, closed>>

\* Telegram: the secret is compared when there is one; an update that is no text is
\* answered and dropped.
TelegramTakes(r) == (r.signed \/ ~secret) /\ r.carries = "command"

\* verify_slack_signature: the right HMAC over a timestamp at most five minutes away.
Authentic(r) == r.fresh /\ r.signed

\* Slack: url_verification, other events and forms that do not parse are answered in
\* place.
SlackTakes(r) == Authentic(r) /\ r.carries = "command"

\* Discord: the signature must be good, however old; PING and interactions other than
\* commands are answered in place, a command is deferred.
DiscordTakes(r) == r.signed /\ r.carries = "command"

Takes(r) ==
    CASE r.to = "telegram" -> TelegramTakes(r)
      [] r.to = "slack" -> SlackTakes(r)
      [] r.to = "discord" -> DiscordTakes(r)

\* uvicorn hands a request to the router of its platform; the answer goes out, and a
\* command goes on as the request's background task.
Arrive(p) ==
    /\ phase = "serving" /\ mount[p] = "router"
    /\ Len(requests) < MaxRequests
    /\ \E signed, fresh \in BOOLEAN, carries \in {"command", "other"} :
         LET r == [to |-> p, signed |-> signed, fresh |-> fresh, carries |-> carries]
         IN requests' = Append(requests, [to |-> p, state |-> IF Takes(r) THEN "task" ELSE "done"])
    /\ UNCHANGED <<slackVars, mount, secret, peer, phase, awaiting, closed>>

\* _process of a router: dispatch, send, or an exception that is logged.
BackgroundEnds(i) ==
    /\ requests[i].state = "task"
    /\ requests' = [requests EXCEPT ![i].state = "done"]
    /\ UNCHANGED <<slackVars, mount, secret, peer, phase, awaiting, closed>>

--------------------------------------------------------------------------------
(* Shutdown. *)

\* SIGTERM: uvicorn takes no more requests.
Terminate ==
    /\ phase = "serving"
    /\ phase' = "draining"
    /\ UNCHANGED <<slackVars, mount, secret, peer, requests, awaiting, closed>>

\* The requests are through, background tasks included; the finally clause starts and
\* cancels every daemon.
CancelAll ==
    /\ phase = "draining" /\ \A i \in DOMAIN requests : requests[i].state = "done"
    /\ phase' = "awaiting"
    /\ awaiting' = BgTasks
    /\ stop' = TRUE
    /\ UNCHANGED <<held, kind, up, wire, acks, pc, cur, pause, started, faults,
                   mount, secret, peer, requests, closed>>

\* CancelledError in the daemon of Telegram or Discord.
PeerCancelled(p) ==
    /\ stop /\ peer[p] = "running"
    /\ peer' = [peer EXCEPT ![p] = "cancelled"]
    /\ UNCHANGED <<slackVars, mount, secret, requests, phase, awaiting, closed>>

State(p) == IF p = "slack" THEN pc ELSE peer[p]

\* Slip: the exceptions of cancelled tasks are not suppressed.
RaiseAll(p) == State(p) \in {"failed", "cancelled"}

\* suppress(CancelledError) lets every other exception out of the finally clause.
Raises(p) == State(p) = "failed"

\* `await t` of one daemon; what it raises ends the lifespan there.
Await ==
    /\ phase = "awaiting" /\ awaiting # << >>
    /\ State(Head(awaiting)) \in Ended
    /\ IF Raises(Head(awaiting))
       THEN phase' = "raised" /\ UNCHANGED awaiting
       ELSE awaiting' = Tail(awaiting) /\ UNCHANGED phase
    /\ UNCHANGED <<slackVars, mount, secret, peer, requests, closed>>

CloseFirst ==
    \E i \in DOMAIN Closing :
        /\ Closing[i] \in Open /\ \A j \in 1..(i - 1) : Closing[j] \in closed
        /\ closed' = closed \cup {Closing[i]}

\* Slip: the clients are closed while the daemons are being awaited.
CloseEarly ==
    /\ phase = "awaiting"
    /\ IF Open = {}
       THEN awaiting = << >> /\ phase' = "ended" /\ UNCHANGED closed
       ELSE CloseFirst /\ UNCHANGED phase
    /\ UNCHANGED <<slackVars, mount, secret, peer, requests, awaiting>>

\* aclose of the next client, and last close_all.
CloseNext ==
    /\ phase = "awaiting" /\ awaiting = << >>
    /\ IF Open = {}
       THEN phase' = "ended" /\ UNCHANGED closed
       ELSE CloseFirst /\ UNCHANGED phase
    /\ UNCHANGED <<slackVars, mount, secret, peer, requests, awaiting>>

--------------------------------------------------------------------------------

Init ==
    /\ SlackInit
    /\ \E d \in Deployments : mount = Mount(d) /\ secret = ("TELEGRAM_WEBHOOK_SECRET" \in d.set)
    /\ peer = [p \in Peers |-> "off"]
    /\ requests = << >>
    /\ phase = "starting" /\ awaiting = << >> /\ closed = {}

Slack == SlackNext /\ UNCHANGED lifeVars

Next ==
    \/ Slack
    \/ Startup \/ Terminate \/ CancelAll \/ Await \/ CloseNext
    \/ \E p \in Peers : PeerEnds(p) \/ PeerCancelled(p)
    \/ \E p \in Platforms : Arrive(p)
    \/ \E i \in DOMAIN requests : BackgroundEnds(i)

\* The event loop runs what is ready, Slack delivers and times out, handlers end;
\* nobody has to send a command or stop the process.
Fairness ==
    /\ WF_vars((Daemon \/ Cancelled) /\ UNCHANGED lifeVars)
    /\ \A c \in Commands : WF_vars((Deliver(c) \/ Expire(c)) /\ UNCHANGED lifeVars)
    /\ \A i \in 1..MaxRequests : WF_vars(i \in DOMAIN requests /\ BackgroundEnds(i))
    /\ \A p \in Peers : WF_vars(PeerCancelled(p))
    /\ WF_vars(Startup \/ CancelAll \/ Await \/ CloseNext)

Spec == Init /\ [][Next]_vars /\ Fairness

--------------------------------------------------------------------------------
(* Properties. *)

\* Type of every variable.
TypeOK ==
    /\ SlackTypeOK
    /\ mount \in [Platforms -> Mounted] /\ secret \in BOOLEAN
    /\ peer \in [Peers -> PeerState]
    /\ requests \in Seq(Request) /\ Len(requests) <= MaxRequests
    /\ phase \in {"starting", "serving", "draining", "awaiting", "raised", "ended"}
    /\ awaiting \in Seq(Platforms) /\ closed \subseteq ToSet(Closing)

\* "Stop background tasks FIRST, before closing the clients they depend on": when a
\* client is closed no daemon runs any more and no webhook request has its handler
\* running, in whatever state the signal found them.  (Dispatch tasks of the Slack
\* daemon, which nobody awaits, may still run.)
ClientsOutliveUsers ==
    closed # {} =>
        /\ \A p \in Platforms : State(p) \in Ended
        /\ \A i \in DOMAIN requests : requests[i].state = "done"

\* After SIGTERM the lifespan comes to an end, with daemons asleep, fetching, in the
\* middle of an acknowledgement or dead, and has closed every client and the SSH pool;
\* it leaves one open only when a daemon has died with an exception of its own, never
\* because cancelling one raised something.
ShutdownCloses ==
    phase = "draining" ~>
        \/ phase = "ended" /\ Open = {}
        \/ phase = "raised" /\ \E p \in Platforms : State(p) = "failed"

\* While the daemon lives, a slash command Slack holds is dispatched or given up by
\* Slack: broken sockets, failed fetches and reconnects do not lose it for good.
EveryCommandDispatched ==
    \A c \in Commands :
        (held[c] = "held" /\ kind[c] = "command") ~>
            (Contains(started, c) \/ held[c] = "lost" \/ pc \in Ended)

================================================================================
