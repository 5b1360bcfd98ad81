# bot_cmder in TLA+

bot_cmder is a chat bot for operators.  Messages from Telegram, Slack and
Discord reach one dispatcher, which checks an access list, holds privileged
commands back until the user has answered with a one-time code, runs the
command's handler under a time limit and writes everything it did to an audit
log.  Around it are the daemons that fetch messages, the connectors that run
commands on hosts, and the operator's tools.  This directory models the parts
where the order of events decides whether they are correct, checks them with
TLC on small instances and proves the safety properties for every instance with
TLAPS.

    tlc -config MCOtpGate.cfg MCOtpGate        # model-check a configuration
    tlapm OtpGateProofs.tla                    # check the proofs

`PROJECT.json` ties every definition to the lines it models, every property to
the run that checks it, to a mutated definition that breaks it and to the
hazard it is for.  A definition introduced by a comment that begins with *Slip*
is such a mutation; the specifications do not use it.

## Inventory

| Component | State | Operations | Talks to |
|---|---|---|---|
| Dispatcher, `core/dispatcher.py` | none of its own | `dispatch` | registry, access list, pending sessions, emergency windows, audit log, handlers |
| `/otp`, `commands/builtin/otp.py` | none of its own | code, `emergency`, `end`, `status` | pending sessions, windows, TOTP verifier, lockout, registry, audit log |
| Pending sessions, `auth/pending.py` | user -> session, in memory | stash, pop, is_expired | clock |
| Emergency windows, `auth/emergency.py` | user -> window, in memory | grant, get, revoke | clock |
| TOTP verifier, `auth/totp.py` | user -> last accepted step, in memory; secrets in SQLite | enroll, verify | secret store, clock |
| Lockout, `auth/lockout.py`, `lockout_store.py` | `otp_failures`, `otp_lockouts` in SQLite | snapshot, record_failure, reset, admin_unlock | clock, `cli/totp.py` from another process |
| Telegram polling, `adapters/telegram/daemon.py` | next offset, back-off | prepare, poll, process | Telegram, dispatcher |
| Slack Socket Mode, `adapters/slack/socket.py` | socket, back-off, tasks | fetch URL, stream, ack, process | Slack, dispatcher |
| Discord gateway, `adapters/discord/gateway.py` | session id, sequence, resume URL, heartbeat flag | connect, identify, resume, heartbeat, dispatch | Discord, dispatcher |
| SSH pool, `connectors/ssh.py` | one connection per host, its age, a lock | execute, close, close_all | remote hosts, handlers |
| Local connector, `connectors/local.py` | subprocess | execute | handlers |
| Audit log, `audit/log.py` | active file, rotations, next boundary | log, rotate, prune | every component, the CLI |
| Migrator, `storage/migrator.py` | `_migrations` and the schema in SQLite | discover, apply | SQLite, several processes |
| Command builtins, `commands/builtin/` | none of their own | `/service`, `/ssh`, `/kubectl`, `/runbook` | connectors, audit log, dispatcher |
| Webhook routers, `adapters/*/router.py` | none of their own | check, answer, process in the background | platforms, dispatcher |
| Env file and wizard, `cli/_envfile.py`, `cli/configure.py`, `cli/init_cmd.py` | lines of the file; values of a section | load, set, save; edit, abort, commit; init | the operator |
| Application, `main.py` | the daemons' tasks | create_app, lifespan | all of the above |

Hard behaviours: two messages of one user in an order nobody tried; handlers
that outlive the window or the session that started them; nested time limits;
restarts that forget half of the state; a second process on the same SQLite
file or audit log; redelivery by a chat platform; reconnects.

What makes each component correct:

* gate: a privileged handler starts only for a user on the access list, and only
  on a code not spent before, or inside a bounded window such a code opened;
* sessions: answered once, by their user, in their chat, in time;
* lockout: guessing is slow whatever crashes, nobody is locked out without having
  earned it, and only an admin lifts a lockout;
* daemons: every update is dispatched, none twice within a run, the loop ends
  only where it means to;
* SSH pool: one connection per host, never a dead one for ever, never one closed
  under its user;
* host commands: run where they were asked to and nowhere else, and an answered
  one leaves nothing running;
* lifespan: daemons end before the clients they use are closed, a shutdown ends;
* migrator: a migration takes effect once and whole, a process that starts has
  the schema of its release;
* env file: what is read is what somebody completed, the master key survives;
* audit log: no line lost or written twice by a rotation, bounded disk.

## The modules

| Module | Stands for | Kind |
|---|---|---|
| `CommandGate` | the promise about privileged commands | abstract specification |
| `OtpGate` | dispatcher, `/otp`, the four stores, handlers, clock, restarts, `unlock-totp` | implementation, refines `CommandGate` |
| `OtpLockout` | the lockout's SQL statements one by one | finer view of one part of `OtpGate` |
| `TelegramPolling` | the polling loop against Telegram's queue | component and its environment |
| `DiscordGateway` | the gateway client's read loop and heartbeat against Discord | component and its environment |
| `SlackSocket` | the Socket Mode daemon against Slack | component and its environment, run by `Lifespan` |
| `Lifespan` | the process: what is mounted, requests, startup, shutdown; composes `SlackSocket` | composition |
| `HostCommands` | the commands that touch hosts, over both connectors, under nested time limits | component |
| `SshPool` | one host's cached connection and the tasks that use it | component and its environment |
| `SchemaBook` | the promise of a migrated database | abstract specification |
| `Migrator` | `apply()` statement by statement in several processes | implementation, refines `SchemaBook` |
| `EnvWizard` | `.env`, the wizards that edit it and `init` | component |
| `AuditRotation` | the audit file and the processes that append to it and rotate it | component and its environment |
| `OtpGateProofs`, `TelegramPollingProofs`, `DiscordGatewayProofs`, `LifespanProofs`, `EnvWizardProofs`, `AuditRotationProofs` | theorems about the module each is named for | proofs |
| `StorageProofs` | theorems about `OtpLockout` and `Migrator`, the two users of SQLite | proofs |
| `ConnectorProofs` | theorems about `HostCommands` and `SshPool` | proofs |
| `MCOtpGate`, `MCOtpLockout`, `MCLifespan`, `MCHostCommands`, `MCMigrator`, `MCEnvWizard` | constants and symmetry for TLC | instances |

### OtpGate

The bot is one asyncio process: between two awaits nothing else runs.
`dispatch` awaits nothing before it calls a handler, and `/otp` awaits nothing
before it calls the handler it resumes, so an action is one message decided in
full, with every store it touches.  What overlaps is the handlers: `StartRun`
appends to `runs`, and `FinishRun`, `TimeoutRun` or `TimeoutOtp` ends the run
any time later, before or after other messages, ticks and restarts.

| In the model | In the code |
|---|---|
| `pending`, `Stash`, `PopSession`, `SessionExpired` | `PendingOTPSessions`: one session a user, replaced by the next, not moved on by use |
| `windows`, `Granted`, `EvictIfExpired` | `EmergencyWindows`: the cap, the one-minute floor, eviction on read |
| `lastUsed`, `Matching`, `FirstMatch`, `Verifies` | `TOTPVerifier.verify`: three steps tried in order, the first whose code fits has to be above the watermark |
| `failures`, `lockouts`, `RecordFailure`, `CleanUpLockout` | `OTPLockoutState` over SQLite, which survives `Restart` |
| `RunUngated`, `RunInWindow`, `StashCommand` | the three ways through the dispatcher's gate |
| `RequestEmergency` ... `ResumeCommand` | the subcommands of `/otp` and the ways a code can be judged |
| `CutByOtp`, `TimeoutOtp` | `/otp`'s own `wait_for` around the handler it resumed |
| `runs[i].audited` | the name under which the handler's end was written to the audit log |
| `Restart` | crash or redeploy: memory empty, SQLite kept, configuration read again, the master key there or not |

`nreq` numbers the sessions and `uses` remembers the codes that were accepted;
both exist for the properties only.  The mapping to `CommandGate` takes `spent`
from `uses`, `open` from the windows' ends, `started` from `runs`, and lets the
cap be at least one tick (`LongestWindow`), which is what the floor in `grant`
makes of a configured cap of zero.

What is abstracted: arguments, texts and platforms; one tick is 30 seconds;
`CodeAt` is any function from users and steps to codes.  A user who is not
enrolled is one for whom no code matches.  Messages that only write an audit
line or a reply (denied, unknown command, usage, a malformed duration) leave
every variable alone and are stutters, except `SubmitLocked`, kept for the
guard it shows.  Safe commands touch no modelled store.  `/otp` resumes a
command the registry has lost only if the registry changed while the bot ran,
which it cannot.  The lockout is taken to be enabled.  `OtpGate` lets handlers
overlap, as they do under webhooks, Slack and Discord; Telegram's polling
daemon, which handles one update after the other, is a special case.

### OtpLockout

`LockoutStore` opens a transaction for each statement, so between two of them
the CLI's `unlock-totp` may write, the process may die or the next statement
may raise.  `bot.pc` and `cli.pc` name the next statement.  The handler awaits
nothing between its first and last statement, hence one program for the bot
and one for the CLI.  `guesses` and `pardoned` are histories: all wrong codes,
and how many of them preceded the last right code or unlock.

### TelegramPolling

`updates` is all that was ever sent to the bot, `low` the first update Telegram
still holds, `next..last` what is left of the batch in hand, `offset` the
daemon's `_next_offset`.  `Ask` and `Receive` are separate, so an answer can be
lost after Telegram acted on the request.  `PollFails`, `BadBody`,
`PrepareFails`, `OtherPoller` and `RegisterWebhook` are the failures, each at
the awaits where it can hit; `Restart` comes at any point and forgets the
offset.  The length of the back-off is abstracted away, and so is the way a
reply fails: `_process` swallows it.

### SshPool

An action runs from one await to the next.  `holder` and `waiters` are the
asyncio lock, first come, first served; `AllAsleep` says that nobody is about
to be woken, which is when a timer can fire.  `conns` keeps every connection
ever opened so that leaks can be seen.  `Cancel` is the `CancelledError` that the
dispatcher's `wait_for` or the end of the process throws into a task at any
await.  Hosts do not share anything, so one host is enough.  `close_all` forgets
the connectors when it has closed them; a command asks for its connector as it
starts, and none starts so late, so that is left out.

### DiscordGateway

`sessions`, `log` and `live` are Discord's side: how often the bot has
identified, the events of the last session, and whether it can be resumed.
`inbox` is what is on its way to the client.  Discord answers a frame at once
and the answer waits there for as long as it likes, which gives every delay
between question and answer.  The read loop takes one frame at a time
(`ReadHello` ... `ReadOther`), and the heartbeat is a task of its own (`Beat`,
`GiveUp`, `GivenUp`): while it closes the socket, the read loop reads on.

| In the model | In the code |
|---|---|
| `session`, `lastSeq`, `ResetSession` | `_session_id` and `_resume_url`, which are set and reset together; `_last_seq` |
| `unacked`, `Connect`, `ReadAck` | `_heartbeat_unacked`, zero for each new connection and at each acknowledgement |
| `ResumableClose`, `UnknownClose`, `FatalClose` | the three kinds of close code in `run` |
| `ReadReconnect`, `ReadInvalid` | opcodes 7 and 9, with `d` true or false |
| `FallSilent` | a connection that stays open, its pings answered, while the gateway behind it says nothing; one whose pings fail is a `ResumableClose` with code 1006 |
| `dispatched` | the messages handed to `create_task`, in the order in which the tasks begin |

The lengths of the sleeps are abstracted away, and with them the reset of the
back-off.  The heartbeat's interval is far longer than the way of a frame, so a
beat that falls due while an earlier acknowledgement is still unread counts as
one of the `MaxFaults` failures (`Due`).  `EveryMessageDispatched` excepts
`NeverGreeted`: only the heartbeat notices a silent gateway, and it starts with
HELLO.

### SlackSocket and Lifespan

`SlackSocket` has Slack's end of Socket Mode on one side: `held` says how far
Slack is with each envelope, `wire` and `acks` are what is under way in either
direction, and `Break` keeps any part of the one and none of the other.  On the
other side is `run()`, one action from await to await: `Fetch`, `Connect`,
`Read`, `Ack` (the send and the `create_task` behind it), `Sleep`.  `started`
lists the dispatch tasks; nobody keeps a reference to one, and what a task does
is `OtpGate`.

`Lifespan` extends it with the rest of the process.

| In the model | In the code |
|---|---|
| `Mount` | `create_app`: which credentials and which mode give a daemon, a router or nothing |
| `peer`, `PeerEnds` | the daemons of Telegram and Discord, as far as the shutdown sees them |
| `Arrive`, `Takes`, `BackgroundEnds` | the routers: a request is checked, answered, and may leave a background task, which uvicorn waits for |
| `CancelAll`, `Await`, `CloseNext` | the `finally` clause of the lifespan, in its order |
| `Raises` | `suppress(CancelledError)`: a daemon that died of another exception ends the clause |

Clients that a deployment does not have are closed like the others; that a
client is `None` changes nothing for its users, as there are none.

### HostCommands

One command, from the moment its handler starts until it is answered.  `Targets`
is everything the handlers decide before their first await: `--host`, the
service's hosts, allow-lists, verbs and names of runbooks.  `runs` are its runs,
one a host in a fan-out; `timers` the limits that are armed, in the order they
were, because of two that are due together the earlier one goes off first.
`Cut` is a limit around the handler, `TimesOut` the connector's own.  The
connection a run uses is `SshPool`'s matter, and here it is there or not.

### SchemaBook and Migrator

A step of a process is one statement sent to SQLite.  BEGIN is deferred, so
`writer` is taken by the first statement that writes and a transaction's changes
stay private (`Private`) until COMMIT; `Rollback` is what the ROLLBACK, the death
of the process and the COMMIT leave behind.  `applied` is the set of rows read
before the transactions, the stale value the properties are about.  Each process
has a release of its own (`edition`), also after a restart.  A process that
loses a race for a migration raises ("table already exists", or the primary key
of `_migrations`) although the schema is then right; it has to be started again.

### EnvWizard

`.env` is a sequence of lines, an assignment or a comment; `Get` takes the last
assignment of a key, `SetKey` rewrites that one or appends under the header.  The
last line may lack its newline (`Unended`), and `OnDisk` is what a save makes of
the lines then: joined as they are, an appended key becomes part of that line,
unless the header, which begins with a newline of its own, comes between them.
`glued` remembers the keys this has happened to.
The sections of a wizard change its own copy only (`wz[w].lines`), so all the
questions of a section are one action, `Walk`, and the live check with Retry,
Save anyway and Abort another, `Validate`.  `WriteTmp` and `Replace` are the two
halves of `save`.  `init` truncates and writes the file in place, hence
`InitTruncate` and `InitWrite`, and it writes through the handle it has
truncated: `inode` says which file the name leads to, `init.fh` which one `init`
holds, and when a wizard's `os.replace` came between the two, `InitWrite` leaves
`.env` as it is.  `saved` is the history of versions: who wrote each, from which
version it was read, and with which answers; `Latest` passes over those of an
`init` that was overtaken.

A typed value is the wizard's name, enough to see whose answer a line is.  It
stands for a value that reads back as it was typed: `_unquote` and `strip` take
quotes around a value and blanks beside it away on the next load, which is not
modelled.

### AuditRotation

One file operation per action, because a process can die, an operation fail and
another process step in between any two.  `dir` maps names to files and `files`
holds their contents, so that a process which has opened `audit.jsonl` goes on
writing to the file somebody else has renamed.  A line has length one, and
`MaxBytes` counts lines.  The checks at the start of `log` (the clock, `stat`)
are one instant, and so is the glob, sort and removal of pruning.  `touched`
orders the modification times.  `Restart` is a crash, a redeploy or simply the
next `bot-cmder` command: the boundary is computed from the time of the start.
`NextBoundary` is on the calendar for every `when`, `daily` included, as in
`_compute_next_rotation`.
Two processes may be at different points of `log`; within one the lock makes it
one line at a time.

## What the runs show

| Run | Bounds | Question |
|---|---|---|
| `otp_gate` | 1 user, 2 chats, 1 command, 3 sessions, 2 handlers, 1 restart, 5 instants | does the gate keep its promises, and does it implement `CommandGate` |
| `otp_gate_unwired` | as `otp_gate` | violated: without a master key the gate is open, not closed |
| `otp_lockout` | 2 users, 4 wrong codes, 1 interruption, 5 instants | is guessing slow, and are lockouts earned and lifted only as meant, whatever is interrupted |
| `telegram_polling` | 4 updates in batches of 2, 2 failures, 2 restarts | is every message dispatched, once and in order within a process, repeated in bounds across processes |
| `discord_gateway` | 3 events in a session, 3 failures | is every message dispatched, once and in order, over resumes and lost sessions and silent connections |
| `lifespan` | 3 deployments, 2 Slack envelopes, 2 failures, 1 webhook request, pauses 1 to 3 | is what Slack believes to be in hand dispatched; does a shutdown end, in order, whatever state it finds |
| `host_commands` | 2 services, 4 hosts of which 3 are configured, lines of up to 3 words and of 5 with two flags, limits 1, 2, 4 and 8 | does a command run where it was asked to, and what does an answered one leave behind |
| `ssh_pool` | 2 handlers and the teardown, 5 calls, 5 instants | is every open connection the cached one, does every command end |
| `migrator` | 2 processes, 4 releases, 4 contents, 3 restarts | does a started process have its schema, and does `apply` implement `SchemaBook` |
| `env_wizard` | 2 wizards, 2 `init`, 4 initial files, 2 answers a wizard | what does the file read as, what does an aborted section leave, when may the master key change |
| `audit_rotation` | 1 process, 7 lines, 2 lines a file, periods of 2 of 5 instants, 2 kept, 2 failures | does rotation keep every line its retention promises, and its limits on size, disk and period |
| `audit_two_processes` | 2 processes, 4 lines, a rotation for each | violated: two processes that rotate in the same second overwrite each other's file |

The two runs that are expected to be violated each check one statement of a
comment or document against the code; `PROJECT.json` quotes the line.

The type invariants carry, beside the types, what the stores promise each other
and no other property says: `OtpGate`, that what is in memory is of this boot
and a window never stands longer than the cap, also when it was granted while
another was open; `OtpLockout`, that no code is judged over a lockout row that
stands, which is what `record_failure` takes for granted; `AuditRotation`, that a
process which has dealt with a boundary waits for a later one, wherever the
check fell and whether or not the rotation worked; `EnvWizard`, that `init` never
sets out to write an empty key.

Why the bounds are enough.  In `otp_gate` the lockout takes two failures, so
three sessions allow two wrong codes and a third after the lockout, or two
codes accepted in one boot and one in the next; two chats allow an answer from
the wrong one; two handlers overlap, one inside a window and one resumed.  The
clock reaches past every limit: sessions live one tick, windows two, a lockout
one, the failure window two.  `CodeAt` repeats after two steps, so that the
two outer steps of a tolerance window share their digits, which is the case in
which `verify`'s early return matters.  One user is enough there because every
store is keyed by user and the theorems cover the rest; `otp_lockout`, where a
wrong key in a statement is a plausible mistake, has two.  In
`telegram_polling` four updates make two full batches, so a restart can fall
inside the second and the offset acknowledges the first.  In `ssh_pool` the
third task is the teardown, which competes for the lock with both handlers, and
five calls allow a refresh, a failed dial and a cancellation in one behaviour.
In `discord_gateway` the first event is READY and two more follow, so that a
connection can be lost between them, behind both or with both on their way;
three failures are a reconnect, a lost session and one more to hit the recovery.
In `audit_rotation` seven lines make three rotations by size and two by the
clock, one more than are kept, with two crashes or errors anywhere between the
file operations; `audit_two_processes` needs no failure at all.  In
`lifespan` the deployments mount every platform once as a daemon, once as a
router and once not at all; two envelopes let one be acknowledged while the
other is on its way, and two failures are a break and a failed fetch, or a
reconnect and a daemon that dies before the shutdown.  In `host_commands` the
limits keep the order of the real ones (30 s, 60 s, 120 s), with the SSH limit
below them, so that every limit goes off first in some behaviour; `h2` is listed
by a service and not configured, `h3` is configured and not the service's.  In
`migrator` the releases are an old one, a newer one, one with an edited file and
one whose numbers clash; one content repeats without an error, and three
restarts let either process die inside a transaction and come back from another
release.  In `env_wizard` one of the files assigns a key twice, has a mode the
menu does not know and lacks the newline of its last line, which a new header
then separates from what is appended; in another an earlier wizard has put the
header there already, so that nothing does.  Two `init` runs are one to preserve
the key and one to change it or to be killed, and two answers are a mode and a
field, or fields of two sections.

Symmetry (users and chats, processes in `migrator`, wizards in `env_wizard`) is
declared only in runs without liveness properties.  Deadlock checking is off
where the system really stops: the daemons of `TelegramPolling` and
`DiscordGateway` end, `Lifespan` ends the process, a command of `HostCommands` is
answered, the processes of `Migrator` and `EnvWizard` finish; and in `SshPool`
and `AuditRotation`, whose calls and lines run out in a bounded instance.

### Fairness

`OtpGate` and `OtpLockout` have none and claim no liveness: nobody has to send
a message.  `TelegramPolling` assumes that the daemon takes a step it can take
(its requests and the handlers run under time limits and its sleeps end) and
that failures are finitely many (`MaxFaults`); `EveryTextDispatched` is the
result.  `SshPool` assumes for each task that its awaits are answered or time
out and that the lock is handed on (`WF` of `Proceed`), but not that anything
is ever cancelled or closed; `CommandsEnd` is the result.  `DiscordGateway`
assumes that sleeps end and connecting has a time limit (`Loop`), that a frame
which has arrived is read (`Read`: the loop awaits nothing else), and that the
heartbeat wakes up (`Pulse`); Discord owes it nothing, and failures are finitely
many.  `EveryMessageDispatched` is the result.

`Lifespan` assumes that the event loop runs what is ready (`WF` of `Daemon` or
`Cancelled`, of the other daemons' cancellation, and of the lifespan's own
steps), that a handler started by a webhook ends, as the dispatcher's limit sees
to it, and that Slack delivers an envelope over a socket that is up or lets it
expire.  Nobody has to send a command or stop the process.  `ShutdownCloses` and
`EveryCommandDispatched` are the results.

`AuditRotation`, `EnvWizard`, `Migrator` and `HostCommands` claim no liveness:
what they wait for is an operator, another process's lock or a program on a host.

## What is proved

Every theorem holds for any value of the constants that the module's ASSUMEs
allow: any sets of users, commands, hosts, deployments, releases; any limits and
sizes; any bound on time, failures, messages and restarts.  Three of the four
about `AuditRotation` suppose one process on the file, and say so.  Every
invariant and action property that a passing run checks is the statement of one
of these theorems, and so are the two refinements.

`StorageProofs` and `ConnectorProofs` extend two modules each, which is why the
variables, actions and properties of `Migrator` and `SshPool` that would share a
name with the other module's carry the prefixes `Migrator` and `Pool`.

| Module | Theorem | Says |
|---|---|---|
| `OtpGateProofs` | `TypeCorrect`, `InvariantHolds` | `[]TypeOK`: what is in memory is of this boot, no window is longer than the cap; and `[]IInv`, from which the others follow |
| | `RequestsAnsweredOnce` | a session is answered by one code and run once, across restarts |
| | `CodesAlwaysAscend` | within a boot a later request takes a code of a later step |
| | `ResumesAsAsked` | a resumed command is the one this user asked for, here, in time |
| | `WindowsBacked` | a run inside a window follows a code by less than the cap |
| | `ImplementsGate` | `Spec => Gate!Spec`, the refinement |
| | `LockoutSpendsNothing` | while locked out a user spends neither a code nor a session; no run checks this one |
| `StorageProofs` | `TypeCorrect` | `[]TypeOK` of `OtpLockout`: past its snapshot the handler meets no lockout that stands |
| | `LockoutsEarned` | a lockout row follows `MaxFailures` wrong codes of that user in one window |
| | `OnlyAdminLifts` | while a lockout lasts only this user's unlock changes it |
| | `GuessesAreSlow` | a user who is not pardoned gets `MaxFailures` guesses in any stretch of `LeastWait`, and one more for each fault |
| | `MigratorTypeCorrect` | `[]MigratorTypeOK`, with nobody keeping the lock outside a transaction |
| | `ReadyCorrect` | a started process has the schema of its release |
| | `Refinement` | `MigratorSpec => Book!Spec` |
| `TelegramPollingProofs` | `TypeCorrect` | `[]TypeOK` |
| | `AtLeastOnce` | Telegram forgets an update only when a process has seen it through |
| | `RepeatsBounded` | once and in order within a process; a restart repeats less than a batch |
| `DiscordGatewayProofs` | `TypeCorrect` | `[]TypeOK` |
| | `NoRepeats`, `NoGaps` | resuming neither repeats nor skips a message |
| `LifespanProofs` | `TypeCorrect` | `[]TypeOK`, Slack's part included |
| | `NothingAckedInVain` | what Slack believes to be in hand has its dispatch task |
| | `ShutdownInOrder` | no client is closed under a daemon or a request |
| `ConnectorProofs` | `TypeCorrect` | `[]TypeOK` of `HostCommands`: each run under way has its limit armed, and after the command none is left |
| | `AsAsked` | what runs, and where, is what the line asks for |
| | `AnswersComplete` | an answered command left nothing running and is on record with its outcome |
| | `OnlyConfigured` | nothing reaches a host that is not configured; no run checks this one alone |
| | `PoolTypeCorrect` | `[]PoolTypeOK`: the lock is with the task inside, its line has every task that waits, once |
| | `NoLeak` | an open connection is the cached one |
| `EnvWizardProofs` | `TypeCorrect` | `[]TypeOK` |
| | `LedgerKept` | the file reads as its writers' answers, each over the version its writer had read; an overtaken `init` and keys that ran together excepted |
| | `EditsSurgical` | a copy differs from the file it was loaded from in the keys that were answered, and nowhere else |
| | `MasterKeyKept` | the master key stays unless a rotation was asked for, an `init` was cut off, or something ran on from its line |
| `AuditRotationProofs` | `TypeCorrect` | `[]TypeOK`, for any processes: the boundary a process waits for lies after the last check it dealt with |
| | `NamesAreKept` | one process never renames onto a rotated file |
| | `RetentionIsHonoured` | with one process a written line outlives `backup_count` rotations, less one a fault |
| | `RotationDoesKeepUp` | with one process the size, the period and the number of files keep to their settings, but for what each fault may add |

Assumptions.  `OtpGate`: `NamesAssumption` (the `/otp` command and the activation
tag are not privileged commands; access lists name known commands),
`TuningAssumption` (the ranges of the configured numbers, no wider than
`config/schema.py` lets through; the TTL and the cap may be any integer) and
`NoSessionAssumption`.  `OtpLockout`: the settings are positive.  `HostCommands`:
a line has one of the four names, its words and a service's hosts are sequences,
and the fixed limits keep their order (30 s, 60 s, 120 s).  `EnvWizard`: the files
to start from are sequences of assignments to its keys and comments, of which only the last
may lack its newline, and `init` never makes up an empty key.  The
others say that their bounds are natural numbers, that a distinguished value is
not an ordinary one, and in `Lifespan` that the modes are ones `create_app`
accepts.  The last three theorems on `AuditRotation` assume `Proc = {p}`;
`audit_two_processes` shows that `NeverOverwritten` fails without it, and a file
overwritten is what the other two rule out first.

The inductive invariants, and why the properties alone would not do:

* `OtpGate`.  The promises are about `uses` and `runs`, histories that the next
  step cannot read.  `IInv` adds what the stores say about the future: a pending
  session belongs to the user it is filed under and to this boot, and its number
  is on no use and no run yet (`PendingFresh`); no accepted code of this boot is
  above its user's watermark (`WatermarkHolds`); no run has a number that is
  still to be given out (`RunsNumbered`); a window was granted with a code of its
  user, for no more than the cap (`WindowsGranted`).  The steps fall into six
  kinds, each with a lemma, and `InvNext` sends every action to its kind.
  `ImplementsGate` uses `WatermarkHolds` to make an accepted code fresh and
  `PendingFresh` to make the resumed command one the access list allows.
* `OtpLockout`.  A count of rows says something about guesses only if the rows
  are guesses: `RowsAreGuesses` holds an injection from the rows of a user into
  his guesses, without the last one while its INSERT is still to come, so that a
  count of rows is at most a count of guesses (`CountedGuesses`).  `InTime` puts
  those guesses no later than the handler's `now`, and `Unlocked`, which `TypeOK`
  holds, says that past the snapshot the user has no lockout that lasts, which is
  all `OnlyAdminLifts` needs.
  `GuessesAreSlow` has an invariant of its own, `RateInv`, because it compares
  guesses of any age.  `Slow` splits a user's unpardoned guesses at some `last`:
  those up to it are settled, `LeastWait` before now and before each later guess;
  each later one still has its rows, but for one a fault, and while no lockout
  stands they are so far apart that the next guess cannot complete a window.
  A lockout that runs out moves `last` to the end (`LocksLast`: it outlasts its
  guesses by `LockoutTicks`), a right code or an unlock moves the pardon
  (`Excused`), and a guess whose count stays below `MaxFailures` extends the
  spread.
* `TelegramPolling`.  `Progress`: everything before the offset, and before the
  update in hand, was seen through, except the one being handled; `Batch` and
  `History` bound the batch and order the dispatches by process.
* `DiscordGateway`.  `Continues`: the events on their way carry the numbers
  behind the last one the client saw, without a gap; `Connection` and `Log` say
  what may be on its way when, and how a session's log begins.
* `Lifespan`.  `Order` is the order of the shutdown as an invariant (requests,
  then the daemons still awaited, then clients); `Daemons` says where a daemon
  may run at all; `Untyped` that an envelope Slack has not been handed is nowhere
  on its way.
* `HostCommands`.  `RunsAlive`: what is there belongs to a run under way until
  the command is over.  `Asked` ties the runs to `Targets`, and the lemmas under
  `AsAsked` say what the folds over the words leave of a line: behind a `--host`
  its host, and a word that is not a flag.  `LimitsArmed` makes the limits of runs
  exactly those of the runs under way, whatever subsequence of the others is
  armed.
* `SshPool`.  `EmptyWhileDialling`: whoever dials does so with an empty cache, and
  whoever waits for a connection to close has marked it.  `LineInv` adds that the
  tasks in the line for the lock are those that wait, each once.
* `Migrator`.  `ReadingsStand`: what was read of `_migrations` stays true, as rows
  are never changed; `AboutToCommit`: before COMMIT the whole script has run and
  the number is still free, the lock having been held since; `Progress`: of its
  release a process has dealt with all files but those left and the one in hand.
* `EnvWizard`.  `Kept`: the file reads as the last version it was given (`Latest`),
  but for the keys in `glued`; what `init` writes is such a version exactly when
  the file it holds open is still the one with the name; `Sound`:
  a wizard's copy, and inside a section the one to go back to, reads as its answers
  over the version it loaded (`Clean`).  The lemmas under it say what `Get` finds
  behind `SetKey`, for one key and for a whole section.  `OneKey` needs
  `KeyChosen` and says where the key is while an `init` has the file empty: in
  that `init`, and in every copy that is open.
* `AuditRotation`.  For any processes, `Ahead` is one process's part of `TypeOK`,
  for which a boundary has to lie after the time it was computed from
  (`BoundaryLater`); and `AInv`: every name has a file, a file is
  newer than those before it, and a step of `_do_rotate` has what it works on.
  For one process, `Sole` adds that no file has two names and that what the
  process looked at it finds again (`Alone`).  On it rest `SizeInv`, `PeriodInv`
  (the active file is of the period the next boundary ends, and a file with lines
  of two periods is paid for by a fault), `BackupInv` (what a rotation in progress
  and each fault add to the names) and, for retention, `Somewhere` and `KeepsAll`:
  from the file that holds rotation k on there are no more names than rotations
  since, so that pruning, which takes the oldest names, cannot take it before
  `backup_count` others have followed.

Facts about recursive functions and folds (the words of a line, the lines of a
file, the counter in a name) are proved by induction written out: the set of
numbers for which a statement fails, if it has a member, has a least one (`WFMin`
of `WellFoundedInduction`).  The library's induction theorems take an operator as
a parameter, which the provers cannot instantiate.

Only model-checked: the five liveness properties (`EveryTextDispatched`,
`CommandsEnd`, `EveryMessageDispatched`, `EveryCommandDispatched`,
`ShutdownCloses`), as fairness speaks of ENABLED, which is out of the prover's
reach, and the two statements that the code does not keep.

## Disagreements with comments and docs

Two are checked, by the runs that are expected to be violated:

* `otp_gate_unwired`: without a master key the gate is open, although
  `main.py:123-126` and `commands/builtin/__init__.py:28-31` say it fails closed.
* `audit_two_processes`: rotation can overwrite a rotated file, although
  `docs/audit-rotation.md:158` says it never does.

The models follow the code in these as well, which no run singles out:

* `config/schema.py:80` and `docs/audit-rotation.md:102` have `daily` rotate 24
  hours after the first write.  `audit/log.py:226-230` takes the next UTC midnight
  for it, as for `midnight`: a file begun in the evening is rotated a few hours
  later.  `RotationKeepsUp` and `NextBoundary` are the code's.
* `adapters/slack/socket.py:42-43` has the back-off reset on a successful
  connection; line 118 resets it when the URL is there, before connecting, so that
  a socket that always fails is retried at the first pause for ever.
* `cli/init_cmd.py:175-176` has `--rotate-key` regenerate the master key.  When a
  wizard's `os.replace` falls between the two halves of line 132, the new key goes
  to a file without a name and `.env` keeps the old one, while `init` reports the
  rotation (`Overtaken`, which `FileIsLedger` excepts).
* `docs/configure.md:143-144` promises that the values of other platforms survive
  byte for byte.  Below the header `cli/_envfile.py:188-190` appends straight to a
  last line without a newline and spoils its value and the new one (`glued`, which
  `FileIsLedger` and `KeyKept` except).
* `auth/totp.py:29-32` finds it acceptable that a restart forgets the accepted
  steps, as a code is then well outside its window.  A restart within the window
  makes the code good again; `CodesAscend` is about one boot.
* `adapters/telegram/daemon.py:92-93`: the preparation is outside the loop's
  `try`, so a failed call at startup ends polling for good, and so does an answer
  whose body is not JSON, while the loop means to try again.
* `connectors/ssh.py:90-92` drops a connection whose command hangs.  When a limit
  around the handler goes off first, which it does with equal limits, the
  connection stays cached.
* `connectors/local.py:39-41` kills a process at its limit (tests/connectors/test_local.py:21).
  `/kubectl` and `/runbook` give it the command's own limit, whose timer the
  dispatcher armed before; that one goes off first and nobody kills the process.
* `config/schema.py:329-330` calls `command_timeout_s` a hard limit on each remote
  command.  Beyond 30 s for `/ssh` and 60 s for `/service` it has no effect.
* `commands/builtin/otp.py:448` records a resumed command that takes too long.
  `/otp` itself has 30 s; a longer command is cut by that one, and on record as a
  timeout of `/otp` only, though `audit/log.py:3-6` means every attempt to be there.
* `docs/configure.md:142-148` promises that values of other platforms survive.
  A wizard saves the file as it had read it with its answers, so it takes back
  what another one saved meanwhile (`FileIsLedger` says exactly how much).
* `cli/_envfile.py:92-93` means to keep the style of the newlines.  `read_text`
  and the text-mode temporary file translate them, so a file with `\r\n` is saved
  with `\n`.  The model has no newline styles.
* `init --force` keeps the master key but writes `.env` in place; a kill between
  truncating and writing loses it (`cut` in `KeyKept`).

## What is not modelled

`PROJECT.json` gives the reason for each component.  Parsing, redaction,
formatting, and the validators of the wizard are pure functions of text, and so
are the commands that only compose one (`/help`, `/whoami`, `/health`, the lists).
Configuration is read once at startup and is a constant here; which files are
merged and how is not modelled.  The secret store makes one statement a call and
`OtpGate` sees only which codes match.  Setup commands other than `init` print,
upload or start one thing.  How a signature or a code is computed is cryptography.

Handlers that overlap with the polling daemon are not composed: `OtpGate` lets
any handlers overlap, so Telegram's one-at-a-time is a special case of it, and
what `TelegramPolling` adds, the repetition of less than a batch after a restart,
meets the watermark that `OtpGate` forgets in the same restart.

## What could follow

1. `TelegramGate`, the composition of `TelegramPolling` and `OtpGate`: a crash
   after a command and its code, both in one batch, redelivers both to a process
   that has forgotten the watermark.
2. `SshPool` under `HostCommands`, for two commands on one host.
3. A connection of `SshPool` that is stuck, for what an outer limit leaves in the
   cache (`connectors/ssh.py:88`), and retention with two processes on the audit
   file: two of the hazards that have no property, or half of one; `PROJECT.json`
   says of each why.
