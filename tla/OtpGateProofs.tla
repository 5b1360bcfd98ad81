----------------------------- MODULE OtpGateProofs -----------------------------
(***************************************************************************)
(* Theorems about OtpGate, for every set of users, chats and commands and  *)
(* every value of the tuning constants.                                    *)
(*                                                                         *)
(* The invariants of the histories are not inductive by themselves.  What  *)
(* makes them so is the bookkeeping that joins the stores to the           *)
(* histories: a pending session has a number no accepted code and no       *)
(* handler carries yet (PendingFresh), the watermark dominates every code  *)
(* accepted in this boot (WatermarkHolds), and a window that could be      *)
(* active still has its code on record (WindowsGranted).                   *)
(***************************************************************************)
EXTENDS OtpGate, TLAPS

\* A pending session belongs to its user and to this boot, its command was allowed by
\* the configuration this boot runs with, and nobody has been answered under its number.
PendingFresh ==
    \A u \in User : pending[u] # NoSession =>
        LET s == pending[u] IN
        /\ s.user = u
        /\ s.epoch = epoch
        /\ s.req <= nreq
        /\ s.cmd # Emergency => s.cmd \in acl[u]
        /\ s.expires - PendingTTL <= now
        /\ \A x \in uses : x.req # s.req
        /\ \A x \in uses : x.user = u /\ x.epoch = epoch => x.req < s.req
        /\ \A i \in DOMAIN runs : runs[i].via = "otp" => runs[i].session.req # s.req
        /\ \A v \in User : pending[v] # NoSession /\ pending[v].req = s.req => v = u

\* No code accepted in this boot is of a step above its user's watermark.
WatermarkHolds ==
    \A x \in uses : /\ x.req <= nreq
                    /\ x.epoch <= epoch
                    /\ x.at <= now
                    /\ x.epoch = epoch => x.step <= lastUsed[x.user]

RunsNumbered ==
    \A i \in DOMAIN runs : runs[i].via = "otp" =>
        runs[i].session # NoSession /\ runs[i].session.req <= nreq

\* A window was granted with a code of its user in this boot, for no more than the cap.
WindowsGranted ==
    \A u \in User : windows[u].expires # 0 =>
        \E x \in uses : /\ x.user = u
                        /\ x.epoch = epoch
                        /\ x.at = windows[u].granted
                        /\ windows[u].expires <= x.at + LongestWindow

IInv ==
    /\ Types
    /\ PendingFresh
    /\ WatermarkHolds
    /\ RunsNumbered
    /\ WindowsGranted
    /\ RequestAnsweredOnce
    /\ CodesAscend
    /\ ResumedAsAsked
    /\ WindowBacked

--------------------------------------------------------------------------------
(* What the helpers return.                                                 *)

\* verify() settles on one of the steps it tries.
LEMMA FirstMatchTried ==
    ASSUME NEW u \in User, NEW code, now \in Nat, Matching(u, code) # {}
    PROVE  FirstMatch(u, code) \in TriedSteps
<1> DEFINE n == now \div StepTicks
<1>1. n \in Nat
    BY TuningAssumption
<1>2. Matching(u, code) \subseteq {n - 1, n, n + 1} /\ TriedSteps = {n - 1, n, n + 1}
    BY <1>1 DEF Matching, TriedSteps
<1>3. \E s \in Matching(u, code) : \A t \in Matching(u, code) : s <= t
    <2>1. CASE n - 1 \in Matching(u, code)
        BY <1>1, <1>2, <2>1
    <2>2. CASE n - 1 \notin Matching(u, code) /\ n \in Matching(u, code)
        BY <1>1, <1>2, <2>2
    <2>3. CASE n - 1 \notin Matching(u, code) /\ n \notin Matching(u, code)
        BY <1>1, <1>2, <2>3
    <2> QED
        BY <2>1, <2>2, <2>3
<1> QED
    BY <1>2, <1>3 DEF FirstMatch

\* A granted window is at least one tick and at most the cap.
LEMMA GrantedInRange ==
    ASSUME NEW m \in Nat
    PROVE  Granted(m) \in 1..LongestWindow
BY TuningAssumption DEF Granted, LongestWindow

\* A function on 1..n is a sequence (EXCEPT and Restart build runs that way).
LEMMA FunctionIsSeq ==
    ASSUME NEW S, NEW n \in Nat, NEW f \in [1..n -> S]
    PROVE  f \in Seq(S)
OBVIOUS

\* Ending a handler, or losing it in a crash, changes nothing about how it started.
SameStart(r, q) ==
    /\ q.user = r.user
    /\ q.chat = r.chat
    /\ q.cmd = r.cmd
    /\ q.via = r.via
    /\ q.session = r.session
    /\ q.start = r.start
    /\ q.epoch = r.epoch

\* Ending a run changes its outcome only.
LEMMA EndedKeepsRun ==
    ASSUME NEW r \in Run, NEW name \in Privileged \cup {Otp, Emergency}
    PROVE  Ended(r, name) \in Run /\ SameStart(r, Ended(r, name))
BY DEF Ended, Run, SameStart

\* A restart changes the outcome of a run only.
LEMMA CutKeepsRun ==
    ASSUME NEW r \in Run
    PROVE  Cut(r) \in Run /\ SameStart(r, Cut(r))
BY DEF Cut, Run, SameStart

--------------------------------------------------------------------------------
(* Type correctness. *)

\* The process starts with well-formed stores.
LEMMA TypeInit == Init => Types
BY TuningAssumption DEF Init, Types, Window, NoWindow, Run

\* Every step keeps the stores and histories well-formed.
LEMMA TypeNext == Types /\ [Next]_vars => Types'
<1> SUFFICES ASSUME Types, [Next]_vars
             PROVE  Types'
    OBVIOUS
<1> USE DEF Types
<1>1. ASSUME NEW u \in User, NEW ch \in Chat, Dispatch(u, ch)
      PROVE  Types'
    <2> PICK c \in Privileged : \/ RunUngated(u, ch, c)
                               \/ RunInWindow(u, ch, c)
                               \/ StashCommand(u, ch, c)
        BY <1>1 DEF Dispatch
    <2>1. CASE RunUngated(u, ch, c)
        BY <2>1 DEF RunUngated, StartRun, Run, Via, NotAudited
    <2>2. CASE RunInWindow(u, ch, c)
        BY <2>2 DEF RunInWindow, StartRun, Run, Via, NotAudited
    <2>3. CASE StashCommand(u, ch, c)
        BY <2>3, TuningAssumption, SMTT(30)
        DEF StashCommand, Stash, EvictIfExpired, Session, Window, NoWindow
    <2> QED
        BY <2>1, <2>2, <2>3
<1>2. ASSUME NEW u \in User, NEW ch \in Chat, OtpCommand(u, ch)
      PROVE  Types'
    <2>1. ASSUME NEW m \in Requested, RequestEmergency(u, ch, m)
          PROVE  Types'
        BY <2>1, TuningAssumption, SMTT(30) DEF RequestEmergency, Stash, Session
    <2>2. CASE EmergencyStatus(u)
        BY <2>2 DEF EmergencyStatus, EvictIfExpired, Window, NoWindow
    <2>3. CASE EndEmergency(u)
        BY <2>3 DEF EndEmergency, Window, NoWindow
    <2>4. CASE SubmitLocked(u)
        BY <2>4 DEF SubmitLocked, vars
    <2>5. CASE SubmitNoPending(u)
        BY <2>5 DEF SubmitNoPending, CleanUpLockout, FailuresLeft
    <2>6. CASE SubmitUnusable(u, ch)
        BY <2>6 DEF SubmitUnusable, PopSession, CleanUpLockout, FailuresLeft
    <2>7. ASSUME NEW code \in Code, SubmitCode(u, ch, code)
          PROVE  Types'
        <3>1. CASE SubmitInvalid(u, ch, code)
            BY <3>1, TuningAssumption
            DEF SubmitInvalid, PopSession, RecordFailure, FailuresLeft
        <3>2. CASE AcceptCode(u, ch, code) => FALSE
            BY <2>7, <3>1, <3>2 DEF SubmitCode, ActivateEmergency, ResumeCommand
        <3>3. ASSUME AcceptCode(u, ch, code)
              PROVE  /\ FirstMatch(u, code) \in Int
                     /\ pending[u] \in Session
                     /\ pending' \in [User -> Session \cup {NoSession}]
                     /\ lastUsed' \in [User -> Int]
                     /\ failures' \in [User -> Seq(Nat)]
                     /\ lockouts' \in [User -> Nat]
                     /\ uses' \subseteq Use
            <4>1. FirstMatch(u, code) \in Int
                BY <3>3, FirstMatchTried, TuningAssumption DEF AcceptCode, Verifies, TriedSteps
            <4>2. pending[u] \in Session
                BY <3>3 DEF AcceptCode, Usable
            <4>3. pending[u].req \in Nat
                BY <4>2 DEF Session
            <4>. QED
                BY <3>3, <4>1, <4>2, <4>3 DEF AcceptCode, PopSession, ResetLockout, Use
        <3>4. CASE ActivateEmergency(u, ch, code)
            <4>1. pending[u].minutes \in Nat
                BY <3>3, <3>4 DEF ActivateEmergency, Session
            <4>2. now + Granted(pending[u].minutes) \in Nat
                <5>1. Granted(pending[u].minutes) \in 1..LongestWindow
                    BY <4>1, GrantedInRange
                <5>. QED
                    BY <5>1, TuningAssumption
            <4>. QED
                BY <3>3, <3>4, <4>2 DEF ActivateEmergency, Window
        <3>5. CASE ResumeCommand(u, ch, code)
            <4>1. pending[u].cmd \in Privileged
                BY <3>3, <3>5 DEF ResumeCommand, Session
            <4>. QED
                BY <3>3, <3>5, <4>1 DEF ResumeCommand, StartRun, Run, Via, NotAudited
        <3> QED
            BY <2>7, <3>1, <3>4, <3>5 DEF SubmitCode
    <2> QED
        BY <1>2, <2>1, <2>2, <2>3, <2>4, <2>5, <2>6, <2>7 DEF OtpCommand
<1>3. ASSUME NEW i \in DOMAIN runs, FinishRun(i) \/ TimeoutRun(i) \/ TimeoutOtp(i)
      PROVE  Types'
    <2>1. runs[i] \in Run
        OBVIOUS
    <2>2. runs[i].cmd \in Privileged
        BY <2>1 DEF Run
    <2>3. PICK name \in Privileged \cup {Otp, Emergency} : EndRun(i, name)
        BY <1>3, <2>2 DEF FinishRun, TimeoutRun, TimeoutOtp
    <2>4. Ended(runs[i], name) \in Run
        BY <2>1, EndedKeepsRun
    <2> QED
        BY <2>3, <2>4 DEF EndRun
<1>4. ASSUME NEW u \in User, AdminUnlock(u)
      PROVE  Types'
    BY <1>4 DEF AdminUnlock, ResetLockout
<1>5. CASE Tick
    BY <1>5 DEF Tick
<1>6. CASE Restart
    <2>1. \A i \in DOMAIN runs : Cut(runs[i]) \in Run
        BY CutKeepsRun
    <2> DEFINE cut == [i \in DOMAIN runs |-> Cut(runs[i])]
    <2>2. Len(runs) \in Nat /\ DOMAIN runs = 1..Len(runs)
        OBVIOUS
    <2>3. cut \in [1..Len(runs) -> Run]
        BY <2>1, <2>2
    <2>4. runs' \in Seq(Run)
        <3>1. runs' = cut
            BY <1>6 DEF Restart
        <3>2. cut \in Seq(Run)
            <4> HIDE DEF cut
            <4> QED
                BY <2>2, <2>3, FunctionIsSeq
        <3> QED
            BY <3>1, <3>2, Zenon
    <2> QED
        BY <1>6, <2>4 DEF Restart, Window, NoWindow
<1>7. CASE UNCHANGED vars
    BY <1>7 DEF vars
<1> QED
    BY <1>1, <1>2, <1>3, <1>4, <1>5, <1>6, <1>7 DEF Next

--------------------------------------------------------------------------------
(* The inductive invariant.                                                 *)

\* The inductive invariant holds at startup: nothing is stashed, used or running.
LEMMA InvInit == Init => IInv
<1> SUFFICES ASSUME Init
             PROVE  IInv
    OBVIOUS
<1>1. Types
    BY TypeInit
<1>2. DOMAIN runs = {} /\ uses = {}
    BY DEF Init
<1>3. \A u \in User : pending[u] = NoSession /\ windows[u].expires = 0
    BY DEF Init, NoWindow
<1> QED
    BY <1>1, <1>2, <1>3
    DEF IInv, PendingFresh, WatermarkHolds, RunsNumbered, WindowsGranted,
        RequestAnsweredOnce, CodesAscend, ResumedAsAsked, WindowBacked

\* No handler starts in the step; those there are keep how they started.
RunsKept ==
    /\ DOMAIN runs' = DOMAIN runs
    /\ \A i \in DOMAIN runs : SameStart(runs[i], runs'[i])

\* Ending a handler starts none.
LEMMA EndingKeepsRuns ==
    ASSUME Types, NEW i \in DOMAIN runs, FinishRun(i) \/ TimeoutRun(i) \/ TimeoutOtp(i)
    PROVE  RunsKept
<1>1. \A j \in DOMAIN runs : runs[j] \in Run
    BY DEF Types
<1>2. runs[i].cmd \in Privileged
    BY <1>1 DEF Run
<1>3. PICK name \in Privileged \cup {Otp, Emergency} : EndRun(i, name)
    BY <1>2 DEF FinishRun, TimeoutRun, TimeoutOtp
<1>4. SameStart(runs[i], Ended(runs[i], name))
    BY <1>1, EndedKeepsRun
<1>5. runs' = [runs EXCEPT ![i] = Ended(runs[i], name)]
    BY <1>3 DEF EndRun
<1>6. /\ DOMAIN runs' = DOMAIN runs
      /\ runs'[i] = Ended(runs[i], name)
      /\ \A j \in DOMAIN runs : j # i => runs'[j] = runs[j]
    BY <1>5 DEF Types
<1>7. \A j \in DOMAIN runs : SameStart(runs[j], runs[j])
    BY DEF SameStart
<1> QED
    BY <1>4, <1>6, <1>7 DEF RunsKept

\* Steps that only let go of sessions and windows, end handlers or let time pass.
LEMMA QuietStep ==
    ASSUME IInv, Types', RunsKept,
           nreq' = nreq, uses' = uses, epoch' = epoch, acl' = acl,
           lastUsed' = lastUsed, now <= now',
           \A u \in User : pending'[u] = pending[u] \/ pending'[u] = NoSession,
           \A u \in User : windows'[u] = windows[u] \/ windows'[u] = NoWindow
    PROVE  IInv'
<1>0. now \in Nat /\ now' \in Nat
    BY DEF IInv, Types
<1>1. PendingFresh'
    <2> SUFFICES ASSUME NEW u \in User, pending'[u] # NoSession
                 PROVE  LET s == pending'[u] IN
                        /\ s.user = u
                        /\ s.epoch = epoch
                        /\ s.req <= nreq
                        /\ s.cmd # Emergency => s.cmd \in acl[u]
                        /\ s.expires - PendingTTL <= now'
                        /\ \A x \in uses : x.req # s.req
                        /\ \A x \in uses : x.user = u /\ x.epoch = epoch => x.req < s.req
                        /\ \A i \in DOMAIN runs' :
                              runs'[i].via = "otp" => runs'[i].session.req # s.req
                        /\ \A v \in User :
                              pending'[v] # NoSession /\ pending'[v].req = s.req => v = u
        BY DEF PendingFresh
    <2>1. pending'[u] = pending[u] /\ pending[u] \in Session
        BY DEF IInv, Types
    <2>2. pending[u].expires \in Int /\ PendingTTL \in Int
        BY <2>1, TuningAssumption DEF Session
    <2>3. pending[u].expires - PendingTTL <= now'
        BY <1>0, <2>1, <2>2 DEF IInv, PendingFresh
    <2> QED
        BY <2>1, <2>3 DEF IInv, PendingFresh, RunsKept, SameStart
<1>2. WatermarkHolds'
    <2>1. \A x \in uses : x.at \in Nat
        BY DEF IInv, Types, Use
    <2> QED
        BY <1>0, <2>1 DEF IInv, WatermarkHolds
<1>3. RunsNumbered'
    BY DEF IInv, RunsNumbered, RunsKept, SameStart
<1>4. WindowsGranted'
    BY DEF IInv, WindowsGranted, NoWindow
<1>5. RequestAnsweredOnce'
    BY DEF IInv, RequestAnsweredOnce, RunsKept, SameStart
<1>6. CodesAscend'
    BY DEF IInv, CodesAscend
<1>7. ResumedAsAsked'
    BY DEF IInv, ResumedAsAsked, RunsKept, SameStart
<1>8. WindowBacked'
    BY DEF IInv, WindowBacked, RunsKept, SameStart
<1> QED
    BY <1>1, <1>2, <1>3, <1>4, <1>5, <1>6, <1>7, <1>8 DEF IInv

\* A new session takes a number that nothing carries yet.
LEMMA StashStep ==
    ASSUME IInv, Types', NEW u \in User, NEW ch \in Chat,
           NEW c \in Privileged \cup {Emergency}, NEW m \in Nat,
           c # Emergency => c \in acl[u],
           Stash(u, ch, c, m),
           now' = now, uses' = uses, epoch' = epoch, acl' = acl,
           lastUsed' = lastUsed, runs' = runs,
           \A v \in User : windows'[v] = windows[v] \/ windows'[v] = NoWindow
    PROVE  IInv'
<1> DEFINE new == [req |-> nreq + 1, user |-> u, chat |-> ch, cmd |-> c, minutes |-> m,
                   expires |-> now + PendingTTL, epoch |-> epoch]
<1>1. /\ nreq \in Nat /\ now \in Nat /\ PendingTTL \in Int
      /\ nreq' = nreq + 1
      /\ pending' = [pending EXCEPT ![u] = new]
      /\ pending \in [User -> Session \cup {NoSession}]
      /\ uses \subseteq Use
    BY TuningAssumption DEF IInv, Types, Stash
<1>2. \A v \in User : pending[v] # NoSession => pending[v].req \in Nat /\ pending[v].req <= nreq
    BY <1>1 DEF IInv, PendingFresh, Session
<1>3. \A x \in uses : x.req \in Nat /\ x.req <= nreq
    BY <1>1 DEF IInv, WatermarkHolds, Use
<1>4. \A i \in DOMAIN runs : runs[i].via = "otp" =>
          runs[i].session.req \in Nat /\ runs[i].session.req <= nreq
    <2> SUFFICES ASSUME NEW i \in DOMAIN runs, runs[i].via = "otp"
                 PROVE  runs[i].session.req \in Nat /\ runs[i].session.req <= nreq
        OBVIOUS
    <2>1. runs[i] \in Run
        BY DEF IInv, Types
    <2>2. runs[i].session # NoSession /\ runs[i].session.req <= nreq
        BY DEF IInv, RunsNumbered
    <2>3. runs[i].session \in Session
        BY <2>1, <2>2 DEF Run
    <2> QED
        BY <2>2, <2>3 DEF Session
<1>5. PendingFresh'
    <2>1. ASSUME NEW v \in User, v # u, pending'[v] # NoSession
          PROVE  pending'[v] = pending[v] /\ pending[v].req < nreq + 1
        BY <1>1, <1>2, <2>1
    <2>2. pending'[u] = new
        BY <1>1
    <2>3. new.expires - PendingTTL <= now
        BY <1>1
    <2> QED
        BY <1>1, <1>2, <1>3, <1>4, <2>1, <2>2, <2>3 DEF IInv, PendingFresh
<1>6. WatermarkHolds'
    BY <1>1, <1>3 DEF IInv, WatermarkHolds
<1>7. RunsNumbered'
    BY <1>1, <1>4 DEF IInv, RunsNumbered
<1>8. WindowsGranted'
    BY DEF IInv, WindowsGranted, NoWindow
<1>9. RequestAnsweredOnce' /\ CodesAscend' /\ ResumedAsAsked' /\ WindowBacked'
    BY DEF IInv, RequestAnsweredOnce, CodesAscend, ResumedAsAsked, WindowBacked
<1> QED
    BY <1>5, <1>6, <1>7, <1>8, <1>9 DEF IInv

\* A handler that starts without /otp: in a window, or with no gate at all.
LEMMA UnsolicitedRunStep ==
    ASSUME IInv, Types', NEW u \in User, NEW ch \in Chat, NEW c \in Privileged,
           NEW via \in {"ungated", "emergency"},
           via = "emergency" => WindowActive(u),
           StartRun(u, ch, c, via, NoSession, -1),
           now' = now, nreq' = nreq, uses' = uses, epoch' = epoch, acl' = acl,
           lastUsed' = lastUsed, pending' = pending, windows' = windows
    PROVE  IInv'
<1> DEFINE n == Len(runs) + 1
           r == [user |-> u, chat |-> ch, cmd |-> c, via |-> via, session |-> NoSession,
                 step |-> -1, start |-> now, epoch |-> epoch,
                 status |-> "running", audited |-> NotAudited]
<1>1. /\ DOMAIN runs' = DOMAIN runs \cup {n}
      /\ \A i \in DOMAIN runs : runs'[i] = runs[i]
      /\ runs'[n] = r
    BY DEF StartRun, IInv, Types
<1>2. r.via # "otp" /\ r.via = via /\ r.user = u /\ r.epoch = epoch /\ r.start = now
    OBVIOUS
<1> HIDE DEF n, r
<1>3. PendingFresh'
    BY <1>1, <1>2 DEF IInv, PendingFresh
<1>4. WatermarkHolds' /\ WindowsGranted' /\ CodesAscend'
    BY DEF IInv, WatermarkHolds, WindowsGranted, CodesAscend
<1>5. RunsNumbered' /\ RequestAnsweredOnce' /\ ResumedAsAsked'
    BY <1>1, <1>2 DEF IInv, RunsNumbered, RequestAnsweredOnce, ResumedAsAsked
<1>6. WindowBacked'
    <2>1. ASSUME via = "emergency"
          PROVE  \E x \in uses : /\ x.user = u /\ x.epoch = epoch
                                  /\ x.at <= now /\ now < x.at + LongestWindow
        <3>1. windows[u] \in Window /\ now \in Nat /\ LongestWindow \in Nat
            BY TuningAssumption DEF IInv, Types, LongestWindow
        <3>2. now < windows[u].expires /\ windows[u].expires \in Nat
            BY <2>1, <3>1 DEF WindowActive, Window
        <3>3. PICK x \in uses : /\ x.user = u
                                /\ x.epoch = epoch
                                /\ x.at = windows[u].granted
                                /\ windows[u].expires <= x.at + LongestWindow
            BY <3>1, <3>2 DEF IInv, WindowsGranted
        <3>4. x.at <= now /\ x.at \in Nat
            BY DEF IInv, WatermarkHolds, Types, Use
        <3> QED
            BY <3>1, <3>2, <3>3, <3>4
    <2> QED
        BY <1>1, <1>2, <2>1 DEF IInv, WindowBacked
<1> QED
    BY <1>3, <1>4, <1>5, <1>6 DEF IInv

\* What accepting a code does to stores and histories, whatever it was asked for.
LEMMA AcceptFacts ==
    ASSUME IInv, Types', NEW u \in User, NEW ch \in Chat, NEW code \in Code,
           AcceptCode(u, ch, code),
           now' = now, nreq' = nreq, epoch' = epoch, acl' = acl
    PROVE  LET s == pending[u]
               k == FirstMatch(u, code)
               x == [user |-> u, step |-> k, at |-> now, epoch |-> epoch, req |-> s.req]
           IN /\ s \in Session /\ s # NoSession
              /\ s.user = u /\ s.chat = ch /\ s.epoch = epoch
              /\ s.req \in Nat /\ s.req <= nreq
              /\ s.expires - PendingTTL <= now /\ now <= s.expires
              /\ k \in TriedSteps /\ k \in Int
              /\ \A y \in uses : y.user = u /\ y.epoch = epoch => y.step < k
              /\ uses' = uses \cup {x} /\ x \in Use
              /\ pending' = [pending EXCEPT ![u] = NoSession]
              /\ WatermarkHolds'
              /\ CodesAscend'
              /\ \A y, z \in uses' : y.req = z.req => y = z
<1> DEFINE s == pending[u]
           k == FirstMatch(u, code)
           x == [user |-> u, step |-> k, at |-> now, epoch |-> epoch, req |-> s.req]
<1>1. s \in Session /\ s # NoSession /\ s.chat = ch /\ ~(s.expires < now)
    BY DEF AcceptCode, Usable, SessionExpired, IInv, Types
<1>2. s.req \in Nat /\ s.expires \in Int /\ now \in Nat /\ epoch \in Nat /\ nreq \in Nat
    BY <1>1 DEF Session, IInv, Types
<1>3. s.user = u /\ s.epoch = epoch /\ s.req <= nreq /\ s.expires - PendingTTL <= now
    BY <1>1 DEF IInv, PendingFresh
<1>4. k \in TriedSteps /\ k \in Int /\ k > lastUsed[u] /\ lastUsed[u] \in Int
    <2>1. k \in TriedSteps
        BY <1>2, FirstMatchTried DEF AcceptCode, Verifies
    <2>2. (now \div StepTicks) \in Int
        BY <1>2, TuningAssumption
    <2> QED
        BY <2>1, <2>2 DEF TriedSteps, AcceptCode, Verifies, IInv, Types
<1>5. \A y \in uses : /\ y.step \in Int /\ y.req \in Nat /\ y.epoch \in Nat /\ y.at \in Nat
                       /\ y.user \in User
    BY DEF IInv, Types, Use
<1>6. \A y \in uses : y.user = u /\ y.epoch = epoch => y.step < k
    BY <1>4, <1>5 DEF IInv, WatermarkHolds
<1>7. uses' = uses \cup {x} /\ pending' = [pending EXCEPT ![u] = NoSession]
    BY DEF AcceptCode, PopSession
<1>8. x \in Use
    BY <1>2, <1>4 DEF Use
<1>9. /\ x.user = u /\ x.step = k /\ x.at = now /\ x.epoch = epoch /\ x.req = s.req
    OBVIOUS
<1>10. lastUsed' = [lastUsed EXCEPT ![u] = k] /\ lastUsed \in [User -> Int]
    BY DEF AcceptCode, IInv, Types
<1>11. /\ \A y \in uses : y.req # s.req
       /\ \A y \in uses : y.user = u /\ y.epoch = epoch => y.req < s.req
    BY <1>1 DEF IInv, PendingFresh
<1> HIDE DEF x, k, s
<1>12. WatermarkHolds'
    <2>1. ASSUME NEW y \in uses
          PROVE  /\ y.req <= nreq
                 /\ y.epoch <= epoch
                 /\ y.at <= now
                 /\ y.epoch = epoch => y.step <= lastUsed'[y.user]
        <3>1. /\ y.req <= nreq
              /\ y.epoch <= epoch
              /\ y.at <= now
              /\ y.epoch = epoch => y.step <= lastUsed[y.user]
            BY DEF IInv, WatermarkHolds
        <3> QED
            BY <3>1, <1>4, <1>5, <1>6, <1>10
    <2>2. /\ x.req <= nreq
          /\ x.epoch <= epoch
          /\ x.at <= now
          /\ x.step <= lastUsed'[x.user]
        BY <1>2, <1>3, <1>4, <1>9, <1>10
    <2> QED
        BY <1>7, <2>1, <2>2 DEF WatermarkHolds
<1>13. CodesAscend'
    <2> SUFFICES ASSUME NEW y \in uses', NEW z \in uses',
                        y.user = z.user, y.epoch = z.epoch, y.req < z.req
                 PROVE  y.step < z.step
        BY DEF CodesAscend
    <2>1. CASE y \in uses /\ z \in uses
        BY <2>1 DEF IInv, CodesAscend
    <2>2. CASE y \in uses /\ z = x
        BY <2>2, <1>6, <1>9
    <2>3. CASE y = x /\ z \in uses
        BY <2>3, <1>2, <1>5, <1>9, <1>11
    <2>4. CASE y = x /\ z = x
        BY <2>4, <1>2, <1>9
    <2> QED
        BY <1>7, <2>1, <2>2, <2>3, <2>4
<1>14. \A y, z \in uses' : y.req = z.req => y = z
    BY <1>7, <1>9, <1>11 DEF IInv, RequestAnsweredOnce
<1>15. now <= s.expires
    BY <1>1, <1>2
<1> QED
    BY <1>1, <1>2, <1>3, <1>4, <1>6, <1>7, <1>8, <1>12, <1>13, <1>14, <1>15 DEF x, k, s

\* A code accepted for an activation request backs the window it opens.
LEMMA ActivateStep ==
    ASSUME IInv, Types', NEW u \in User, NEW ch \in Chat, NEW code \in Code,
           ActivateEmergency(u, ch, code)
    PROVE  IInv'
<1> DEFINE s == pending[u]
           x == [user |-> u, step |-> FirstMatch(u, code), at |-> now,
                 epoch |-> epoch, req |-> s.req]
           g == Granted(s.minutes)
<1>1. AcceptCode(u, ch, code)
    BY DEF ActivateEmergency
<1>2. now' = now /\ nreq' = nreq /\ epoch' = epoch /\ acl' = acl /\ runs' = runs
    BY DEF ActivateEmergency
<1>3. /\ s \in Session
      /\ uses' = uses \cup {x}
      /\ pending' = [pending EXCEPT ![u] = NoSession]
      /\ WatermarkHolds' /\ CodesAscend'
      /\ \A y, z \in uses' : y.req = z.req => y = z
    BY <1>1, <1>2, AcceptFacts
<1>4. x.user = u /\ x.epoch = epoch /\ x.at = now /\ x.req = s.req
    OBVIOUS
<1>5. g \in 1..LongestWindow /\ now \in Nat
    BY <1>3, GrantedInRange DEF Session, IInv, Types
<1>6. windows' = [windows EXCEPT ![u] = [granted |-> now, expires |-> now + g]]
    BY DEF ActivateEmergency
<1>7. pending \in [User -> Session \cup {NoSession}] /\ windows \in [User -> Window]
    BY DEF IInv, Types
<1> HIDE DEF x, g
<1>8. PendingFresh'
    <2> SUFFICES ASSUME NEW v \in User, pending'[v] # NoSession
                 PROVE  LET p == pending'[v] IN
                        /\ p.user = v
                        /\ p.epoch = epoch
                        /\ p.req <= nreq
                        /\ p.cmd # Emergency => p.cmd \in acl[v]
                        /\ p.expires - PendingTTL <= now
                        /\ \A y \in uses' : y.req # p.req
                        /\ \A y \in uses' : y.user = v /\ y.epoch = epoch => y.req < p.req
                        /\ \A i \in DOMAIN runs :
                              runs[i].via = "otp" => runs[i].session.req # p.req
                        /\ \A w \in User :
                              pending'[w] # NoSession /\ pending'[w].req = p.req => w = v
        BY <1>2 DEF PendingFresh
    <2>1. v # u /\ pending'[v] = pending[v]
        BY <1>3, <1>7
    <2>2. pending[v].req # s.req
        BY <1>1, <2>1 DEF IInv, PendingFresh, AcceptCode, Usable
    <2>3. \A w \in User : pending'[w] # NoSession => pending'[w] = pending[w]
        BY <1>3, <1>7
    <2> QED
        BY <1>3, <1>4, <2>1, <2>2, <2>3 DEF IInv, PendingFresh
<1>9. RunsNumbered' /\ ResumedAsAsked'
    BY <1>2 DEF IInv, RunsNumbered, ResumedAsAsked
<1>10. WindowsGranted'
    <2>1. windows'[u].expires <= now + LongestWindow /\ windows'[u].granted = now
        <3>1. LongestWindow \in Nat
            BY TuningAssumption DEF LongestWindow
        <3> QED
            BY <1>5, <1>6, <1>7, <3>1
    <2>2. \A v \in User : v # u => windows'[v] = windows[v]
        BY <1>6, <1>7
    <2>3. x \in uses' /\ uses \subseteq uses'
        BY <1>3
    <2> QED
        BY <1>2, <1>4, <2>1, <2>2, <2>3 DEF IInv, WindowsGranted
<1>11. RequestAnsweredOnce' /\ WindowBacked'
    BY <1>2, <1>3 DEF IInv, RequestAnsweredOnce, WindowBacked
<1> QED
    BY <1>3, <1>8, <1>9, <1>10, <1>11 DEF IInv

\* A code accepted for a command starts the stashed command, once.
LEMMA ResumeStep ==
    ASSUME IInv, Types', NEW u \in User, NEW ch \in Chat, NEW code \in Code,
           ResumeCommand(u, ch, code)
    PROVE  IInv'
<1> DEFINE s == pending[u]
           k == FirstMatch(u, code)
           x == [user |-> u, step |-> k, at |-> now, epoch |-> epoch, req |-> s.req]
           n == Len(runs) + 1
           r == [user |-> u, chat |-> ch, cmd |-> s.cmd, via |-> "otp", session |-> s,
                 step |-> k, start |-> now, epoch |-> epoch,
                 status |-> "running", audited |-> NotAudited]
<1>1. AcceptCode(u, ch, code)
    BY DEF ResumeCommand
<1>2. now' = now /\ nreq' = nreq /\ epoch' = epoch /\ acl' = acl /\ windows' = windows
    BY DEF ResumeCommand
<1>3. /\ s \in Session /\ s # NoSession
      /\ s.user = u /\ s.chat = ch /\ s.epoch = epoch
      /\ s.req \in Nat /\ s.req <= nreq
      /\ s.expires - PendingTTL <= now /\ now <= s.expires
      /\ uses' = uses \cup {x}
      /\ pending' = [pending EXCEPT ![u] = NoSession]
      /\ WatermarkHolds' /\ CodesAscend'
      /\ \A y, z \in uses' : y.req = z.req => y = z
    BY <1>1, <1>2, AcceptFacts
<1>4. /\ DOMAIN runs' = DOMAIN runs \cup {n}
      /\ \A i \in DOMAIN runs : runs'[i] = runs[i]
      /\ runs'[n] = r
    BY DEF ResumeCommand, StartRun, IInv, Types
<1>5. x.user = u /\ x.epoch = epoch /\ x.at = now /\ x.req = s.req
    OBVIOUS
<1>6. /\ r.via = "otp" /\ r.user = u /\ r.chat = ch /\ r.cmd = s.cmd
      /\ r.session = s /\ r.epoch = epoch /\ r.start = now
    OBVIOUS
<1>7. pending \in [User -> Session \cup {NoSession}] /\ uses \subseteq uses'
    BY <1>3 DEF IInv, Types
<1>8. \A i \in DOMAIN runs : runs[i].via = "otp" => runs[i].session.req # s.req
    BY <1>3 DEF IInv, PendingFresh
<1>9. \A v \in User : v # u /\ pending[v] # NoSession => pending[v].req # s.req
    BY <1>3 DEF IInv, PendingFresh
<1>10. \A v \in User : pending'[v] # NoSession => v # u /\ pending'[v] = pending[v]
    BY <1>3, <1>7
<1> HIDE DEF x, n, r, k, s
<1>11. PendingFresh'
    <2> SUFFICES ASSUME NEW v \in User, pending'[v] # NoSession
                 PROVE  LET p == pending'[v] IN
                        /\ p.user = v
                        /\ p.epoch = epoch
                        /\ p.req <= nreq
                        /\ p.cmd # Emergency => p.cmd \in acl[v]
                        /\ p.expires - PendingTTL <= now
                        /\ \A y \in uses' : y.req # p.req
                        /\ \A y \in uses' : y.user = v /\ y.epoch = epoch => y.req < p.req
                        /\ \A i \in DOMAIN runs' :
                              runs'[i].via = "otp" => runs'[i].session.req # p.req
                        /\ \A w \in User :
                              pending'[w] # NoSession /\ pending'[w].req = p.req => w = v
        BY <1>2 DEF PendingFresh
    <2>1. v # u /\ pending'[v] = pending[v] /\ pending[v].req # s.req
        BY <1>9, <1>10
    <2> QED
        BY <1>3, <1>4, <1>5, <1>6, <1>10, <2>1 DEF IInv, PendingFresh
<1>12. RunsNumbered'
    BY <1>2, <1>3, <1>4, <1>6 DEF IInv, RunsNumbered
<1>13. WindowsGranted'
    BY <1>2, <1>7 DEF IInv, WindowsGranted
<1>14. RequestAnsweredOnce'
    BY <1>3, <1>4, <1>6, <1>8 DEF IInv, RequestAnsweredOnce
<1>15. ResumedAsAsked'
    BY <1>3, <1>4, <1>6 DEF IInv, ResumedAsAsked
<1>16. WindowBacked'
    BY <1>4, <1>6, <1>7 DEF IInv, WindowBacked
<1> QED
    BY <1>3, <1>11, <1>12, <1>13, <1>14, <1>15, <1>16 DEF IInv

\* A restart forgets every session, window and watermark, and what it keeps is
\* of an earlier boot.
LEMMA RestartStep ==
    ASSUME IInv, Types', Restart
    PROVE  IInv'
<1>1. /\ epoch' = epoch + 1 /\ epoch \in Nat
      /\ now' = now /\ nreq' = nreq /\ uses' = uses
      /\ \A u \in User : pending'[u] = NoSession /\ windows'[u] = NoWindow
    BY DEF Restart, IInv, Types
<1>2. RunsKept
    BY CutKeepsRun DEF Restart, RunsKept, IInv, Types
<1>3. \A x \in uses : x.epoch \in Nat /\ x.epoch <= epoch
    BY DEF IInv, WatermarkHolds, Types, Use
<1>4. PendingFresh' /\ WindowsGranted'
    BY <1>1 DEF PendingFresh, WindowsGranted, NoWindow
<1>5. WatermarkHolds'
    BY <1>1, <1>3 DEF IInv, WatermarkHolds
<1>6. RunsNumbered' /\ RequestAnsweredOnce' /\ ResumedAsAsked' /\ WindowBacked'
    BY <1>1, <1>2 DEF IInv, RunsNumbered, RequestAnsweredOnce, ResumedAsAsked,
                      WindowBacked, RunsKept, SameStart
<1>7. CodesAscend'
    BY <1>1 DEF IInv, CodesAscend
<1> QED
    BY <1>4, <1>5, <1>6, <1>7 DEF IInv

\* Every step of the gate keeps the inductive invariant.
LEMMA InvNext == IInv /\ [Next]_vars => IInv'
<1> SUFFICES ASSUME IInv, [Next]_vars
             PROVE  IInv'
    OBVIOUS
<1>0. Types /\ Types'
    BY TypeNext DEF IInv
<1>1. now \in Nat
    BY <1>0 DEF Types
<1>2. runs' = runs => RunsKept
    BY DEF RunsKept, SameStart
<1>3. ASSUME NEW u \in User, NEW ch \in Chat, Dispatch(u, ch)
      PROVE  IInv'
    <2> PICK c \in Privileged : \/ RunUngated(u, ch, c)
                               \/ RunInWindow(u, ch, c)
                               \/ StashCommand(u, ch, c)
        BY <1>3 DEF Dispatch
    <2>1. CASE RunUngated(u, ch, c)
        BY <1>0, <2>1, UnsolicitedRunStep DEF RunUngated
    <2>2. CASE RunInWindow(u, ch, c)
        BY <1>0, <2>2, UnsolicitedRunStep DEF RunInWindow
    <2>3. CASE StashCommand(u, ch, c)
        <3>1. \A v \in User : windows'[v] = windows[v] \/ windows'[v] = NoWindow
            BY <1>0, <2>3 DEF StashCommand, EvictIfExpired, Types
        <3> QED
            BY <1>0, <2>3, <3>1, StashStep DEF StashCommand, Allowed
    <2> QED
        BY <2>1, <2>2, <2>3
<1>4. ASSUME NEW u \in User, NEW ch \in Chat, OtpCommand(u, ch)
      PROVE  IInv'
    <2>1. ASSUME NEW m \in Requested, RequestEmergency(u, ch, m)
          PROVE  IInv'
        <3>1. m \in Nat
            BY TuningAssumption
        <3> QED
            BY <1>0, <2>1, <3>1, StashStep DEF RequestEmergency
    <2>2. CASE EmergencyStatus(u) \/ EndEmergency(u)
        <3>1. \A v \in User : windows'[v] = windows[v] \/ windows'[v] = NoWindow
            BY <1>0, <2>2 DEF EmergencyStatus, EndEmergency, EvictIfExpired, Types
        <3> QED
            BY <1>0, <1>1, <1>2, <2>2, <3>1, QuietStep DEF EmergencyStatus, EndEmergency
    <2>3. CASE SubmitLocked(u)
        BY <1>0, <1>1, <1>2, <2>3, QuietStep DEF SubmitLocked, vars
    <2>4. CASE SubmitNoPending(u)
        BY <1>0, <1>1, <1>2, <2>4, QuietStep DEF SubmitNoPending
    <2>5. CASE SubmitUnusable(u, ch)
        <3>1. \A v \in User : pending'[v] = pending[v] \/ pending'[v] = NoSession
            BY <1>0, <2>5 DEF SubmitUnusable, PopSession, Types
        <3> QED
            BY <1>0, <1>1, <1>2, <2>5, <3>1, QuietStep DEF SubmitUnusable
    <2>6. ASSUME NEW code \in Code, SubmitCode(u, ch, code)
          PROVE  IInv'
        <3>1. CASE SubmitInvalid(u, ch, code)
            <4>1. \A v \in User : pending'[v] = pending[v] \/ pending'[v] = NoSession
                BY <1>0, <3>1 DEF SubmitInvalid, PopSession, Types
            <4> QED
                BY <1>0, <1>1, <1>2, <3>1, <4>1, QuietStep DEF SubmitInvalid
        <3>2. CASE ActivateEmergency(u, ch, code)
            BY <1>0, <3>2, ActivateStep
        <3>3. CASE ResumeCommand(u, ch, code)
            BY <1>0, <3>3, ResumeStep
        <3> QED
            BY <2>6, <3>1, <3>2, <3>3 DEF SubmitCode
    <2> QED
        BY <1>4, <2>1, <2>2, <2>3, <2>4, <2>5, <2>6 DEF OtpCommand
<1>5. ASSUME NEW i \in DOMAIN runs, FinishRun(i) \/ TimeoutRun(i) \/ TimeoutOtp(i)
      PROVE  IInv'
    <2>1. RunsKept
        BY <1>0, <1>5, EndingKeepsRuns
    <2> QED
        BY <1>0, <1>1, <1>5, <2>1, QuietStep
        DEF FinishRun, TimeoutRun, TimeoutOtp, EndRun
<1>6. ASSUME NEW u \in User, AdminUnlock(u)
      PROVE  IInv'
    BY <1>0, <1>1, <1>2, <1>6, QuietStep DEF AdminUnlock
<1>7. CASE Tick
    <2>1. now <= now'
        BY <1>1, <1>7 DEF Tick
    <2> QED
        BY <1>0, <1>2, <1>7, <2>1, QuietStep DEF Tick
<1>8. CASE Restart
    BY <1>0, <1>8, RestartStep
<1>9. CASE UNCHANGED vars
    BY <1>0, <1>1, <1>2, <1>9, QuietStep DEF vars
<1> QED
    BY <1>3, <1>4, <1>5, <1>6, <1>7, <1>8, <1>9 DEF Next

\* The bookkeeping and the four promises hold in every state the bot can reach.
THEOREM InvariantHolds == Spec => []IInv
BY InvInit, InvNext, PTL DEF Spec

\* A process without a master key stashes and grants nothing.
LEMMA IdleNext == Types /\ IdleUnwired /\ [Next]_vars => IdleUnwired'
<1> SUFFICES ASSUME Types, IdleUnwired, [Next]_vars
             PROVE  IdleUnwired'
    OBVIOUS
<1>1. ASSUME wired' = wired, wired
      PROVE  IdleUnwired'
    BY <1>1 DEF IdleUnwired
<1>2. ASSUME UNCHANGED <<wired, pending, windows>>
      PROVE  IdleUnwired'
    BY <1>2 DEF IdleUnwired
<1>3. ASSUME NEW u \in User, NEW ch \in Chat, Dispatch(u, ch)
      PROVE  IdleUnwired'
    BY <1>1, <1>2, <1>3 DEF Dispatch, RunUngated, RunInWindow, StashCommand
<1>4. ASSUME NEW u \in User, NEW ch \in Chat, OtpCommand(u, ch)
      PROVE  IdleUnwired'
    <2>1. CASE SubmitLocked(u)
        BY <1>2, <2>1 DEF SubmitLocked, vars
    <2>2. CASE \/ \E m \in Requested : RequestEmergency(u, ch, m)
               \/ EmergencyStatus(u) \/ EndEmergency(u)
        BY <1>1, <2>2 DEF RequestEmergency, EmergencyStatus, EndEmergency, OtpAllowed
    <2>3. CASE SubmitNoPending(u) \/ SubmitUnusable(u, ch)
        BY <1>1, <2>3 DEF SubmitNoPending, SubmitUnusable, OtpAllowed
    <2>4. ASSUME NEW code \in Code, SubmitCode(u, ch, code)
          PROVE  IdleUnwired'
        BY <1>1, <2>4
        DEF SubmitCode, SubmitInvalid, ActivateEmergency, ResumeCommand, AcceptCode, OtpAllowed
    <2> QED
        BY <1>4, <2>1, <2>2, <2>3, <2>4 DEF OtpCommand
<1>5. ASSUME NEW i \in DOMAIN runs, FinishRun(i) \/ TimeoutRun(i) \/ TimeoutOtp(i)
      PROVE  IdleUnwired'
    BY <1>2, <1>5 DEF FinishRun, TimeoutRun, TimeoutOtp, EndRun
<1>6. ASSUME NEW u \in User, AdminUnlock(u)
      PROVE  IdleUnwired'
    BY <1>2, <1>6 DEF AdminUnlock
<1>7. CASE Tick
    BY <1>2, <1>7 DEF Tick
<1>8. CASE Restart
    BY <1>8 DEF Restart, IdleUnwired
<1>9. CASE UNCHANGED vars
    BY <1>2, <1>9 DEF vars
<1> QED
    BY <1>3, <1>4, <1>5, <1>6, <1>7, <1>8, <1>9 DEF Next

\* Every store and history keeps its type, and what is in memory is of this boot: no
\* session outlives a restart, no window is longer than the cap, and a process without a
\* master key has neither.
THEOREM TypeCorrect == Spec => []TypeOK
<1>1. Init => IdleUnwired
    BY DEF Init, IdleUnwired
<1>2. Spec => []IdleUnwired
    <2>1. IInv => Types
        BY DEF IInv
    <2> QED
        BY <1>1, <2>1, IdleNext, InvariantHolds, PTL DEF Spec
<1>3. IInv /\ IdleUnwired => TypeOK
    <2> SUFFICES ASSUME IInv, IdleUnwired
                 PROVE  TypeOK
        OBVIOUS
    <2>1. \A u \in User : pending[u] # NoSession =>
             pending[u].user = u /\ pending[u].epoch = epoch /\ pending[u].req <= nreq
        BY DEF IInv, PendingFresh
    <2>2. ASSUME NEW u \in User
          PROVE  windows[u].expires <= windows[u].granted + LongestWindow
        <3>1. windows[u].granted \in Nat /\ LongestWindow \in Nat
            BY TuningAssumption DEF IInv, Types, Window, LongestWindow
        <3>2. CASE windows[u].expires = 0
            BY <3>1, <3>2
        <3>3. CASE windows[u].expires # 0
            BY <3>3 DEF IInv, WindowsGranted
        <3> QED
            BY <3>2, <3>3
    <2> QED
        BY <2>1, <2>2 DEF IInv, TypeOK
<1> QED
    BY <1>2, <1>3, InvariantHolds, PTL

\* A stashed request is answered by one code and run once, restarts included.
THEOREM RequestsAnsweredOnce == Spec => []RequestAnsweredOnce
<1>1. IInv => RequestAnsweredOnce
    BY DEF IInv
<1> QED
    BY <1>1, InvariantHolds, PTL

\* Within a boot, the codes a user spends on successive requests are of ever later
\* steps: the watermark stops both replays and codes still in tolerance but older.
THEOREM CodesAlwaysAscend == Spec => []CodesAscend
<1>1. IInv => CodesAscend
    BY DEF IInv
<1> QED
    BY <1>1, InvariantHolds, PTL

\* What /otp resumes is what the same user asked for in the same chat, in this
\* boot and within the session TTL.
THEOREM ResumesAsAsked == Spec => []ResumedAsAsked
<1>1. IInv => ResumedAsAsked
    BY DEF IInv
<1> QED
    BY <1>1, InvariantHolds, PTL

\* A bypass starts less than the cap after a code of the same user and boot.
THEOREM WindowsBacked == Spec => []WindowBacked
<1>1. IInv => WindowBacked
    BY DEF IInv
<1> QED
    BY <1>1, InvariantHolds, PTL

--------------------------------------------------------------------------------
(* OtpGate implements CommandGate: every step is one of its steps or none.   *)

\* A sequence is the function it is.
LEMMA SeqIsFunction ==
    ASSUME NEW S, NEW s \in Seq(S), NEW n \in Nat, DOMAIN s = 1..n
    PROVE  s = [i \in 1..n |-> s[i]]
<1>1. s \in [1..Len(s) -> S] /\ DOMAIN s = 1..Len(s)
    OBVIOUS
<1> QED
    BY <1>1

\* Appending a run appends its start to the abstract history.
LEMMA StartedAppend ==
    ASSUME NEW rs \in Seq(Run), NEW r \in Run
    PROVE  Started(Append(rs, r)) = Append(Started(rs), StartOf(r))
<1> DEFINE T == {StartOf(q) : q \in Run}
<1>1. Len(rs) \in Nat /\ DOMAIN rs = 1..Len(rs) /\ \A i \in 1..Len(rs) : rs[i] \in Run
    OBVIOUS
<1>2. Started(rs) \in [1..Len(rs) -> T]
    BY <1>1 DEF Started
<1>3. StartOf(r) \in T
    OBVIOUS
<1> HIDE DEF T
<1>4. Started(rs) \in Seq(T) /\ Len(Started(rs)) = Len(rs)
    BY <1>1, <1>2, FunctionIsSeq
<1>5. /\ DOMAIN Append(rs, r) = 1..(Len(rs) + 1)
      /\ \A i \in 1..Len(rs) : Append(rs, r)[i] = rs[i]
      /\ Append(rs, r)[Len(rs) + 1] = r
    BY <1>1
<1>6. /\ DOMAIN Append(Started(rs), StartOf(r)) = 1..(Len(rs) + 1)
      /\ \A i \in 1..Len(rs) : Append(Started(rs), StartOf(r))[i] = Started(rs)[i]
      /\ Append(Started(rs), StartOf(r))[Len(rs) + 1] = StartOf(r)
      /\ Append(Started(rs), StartOf(r)) \in Seq(T)
    BY <1>1, <1>3, <1>4
<1>7. \A i \in 1..Len(rs) : Started(rs)[i] = StartOf(rs[i])
    BY <1>1 DEF Started
<1>8. Started(Append(rs, r)) = [i \in 1..(Len(rs) + 1) |-> StartOf(Append(rs, r)[i])]
    BY <1>5 DEF Started
<1>9. \A i \in 1..(Len(rs) + 1) :
          StartOf(Append(rs, r)[i]) = Append(Started(rs), StartOf(r))[i]
    BY <1>1, <1>5, <1>6, <1>7
<1>10. Append(Started(rs), StartOf(r)) =
          [i \in 1..(Len(rs) + 1) |-> Append(Started(rs), StartOf(r))[i]]
    <2> DEFINE q == Append(Started(rs), StartOf(r))
               n == Len(rs) + 1
    <2>1. q \in Seq(T) /\ DOMAIN q = 1..n /\ n \in Nat
        BY <1>1, <1>6
    <2> HIDE DEF q, n
    <2>2. q = [i \in 1..n |-> q[i]]
        BY <2>1, SeqIsFunction
    <2> QED
        BY <2>2 DEF q, n
<1> QED
    BY <1>8, <1>9, <1>10

\* The same handlers have started, whatever became of them.
LEMMA StartedKept ==
    ASSUME runs \in Seq(Run), runs' \in Seq(Run), RunsKept
    PROVE  Started(runs') = Started(runs)
BY DEF RunsKept, SameStart, Started, StartOf

\* A starting process is a starting CommandGate.
LEMMA GateInit == Init => Gate!Init
BY TuningAssumption DEF Init, Gate!Init, NoWindow, Started

\* Every step of the gate is a step of CommandGate or leaves it alone.
LEMMA GateStep == IInv /\ [Next]_vars => [Gate!Next]_(Gate!gateVars)
<1> SUFFICES ASSUME IInv, [Next]_vars
             PROVE  Gate!Next \/ UNCHANGED Gate!gateVars
    OBVIOUS
<1>0. Types /\ Types'
    BY TypeNext DEF IInv
<1>1. ASSUME NEW u \in User, windows' = [windows EXCEPT ![u] = NoWindow],
             UNCHANGED <<now, epoch, wired, acl, uses, runs>>
      PROVE  Gate!Close(u)
    BY <1>0, <1>1 DEF Gate!Close, NoWindow, Types
<1>2. ASSUME UNCHANGED <<now, epoch, wired, acl, uses, windows>>,
             Started(runs') = Started(runs)
      PROVE  UNCHANGED Gate!gateVars
    BY <1>2 DEF Gate!gateVars
<1>3. ASSUME NEW u \in User, NEW ch \in Chat, Dispatch(u, ch)
      PROVE  Gate!Next
    <2> PICK c \in Privileged : \/ RunUngated(u, ch, c)
                               \/ RunInWindow(u, ch, c)
                               \/ StashCommand(u, ch, c)
        BY <1>3 DEF Dispatch
    <2>1. ASSUME NEW via \in {"ungated", "emergency"},
                 StartRun(u, ch, c, via, NoSession, -1)
          PROVE  Started(runs') =
                     Append(Started(runs), [user |-> u, cmd |-> c, at |-> now])
        <3> DEFINE r == [user |-> u, chat |-> ch, cmd |-> c, via |-> via,
                         session |-> NoSession, step |-> -1, start |-> now,
                         epoch |-> epoch, status |-> "running", audited |-> NotAudited]
        <3>1. r \in Run
            BY <1>0 DEF Types, Run, Via, NotAudited
        <3>2. runs' = Append(runs, r)
            BY <2>1 DEF StartRun
        <3>3. StartOf(r) = [user |-> u, cmd |-> c, at |-> now]
            BY DEF StartOf
        <3> HIDE DEF r
        <3> QED
            BY <1>0, <3>1, <3>2, <3>3, StartedAppend DEF Types
    <2>2. CASE RunUngated(u, ch, c)
        BY <2>1, <2>2 DEF RunUngated, Allowed, Gate!Next, Gate!RunUngated, Gate!Start
    <2>3. CASE RunInWindow(u, ch, c)
        BY <2>1, <2>3
        DEF RunInWindow, WindowActive, Allowed, Gate!Next, Gate!RunInWindow, Gate!Start
    <2>4. CASE StashCommand(u, ch, c)
        BY <1>1, <2>4 DEF StashCommand, EvictIfExpired, Gate!Next
    <2> QED
        BY <2>2, <2>3, <2>4
<1>4. ASSUME NEW u \in User, NEW ch \in Chat, NEW code \in Code,
             AcceptCode(u, ch, code), now' = now, nreq' = nreq, epoch' = epoch,
             acl' = acl
      PROVE  /\ FirstMatch(u, code) \in Gate!AcceptableSteps
             /\ Gate!SpendCode(u, FirstMatch(u, code))
    <2> DEFINE k == FirstMatch(u, code)
               s == pending[u]
               x == [user |-> u, step |-> k, at |-> now, epoch |-> epoch, req |-> s.req]
    <2>1. /\ k \in TriedSteps /\ k \in Int
          /\ \A y \in uses : y.user = u /\ y.epoch = epoch => y.step < k
          /\ uses' = uses \cup {x}
        BY <1>0, <1>4, AcceptFacts
    <2>2. CodeOf(x) = [user |-> u, step |-> k, epoch |-> epoch]
        BY DEF CodeOf
    <2>3. \A y \in uses : CodeOf(y) # [user |-> u, step |-> k, epoch |-> epoch]
        BY <2>1 DEF CodeOf
    <2> HIDE DEF x
    <2>4. {CodeOf(y) : y \in uses'} =
             {CodeOf(y) : y \in uses} \cup {[user |-> u, step |-> k, epoch |-> epoch]}
        BY <2>1, <2>2
    <2>5. wired
        BY <1>4 DEF AcceptCode, OtpAllowed
    <2> QED
        BY <2>1, <2>3, <2>4, <2>5
        DEF TriedSteps, Gate!AcceptableSteps, Gate!SpendCode, Gate!Fresh
<1>5. ASSUME NEW u \in User, NEW ch \in Chat, NEW code \in Code,
             ActivateEmergency(u, ch, code)
      PROVE  Gate!Next
    <2> DEFINE k == FirstMatch(u, code)
    <2>1. AcceptCode(u, ch, code) /\ UNCHANGED <<now, epoch, wired, acl, runs, nreq>>
        BY <1>5 DEF ActivateEmergency
    <2>2. pending[u].minutes \in Nat
        <3>1. pending[u] \in Session
            BY <1>0, <2>1 DEF AcceptCode, Usable, Types
        <3> QED
            BY <3>1 DEF Session
    <2>3. PICK d \in 1..LongestWindow : d = Granted(pending[u].minutes)
        BY <2>2, GrantedInRange
    <2>4. k \in Gate!AcceptableSteps /\ Gate!SpendCode(u, k)
        BY <1>4, <2>1
    <2> HIDE DEF k
    <2>5. [v \in User |-> windows'[v].expires] =
              [[v \in User |-> windows[v].expires] EXCEPT ![u] = now + d]
        BY <1>0, <1>5, <2>3 DEF ActivateEmergency, Types
    <2>6. Gate!OpenOnCode(u, k, d)
        BY <2>1, <2>3, <2>4, <2>5 DEF Gate!OpenOnCode
    <2> QED
        BY <2>4, <2>6 DEF Gate!Next
<1>6. ASSUME NEW u \in User, NEW ch \in Chat, NEW code \in Code,
             ResumeCommand(u, ch, code)
      PROVE  Gate!Next
    <2> DEFINE c == pending[u].cmd
               k == FirstMatch(u, code)
               r == [user |-> u, chat |-> ch, cmd |-> c, via |-> "otp",
                     session |-> pending[u], step |-> k, start |-> now,
                     epoch |-> epoch, status |-> "running", audited |-> NotAudited]
    <2>1. /\ AcceptCode(u, ch, code)
          /\ c # Emergency
          /\ runs' = Append(runs, r)
          /\ UNCHANGED <<now, epoch, wired, acl, windows, nreq>>
        BY <1>6 DEF ResumeCommand, StartRun
    <2>2. /\ k \in Gate!AcceptableSteps
          /\ Gate!SpendCode(u, k)
        BY <1>4, <2>1
    <2>3. pending[u] \in Session /\ pending[u] # NoSession /\ k \in Int
        BY <1>0, <2>1, AcceptFacts
    <2>4. c \in Privileged /\ c \in acl[u]
        BY <2>1, <2>3 DEF Session, IInv, PendingFresh
    <2>5. r \in Run /\ StartOf(r) = [user |-> u, cmd |-> c, at |-> now]
        BY <1>0, <2>3, <2>4 DEF Types, Run, Via, NotAudited, StartOf
    <2> HIDE DEF r, k, c
    <2>6. Started(runs') = Append(Started(runs), [user |-> u, cmd |-> c, at |-> now])
        BY <1>0, <2>1, <2>5, StartedAppend DEF Types
    <2>7. Gate!RunOnCode(u, c, k)
        BY <2>1, <2>2, <2>4, <2>6 DEF Gate!RunOnCode, Gate!Start
    <2> QED
        BY <2>2, <2>4, <2>7 DEF Gate!Next
<1>7. ASSUME NEW u \in User, NEW ch \in Chat, OtpCommand(u, ch)
      PROVE  Gate!Next \/ UNCHANGED Gate!gateVars
    <2>1. CASE \E m \in Requested : RequestEmergency(u, ch, m)
        BY <1>2, <2>1 DEF RequestEmergency
    <2>2. CASE EmergencyStatus(u)
        <3>1. CASE WindowActive(u)
            <4>1. windows' = windows
                BY <1>0, <2>2, <3>1 DEF EmergencyStatus, EvictIfExpired, Types
            <4> QED
                BY <1>2, <2>2, <4>1 DEF EmergencyStatus
        <3>2. CASE ~WindowActive(u)
            BY <1>1, <2>2, <3>2 DEF EmergencyStatus, EvictIfExpired, Gate!Next
        <3> QED
            BY <3>1, <3>2
    <2>3. CASE EndEmergency(u)
        BY <1>1, <2>3 DEF EndEmergency, Gate!Next
    <2>4. CASE SubmitLocked(u) \/ SubmitNoPending(u) \/ SubmitUnusable(u, ch)
        BY <1>2, <2>4 DEF SubmitLocked, vars, SubmitNoPending, SubmitUnusable
    <2>5. ASSUME NEW code \in Code, SubmitCode(u, ch, code)
          PROVE  Gate!Next \/ UNCHANGED Gate!gateVars
        <3>1. CASE SubmitInvalid(u, ch, code)
            BY <1>2, <3>1 DEF SubmitInvalid
        <3> QED
            BY <1>5, <1>6, <2>5, <3>1 DEF SubmitCode
    <2> QED
        BY <1>7, <2>1, <2>2, <2>3, <2>4, <2>5 DEF OtpCommand
<1>8. ASSUME NEW i \in DOMAIN runs, FinishRun(i) \/ TimeoutRun(i) \/ TimeoutOtp(i)
      PROVE  UNCHANGED Gate!gateVars
    <2>1. RunsKept
        BY <1>0, <1>8, EndingKeepsRuns
    <2>2. Started(runs') = Started(runs)
        BY <1>0, <2>1, StartedKept DEF Types
    <2> QED
        BY <1>2, <1>8, <2>2 DEF FinishRun, TimeoutRun, TimeoutOtp, EndRun
<1>9. ASSUME NEW u \in User, AdminUnlock(u)
      PROVE  UNCHANGED Gate!gateVars
    BY <1>2, <1>9 DEF AdminUnlock
<1>10. CASE Tick
    BY <1>10 DEF Tick, Gate!Next, Gate!Advance
<1>11. CASE Restart
    <2>1. RunsKept
        BY <1>0, <1>11, CutKeepsRun DEF Restart, RunsKept, Types
    <2>2. Started(runs') = Started(runs)
        BY <1>0, <2>1, StartedKept DEF Types
    <2>3. [u \in User |-> windows'[u].expires] = [u \in User |-> 0]
        BY <1>11 DEF Restart, NoWindow
    <2> QED
        BY <1>11, <2>2, <2>3 DEF Restart, Gate!Next, Gate!Restart
<1>12. CASE UNCHANGED vars
    BY <1>2, <1>12 DEF vars
<1> QED
    BY <1>3, <1>7, <1>8, <1>9, <1>10, <1>11, <1>12 DEF Next

\* Sessions, codes, windows, timeouts and restarts together are a CommandGate: no
\* privileged handler starts but on a fresh code or in a capped window it opened.
THEOREM ImplementsGate == Spec => GateSpec
BY InvInit, InvNext, GateInit, GateStep, PTL DEF Spec, GateSpec, Gate!Spec

--------------------------------------------------------------------------------
(* The lockout.                                                             *)

\* Overwriting a session is not using it up.
LEMMA StashKeepsPending ==
    ASSUME Types, NEW u \in User, NEW v \in User, NEW ch \in Chat,
           NEW c \in Privileged \cup {Emergency}, NEW m \in Nat, Stash(v, ch, c, m),
           pending[u] # NoSession
    PROVE  pending'[u] # NoSession
<1> DEFINE new == [req |-> nreq + 1, user |-> v, chat |-> ch, cmd |-> c, minutes |-> m,
                   expires |-> now + PendingTTL, epoch |-> epoch]
<1>1. pending' = [pending EXCEPT ![v] = new]
    BY DEF Stash
<1>2. new \in Session
    BY TuningAssumption DEF Types, Session
<1>3. new # NoSession
    BY <1>2, NoSessionAssumption
<1> HIDE DEF new
<1> QED
    BY <1>1, <1>3 DEF Types

\* The step form of LockedOutSpendsNothing.
LEMMA LockedOutStep ==
    ASSUME Types, [Next]_vars, NEW u \in User, Locked(u), epoch' = epoch
    PROVE  SpendsNothing(u)
<1>0. epoch \in Nat /\ pending \in [User -> Session \cup {NoSession}]
    BY DEF Types
<1>1. ASSUME UNCHANGED <<pending, uses>>
      PROVE  SpendsNothing(u)
    BY <1>1 DEF SpendsNothing
<1>2. ASSUME NEW v \in User, NEW ch \in Chat, Dispatch(v, ch)
      PROVE  SpendsNothing(u)
    <2> PICK c \in Privileged : \/ RunUngated(v, ch, c)
                               \/ RunInWindow(v, ch, c)
                               \/ StashCommand(v, ch, c)
        BY <1>2 DEF Dispatch
    <2>1. CASE RunUngated(v, ch, c) \/ RunInWindow(v, ch, c)
        BY <1>1, <2>1 DEF RunUngated, RunInWindow
    <2>2. CASE StashCommand(v, ch, c)
        BY <1>0, <2>2, StashKeepsPending DEF StashCommand, SpendsNothing
    <2> QED
        BY <2>1, <2>2
<1>3. ASSUME NEW v \in User, NEW ch \in Chat, OtpCommand(v, ch)
      PROVE  SpendsNothing(u)
    <2>1. ASSUME NEW m \in Requested, RequestEmergency(v, ch, m)
          PROVE  SpendsNothing(u)
        BY <1>0, <2>1, StashKeepsPending, TuningAssumption DEF RequestEmergency, SpendsNothing
    <2>2. CASE \/ EmergencyStatus(v) \/ EndEmergency(v)
               \/ SubmitLocked(v) \/ SubmitNoPending(v)
        BY <1>1, <2>2 DEF EmergencyStatus, EndEmergency, SubmitLocked, vars, SubmitNoPending
    <2>3. CASE SubmitUnusable(v, ch)
        BY <1>0, <2>3 DEF SubmitUnusable, PopSession, SpendsNothing
    <2>4. ASSUME NEW code \in Code, SubmitInvalid(v, ch, code)
          PROVE  SpendsNothing(u)
        BY <1>0, <2>4 DEF SubmitInvalid, PopSession, SpendsNothing
    <2>5. ASSUME NEW code \in Code, AcceptCode(v, ch, code)
          PROVE  SpendsNothing(u)
        BY <1>0, <2>5 DEF AcceptCode, PopSession, SpendsNothing
    <2> QED
        BY <1>3, <2>1, <2>2, <2>3, <2>4, <2>5
        DEF OtpCommand, SubmitCode, ActivateEmergency, ResumeCommand
<1>4. ASSUME NEW i \in DOMAIN runs, FinishRun(i) \/ TimeoutRun(i) \/ TimeoutOtp(i)
      PROVE  SpendsNothing(u)
    BY <1>1, <1>4 DEF FinishRun, TimeoutRun, TimeoutOtp, EndRun
<1>5. ASSUME NEW v \in User, AdminUnlock(v)
      PROVE  SpendsNothing(u)
    BY <1>1, <1>5 DEF AdminUnlock
<1>6. CASE Tick
    BY <1>1, <1>6 DEF Tick
<1>7. CASE Restart
    BY <1>0, <1>7 DEF Restart
<1>8. CASE UNCHANGED vars
    BY <1>1, <1>8 DEF vars
<1> QED
    BY <1>2, <1>3, <1>4, <1>5, <1>6, <1>7, <1>8 DEF Next

\* While a user is locked out, no step short of a restart accepts a code of theirs
\* or uses up what they have pending.
THEOREM LockoutSpendsNothing == Spec => LockedOutSpendsNothing
<1>1. Types /\ [Next]_vars =>
          [\A u \in User : Locked(u) /\ epoch' = epoch => SpendsNothing(u)]_vars
    BY LockedOutStep
<1> QED
    <2>1. IInv => Types
        BY DEF IInv
    <2> QED
        BY <1>1, <2>1, InvariantHolds, PTL DEF Spec, LockedOutSpendsNothing
================================================================================
