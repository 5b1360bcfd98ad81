------------------------------ MODULE AuditRotation ------------------------------
(***************************************************************************)
(* AuditLogger on its file: appending, rotation by size and by the clock,  *)
(* compression and pruning, one file operation at a time.  A process can   *)
(* die, and an operation can fail, between any two of them.                *)
(*                                                                         *)
(* log() holds a lock of its process, so a process writes one line at a    *)
(* time; between processes, the bot and a bot-cmder command, there is no   *)
(* lock.  Names and contents are kept apart as the file system keeps them: *)
(* a process that has a file open writes to it under whatever name.        *)
(***************************************************************************)
EXTENDS Integers, Sequences, FiniteSets, FiniteSetsExt

CONSTANTS
    Proc,         \* processes that log
    MaxBytes,     \* audit.rotation.max_bytes, in lines; 0 for no limit
    DayTicks,     \* audit.rotation.when as the time between two boundaries; 0 for off
    BackupCount,  \* audit.rotation.backup_count
    Compress,     \* audit.rotation.compress
    MaxTime, MaxLines, MaxFaults   \* bounds of the checked instance

ASSUME RotationAssumption ==
    /\ {MaxBytes, DayTicks, BackupCount} \subseteq Nat
    /\ Compress \in BOOLEAN
    /\ {MaxTime, MaxLines, MaxFaults} \subseteq Nat

VARIABLES
    now,        \* the clock, whole seconds
    dir,        \* the directory: name -> file
    files,      \* every file there has been: its lines and when it was last written
    next,       \* _next_rotation_at of each process, -1 for None
    proc,       \* where each process is in log()
    lines,      \* history: for each line, the second its rotation check was made in
    written,    \* history: lines whose log() has returned
    rotations,  \* history: the lines of each rotated file when it was renamed
    faults

vars == <<now, dir, files, next, proc, lines, written, rotations, faults>>

PC == {"idle", "name", "rename", "gzip", "copy", "unlink", "prune", "open", "write"}

\* audit.jsonl, and audit.jsonl.<second>[.<counter>][.gz].
Active == [at |-> -1, counter |-> 0, gz |-> FALSE]
Name == [at : Nat \cup {-1}, counter : Nat, gz : BOOLEAN]
Gz(name) == [name EXCEPT !.gz = TRUE]

File == [lines : Seq(Nat), touched : Nat]

\* at, due: the time of the rotation check, and whether it found the boundary passed.
\* to: the rotated name.  fh, out: the files open for this line.
State == [pc : PC, line : Nat, at : Nat, due : BOOLEAN, to : Name, fh : Nat, out : Nat]
Idle == [pc |-> "idle", line |-> 0, at |-> 0, due |-> FALSE, to |-> Active,
         fh |-> 0, out |-> 0]

Exists(name) == name \in DOMAIN dir
Lines(name) == files[dir[name]].lines
ActiveLines == IF Exists(Active) THEN Lines(Active) ELSE <<>>
Rotated == DOMAIN dir \ {Active}

Link(name, f) == [n \in DOMAIN dir \cup {name} |-> IF n = name THEN f ELSE dir[n]]
Without(names) == [n \in DOMAIN dir \ names |-> dir[n]]

\* Modification times only have to tell which of two files is older.
Stamp == 1 + Max({0} \cup {files[f].touched : f \in DOMAIN files})
NewFile == Append(files, [lines |-> <<>>, touched |-> Stamp])

Goes(p, pc) == proc' = [proc EXCEPT ![p].pc = pc]
Fault == faults < MaxFaults /\ faults' = faults + 1

--------------------------------------------------------------------------------
(* _maybe_rotate *)

\* Slip: a time that is a boundary gets that very boundary ("or 7" is missing).
ThisBoundary(t) ==
    IF DayTicks = 0 THEN -1 ELSE ((t + DayTicks - 1) \div DayTicks) * DayTicks

\* _compute_next_rotation.  Every `when` has its boundaries on the calendar, daily too.
NextBoundary(t) == IF DayTicks = 0 THEN -1 ELSE (t \div DayTicks + 1) * DayTicks

TimeDue(p) == next[p] # -1 /\ now >= next[p]

SizeDue == MaxBytes > 0 /\ Exists(Active) /\ Len(ActiveLines) + 1 > MaxBytes

NothingToRotate == ActiveLines = <<>>

\* A new line; its checks are over in an instant.
Enter(p, pc) ==
    /\ proc[p].pc = "idle"
    /\ Len(lines) < MaxLines
    /\ lines' = Append(lines, now)
    /\ proc' = [proc EXCEPT ![p] = [Idle EXCEPT !.pc = pc, !.line = Len(lines) + 1,
                                                !.at = now, !.due = TimeDue(p)]]

LogInPlace(p) ==
    /\ NothingToRotate \/ ~(TimeDue(p) \/ SizeDue)
    /\ Enter(p, "open")
    /\ next' = [next EXCEPT ![p] = IF TimeDue(p) THEN NextBoundary(now) ELSE @]
    /\ UNCHANGED <<now, dir, files, written, rotations, faults>>

LogRotating(p) ==
    /\ ~NothingToRotate
    /\ TimeDue(p) \/ SizeDue
    /\ Enter(p, "name")
    /\ UNCHANGED <<now, dir, files, next, written, rotations, faults>>

\* On to the line itself, whether or not the rotation has worked.
Resume(p) ==
    /\ Goes(p, "open")
    /\ next' = [next EXCEPT ![p] = IF proc[p].due THEN NextBoundary(proc[p].at) ELSE @]

--------------------------------------------------------------------------------
(* _do_rotate *)

\* Slip: looks for the plain name only.
FreePlain(name) == ~Exists(name)

Free(name) == ~Exists(name) /\ ~Exists(Gz(name))

\* The first counter that is free for this second; every rotation has taken one at most.
ChooseName(p) ==
    LET Try(c) == [at |-> proc[p].at, counter |-> c, gz |-> FALSE]
        first == Min({c \in 0..Len(rotations) : Free(Try(c))}) IN
    /\ proc[p].pc = "name"
    /\ proc' = [proc EXCEPT ![p].pc = "rename", ![p].to = Try(first)]
    /\ UNCHANGED <<now, dir, files, next, lines, written, rotations, faults>>

\* os.rename replaces whatever has the new name.
Rename(p) ==
    LET rotated == proc[p].to IN
    /\ proc[p].pc = "rename"
    /\ Exists(Active)
    /\ dir' = [n \in (DOMAIN dir \cup {rotated}) \ {Active} |->
                  IF n = rotated THEN dir[Active] ELSE dir[n]]
    /\ rotations' = Append(rotations, Lines(Active))
    /\ Goes(p, IF Compress THEN "gzip" ELSE "prune")
    /\ UNCHANGED <<now, files, next, lines, written, faults>>

\* A failure, or another process has been quicker.
RenameFails(p) ==
    /\ proc[p].pc = "rename"
    /\ IF Exists(Active) THEN Fault ELSE UNCHANGED faults
    /\ Resume(p)
    /\ UNCHANGED <<now, dir, files, lines, written, rotations>>

\* Opens the plain file and an empty compressed one.
Gzip(p) ==
    LET to == proc[p].to IN
    /\ proc[p].pc = "gzip"
    /\ Exists(to)
    /\ files' = NewFile
    /\ dir' = Link(Gz(to), Len(files) + 1)
    /\ proc' = [proc EXCEPT ![p].pc = "copy", ![p].fh = dir[to], ![p].out = Len(files) + 1]
    /\ UNCHANGED <<now, next, lines, written, rotations, faults>>

Copy(p) ==
    /\ proc[p].pc = "copy"
    /\ files' = [files EXCEPT ![proc[p].out] =
                    [lines |-> files[proc[p].fh].lines, touched |-> Stamp]]
    /\ Goes(p, "unlink")
    /\ UNCHANGED <<now, dir, next, lines, written, rotations, faults>>

\* The compressed file is taken away again and the plain one stays.
CompressFails(p) ==
    /\ proc[p].pc \in {"gzip", "copy"}
    /\ IF Exists(proc[p].to) THEN Fault ELSE UNCHANGED faults
    /\ dir' = Without({Gz(proc[p].to)})
    /\ Goes(p, "prune")
    /\ UNCHANGED <<now, files, next, lines, written, rotations>>

Unlink(p) ==
    /\ proc[p].pc = "unlink"
    /\ Exists(proc[p].to)
    /\ dir' = Without({proc[p].to})
    /\ Goes(p, "prune")
    /\ UNCHANGED <<now, files, next, lines, written, rotations, faults>>

\* Raised past the pruning.
UnlinkFails(p) ==
    /\ proc[p].pc = "unlink"
    /\ IF Exists(proc[p].to) THEN Fault ELSE UNCHANGED faults
    /\ Resume(p)
    /\ UNCHANGED <<now, dir, files, lines, written, rotations>>

Newer(name) == {n \in Rotated : files[dir[n]].touched > files[dir[name]].touched}

\* Slips: the newest go; one too many stays.
Older(name) == {n \in Rotated : files[dir[n]].touched < files[dir[name]].touched}
PastNewest == {n \in Rotated : Cardinality(Older(n)) >= BackupCount}
PastOneMore == {n \in Rotated : Cardinality(Newer(n)) > BackupCount}

\* Plain and compressed files count alike.
PastBackups == {n \in Rotated : Cardinality(Newer(n)) >= BackupCount}

Prune(p) ==
    /\ proc[p].pc = "prune"
    /\ dir' = IF BackupCount > 0 THEN Without(PastBackups) ELSE dir
    /\ Resume(p)
    /\ UNCHANGED <<now, files, lines, written, rotations, faults>>

PruneFails(p) ==
    /\ proc[p].pc = "prune"
    /\ Fault
    /\ Resume(p)
    /\ UNCHANGED <<now, dir, files, lines, written, rotations>>

--------------------------------------------------------------------------------
(* The write, and the end of the process. *)

Open(p) ==
    /\ proc[p].pc = "open"
    /\ IF Exists(Active)
       THEN UNCHANGED <<dir, files>>
       ELSE files' = NewFile /\ dir' = Link(Active, Len(files) + 1)
    /\ proc' = [proc EXCEPT ![p].pc = "write", ![p].fh = dir'[Active]]
    /\ UNCHANGED <<now, next, lines, written, rotations, faults>>

Write(p) ==
    /\ proc[p].pc = "write"
    /\ files' = [files EXCEPT ![proc[p].fh] =
                    [lines |-> Append(@.lines, proc[p].line), touched |-> Stamp]]
    /\ written' = written \cup {proc[p].line}
    /\ proc' = [proc EXCEPT ![p] = Idle]
    /\ UNCHANGED <<now, dir, next, lines, rotations, faults>>

\* The error reaches whoever called log().
WriteFails(p) ==
    /\ proc[p].pc \in {"open", "write"}
    /\ Fault
    /\ proc' = [proc EXCEPT ![p] = Idle]
    /\ UNCHANGED <<now, dir, files, next, lines, written, rotations>>

\* A crash, a redeploy, or the next bot-cmder command: the boundary is computed anew.
Restart(p) ==
    /\ Fault
    /\ proc' = [proc EXCEPT ![p] = Idle]
    /\ next' = [next EXCEPT ![p] = NextBoundary(now)]
    /\ UNCHANGED <<now, dir, files, lines, written, rotations>>

Tick ==
    /\ now < MaxTime
    /\ now' = now + 1
    /\ UNCHANGED <<dir, files, next, proc, lines, written, rotations, faults>>

Init ==
    /\ now = 0
    /\ dir = [n \in {} |-> 0]
    /\ files = <<>>
    /\ next = [p \in Proc |-> NextBoundary(0)]
    /\ proc = [p \in Proc |-> Idle]
    /\ lines = <<>>
    /\ written = {}
    /\ rotations = <<>>
    /\ faults = 0

Rotate(p) ==
    \/ ChooseName(p) \/ Rename(p) \/ RenameFails(p)
    \/ Gzip(p) \/ Copy(p) \/ CompressFails(p) \/ Unlink(p) \/ UnlinkFails(p)
    \/ Prune(p) \/ PruneFails(p)

Log(p) == LogInPlace(p) \/ LogRotating(p) \/ Open(p) \/ Write(p) \/ WriteFails(p)

Next == (\E p \in Proc : Log(p) \/ Rotate(p) \/ Restart(p)) \/ Tick

Spec == Init /\ [][Next]_vars

--------------------------------------------------------------------------------

\* Nothing to rotate by the clock for the line in hand, or it is behind it.
Settled(p) == proc[p].pc \in {"open", "write"} \/ (proc[p].pc # "idle" /\ ~proc[p].due)

\* Types; besides, once a line has been checked and, if need be, rotated for, the next
\* boundary lies after the check, even when the check fell on a boundary, or the rotation
\* failed, or the process was started anew: no boundary is met twice.
TypeOK ==
    /\ now \in Nat
    /\ DOMAIN dir \subseteq Name
    /\ \A n \in DOMAIN dir : dir[n] \in DOMAIN files
    /\ files \in Seq(File)
    /\ next \in [Proc -> Nat \cup {-1}]
    /\ proc \in [Proc -> State]
    /\ \A p \in Proc : Settled(p) /\ next[p] # -1 => proc[p].at < next[p]
    /\ \A p \in Proc : proc[p].pc \in {"copy", "write"} => proc[p].fh \in DOMAIN files
    /\ lines \in Seq(Nat)
    /\ written \subseteq DOMAIN lines
    /\ rotations \in Seq(Seq(Nat))
    /\ faults \in Nat

Held(l) == \E n \in DOMAIN dir : \E i \in DOMAIN Lines(n) : Lines(n)[i] = l

\* A line that log() has written can be found again until backup_count rotations
\* have followed its own, less one for each crash or failed operation: a crash
\* before, during or after the compression never costs a line by itself.
RetentionHonoured ==
    \A l \in written :
        \/ Held(l)
        \/ /\ BackupCount > 0
           /\ \E k \in DOMAIN rotations :
                 /\ \E i \in DOMAIN rotations[k] : rotations[k][i] = l
                 /\ Len(rotations) - k >= BackupCount - faults

Mixed(ls) == \E i, j \in DOMAIN ls : lines[ls[i]] \div DayTicks # lines[ls[j]] \div DayTicks

SizeKept == MaxBytes > 0 => Len(ActiveLines) <= MaxBytes + faults

PeriodKept ==
    DayTicks > 0 =>
       LET contents == Append(rotations, ActiveLines) IN
       Cardinality({k \in DOMAIN contents : Mixed(contents[k])}) <= faults

BackupsKept ==
    BackupCount > 0 /\ (\A p \in Proc : proc[p].pc = "idle") =>
       Cardinality(Rotated) <= BackupCount + 2 * faults

\* Rotation and pruning keep up, but for what crashes and failed operations leave: the
\* active file holds no more than max_bytes; a file holds the lines of one calendar hour,
\* day or week, for `daily` too, as the code has it (config/schema.py:80 says "every 24h
\* after the first write", which this is not); and when nothing is in progress there are
\* no more rotated files than backup_count.
RotationKeepsUp == SizeKept /\ PeriodKept /\ BackupsKept

\* docs/audit-rotation.md: a rotation "never overwrites prior data": a name stays
\* with the file it was given to.
NeverOverwritten ==
    [][\A n \in Rotated \cap DOMAIN dir' : dir'[n] = dir[n]]_vars

================================================================================
