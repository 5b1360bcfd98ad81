------------------------------ MODULE Migrator ------------------------------
\* storage/migrator.py: several processes (the server, `enroll-totp`,
\* `unlock-totp`) open one SQLite file and each applies the migrations of its
\* own release to it.  A step of a process is one statement it sends; SQLite
\* gives the write lock to the first statement that writes (BEGIN is deferred),
\* keeps a transaction's changes private until COMMIT, and forgets them when
\* the process dies.
EXTENDS Naturals, Sequences

CONSTANTS
    Procs,        \* processes that open the database
    Sums,         \* contents of migration files, told apart by their checksums
    Statements,   \* SQL statements
    Creates,      \* those that fail when repeated: CREATE TABLE, CREATE INDEX
    Script,       \* the statements of each content, in order
    Editions,     \* the releases: each is the set of files in migrations/
    MaxVersion,   \* files are numbered 1..MaxVersion
    MaxRestarts,  \* bound: deaths and restarts, all processes together
    None,         \* no row, no file
    Nobody        \* the write lock is free

File == [version : 1..MaxVersion, sum : Sums]

ASSUME MigratorAssumption ==
    /\ Script \in [Sums -> Seq(Statements)]
    /\ Creates \subseteq Statements
    /\ Editions \subseteq SUBSET File
    /\ MaxVersion \in Nat
    /\ MaxRestarts \in Nat
    /\ None \notin Sums /\ None \notin File
    /\ Nobody \notin Procs

VARIABLES
    book,      \* committed rows of _migrations: version -> checksum, or None
    effects,   \* committed statements, in the order they took effect
    writer,    \* who holds the write lock
    pc,        \* where each process is
    edition,   \* its release
    applied,   \* the rows it read when it opened the database
    left,      \* its files not yet looked at
    file,      \* the file it is applying
    done,      \* statements of that file it has executed
    restarts

migratorVars == <<book, effects, writer, pc, edition, applied, left, file, done, restarts>>

Books == [1..MaxVersion -> Sums \cup {None}]

\* Two files with one number: discover() raises DuplicateVersion.
Clashes(files) == \E f, g \in files : f # g /\ f.version = g.version

\* The files in the order of their numbers.
IsFirst(f, files) == f \in files /\ \A g \in files : f.version <= g.version

InTransaction(p) == pc[p] \in {"stmt", "commit"}

-----------------------------------------------------------------------------

MigratorInit ==
    /\ book = [v \in 1..MaxVersion |-> None]
    /\ effects = << >>
    /\ writer = Nobody
    /\ pc = [p \in Procs |-> "start"]
    /\ edition \in [Procs -> Editions]
    /\ applied = [p \in Procs |-> book]
    /\ left = [p \in Procs |-> {}]
    /\ file = [p \in Procs |-> None]
    /\ done = [p \in Procs |-> 0]
    /\ restarts = 0

\* Slip: the exception leaves apply() with the transaction open.
NoRollback(p) == UNCHANGED <<writer, file, done>>

\* SQLite drops what the transaction did, and its lock.
Rollback(p) ==
    /\ writer' = IF writer = p THEN Nobody ELSE writer
    /\ file' = [file EXCEPT ![p] = None]
    /\ done' = [done EXCEPT ![p] = 0]

\* `except Exception: ROLLBACK; raise`.
Raise(p) ==
    /\ Rollback(p)
    /\ pc' = [pc EXCEPT ![p] = "raised"]
    /\ UNCHANGED <<book, effects, edition, applied, left, restarts>>

\* Make sure of the table, read its rows (before any BEGIN), list the files.
Open(p) ==
    /\ pc[p] = "start"
    /\ applied' = [applied EXCEPT ![p] = book]
    /\ left' = [left EXCEPT ![p] = edition[p]]
    /\ pc' = [pc EXCEPT ![p] = IF Clashes(edition[p]) THEN "raised" ELSE "next"]
    /\ UNCHANGED <<book, effects, writer, edition, file, done, restarts>>

\* Slip: a row with the number is enough.
NeverEdited(p, f) == FALSE

\* A row with that number: the same content is skipped, an edited file refused.
Edited(p, f) == applied[p][f.version] # f.sum

Skip(p) ==
    /\ pc[p] = "next"
    /\ \E f \in left[p] :
        /\ IsFirst(f, left[p])
        /\ applied[p][f.version] # None
        /\ IF Edited(p, f)
           THEN pc' = [pc EXCEPT ![p] = "raised"] /\ left' = left
           ELSE left' = [left EXCEPT ![p] = @ \ {f}] /\ pc' = pc
    /\ UNCHANGED <<book, effects, writer, edition, applied, file, done, restarts>>

\* A deferred transaction: nothing is locked yet.
Begin(p) ==
    /\ pc[p] = "next"
    /\ \E f \in left[p] :
        /\ IsFirst(f, left[p])
        /\ applied[p][f.version] = None
        /\ file' = [file EXCEPT ![p] = f]
        /\ left' = [left EXCEPT ![p] = @ \ {f}]
    /\ pc' = [pc EXCEPT ![p] = "stmt"]
    /\ UNCHANGED <<book, effects, writer, edition, applied, done, restarts>>

\* The statements of the file so far, which only this transaction sees.
Private(p) == SubSeq(Script[file[p].sum], 1, done[p])

Occurs(stmt, seq) == \E i \in DOMAIN seq : seq[i] = stmt

\* The next statement, which takes or holds the write lock.
Execute(p) ==
    /\ pc[p] = "stmt" /\ done[p] < Len(Script[file[p].sum])
    /\ writer \in {p, Nobody}
    /\ LET stmt == Script[file[p].sum][done[p] + 1] IN
        IF stmt \in Creates /\ Occurs(stmt, effects \o Private(p))
        THEN Raise(p)
        ELSE /\ writer' = p
             /\ done' = [done EXCEPT ![p] = @ + 1]
             /\ UNCHANGED <<book, effects, pc, edition, applied, left, file, restarts>>

\* Slip: INSERT OR REPLACE.
NeverTaken(v) == FALSE

\* `version` is the primary key of _migrations.
RowTaken(v) == book[v] # None

Insert(p) ==
    /\ pc[p] = "stmt" /\ done[p] = Len(Script[file[p].sum])
    /\ writer \in {p, Nobody}
    /\ IF RowTaken(file[p].version)
       THEN Raise(p)
       ELSE /\ writer' = p
            /\ pc' = [pc EXCEPT ![p] = "commit"]
            /\ UNCHANGED <<book, effects, edition, applied, left, file, done, restarts>>

Commit(p) ==
    /\ pc[p] = "commit"
    /\ book' = [book EXCEPT ![file[p].version] = file[p].sum]
    /\ effects' = effects \o Private(p)
    /\ Rollback(p)   \* nothing is left of the transaction
    /\ pc' = [pc EXCEPT ![p] = "next"]
    /\ UNCHANGED <<edition, applied, left, restarts>>

\* Another process has held the lock for the busy timeout, or the statement
\* fails for a reason of its own (a full disk, an error in the SQL).
Fail(p) == InTransaction(p) /\ Raise(p)

Finish(p) ==
    /\ pc[p] = "next" /\ left[p] = {}
    /\ pc' = [pc EXCEPT ![p] = "ready"]
    /\ UNCHANGED <<book, effects, writer, edition, applied, left, file, done, restarts>>

\* The process dies anywhere, or has ended, and is started again, perhaps from
\* another release.
Restart(p) ==
    /\ pc[p] # "start" /\ restarts < MaxRestarts
    /\ restarts' = restarts + 1
    /\ Rollback(p)
    /\ pc' = [pc EXCEPT ![p] = "start"]
    /\ edition' \in {[edition EXCEPT ![p] = e] : e \in Editions}
    /\ left' = [left EXCEPT ![p] = {}]
    /\ UNCHANGED <<book, effects, applied>>

Step(p) ==
    \/ Open(p)
    \/ Skip(p)
    \/ Begin(p)
    \/ Execute(p)
    \/ Insert(p)
    \/ Commit(p)
    \/ Fail(p)
    \/ Finish(p)
    \/ Restart(p)

MigratorNext == \E p \in Procs : Step(p)

MigratorSpec == MigratorInit /\ [][MigratorNext]_migratorVars

-----------------------------------------------------------------------------

\* Types; and a lock is held only by a process inside a transaction, so that a
\* process that raised or died never keeps the others out.
MigratorTypeOK ==
    /\ book \in Books
    /\ effects \in Seq(Statements)
    /\ writer \in Procs \cup {Nobody}
    /\ pc \in [Procs -> {"start", "next", "stmt", "commit", "ready", "raised"}]
    /\ edition \in [Procs -> Editions]
    /\ applied \in [Procs -> Books]
    /\ left \in [Procs -> SUBSET File]
    /\ file \in [Procs -> File \cup {None}]
    /\ done \in [Procs -> Nat]
    /\ restarts \in 0..MaxRestarts
    /\ \A p \in Procs : InTransaction(p) <=> file[p] # None
    /\ writer # Nobody => InTransaction(writer)

\* A process that started finds every migration of its release applied, with
\* the content its release has, although it looked at _migrations only once,
\* before its transactions.  Other processes may meanwhile have migrated the
\* same file from another release.
ReadyMeansMigrated ==
    \A p \in Procs : pc[p] = "ready" =>
        /\ ~ Clashes(edition[p])
        /\ \A f \in edition[p] : book[f.version] = f.sum

Book == INSTANCE SchemaBook

\* However the processes interleave, fail and die, the database goes from one
\* whole migration to the next: its statements take effect once, all of them,
\* with the row that records them, and a row is never changed.
WholeMigrations == Book!Spec
=============================================================================
