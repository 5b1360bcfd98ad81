---------------------------- MODULE SchemaBook ----------------------------
\* What storage/migrator.py promises of one database: a migration is applied as
\* a whole, together with its row in _migrations, and never a second time.
EXTENDS Naturals, Sequences

CONSTANTS
    MaxVersion,  \* migrations are numbered 1..MaxVersion
    Sums,        \* contents of migration files, told apart by their checksums
    Script,      \* the statements of each content, in order
    None         \* no row for that version

VARIABLES
    book,        \* _migrations: version -> checksum, or None
    effects      \* the statements that have changed the database, in order

Init ==
    /\ book = [v \in 1..MaxVersion |-> None]
    /\ effects = << >>

\* One migration, all of it.
Migrate(v, s) ==
    /\ book[v] = None
    /\ book' = [book EXCEPT ![v] = s]
    /\ effects' = effects \o Script[s]

Next == \E v \in 1..MaxVersion, s \in Sums : Migrate(v, s)

Spec == Init /\ [][Next]_<<book, effects>>
=============================================================================
