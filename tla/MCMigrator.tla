----------------------------- MODULE MCMigrator -----------------------------
EXTENDS Migrator, TLC

\* s1 and s2 are 0001 and 0002; e1 is 0001 after an edit; d is a data migration,
\* whose statements may be repeated.
MCScript == [s1 |-> <<"secrets">>,
             e1 |-> <<"secrets", "extra">>,
             s2 |-> <<"failures", "index">>,
             d  |-> <<"backfill">>]

Row(v, s) == [version |-> v, sum |-> s]

MCSums == DOMAIN MCScript

MCStatements == {"secrets", "extra", "failures", "index", "backfill"}

MCCreates == MCStatements \ {"backfill"}

\* The first release, the next ones, one with an edited file, one with two
\* files of one number.
MCEditions == { {Row(1, "s1")},
                {Row(1, "s1"), Row(2, "s2"), Row(3, "d")},
                {Row(1, "e1"), Row(3, "d")},
                {Row(1, "s1"), Row(1, "e1")} }

Symmetry == Permutations(Procs)
=============================================================================
