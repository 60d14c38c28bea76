----------------------------- MODULE MCMigration -----------------------------
\* Small instances of Migration.  The computers are interchangeable, and so are the
\* backups under way on one.
EXTENDS Migration, TLC
Symmetry == Permutations(PC) \cup Permutations(Job)

\* Explored are many backups of one PC, which overlap, and a few in turn of two PCs,
\* with one post, or with two as long as nothing fails.
Alone  == \E p \in PC : \A q \in PC \ {p} : mm[q] = "none" /\ kept[q] = {}
InTurn == \A p \in PC : ~together[p]
Explored == \/ Alone /\ nPosts = 0 /\ nStarts <= 1
            \/ InTurn /\ nBackups <= 2 /\ (nPosts <= 1 \/ (~faulty /\ nCrashes = 0))
=============================================================================
