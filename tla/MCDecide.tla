------------------------------ MODULE MCDecide ------------------------------
\* Small instances of Decide and LearnNote: one role's process that decides, or that
\* is taught ordinary lines and corrections.  Its brain and its learning note share
\* nothing, so one run explores each by itself.
EXTENDS Decide, LearnNote
CONSTANTS g1, g2, g3, g4, k1, k2, k3

SmallCorrections == {k1, k2, k3}
SmallLines == {g1, g2, g3, g4} \cup SmallCorrections

Unasked  == turn = 0 /\ deaths = 0 /\ prunes = 0 /\ REFLEXION_ON /\ USE_OFFICIAL
Untaught == notes = <<>> /\ pc = "idle" /\ last = NoLine /\ crashes = 0

Learns == Unasked /\ LearnNext /\ UNCHANGED vars
Asked(A) == Untaught /\ A /\ UNCHANGED learnVars

MCInit == Init /\ LearnInit
MCNext == Asked(Next) \/ Learns
MCSpec == MCInit /\ [][MCNext]_<<vars, learnVars>> /\ WF_<<vars, learnVars>>(Asked(decide))
=============================================================================
