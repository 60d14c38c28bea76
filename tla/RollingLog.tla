----------------------------- MODULE RollingLog -----------------------------
(***************************************************************************)
(* What a rolling memory promises: a log that a line is appended to at     *)
(* once and that keeps the last KEEP of them; only the death of the        *)
(* process that writes it may empty it.                                    *)
(***************************************************************************)
EXTENDS Integers, Sequences

CONSTANTS Logs, KEEP

VARIABLES
  log,      \* log[f]: the lines, oldest first
  losses    \* losses[f]: deaths of f's writer in the middle of a save

Rolled(s) == IF Len(s) <= KEEP THEN s ELSE SubSeq(s, Len(s) - KEEP + 1, Len(s))

Init == log = [f \in Logs |-> <<>>] /\ losses = [f \in Logs |-> 0]

\* Lines are numbered in the order in which they are added.
Add(f) == LET x == log'[f][Len(log'[f])] IN
          /\ log'[f] # <<>> /\ x \in Nat
          /\ \A i \in DOMAIN log[f] : log[f][i] < x
          /\ log' = [log EXCEPT ![f] = Rolled(Append(@, x))]
          /\ UNCHANGED losses

Lose(f) == /\ log' = [log EXCEPT ![f] = <<>>]
           /\ losses' = [losses EXCEPT ![f] = @ + 1]

Spec == Init /\ [][\E f \in Logs : Add(f) \/ Lose(f)]_<<log, losses>>
=============================================================================
