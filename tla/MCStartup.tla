----------------------------- MODULE MCStartup -----------------------------
(* Small instances of Startup.  The roles are alike. *)
EXTENDS Startup, TLC

Symmetry == Permutations(Roles)
=============================================================================
