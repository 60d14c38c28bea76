---------------------------- MODULE MCVaultNotes ----------------------------
(***************************************************************************)
(* An instance of VaultNotes: the personal memory and the learning notes   *)
(* of one role, with a line in common and a line twice, an agent of the    *)
(* role that writes notes under its team, a day and the week it opens.     *)
(***************************************************************************)
EXTENDS VaultNotes, TLC
CONSTANTS t1, t2

MCTool    == {t1, t2}
MCSource  == << [role |-> "dev", type |-> "report", group |-> [team |-> "", role |-> "dev"]],
                [role |-> "dev", type |-> "feedback", group |-> [team |-> "", role |-> "dev"]] >>
MCLine    == {"a", "b"}
MCMemory0 == << <<"a", "a">>, <<"a">> >>
MCGroup   == {[team |-> "Dev", role |-> "dev"]}
MCPeriod  == {[kind |-> "daily", start |-> 1], [kind |-> "weekly", start |-> 1]}
Symmetry  == Permutations(MCTool)
=============================================================================
