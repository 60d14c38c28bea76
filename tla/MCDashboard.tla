---------------------------- MODULE MCDashboard -----------------------------
(***************************************************************************)
(* An instance of Dashboard: one browser with two requests at once, the    *)
(* boss, an administrator for Mattermost too, and an employee, who has no  *)
(* channels when only Mattermost vouches for him.                          *)
(***************************************************************************)
EXTENDS Dashboard
CONSTANTS none

MCMMRole == [u \in User |-> IF u = "boss" THEN "ceo" ELSE "staff"]
Boss     == [role |-> "ceo", channels |-> {}]
Employee == [role |-> "staff", channels |-> {"dev"}]
MCFiles  == {[u \in User |-> IF u = "boss" THEN Boss ELSE Employee]}
=============================================================================
