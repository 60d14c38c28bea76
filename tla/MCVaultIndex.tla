---------------------------- MODULE MCVaultIndex ----------------------------
\* Two notes, an agent of the development team with a model and the command line
\* without, and contents of each level: given, missing and not a text; a note that
\* is not UTF-8, and one with a list among its fields.
EXTENDS VaultIndex
Is(type, role, team, visibility, form) ==
  [type |-> type, role |-> role, team |-> team, visibility |-> visibility, form |-> form]
MCMatches == {Is("report", "hr", "Dev", "private", "good")}
MCContent == MCMatches \cup {Is("policy", "hr", "HR", "", "good"),
                             Is("report", "dev", "Dev", NotText, "good"),
                             Is("report", "dev", "Dev", "", "bytes"),
                             Is("report", "dev", "Dev", "", "list")}
MCPath == <<"a.md", "b.md">>
MCRole == [p \in Agent |-> "dev"]
MCTeam == [p \in Agent |-> "Dev"]
=============================================================================
