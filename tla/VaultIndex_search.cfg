CONSTANTS
  Path <- MCPath
  NoFile = NoFile
  Agent = {"bot"}
  Rebuilder = {"cli"}
  Embeds = {"bot"}
  Content <- MCContent
  Matches <- MCMatches
  Role <- MCRole
  Team <- MCTeam
  MaxWrites = 2
  MaxRebuilds = 1
  MaxCrashes = 1
SPECIFICATION FairSpec
INVARIANTS
  TypeOK
  TablesAgree
  CacheFresh
  SearchExact
  RowidsNameOneNote
PROPERTIES
  CatchesUp
