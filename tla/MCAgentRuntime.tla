--------------------------- MODULE MCAgentRuntime ---------------------------
(* Small instances of AgentRuntime: the orchestrator and the HR agent. *)
EXTENDS AgentRuntime, TLC

CONSTANTS orch, hr,              \* roles
          Team, Line, Study      \* HR's room, the report line, HR's learning room

Say(room, kind) == [room |-> room, kind |-> kind]
D(ack, target, named, memo, bad) ==
  [act |-> TRUE, ack |-> ack, target |-> target, mentions |-> named, memo |-> memo, bad |-> bad]

\* Two agents that meet on the report line.  The orchestrator's bot also sits in
\* HR's room, whose posts its process must ignore and where it may not write.
PairRoles     == {orch, hr}
PairRooms     == {Team, Line}
PairSubs      == orch :> {Line} @@ hr :> {Team, Line}
PairMembers   == [c \in PairRooms |-> PairRoles]
PairLearn     == [r \in PairRoles |-> Line]
PairSpeech    == {Say(Team, "talk"), Say(Line, "edit")}
\* Brains that keep silent, that acknowledge and reply naming the other agent,
\* that write to HR's room, and whose reply text is not a string.
PairDecisions == {NoDecision, D(Line, Line, PairRoles, "none", "none"),
                  D(NoRoom, Team, {}, "none", "none"),
                  D(Line, Line, {}, "none", "reply")}

\* One agent alone with its humans.
SoloRoles   == {hr}
SoloRooms   == {Team, Study}
SoloSubs    == hr :> {Team, Study}
SoloMembers == [c \in SoloRooms |-> SoloRoles]
SoloLearn   == hr :> Study
TalkSpeech    == {Say(Team, "talk")}
\* One that is worth a memo, and one whose reply text is not a string.
BurstDecisions == {NoDecision, D(Team, Team, {}, "memo", "none"), D(NoRoom, Team, {}, "none", "reply")}
=============================================================================
