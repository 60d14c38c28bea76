-------------------------------- MODULE Decide --------------------------------
(***************************************************************************)
(* decide() of app/bogo_runtime.py: from one message to one decision.  The *)
(* official brain is asked first; when it has no usable answer, a loop of  *)
(* LLM calls with read-only tools (ReAct) goes on until the model calls    *)
(* the tool finalize, and one more call (Reflexion) reviews the decision.  *)
(***************************************************************************)
EXTENDS OfficialBrain

CONSTANT REACT_MAX_STEPS

VARIABLES
  REFLEXION_ON,     \* the setting BOGO_REFLEXION
  USE_OFFICIAL,     \* the setting BOGO_USE_OFFICIAL_BRAIN, with the CLI installed
  at,       \* where decide is: "idle", "official", "react", "reflect"
  step,     \* iterations of the ReAct loop
  calls,    \* LLM calls of this decide
  dec,      \* the decision finalized so far
  result    \* how the last decide ended: [kind, by, dec, reviewed]

settings == <<REFLEXION_ON, USE_OFFICIAL>>
loopVars == <<at, step, calls, dec, result>>
vars == <<settings, brainVars, loopVars>>

LLM_CALL_HARD_CAP == REACT_MAX_STEPS + 2

\* What the program tells apart in a decision: whether it passes _validate, and
\* whether self_check finds that it contradicts a correction.  Unreadable
\* arguments of finalize make a valid decision to keep silent.
Decision   == [valid: BOOLEAN, conflict: BOOLEAN]
NoDecision == [valid |-> FALSE, conflict |-> FALSE]
Result     == [kind: {"none", "returned", "raised"}, by: {"official", "fallback"},
               dec: Decision, reviewed: BOOLEAN]

ASSUME DecideOK == REACT_MAX_STEPS \in Nat \ {0}

Init == /\ BrainInit
        /\ REFLEXION_ON \in BOOLEAN /\ USE_OFFICIAL \in BOOLEAN
        /\ at = "idle" /\ step = 0 /\ calls = 0 /\ dec = NoDecision
        /\ result = [kind |-> "none", by |-> "official", dec |-> NoDecision, reviewed |-> FALSE]

_validate(d)  == d.valid
self_check(d) == d.conflict

Ends(kind, by, d, reviewed) ==
  /\ at' = "idle" /\ dec' = NoDecision
  /\ result' = [kind |-> kind, by |-> by, dec |-> d, reviewed |-> reviewed]

Raises == Ends("raised", "fallback", NoDecision, FALSE)

\* A message comes; reading the room's history may raise, before anything else.
Message ==
  /\ at = "idle" /\ turn < MaxTurns
  /\ turn' = turn + 1 /\ step' = 0 /\ calls' = 0
  /\ \/ Raises /\ UNCHANGED ask
     \/ /\ at' = (IF USE_OFFICIAL THEN "official" ELSE "react")
        /\ ask' = (IF USE_OFFICIAL THEN "home" ELSE ask)
        /\ UNCHANGED <<dec, result>>
  /\ UNCHANGED <<cliVars, ready, faulty, deaths, prunes>>

AskOfficial == at = "official" /\ call_official_brain /\ UNCHANGED loopVars

\* The output may hold no JSON object, or one that breaks the schema: then the
\* fallback takes over, which reads the history again.  A contradiction is logged.
OfficialEnds ==
  /\ at = "official" /\ ask \in {"out", "none"}
  /\ ask' = "idle"
  /\ \/ /\ ask = "out"
        /\ \E d \in Decision : _validate(d) /\ Ends("returned", "official", d, FALSE)
     \/ at' = "react" /\ UNCHANGED <<dec, result>>
     \/ Raises
  /\ UNCHANGED <<cliVars, ready, turn, faulty, deaths, prunes, step, calls>>

-----------------------------------------------------------------------------
\* The list calls holds one counter, so that its length is 1 whatever it counts.
CapReached == 1 >= LLM_CALL_HARD_CAP

\* Slip: the loop goes on until there is a decision.
MoreSteps_unlimited == ~CapReached

MoreSteps == step < REACT_MAX_STEPS /\ ~CapReached

\* A text without a tool call, or calls of read tools only: the next iteration.
NoTool == /\ at' = "react" /\ step' = step + 1 /\ calls' = calls + 1
          /\ UNCHANGED <<dec, result>>

\* finalize ends the loop at once, before any tool call that follows it.
Finalize == \E d \in Decision :
  /\ step' = step + 1 /\ calls' = calls + 1
  /\ \/ ~_validate(d) /\ Raises
     \/ /\ _validate(d) /\ (self_check(d) \/ REFLEXION_ON)
        /\ at' = "reflect" /\ dec' = d /\ UNCHANGED result
     \/ /\ _validate(d) /\ ~(self_check(d) \/ REFLEXION_ON)
        /\ Ends("returned", "fallback", d, FALSE)

\* The LLM call fails, or a tool that reads the history does.
ReactFails == Raises /\ step' = step + 1 /\ calls' = calls + 1

_react_loop ==
  /\ at = "react"
  /\ IF MoreSteps THEN NoTool \/ Finalize \/ ReactFails
                  ELSE Raises /\ UNCHANGED <<step, calls>>
  /\ UNCHANGED brainVars

\* Slip: the reviewed decision is not validated again.
Reviewed_unchecked(d) == TRUE

\* The review replaces the decision only by a valid one; a call that fails or does
\* not finalize keeps it.
Reviewed(d) == d = dec \/ _validate(d)

_reflexion_pass ==
  /\ at = "reflect" /\ ~CapReached
  /\ \E d \in Decision : Reviewed(d) /\ Ends("returned", "fallback", d, TRUE)
  /\ calls' = calls + 1
  /\ UNCHANGED <<brainVars, step>>

\* A process reads its settings when it starts.
Die == /\ Dies
       /\ REFLEXION_ON' \in BOOLEAN /\ USE_OFFICIAL' \in BOOLEAN
       /\ at' = "idle" /\ dec' = NoDecision /\ UNCHANGED <<step, calls, result>>

decide == /\ Message \/ AskOfficial \/ OfficialEnds \/ _react_loop \/ _reflexion_pass
          /\ UNCHANGED settings

Next == decide \/ Die \/ (Prune /\ UNCHANGED <<settings, loopVars>>)

\* Every CLI call and every LLM call has a timeout.
Spec == Init /\ [][Next]_vars /\ WF_vars(decide)

-----------------------------------------------------------------------------
TypeOK ==
  /\ BrainTypeOK /\ REFLEXION_ON \in BOOLEAN /\ USE_OFFICIAL \in BOOLEAN
  /\ at \in {"idle", "official", "react", "reflect"}
  /\ step \in Nat /\ calls \in Nat /\ dec \in Decision /\ result \in Result

\* A decide never makes more LLM calls than the loop's iterations and one review,
\* less than LLM_CALL_HARD_CAP, although the code's own test of that cap
\* (len(calls), :549 and :589) can never be true.
CallsBounded == calls <= REACT_MAX_STEPS + 1 /\ calls < LLM_CALL_HARD_CAP

\* What decide returns has passed _validate, whichever brain answered, and after the
\* review too; and the fallback returns a contradiction of a correction only when
\* the review has looked at it.
ReturnsValid ==
  result.kind = "returned" =>
    /\ _validate(result.dec)
    /\ result.by = "fallback" /\ self_check(result.dec) => result.reviewed

\* decide always comes to an end, with a decision or an exception.
Decides == at # "idle" ~> at = "idle"
=============================================================================
