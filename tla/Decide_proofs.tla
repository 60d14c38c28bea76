---------------------------- MODULE Decide_proofs ----------------------------
(***************************************************************************)
(* Proofs about Decide: bounded LLM calls, validated decisions, no message *)
(* asked more than twice and one session for all turns, for any number of  *)
(* messages, iterations, deaths and failing calls.  And about LearnNote,   *)
(* what the role has been taught: the note keeps its limits, its newest    *)
(* line and the order of forgetting, for any lines and limits.  What the   *)
(* folds of the note compute is proved by induction over the lines.        *)
(***************************************************************************)
EXTENDS Decide, LearnNote, FiniteSetTheorems, SequenceTheorems, WellFoundedInduction, TLAPS

\* While decide is under way it has made one LLM call per iteration.
CallsCounted == /\ calls <= REACT_MAX_STEPS + 1
                /\ at # "idle" => calls = step /\ step <= REACT_MAX_STEPS

\* What waits for its review has been validated.
ReviewsValid == at = "reflect" => _validate(dec)

\* A new session is made only when there is no titled one, or a call has failed.
CreatesWhenNone == ask = "create" => faulty \/ titled = {}

IInv == TypeOK /\ CallsCounted /\ ReviewsValid /\ ReturnsValid /\ CreatesWhenNone

-----------------------------------------------------------------------------
\* A turn that a session takes leaves sets of turns and sessions.
LEMMA TakesType ==
  ASSUME BrainTypeOK, NEW s \in Nat, Takes(s)
  PROVE  /\ home' \in BOOLEAN /\ memories' \subseteq Nat /\ newest' \in Nat
         /\ taken' \subseteq [turn: Nat, session: Nat]
BY DEF BrainTypeOK, Takes

\* A step of the official brain keeps the types of its variables.
LEMMA BrainType == ASSUME BrainTypeOK, call_official_brain PROVE BrainTypeOK'
<1> USE DEF BrainTypeOK, Works, Fails, Asking, cliVars
<1>1. CASE _ensure_role_home
  BY <1>1 DEF _ensure_role_home
<1>2. CASE List
  BY <1>2 DEF List
<1>3. CASE Continue
  <2>1. ASSUME NEW s \in titled, Takes(s) PROVE BrainTypeOK'
    <3>1. /\ home' \in BOOLEAN /\ memories' \subseteq Nat /\ newest' \in Nat
          /\ taken' \subseteq [turn: Nat, session: Nat]
      BY <2>1, TakesType
    <3> QED BY <1>3, <3>1 DEF Continue
  <2>2. CASE UNCHANGED <<home, memories, taken, newest>>
    BY <1>3, <2>2 DEF Continue
  <2> QED BY <1>3, <2>1, <2>2 DEF Continue
<1>4. CASE Create
  <2>1. CASE Takes(nSessions + 1) /\ nSessions' = nSessions + 1
    <3>1. /\ home' \in BOOLEAN /\ memories' \subseteq Nat /\ newest' \in Nat
          /\ taken' \subseteq [turn: Nat, session: Nat]
      BY <2>1, TakesType
    <3>2. /\ ask' \in {"name", "none"}
          /\ UNCHANGED <<titled, ready, turn, deaths, prunes>>
          /\ faulty' = faulty \/ faulty' = TRUE
      BY <1>4, <2>1 DEF Create
    <3>3. nSessions' \in Nat BY <2>1
    <3>4. faulty' \in BOOLEAN BY <3>2
    <3> QED BY <3>1, <3>2, <3>3, <3>4
  <2>2. CASE UNCHANGED <<home, memories, taken, newest, nSessions>>
    BY <1>4, <2>2 DEF Create
  <2> QED BY <1>4, <2>1, <2>2 DEF Create
<1>5. CASE _name_session
  BY <1>5 DEF _name_session
<1> QED BY <1>1, <1>2, <1>3, <1>4, <1>5 DEF call_official_brain

\* The brain comes to make a new session only from a list or a session without the
\* title, or after a failure.
LEMMA BrainCreates ==
  ASSUME BrainTypeOK, CreatesWhenNone, call_official_brain PROVE CreatesWhenNone'
<1> USE DEF CreatesWhenNone, Works, Fails, cliVars
<1>1. CASE _ensure_role_home BY <1>1 DEF _ensure_role_home
<1>2. CASE List BY <1>2 DEF List, session_exists
<1>3. CASE Continue BY <1>3 DEF Continue
<1>4. CASE Create BY <1>4 DEF Create
<1>5. CASE _name_session BY <1>5 DEF _name_session
<1> QED BY <1>1, <1>2, <1>3, <1>4, <1>5 DEF call_official_brain

\* However decide ends, its result has the type of a result.
LEMMA EndsType ==
  ASSUME NEW kind \in {"none", "returned", "raised"}, NEW by \in {"official", "fallback"},
         NEW d \in Decision, NEW reviewed \in BOOLEAN, Ends(kind, by, d, reviewed)
  PROVE  /\ at' = "idle" /\ dec' \in Decision /\ result' \in Result
         /\ result'.kind = kind /\ result'.by = by /\ result'.dec = d
         /\ result'.reviewed = reviewed
BY DEF Ends, Result, Decision, NoDecision

\* An exception ends decide without a decision.
LEMMA RaisesType ==
  ASSUME Raises
  PROVE  /\ at' = "idle" /\ dec' \in Decision /\ result' \in Result
         /\ result'.kind = "raised"
<1>1. NoDecision \in Decision BY DEF NoDecision, Decision
<1> QED BY <1>1, EndsType DEF Raises

-----------------------------------------------------------------------------
\* The variables start with their types and nothing decided.
LEMMA InvInit == Init => IInv
<1> SUFFICES ASSUME Init PROVE IInv
    OBVIOUS
<1>1. TypeOK BY DEF Init, BrainInit, TypeOK, BrainTypeOK, Asking, Result, Decision, NoDecision
<1>2. CallsCounted BY DecideOK DEF Init, CallsCounted
<1>3. ReviewsValid /\ ReturnsValid BY DEF Init, ReviewsValid, ReturnsValid
<1>4. CreatesWhenNone BY DEF Init, BrainInit, CreatesWhenNone
<1> QED BY <1>1, <1>2, <1>3, <1>4 DEF IInv

\* A new message resets the counters.
LEMMA MessageStep == ASSUME IInv, Message, UNCHANGED settings PROVE IInv'
<1>1. /\ turn' \in Nat /\ step' = 0 /\ calls' = 0
      /\ UNCHANGED <<cliVars, ready, faulty, deaths, prunes, settings>>
  BY DEF Message, IInv, TypeOK, BrainTypeOK
<1>2. CASE Raises /\ UNCHANGED ask
  <2>1. TypeOK' BY <1>1, <1>2, RaisesType DEF IInv, TypeOK, BrainTypeOK, cliVars, settings
  <2>2. CallsCounted' BY <1>1, DecideOK DEF CallsCounted
  <2>3. ReviewsValid' /\ ReturnsValid' BY <1>2, RaisesType DEF ReviewsValid, ReturnsValid
  <2>4. CreatesWhenNone' BY <1>1, <1>2 DEF IInv, CreatesWhenNone, cliVars
  <2> QED BY <2>1, <2>2, <2>3, <2>4 DEF IInv
<1>3. CASE /\ at' = (IF USE_OFFICIAL THEN "official" ELSE "react")
           /\ ask' = (IF USE_OFFICIAL THEN "home" ELSE ask)
           /\ UNCHANGED <<dec, result>>
  <2>1. TypeOK' BY <1>1, <1>3 DEF IInv, TypeOK, BrainTypeOK, cliVars, settings, Asking
  <2>2. CallsCounted' BY <1>1, DecideOK DEF CallsCounted
  <2>3. ReviewsValid' /\ ReturnsValid'
    BY <1>3 DEF IInv, ReviewsValid, ReturnsValid, _validate, self_check
  <2>4. CreatesWhenNone' BY <1>1, <1>3 DEF IInv, CreatesWhenNone, cliVars
  <2> QED BY <2>1, <2>2, <2>3, <2>4 DEF IInv
<1> QED BY <1>2, <1>3 DEF Message

\* The official brain is asked.
LEMMA OfficialStep == ASSUME IInv, AskOfficial, UNCHANGED settings PROVE IInv'
<1>1. call_official_brain /\ UNCHANGED <<loopVars, settings>> BY DEF AskOfficial
<1>2. BrainTypeOK' BY <1>1, BrainType DEF IInv, TypeOK
<1>3. TypeOK' BY <1>1, <1>2 DEF IInv, TypeOK, loopVars, settings
<1>4. CallsCounted' BY <1>1 DEF IInv, CallsCounted, loopVars
<1>5. ReviewsValid' /\ ReturnsValid'
  BY <1>1 DEF IInv, ReviewsValid, ReturnsValid, loopVars, _validate, self_check
<1>6. CreatesWhenNone' BY <1>1, BrainCreates DEF IInv, TypeOK
<1> QED BY <1>3, <1>4, <1>5, <1>6 DEF IInv

\* The official brain has answered or given up.
LEMMA OfficialEndsStep == ASSUME IInv, OfficialEnds, UNCHANGED settings PROVE IInv'
<1>1. /\ ask' = "idle" /\ at = "official"
      /\ UNCHANGED <<cliVars, ready, turn, faulty, deaths, prunes, step, calls, settings>>
  BY DEF OfficialEnds
<1>2. CreatesWhenNone' BY <1>1 DEF CreatesWhenNone
<1>3. CallsCounted' BY <1>1 DEF IInv, CallsCounted
<1> DEFINE Good == /\ at' \in {"idle", "react"} /\ dec' \in Decision /\ result' \in Result
                   /\ ReviewsValid' /\ ReturnsValid'
<1>4. Good
  <2>1. ASSUME NEW d \in Decision, _validate(d), Ends("returned", "official", d, FALSE)
        PROVE  Good
    BY <2>1, EndsType DEF ReviewsValid, ReturnsValid, _validate
  <2>2. CASE at' = "react" /\ UNCHANGED <<dec, result>>
    BY <2>2 DEF IInv, TypeOK, ReviewsValid, ReturnsValid, _validate, self_check
  <2>3. CASE Raises
    BY <2>3, RaisesType DEF ReviewsValid, ReturnsValid
  <2> QED BY <2>1, <2>2, <2>3 DEF OfficialEnds
<1>5. TypeOK' BY <1>1, <1>4 DEF IInv, TypeOK, BrainTypeOK, cliVars, settings, Asking
<1> QED BY <1>2, <1>3, <1>4, <1>5 DEF IInv

\* One iteration of the loop.
LEMMA ReactStep == ASSUME IInv, _react_loop, UNCHANGED settings PROVE IInv'
<1>1. /\ at = "react" /\ UNCHANGED <<brainVars, settings>> /\ step \in Nat /\ calls \in Nat
      /\ calls = step /\ step <= REACT_MAX_STEPS /\ REACT_MAX_STEPS \in Nat
  BY DecideOK DEF _react_loop, IInv, TypeOK, CallsCounted
<1>2. CreatesWhenNone' BY <1>1 DEF IInv, CreatesWhenNone, brainVars, cliVars
<1>3. /\ CallsCounted' /\ step' \in Nat /\ calls' \in Nat
  <2>1. CASE MoreSteps
    <3>1. step < REACT_MAX_STEPS /\ step' = step + 1 /\ calls' = calls + 1
      BY <2>1 DEF _react_loop, MoreSteps, NoTool, Finalize, ReactFails
    <3> QED BY <1>1, <3>1 DEF CallsCounted
  <2>2. CASE ~MoreSteps
    BY <1>1, <2>2 DEF _react_loop, CallsCounted
  <2> QED BY <2>1, <2>2
<1> DEFINE Good == /\ at' \in {"idle", "react", "reflect"} /\ dec' \in Decision
                   /\ result' \in Result /\ ReviewsValid' /\ ReturnsValid'
<1>4. Good
  <2>1. CASE NoTool
    BY <2>1 DEF NoTool, IInv, TypeOK, ReviewsValid, ReturnsValid, _validate, self_check
  <2>2. CASE Raises
    BY <2>2, RaisesType DEF ReviewsValid, ReturnsValid
  <2>3. ASSUME NEW d \in Decision, _validate(d), at' = "reflect", dec' = d, UNCHANGED result
        PROVE  Good
    BY <2>3 DEF IInv, TypeOK, ReviewsValid, ReturnsValid, _validate, self_check
  <2>4. ASSUME NEW d \in Decision, _validate(d), ~(self_check(d) \/ REFLEXION_ON),
               Ends("returned", "fallback", d, FALSE)
        PROVE  Good
    BY <2>4, EndsType DEF ReviewsValid, ReturnsValid, _validate, self_check
  <2> QED BY <2>1, <2>2, <2>3, <2>4 DEF _react_loop, Finalize, ReactFails
<1>5. TypeOK' BY <1>1, <1>3, <1>4 DEF IInv, TypeOK, BrainTypeOK, brainVars, cliVars, settings
<1> QED BY <1>2, <1>3, <1>4, <1>5 DEF IInv

\* The review.
LEMMA ReflexionStep == ASSUME IInv, _reflexion_pass, UNCHANGED settings PROVE IInv'
<1>1. /\ at = "reflect" /\ UNCHANGED <<brainVars, settings, step>> /\ step \in Nat
      /\ calls \in Nat /\ calls' = calls + 1 /\ calls = step /\ step <= REACT_MAX_STEPS
      /\ REACT_MAX_STEPS \in Nat
  BY DecideOK DEF _reflexion_pass, IInv, TypeOK, CallsCounted
<1>2. PICK d \in Decision : Reviewed(d) /\ Ends("returned", "fallback", d, TRUE)
  BY DEF _reflexion_pass
<1>3. _validate(d) BY <1>1, <1>2 DEF Reviewed, IInv, ReviewsValid, _validate
<1>4. /\ at' = "idle" /\ dec' \in Decision /\ result' \in Result
      /\ ReviewsValid' /\ ReturnsValid'
  BY <1>2, <1>3, EndsType DEF ReviewsValid, ReturnsValid, _validate, self_check
<1>5. CallsCounted' BY <1>1, <1>4 DEF CallsCounted
<1>6. CreatesWhenNone' BY <1>1 DEF IInv, CreatesWhenNone, brainVars, cliVars
<1>7. TypeOK' BY <1>1, <1>4 DEF IInv, TypeOK, BrainTypeOK, brainVars, cliVars, settings
<1> QED BY <1>4, <1>5, <1>6, <1>7 DEF IInv

\* The process dies, the session list is cleared, or nothing happens.
LEMMA OutsideStep ==
  ASSUME IInv, Die \/ (Prune /\ UNCHANGED <<settings, loopVars>>) \/ UNCHANGED vars
  PROVE  IInv'
<1>1. CASE Die
  <2>1. NoDecision \in Decision BY DEF NoDecision, Decision
  <2>2. TypeOK'
    <3>1. BrainTypeOK'
      <4>1. deaths \in Nat /\ deaths' = deaths + 1
        BY <1>1 DEF Die, Dies, IInv, TypeOK, BrainTypeOK
      <4>2. deaths' \in Nat BY <4>1
      <4>3. ready' = FALSE /\ ask' = "idle" /\ UNCHANGED <<cliVars, turn, faulty, prunes>>
        BY <1>1 DEF Die, Dies
      <4> QED BY <4>2, <4>3 DEF IInv, TypeOK, BrainTypeOK, cliVars, Asking
    <3>2. /\ at' = "idle" /\ dec' \in Decision /\ UNCHANGED <<step, calls, result>>
          /\ REFLEXION_ON' \in BOOLEAN /\ USE_OFFICIAL' \in BOOLEAN
      BY <1>1, <2>1 DEF Die
    <3> QED BY <3>1, <3>2 DEF IInv, TypeOK
  <2>3. CallsCounted' BY <1>1 DEF Die, IInv, CallsCounted
  <2>4. ReviewsValid' /\ ReturnsValid'
    BY <1>1 DEF Die, IInv, ReviewsValid, ReturnsValid, _validate, self_check
  <2>5. CreatesWhenNone' BY <1>1 DEF Die, Dies, CreatesWhenNone
  <2> QED BY <2>2, <2>3, <2>4, <2>5 DEF IInv
<1>2. CASE Prune /\ UNCHANGED <<settings, loopVars>>
  <2>1. TypeOK' BY <1>2 DEF Prune, IInv, TypeOK, BrainTypeOK, settings, loopVars
  <2>2. CallsCounted' BY <1>2 DEF IInv, CallsCounted, loopVars
  <2>3. ReviewsValid' /\ ReturnsValid'
    BY <1>2 DEF IInv, ReviewsValid, ReturnsValid, loopVars, _validate, self_check
  <2>4. CreatesWhenNone' BY <1>2 DEF Prune, CreatesWhenNone
  <2> QED BY <2>1, <2>2, <2>3, <2>4 DEF IInv
<1>3. CASE UNCHANGED vars
  BY <1>3 DEF vars, brainVars, cliVars, settings, loopVars, IInv, TypeOK, BrainTypeOK,
              CallsCounted, ReviewsValid, ReturnsValid, CreatesWhenNone, _validate, self_check
<1> QED BY <1>1, <1>2, <1>3

\* Every step keeps the invariant.
LEMMA InvStep == IInv /\ [Next]_vars => IInv'
<1> SUFFICES ASSUME IInv, [Next]_vars PROVE IInv'
    OBVIOUS
<1>1. CASE decide
  BY <1>1, MessageStep, OfficialStep, OfficialEndsStep, ReactStep, ReflexionStep DEF decide
<1>2. CASE ~decide
  BY <1>2, OutsideStep DEF Next
<1> QED BY <1>1, <1>2

\* The invariant of every behaviour.
LEMMA Inv == Spec => []IInv
BY InvInit, InvStep, PTL DEF Spec

-----------------------------------------------------------------------------
\* The variables of decide and of the official brain always have their types.
THEOREM TypeCorrect == Spec => []TypeOK
<1>1. IInv => TypeOK BY DEF IInv
<1> QED BY <1>1, Inv, PTL

\* For any REACT_MAX_STEPS: no decide makes as many LLM calls as LLM_CALL_HARD_CAP
\* (_react_loop and _reflexion_pass), although the cap itself is never tested.
THEOREM Bounded == Spec => []CallsBounded
<1>1. IInv => CallsBounded
  <2> SUFFICES ASSUME IInv PROVE CallsBounded
      OBVIOUS
  <2>1. calls \in Nat /\ calls <= REACT_MAX_STEPS + 1 /\ REACT_MAX_STEPS \in Nat
    BY DecideOK DEF IInv, TypeOK, CallsCounted
  <2> QED BY <2>1 DEF CallsBounded, LLM_CALL_HARD_CAP
<1> QED BY <1>1, Inv, PTL

\* Whatever the brains answer: decide returns only what passes _validate, and no
\* contradiction of a correction that the fallback has not reviewed.
THEOREM Validated == Spec => []ReturnsValid
<1>1. IInv => ReturnsValid BY DEF IInv
<1> QED BY <1>1, Inv, PTL

\* For any number of messages, processes and cleared lists: as long as no CLI call
\* fails, every turn is taken by the session with the title once there is one
\* (call_official_brain).
THEOREM OneSession == Spec => StaysInSession
<1> DEFINE Stays == \A e \in taken' \ taken : titled # {} /\ ~faulty' => e.session \in titled
<1>1. IInv /\ [Next]_vars => [Stays]_brainVars
  <2> SUFFICES ASSUME IInv, Next PROVE Stays
      BY DEF vars
  <2> SUFFICES ASSUME NEW e \in taken' \ taken, titled # {}, ~faulty' PROVE e.session \in titled
      OBVIOUS
  <2>1. AskOfficial
    BY DEF Next, decide, Message, OfficialEnds, _react_loop, _reflexion_pass, Die, Dies, Prune,
           brainVars, cliVars
  <2>2. CASE Continue
    <3>1. PICK s \in titled : Takes(s) BY <2>2 DEF Continue
    <3> QED BY <3>1 DEF Takes
  <2>3. CASE Create
    BY <2>3 DEF Create, Works, Fails, IInv, CreatesWhenNone
  <2>4. CASE _ensure_role_home \/ List \/ _name_session
    BY <2>4 DEF _ensure_role_home, List, _name_session, cliVars
  <2> QED BY <2>1, <2>2, <2>3, <2>4 DEF AskOfficial, call_official_brain
<1> QED BY <1>1, Inv, PTL DEF Spec, StaysInSession

-----------------------------------------------------------------------------
(* No message is asked more than twice *)

TurnsOf(t) == {f \in taken : f.turn = t}

\* No turn is to come that a session has taken, none was taken more than twice, and
\* the place in call_official_brain says how often the current one was.
AskedInv ==
  /\ \A e \in taken : e.turn <= turn
  /\ \A t \in Nat : IsFiniteSet(TurnsOf(t)) /\ Cardinality(TurnsOf(t)) <= 2
  /\ ask \in {"home", "list", "continue"} => TurnsOf(turn) = {}
  /\ ask = "create" => Cardinality(TurnsOf(turn)) <= 1

\* A call adds one taker to the current turn and none to another.
LEMMA TakesOne ==
  ASSUME BrainTypeOK, AskedInv, NEW s \in Nat, Takes(s), turn' = turn,
         Cardinality(TurnsOf(turn)) <= 1
  PROVE  /\ \A e \in taken' : e.turn <= turn'
         /\ \A t \in Nat : IsFiniteSet(TurnsOf(t)') /\ Cardinality(TurnsOf(t)') <= 2
         /\ Cardinality(TurnsOf(turn)') <= Cardinality(TurnsOf(turn)) + 1
<1> DEFINE e == [turn |-> turn, session |-> s]
<1>1. taken' = taken \cup {e} /\ turn \in Nat /\ taken \subseteq [turn: Nat, session: Nat]
  BY DEF Takes, BrainTypeOK
<1>2. \A f \in taken' : f.turn <= turn'
  BY <1>1 DEF AskedInv
<1>3. ASSUME NEW t \in Nat, t # turn PROVE TurnsOf(t)' = TurnsOf(t)
  BY <1>1, <1>3 DEF TurnsOf
<1>4. TurnsOf(turn)' = TurnsOf(turn) \cup {e}
  BY <1>1 DEF TurnsOf
<1>5. IsFiniteSet(TurnsOf(turn)) /\ Cardinality(TurnsOf(turn)) \in Nat
  BY <1>1, FS_CardinalityType DEF AskedInv
<1> HIDE DEF e
<1>6. /\ IsFiniteSet(TurnsOf(turn)')
      /\ Cardinality(TurnsOf(turn)') <= Cardinality(TurnsOf(turn)) + 1
  <2>1. /\ IsFiniteSet(TurnsOf(turn) \cup {e})
        /\ \/ Cardinality(TurnsOf(turn) \cup {e}) = Cardinality(TurnsOf(turn))
           \/ Cardinality(TurnsOf(turn) \cup {e}) = Cardinality(TurnsOf(turn)) + 1
    BY <1>5, FS_AddElement
  <2> QED BY <1>4, <1>5, <2>1
<1>7. IsFiniteSet(TurnsOf(turn)') /\ Cardinality(TurnsOf(turn)') <= 2
  <2>1. Cardinality(TurnsOf(turn)') \in Nat
    BY <1>6, FS_CardinalityType
  <2> QED BY <1>5, <1>6, <2>1
<1>8. ASSUME NEW t \in Nat PROVE IsFiniteSet(TurnsOf(t)') /\ Cardinality(TurnsOf(t)') <= 2
  <2>1. CASE t = turn BY <1>7, <2>1
  <2>2. CASE t # turn BY <1>3, <2>2 DEF AskedInv
  <2> QED BY <2>1, <2>2
<1> QED BY <1>2, <1>6, <1>8

\* A step of the official brain that asks nobody.
LEMMA AsksNobody ==
  ASSUME AskedInv, UNCHANGED <<taken, turn>>,
         ask' \in {"home", "list", "continue"} => ask \in {"home", "list", "continue"},
         ask' = "create" => ask \in {"home", "list", "continue", "create"}
  PROVE  AskedInv'
<1>1. \A t : TurnsOf(t)' = TurnsOf(t) BY DEF TurnsOf
<1>2. TurnsOf(turn)' = TurnsOf(turn) BY DEF TurnsOf
<1>3. TurnsOf(turn) = {} => Cardinality(TurnsOf(turn)) = 0 BY FS_EmptySet
<1> QED BY <1>1, <1>2, <1>3 DEF AskedInv

\* Asked once, by the session with the title, then once more by a new one.
LEMMA BrainAsks == ASSUME BrainTypeOK, AskedInv, call_official_brain PROVE AskedInv'
<1>1. CASE _ensure_role_home \/ List \/ _name_session
  BY <1>1, AsksNobody DEF _ensure_role_home, List, _name_session, cliVars
<1>2. CASE Continue
  <2>1. TurnsOf(turn) = {} /\ Cardinality(TurnsOf(turn)) = 0
    BY <1>2, FS_EmptySet DEF Continue, AskedInv
  <2>2. UNCHANGED turn /\ ask = "continue" /\ ask' \in {"out", "create"}
    BY <1>2 DEF Continue
  <2>3. CASE \E s \in titled : Takes(s)
    <3>1. PICK s \in titled : Takes(s) BY <2>3
    <3>2. s \in Nat BY DEF BrainTypeOK
    <3>3. Cardinality(TurnsOf(turn)) <= 1 BY <2>1
    <3>4. /\ \A e \in taken' : e.turn <= turn'
          /\ \A t \in Nat : IsFiniteSet(TurnsOf(t)') /\ Cardinality(TurnsOf(t)') <= 2
          /\ Cardinality(TurnsOf(turn)') <= Cardinality(TurnsOf(turn)) + 1
      BY <2>2, <3>1, <3>2, <3>3, TakesOne
    <3> HIDE DEF TurnsOf
    <3>5. Cardinality(TurnsOf(turn)') <= 1 BY <2>1, <3>4
    <3> QED BY <2>2, <3>4, <3>5 DEF AskedInv
  <2>4. CASE UNCHANGED taken
    BY <2>2, <2>4, AsksNobody
  <2> QED BY <1>2, <2>3, <2>4 DEF Continue
<1>3. CASE Create
  <2>1. /\ UNCHANGED turn /\ ask = "create" /\ ask' \in {"name", "none"}
        /\ Cardinality(TurnsOf(turn)) <= 1 /\ nSessions + 1 \in Nat
    BY <1>3 DEF Create, AskedInv, BrainTypeOK
  <2>2. CASE Takes(nSessions + 1)
    <3>1. /\ \A e \in taken' : e.turn <= turn'
          /\ \A t \in Nat : IsFiniteSet(TurnsOf(t)') /\ Cardinality(TurnsOf(t)') <= 2
      BY <2>1, <2>2, TakesOne
    <3> QED BY <2>1, <3>1 DEF AskedInv
  <2>3. CASE UNCHANGED taken
    BY <2>1, <2>3, AsksNobody
  <2> QED BY <1>3, <2>2, <2>3 DEF Create
<1> QED BY <1>1, <1>2, <1>3 DEF call_official_brain

LEMMA AskedInit == Init => AskedInv
<1> SUFFICES ASSUME Init PROVE AskedInv
    OBVIOUS
<1>1. taken = {} /\ \A t : TurnsOf(t) = {} BY DEF Init, BrainInit, TurnsOf
<1>2. IsFiniteSet({}) /\ Cardinality({}) = 0 BY FS_EmptySet
<1> QED BY <1>1, <1>2 DEF AskedInv

LEMMA AskedStep == TypeOK /\ AskedInv /\ [Next]_vars => AskedInv'
<1> SUFFICES ASSUME TypeOK, AskedInv, [Next]_vars PROVE AskedInv'
    OBVIOUS
<1>1. CASE Message
  <2>1. turn \in Nat /\ turn' = turn + 1 /\ taken' = taken
    BY <1>1 DEF Message, cliVars, TypeOK, BrainTypeOK
  <2>2. \A t : TurnsOf(t)' = TurnsOf(t)
    BY <2>1 DEF TurnsOf
  <2>3. \A e \in taken : e.turn \in Nat /\ e.turn <= turn
    BY DEF AskedInv, TypeOK, BrainTypeOK
  <2>4. TurnsOf(turn)' = {}
    BY <2>1, <2>3 DEF TurnsOf
  <2>5. Cardinality(TurnsOf(turn)') = 0
    BY <2>4, FS_EmptySet
  <2> QED BY <2>1, <2>2, <2>3, <2>4, <2>5 DEF AskedInv
<1>2. CASE AskOfficial
  BY <1>2, BrainAsks DEF AskOfficial, TypeOK
<1>3. CASE OfficialEnds
  BY <1>3, AsksNobody DEF OfficialEnds, cliVars
<1>4. CASE UNCHANGED brainVars
  BY <1>4, AsksNobody DEF brainVars, cliVars
<1>5. CASE Die
  BY <1>5, AsksNobody DEF Die, Dies, cliVars
<1>6. CASE Prune
  BY <1>6, AsksNobody DEF Prune
<1> QED BY <1>1, <1>2, <1>3, <1>4, <1>5, <1>6 DEF Next, decide, _react_loop, _reflexion_pass, vars

\* For any number of messages, failing calls and deaths: no message is a turn of the
\* official brain more than twice (call_official_brain).
THEOREM AskedTwice == Spec => []AskedTwiceAtMost
<1>1. IInv => TypeOK BY DEF IInv
<1>2. TypeOK /\ AskedInv => AskedTwiceAtMost
  BY DEF TypeOK, BrainTypeOK, AskedInv, AskedTwiceAtMost, TurnsOf
<1> QED BY Inv, <1>1, AskedInit, AskedStep, <1>2, PTL DEF Spec

-----------------------------------------------------------------------------
(* The learning note *)

\* Induction, with a set in place of the formula.
LEMMA Smallest ==
  ASSUME NEW T, T \subseteq Nat, T # {}
  PROVE  \E n \in T : \A m \in T : n <= m
<1>1. PICK n \in T : \A m \in T : ~(<<m, n>> \in OpToRel(<, Nat))
  BY NatLessThanWellFounded, WFMin
<1>2. \A m \in T : ~(m < n) BY <1>1 DEF OpToRel
<1> QED BY <1>2

LEMMA NatInG ==
  ASSUME NEW G, 0 \in G, \A n \in Nat : n \in G => n + 1 \in G
  PROVE  Nat \subseteq G
<1> SUFFICES ASSUME Nat \ G # {} PROVE FALSE OBVIOUS
<1>1. PICK n \in Nat \ G : \A m \in Nat \ G : n <= m
  BY Smallest
<1>2. n \in Nat /\ n # 0 BY <1>1
<1>3. n - 1 \in Nat /\ ~(n <= n - 1) BY <1>2
<1>4. n - 1 \in G BY <1>1, <1>3
<1>5. (n - 1) + 1 \in G BY <1>3, <1>4
<1>6. (n - 1) + 1 = n BY <1>2
<1> QED BY <1>1, <1>5, <1>6

LEMMA SeqInG ==
  ASSUME NEW S, NEW G, <<>> \in G, \A r \in Seq(S), x \in S : r \in G => Append(r, x) \in G
  PROVE  Seq(S) \subseteq G
<1> DEFINE H == {n \in Nat : \A s \in Seq(S) : Len(s) = n => s \in G}
<1>1. 0 \in H
  <2> SUFFICES ASSUME NEW s \in Seq(S), Len(s) = 0 PROVE s \in G OBVIOUS
  <2>1. s = <<>> BY EmptySeq
  <2> QED BY <2>1
<1>2. ASSUME NEW n \in Nat, n \in H PROVE n + 1 \in H
  <2> SUFFICES ASSUME NEW s \in Seq(S), Len(s) = n + 1 PROVE s \in G OBVIOUS
  <2> DEFINE r == SubSeq(s, 1, n)
  <2>1. r \in Seq(S) /\ Len(r) = n /\ s[n + 1] \in S /\ s = Append(r, s[n + 1])
    OBVIOUS
  <2>2. r \in G BY <1>2, <2>1
  <2> HIDE DEF r
  <2> QED BY <2>1, <2>2
<1> HIDE DEF H
<1>3. Nat \subseteq H BY <1>1, <1>2, NatInG
<1> QED BY <1>3 DEF H

LEMMA MaxOfRange == ASSUME NEW n \in Nat, NEW d \in SUBSET (1..n + 1), n + 1 \in d
                    PROVE  Max(d) = n + 1
<1>1. n + 1 \in d /\ \A y \in d : n + 1 >= y OBVIOUS
<1>2. \A x \in d : (\A y \in d : x >= y) => x = n + 1 BY <1>1
<1> QED BY <1>1, <1>2 DEF Max

-----------------------------------------------------------------------------
\* What the folds of the note compute: the fold exists, and goes line by line.
LEMMA FilterFold ==
  ASSUME NEW S, NEW s \in Seq(S), NEW T
  PROVE  \E g : /\ g[0] = <<>>
                /\ \A i \in 1..Len(s) :
                     g[i] = IF s[i] \in T THEN Append(g[i-1], s[i]) ELSE g[i-1]
                /\ Filter(s, T) = g[Len(s)]
<1> DEFINE Body(h, d) == IF d = {} THEN <<>>
                         ELSE IF s[Max(d)] \in T THEN Append(h[d \ {Max(d)}], s[Max(d)])
                                                 ELSE h[d \ {Max(d)}]
           Solves(h, n) == h = [d \in SUBSET (1..n) |-> Body(h, d)]
           G == {n \in Nat : \E h : Solves(h, n)}
           iter == CHOOSE h : h = [d \in SUBSET DOMAIN s |-> Body(h, d)]
<1>1. 0 \in G
  <2> DEFINE h == [d \in SUBSET (1..0) |-> <<>>]
  <2>1. \A d \in SUBSET (1..0) : d = {} OBVIOUS
  <2>2. Solves(h, 0) BY <2>1
  <2> QED BY <2>2
<1>2. ASSUME NEW n \in Nat, n \in G PROVE n + 1 \in G
  <2>1. PICK h : Solves(h, n) BY <1>2
  <2> DEFINE k == [d \in SUBSET (1..n + 1) |->
                     IF n + 1 \in d
                     THEN IF s[n+1] \in T THEN Append(h[d \ {n+1}], s[n+1]) ELSE h[d \ {n+1}]
                     ELSE h[d]]
  <2>2. ASSUME NEW d \in SUBSET (1..n + 1) PROVE k[d] = Body(k, d)
    <3>1. CASE n + 1 \in d
      <4>1. Max(d) = n + 1 BY <3>1, MaxOfRange
      <4>2. d \ {n + 1} \in SUBSET (1..n + 1) /\ n + 1 \notin d \ {n + 1} OBVIOUS
      <4>3. k[d \ {n + 1}] = h[d \ {n + 1}] BY <4>2
      <4> QED BY <3>1, <4>1, <4>3
    <3>2. CASE n + 1 \notin d
      <4>1. d \in SUBSET (1..n) BY <3>2
      <4>2. k[d] = h[d] BY <3>2
      <4>3. h[d] = Body(h, d) BY <2>1, <4>1
      <4>4. d \ {Max(d)} \in SUBSET (1..n + 1) /\ n + 1 \notin d \ {Max(d)} BY <3>2
      <4>5. k[d \ {Max(d)}] = h[d \ {Max(d)}] BY <4>4
      <4> QED BY <4>2, <4>3, <4>5
    <3> QED BY <3>1, <3>2
  <2>3. Solves(k, n + 1)
    <3>1. k = [d \in SUBSET (1..n + 1) |-> k[d]] OBVIOUS
    <3> HIDE DEF k
    <3> QED BY <2>2, <3>1
  <2> HIDE DEF k
  <2>4. n + 1 \in Nat OBVIOUS
  <2> QED BY <2>3, <2>4
<1>3. Len(s) \in G
  <2> HIDE DEF G
  <2>1. Nat \subseteq G BY <1>1, <1>2, NatInG
  <2> QED BY <2>1
<1>4. DOMAIN s = 1..Len(s) OBVIOUS
<1>5. iter = [d \in SUBSET DOMAIN s |-> Body(iter, d)]
  <2>1. \E h : h = [d \in SUBSET DOMAIN s |-> Body(h, d)] BY <1>3, <1>4
  <2> QED BY <2>1
<1>6. Filter(s, T) = iter[DOMAIN s] BY DEF Filter, FoldLeft, MapThenFoldSet
<1> DEFINE g == [i \in 0..Len(s) |-> iter[1..i]]
<1> HIDE DEF iter
<1>7. g[0] = <<>>
  <2>1. 1..0 = {} OBVIOUS
  <2>2. iter[{}] = <<>> BY <1>5
  <2> QED BY <2>1, <2>2
<1>8. ASSUME NEW i \in 1..Len(s)
      PROVE  g[i] = IF s[i] \in T THEN Append(g[i-1], s[i]) ELSE g[i-1]
  <2>1. i - 1 \in Nat /\ (i - 1) + 1 = i /\ 1..i \in SUBSET DOMAIN s /\ i \in 1..i
    BY <1>4
  <2>2. Max(1..i) = i
    <3> DEFINE n == i - 1
    <3>1. n \in Nat /\ n + 1 = i BY <2>1
    <3> HIDE DEF n
    <3>2. 1..i \in SUBSET (1..n + 1) /\ n + 1 \in 1..i BY <2>1, <3>1
    <3> QED BY <3>1, <3>2, MaxOfRange
  <2>3. (1..i) \ {i} = 1..(i - 1) BY <2>1
  <2>4. 1..i # {} BY <2>1
  <2>5. iter[1..i] = Body(iter, 1..i) BY <1>5, <2>1
  <2>6. iter[1..i] = IF s[i] \in T THEN Append(iter[1..(i-1)], s[i]) ELSE iter[1..(i-1)]
    BY <2>2, <2>3, <2>4, <2>5
  <2>7. i \in 0..Len(s) /\ i - 1 \in 0..Len(s) OBVIOUS
  <2> QED BY <2>6, <2>7
<1>9. Filter(s, T) = g[Len(s)] BY <1>4, <1>6
<1> HIDE DEF g
<1> QED BY <1>7, <1>8, <1>9

LEMMA FilterEmpty == ASSUME NEW T PROVE Filter(<<>>, T) = <<>>
<1> DEFINE e == <<>>
<1>1. e \in Seq({}) /\ Len(e) = 0 OBVIOUS
<1> HIDE DEF e
<1>2. PICK g : /\ g[0] = <<>>
               /\ \A i \in 1..Len(e) :
                    g[i] = IF e[i] \in T THEN Append(g[i-1], e[i]) ELSE g[i-1]
               /\ Filter(e, T) = g[Len(e)]
  BY <1>1, FilterFold
<1>3. Filter(e, T) = <<>> BY <1>1, <1>2
<1> QED BY <1>3 DEF e

LEMMA FilterAppend ==
  ASSUME NEW S, NEW r \in Seq(S), NEW x \in S, NEW T
  PROVE  Filter(Append(r, x), T) = IF x \in T THEN Append(Filter(r, T), x) ELSE Filter(r, T)
<1> DEFINE s == Append(r, x)
           n == Len(r)
<1>1. /\ s \in Seq(S) /\ n \in Nat /\ Len(s) = n + 1 /\ s[n + 1] = x
      /\ \A i \in 1..n : s[i] = r[i]
  OBVIOUS
<1> HIDE DEF s, n
<1>2. PICK g : /\ g[0] = <<>>
               /\ \A i \in 1..n : g[i] = IF r[i] \in T THEN Append(g[i-1], r[i]) ELSE g[i-1]
               /\ Filter(r, T) = g[n]
  BY FilterFold DEF n
<1>3. PICK h : /\ h[0] = <<>>
               /\ \A i \in 1..n + 1 : h[i] = IF s[i] \in T THEN Append(h[i-1], s[i]) ELSE h[i-1]
               /\ Filter(s, T) = h[n + 1]
  <2>1. \E h : /\ h[0] = <<>>
               /\ \A i \in 1..Len(s) : h[i] = IF s[i] \in T THEN Append(h[i-1], s[i]) ELSE h[i-1]
               /\ Filter(s, T) = h[Len(s)]
    BY <1>1, FilterFold
  <2> QED BY <1>1, <2>1
<1> DEFINE G == {m \in Nat : m <= n => g[m] = h[m]}
<1>4. Nat \subseteq G
  <2>1. 0 \in G BY <1>2, <1>3
  <2>2. ASSUME NEW m \in Nat, m \in G PROVE m + 1 \in G
    <3> SUFFICES ASSUME m + 1 <= n PROVE g[m + 1] = h[m + 1] OBVIOUS
    <3>1. m + 1 \in 1..n /\ m + 1 \in 1..n + 1 /\ (m + 1) - 1 = m BY <1>1
    <3>2. g[m] = h[m] BY <1>1, <2>2
    <3>3. g[m + 1] = IF r[m + 1] \in T THEN Append(g[m], r[m + 1]) ELSE g[m] BY <1>2, <3>1
    <3>4. h[m + 1] = IF s[m + 1] \in T THEN Append(h[m], s[m + 1]) ELSE h[m] BY <1>3, <3>1
    <3> QED BY <1>1, <3>1, <3>2, <3>3, <3>4
  <2> HIDE DEF G
  <2> QED BY <2>1, <2>2, NatInG
<1>5. g[n] = h[n] BY <1>1, <1>4
<1>6. h[n + 1] = IF s[n + 1] \in T THEN Append(h[n], s[n + 1]) ELSE h[n]
  <2>1. n + 1 \in 1..n + 1 /\ (n + 1) - 1 = n BY <1>1
  <2> QED BY <1>3, <2>1
<1>7. Filter(s, T) = IF x \in T THEN Append(Filter(r, T), x) ELSE Filter(r, T)
  BY <1>1, <1>2, <1>3, <1>5, <1>6
<1> QED BY <1>7 DEF s

-----------------------------------------------------------------------------
\* No line twice; one line before another.
Unique(s) == \A i, j \in DOMAIN s : s[i] = s[j] => i = j
Before(s, x, y) == \E i, j \in DOMAIN s : i < j /\ s[i] = x /\ s[j] = y

LEMMA Appended ==
  ASSUME NEW S, NEW r \in Seq(S), NEW x \in S
  PROVE  /\ ToSet(Append(r, x)) = ToSet(r) \cup {x}
         /\ Unique(Append(r, x)) <=> Unique(r) /\ x \notin ToSet(r)
         /\ \A a, b : Before(Append(r, x), a, b) <=> Before(r, a, b) \/ (a \in ToSet(r) /\ b = x)
<1> DEFINE s == Append(r, x)
           n == Len(r)
<1>1. /\ n \in Nat /\ DOMAIN r = 1..n /\ DOMAIN s = 1..n + 1
      /\ s[n + 1] = x /\ \A i \in 1..n : s[i] = r[i]
  OBVIOUS
<1>2. DOMAIN s = DOMAIN r \cup {n + 1} /\ n + 1 \notin DOMAIN r BY <1>1
<1> HIDE DEF s, n
<1>3. ToSet(s) = ToSet(r) \cup {x} BY <1>1, <1>2 DEF ToSet
<1>4. Unique(s) <=> Unique(r) /\ x \notin ToSet(r)
  BY <1>1, <1>2 DEF ToSet, Unique
<1>5. ASSUME NEW a, NEW b
      PROVE  Before(s, a, b) <=> Before(r, a, b) \/ (a \in ToSet(r) /\ b = x)
  <2>1. ASSUME Before(s, a, b) PROVE Before(r, a, b) \/ (a \in ToSet(r) /\ b = x)
    <3>1. PICK i \in DOMAIN s, j \in DOMAIN s : i < j /\ s[i] = a /\ s[j] = b
      BY <2>1 DEF Before
    <3>2. i \in 1..n BY <1>1, <3>1
    <3>3. CASE j = n + 1 BY <1>1, <3>1, <3>2, <3>3 DEF ToSet
    <3>4. CASE j # n + 1
      <4>1. j \in 1..n BY <1>1, <3>4
      <4> QED BY <1>1, <3>1, <3>2, <4>1 DEF Before
    <3> QED BY <3>3, <3>4
  <2>2. ASSUME Before(r, a, b) PROVE Before(s, a, b)
    <3>1. PICK i \in DOMAIN r, j \in DOMAIN r : i < j /\ r[i] = a /\ r[j] = b
      BY <2>2 DEF Before
    <3>2. i \in DOMAIN s /\ j \in DOMAIN s /\ s[i] = a /\ s[j] = b BY <1>1, <1>2, <3>1
    <3> QED BY <3>1, <3>2 DEF Before
  <2>3. ASSUME a \in ToSet(r), b = x PROVE Before(s, a, b)
    <3>1. PICK i \in DOMAIN r : r[i] = a BY <2>3 DEF ToSet
    <3>2. i \in DOMAIN s /\ n + 1 \in DOMAIN s /\ i < n + 1 /\ s[i] = a /\ s[n + 1] = b
      BY <1>1, <2>3, <3>1
    <3> QED BY <3>2 DEF Before
  <2> QED BY <2>1, <2>2, <2>3
<1> QED BY <1>3, <1>4, <1>5 DEF s

LEMMA BeforeIn == ASSUME NEW s, NEW a, NEW b, Before(s, a, b) PROVE a \in ToSet(s) /\ b \in ToSet(s)
BY DEF Before, ToSet

LEMMA EmptyFacts == ToSet(<<>>) = {} /\ Unique(<<>>) /\ \A a, b : ~Before(<<>>, a, b)
<1>1. DOMAIN <<>> = {} OBVIOUS
<1> QED BY <1>1 DEF ToSet, Unique, Before

LEMMA FilterSpec ==
  ASSUME NEW S, NEW T
  PROVE  \A s \in Seq(S) :
           /\ Filter(s, T) \in Seq(S)
           /\ ToSet(Filter(s, T)) = ToSet(s) \cap T
           /\ Unique(s) => Unique(Filter(s, T))
           /\ \A a, b : Before(Filter(s, T), a, b) => Before(s, a, b)
<1> DEFINE Q(s) == /\ Filter(s, T) \in Seq(S)
                   /\ ToSet(Filter(s, T)) = ToSet(s) \cap T
                   /\ Unique(s) => Unique(Filter(s, T))
                   /\ \A a, b : Before(Filter(s, T), a, b) => Before(s, a, b)
           G == {s \in Seq(S) : Q(s)}
<1>1. <<>> \in G
  <2>1. <<>> \in Seq(S) /\ Filter(<<>>, T) = <<>> BY FilterEmpty
  <2> QED BY <2>1, EmptyFacts
<1>2. ASSUME NEW r \in Seq(S), NEW x \in S, r \in G PROVE Append(r, x) \in G
  <2>1. Q(r) BY <1>2
  <2> DEFINE f == Filter(r, T)
  <2>2. f \in Seq(S) /\ Append(r, x) \in Seq(S) BY <2>1
  <2>3. Filter(Append(r, x), T) = IF x \in T THEN Append(f, x) ELSE f BY FilterAppend
  <2>4. /\ ToSet(Append(r, x)) = ToSet(r) \cup {x}
        /\ Unique(Append(r, x)) <=> Unique(r) /\ x \notin ToSet(r)
        /\ \A a, b : Before(Append(r, x), a, b) <=> Before(r, a, b) \/ (a \in ToSet(r) /\ b = x)
    BY Appended
  <2>5. ToSet(f) = ToSet(r) \cap T /\ (Unique(r) => Unique(f))
        /\ \A a, b : Before(f, a, b) => Before(r, a, b)
    BY <2>1
  <2> HIDE DEF f
  <2>6. CASE x \in T
    <3>1. /\ ToSet(Append(f, x)) = ToSet(f) \cup {x}
          /\ Unique(Append(f, x)) <=> Unique(f) /\ x \notin ToSet(f)
          /\ \A a, b : Before(Append(f, x), a, b) <=> Before(f, a, b) \/ (a \in ToSet(f) /\ b = x)
      BY <2>2, Appended
    <3>2. Append(f, x) \in Seq(S) BY <2>2
    <3>3. Filter(Append(r, x), T) = Append(f, x) BY <2>3, <2>6
    <3>4. ToSet(Append(f, x)) = ToSet(Append(r, x)) \cap T BY <2>4, <2>5, <2>6, <3>1
    <3>5. Unique(Append(r, x)) => Unique(Append(f, x)) BY <2>4, <2>5, <3>1
    <3>6. \A a, b : Before(Append(f, x), a, b) => Before(Append(r, x), a, b)
      BY <2>4, <2>5, <3>1
    <3>7. Q(Append(r, x)) BY <3>2, <3>3, <3>4, <3>5, <3>6
    <3> QED BY <2>2, <3>7
  <2>7. CASE x \notin T
    <3>1. Filter(Append(r, x), T) = f BY <2>3, <2>7
    <3>2. ToSet(f) = ToSet(Append(r, x)) \cap T BY <2>4, <2>5, <2>7
    <3>3. Q(Append(r, x)) BY <2>2, <2>4, <2>5, <3>1, <3>2
    <3> QED BY <2>2, <3>3
  <2> QED BY <2>6, <2>7
<1>3. Seq(S) \subseteq G
  <2> HIDE DEF G
  <2> QED BY <1>1, <1>2, SeqInG
<1> QED BY <1>3

\* A sequence without doubles is as long as its set is large.
LEMMA UniqueLength ==
  ASSUME NEW S
  PROVE  \A s \in Seq(S) : /\ IsFiniteSet(ToSet(s))
                           /\ Unique(s) => Cardinality(ToSet(s)) = Len(s)
<1> DEFINE Q(s) == /\ IsFiniteSet(ToSet(s))
                   /\ Unique(s) => Cardinality(ToSet(s)) = Len(s)
           G == {s \in Seq(S) : Q(s)}
<1>1. <<>> \in G
  <2>1. <<>> \in Seq(S) /\ Len(<<>>) = 0 OBVIOUS
  <2> QED BY <2>1, EmptyFacts, FS_EmptySet
<1>2. ASSUME NEW r \in Seq(S), NEW x \in S, r \in G PROVE Append(r, x) \in G
  <2>1. Append(r, x) \in Seq(S) /\ Len(Append(r, x)) = Len(r) + 1 /\ Len(r) \in Nat OBVIOUS
  <2>2. /\ ToSet(Append(r, x)) = ToSet(r) \cup {x}
        /\ Unique(Append(r, x)) <=> Unique(r) /\ x \notin ToSet(r)
    BY Appended
  <2>3. IsFiniteSet(ToSet(r)) /\ (Unique(r) => Cardinality(ToSet(r)) = Len(r)) BY <1>2
  <2>4. /\ IsFiniteSet(ToSet(r) \cup {x})
        /\ x \notin ToSet(r) => Cardinality(ToSet(r) \cup {x}) = Cardinality(ToSet(r)) + 1
    BY <2>3, FS_AddElement
  <2>5. Q(Append(r, x)) BY <2>1, <2>2, <2>3, <2>4
  <2> QED BY <2>1, <2>5
<1>3. Seq(S) \subseteq G
  <2> HIDE DEF G
  <2> QED BY <1>1, <1>2, SeqInG
<1> QED BY <1>3

-----------------------------------------------------------------------------
\* Pruning

LearnTerms == /\ LEARN_MAX_CORRECTIONS \in Nat /\ LEARN_MAX_LINES \in Nat
              /\ LEARN_MAX_CORRECTIONS >= 1 /\ LEARN_MAX_CORRECTIONS < LEARN_MAX_LINES
              /\ Corrections \subseteq Lines /\ NoLine \notin Lines /\ MaxCrashes \in Nat

LEMMA LearnLimits == LearnTerms
<1>1. LEARN_MAX_CORRECTIONS \in Nat \ {0} BY LearnNoteOK DEF LearnNoteOK
<1> QED BY <1>1, LearnNoteOK DEF LearnNoteOK, LearnTerms

\* The loop goes on as long as there are lines; a pass that finds nothing to do ends it.
LEMMA PruneOnce ==
  ASSUME NEW S, NEW s \in Seq(S), Len(s) >= 1,
         DropOneLine(DropOneLine(DropCorrections(s))) = DropOneLine(DropCorrections(s))
  PROVE  _prune_learn_lines(s) = DropOneLine(DropCorrections(s))
<1> DEFINE base == DropCorrections(s)
           Body(h, d) == IF d = {} THEN base ELSE DropOneLine(h[d \ {Max(d)}])
           Solves(h, n) == h = [d \in SUBSET (1..n) |-> Body(h, d)]
           G == {n \in Nat : \E h : Solves(h, n)}
           iter == CHOOSE h : h = [d \in SUBSET DOMAIN s |-> Body(h, d)]
<1> HIDE DEF base
<1>1. 0 \in G
  <2> DEFINE h == [d \in SUBSET (1..0) |-> base]
  <2>1. \A d \in SUBSET (1..0) : d = {} OBVIOUS
  <2>2. Solves(h, 0) BY <2>1
  <2> QED BY <2>2
<1>2. ASSUME NEW n \in Nat, n \in G PROVE n + 1 \in G
  <2>1. PICK h : Solves(h, n) BY <1>2
  <2> DEFINE k == [d \in SUBSET (1..n + 1) |->
                     IF n + 1 \in d THEN DropOneLine(h[d \ {n+1}]) ELSE h[d]]
  <2>2. ASSUME NEW d \in SUBSET (1..n + 1) PROVE k[d] = Body(k, d)
    <3>1. CASE n + 1 \in d
      <4>1. Max(d) = n + 1 BY <3>1, MaxOfRange
      <4>2. d \ {n + 1} \in SUBSET (1..n + 1) /\ n + 1 \notin d \ {n + 1} OBVIOUS
      <4>3. k[d \ {n + 1}] = h[d \ {n + 1}] BY <4>2
      <4> QED BY <3>1, <4>1, <4>3
    <3>2. CASE n + 1 \notin d
      <4>1. d \in SUBSET (1..n) BY <3>2
      <4>2. k[d] = h[d] BY <3>2
      <4>3. h[d] = Body(h, d) BY <2>1, <4>1
      <4>4. d \ {Max(d)} \in SUBSET (1..n + 1) /\ n + 1 \notin d \ {Max(d)} BY <3>2
      <4>5. k[d \ {Max(d)}] = h[d \ {Max(d)}] BY <4>4
      <4> QED BY <4>2, <4>3, <4>5
    <3> QED BY <3>1, <3>2
  <2>3. Solves(k, n + 1)
    <3>1. k = [d \in SUBSET (1..n + 1) |-> k[d]] OBVIOUS
    <3> HIDE DEF k
    <3> QED BY <2>2, <3>1
  <2> HIDE DEF k
  <2>4. n + 1 \in Nat OBVIOUS
  <2> QED BY <2>3, <2>4
<1>3. Len(s) \in G
  <2> HIDE DEF G
  <2>1. Nat \subseteq G BY <1>1, <1>2, NatInG
  <2> QED BY <2>1
<1>4. DOMAIN s = 1..Len(s) OBVIOUS
<1>5. iter = [d \in SUBSET DOMAIN s |-> Body(iter, d)]
  <2>1. \E h : h = [d \in SUBSET DOMAIN s |-> Body(h, d)] BY <1>3, <1>4
  <2> QED BY <2>1
<1>6. _prune_learn_lines(s) = iter[DOMAIN s]
  BY DEF _prune_learn_lines, FoldLeft, MapThenFoldSet, base
<1> HIDE DEF iter
<1> DEFINE once == DropOneLine(base)
           H == {n \in Nat : n >= 1 /\ n <= Len(s) => iter[1..n] = once}
<1>7. once = DropOneLine(once) BY DEF base
<1> HIDE DEF once
<1>8. 0 \in H OBVIOUS
<1>9. ASSUME NEW n \in Nat, n \in H PROVE n + 1 \in H
  <2> SUFFICES ASSUME n + 1 <= Len(s) PROVE iter[1..n + 1] = once OBVIOUS
  <2>1. 1..n + 1 \in SUBSET DOMAIN s /\ n + 1 \in 1..n + 1 BY <1>4
  <2>2. Max(1..n + 1) = n + 1 BY <2>1, MaxOfRange
  <2>3. (1..n + 1) \ {n + 1} = 1..n OBVIOUS
  <2>4. iter[1..n + 1] = DropOneLine(iter[1..n]) BY <1>5, <2>1, <2>2, <2>3
  <2>5. CASE n = 0
    <3>1. 1..n = {} /\ {} \in SUBSET DOMAIN s BY <2>5
    <3>2. iter[{}] = base BY <1>5, <3>1
    <3> QED BY <2>4, <3>1, <3>2 DEF once
  <2>6. CASE n # 0
    <3>1. iter[1..n] = once BY <1>9, <2>6
    <3> QED BY <1>7, <2>4, <3>1
  <2> QED BY <2>5, <2>6
<1>10. Len(s) \in H
  <2>1. Len(s) \in Nat OBVIOUS
  <2> HIDE DEF H
  <2>2. Nat \subseteq H BY <1>8, <1>9, NatInG
  <2> QED BY <2>1, <2>2
<1> QED BY <1>4, <1>6, <1>10 DEF once, base

\* The first ordinary line of a note, if there is one.
LEMMA FirstOrdinary ==
  ASSUME NEW S, NEW s \in Seq(S)
  PROVE  LET i == SelectInSeq(s, LAMBDA x : ~_is_correction_line(x)) IN
         \/ i = 0 /\ \A j \in 1..Len(s) : s[j] \in Corrections
         \/ /\ i \in 1..Len(s) /\ s[i] \notin Corrections
            /\ \A j \in 1..Len(s) : s[j] \notin Corrections => i <= j
<1> DEFINE I == {j \in 1..Len(s) : s[j] \notin Corrections}
           i == SelectInSeq(s, LAMBDA x : ~_is_correction_line(x))
<1>1. i = IF I # {} THEN Min(I) ELSE 0 BY DEF SelectInSeq, _is_correction_line
<1>2. CASE I = {} BY <1>1, <1>2
<1>3. CASE I # {}
  <2>1. I \subseteq Nat OBVIOUS
  <2>2. \E n \in I : \A m \in I : n <= m BY <1>3, <2>1, Smallest
  <2>3. Min(I) \in I /\ \A m \in I : Min(I) <= m BY <2>2 DEF Min
  <2>4. i = Min(I) BY <1>1, <1>3
  <2> HIDE DEF i
  <2>5. /\ i \in 1..Len(s) /\ s[i] \notin Corrections
        /\ \A j \in 1..Len(s) : s[j] \notin Corrections => i <= j
    BY <2>3, <2>4
  <2> QED BY <2>5 DEF i
<1> QED BY <1>2, <1>3

\* A note without one of its lines.
LEMMA Removed ==
  ASSUME NEW S, NEW s \in Seq(S), Unique(s), NEW i \in 1..Len(s)
  PROVE  /\ RemoveAt(s, i) \in Seq(S) /\ Len(RemoveAt(s, i)) = Len(s) - 1
         /\ Unique(RemoveAt(s, i)) /\ ToSet(RemoveAt(s, i)) = ToSet(s) \ {s[i]}
<1> DEFINE t == RemoveAt(s, i)
           n == Len(s)
<1>1. n \in Nat /\ DOMAIN s = 1..n /\ \A j \in 1..n : s[j] \in S OBVIOUS
<1>2. /\ t \in Seq(S) /\ Len(t) = n - 1 /\ DOMAIN t = 1..n - 1
      /\ \A j \in 1..n - 1 : t[j] = IF j < i THEN s[j] ELSE s[j + 1]
  <2>1. SubSeq(s, 1, i - 1) \in Seq(S) /\ Len(SubSeq(s, 1, i - 1)) = i - 1
        /\ \A j \in 1..i - 1 : SubSeq(s, 1, i - 1)[j] = s[j]
    OBVIOUS
  <2>2. SubSeq(s, i + 1, n) \in Seq(S) /\ Len(SubSeq(s, i + 1, n)) = n - i
        /\ \A j \in 1..n - i : SubSeq(s, i + 1, n)[j] = s[i + j]
    OBVIOUS
  <2> DEFINE a == SubSeq(s, 1, i - 1)
             b == SubSeq(s, i + 1, n)
  <2>3. t = a \o b BY DEF RemoveAt
  <2>4. a \in Seq(S) /\ Len(a) = i - 1 /\ \A j \in 1..i - 1 : a[j] = s[j] BY <2>1
  <2>5. b \in Seq(S) /\ Len(b) = n - i /\ \A j \in 1..n - i : b[j] = s[i + j] BY <2>2
  <2> HIDE DEF a, b, t, n
  <2>6. t \in Seq(S) /\ Len(t) = n - 1 BY <1>1, <2>3, <2>4, <2>5
  <2>7. ASSUME NEW j \in 1..n - 1 PROVE t[j] = IF j < i THEN s[j] ELSE s[j + 1]
    <3>1. CASE j < i BY <1>1, <2>3, <2>4, <2>5, <3>1
    <3>2. CASE ~(j < i)
      <4>1. t[j] = b[j - (i - 1)] BY <1>1, <2>3, <2>4, <2>5, <3>2
      <4>2. j - (i - 1) \in 1..n - i BY <1>1, <3>2 DEF n
      <4>3. i + (j - (i - 1)) = j + 1 BY <1>1
      <4> QED BY <2>5, <3>2, <4>1, <4>2, <4>3
    <3> QED BY <3>1, <3>2
  <2> QED BY <2>6, <2>7
<1> HIDE DEF t, n
<1>3. \A j, k \in 1..n : s[j] = s[k] => j = k BY <1>1 DEF Unique
<1>4. Unique(t)
  <2> SUFFICES ASSUME NEW j \in 1..n - 1, NEW k \in 1..n - 1, t[j] = t[k] PROVE j = k
    BY <1>2 DEF Unique
  <2>1. j \in 1..n /\ j + 1 \in 1..n /\ k \in 1..n /\ k + 1 \in 1..n BY <1>1
  <2> QED BY <1>1, <1>2, <1>3, <2>1
<1>5. ToSet(t) = ToSet(s) \ {s[i]}
  <2>1. ASSUME NEW j \in 1..n - 1 PROVE t[j] \in ToSet(s) \ {s[i]}
    <3>1. j \in 1..n /\ j + 1 \in 1..n /\ i \in 1..n BY <1>1 DEF n
    <3>2. PICK k \in 1..n : t[j] = s[k] /\ k # i BY <1>1, <1>2, <3>1
    <3> QED BY <1>1, <1>3, <3>1, <3>2 DEF ToSet
  <2>2. ASSUME NEW k \in 1..n, k # i PROVE s[k] \in ToSet(t)
    <3>1. CASE k < i
      <4>1. k \in 1..n - 1 /\ t[k] = s[k] BY <1>1, <1>2, <3>1 DEF n
      <4> QED BY <1>2, <4>1 DEF ToSet
    <3>2. CASE ~(k < i)
      <4>1. k - 1 \in 1..n - 1 /\ ~(k - 1 < i) /\ (k - 1) + 1 = k BY <1>1, <2>2, <3>2 DEF n
      <4>2. t[k - 1] = s[k] BY <1>2, <4>1
      <4> QED BY <1>2, <4>1, <4>2 DEF ToSet
    <3> QED BY <3>1, <3>2
  <2>3. ToSet(t) \subseteq ToSet(s) \ {s[i]} BY <1>2, <2>1 DEF ToSet
  <2>4. ToSet(s) \ {s[i]} \subseteq ToSet(t) BY <1>1, <2>2 DEF ToSet
  <2> QED BY <2>3, <2>4
<1> QED BY <1>2, <1>4, <1>5 DEF t, n

-----------------------------------------------------------------------------
\* The limits of a note, and what an append and a pruning make of it.
Within(s) == /\ s \in Seq(Lines) /\ Unique(s) /\ Len(s) <= LEARN_MAX_LINES
             /\ Cardinality(CorrectionsIn(s)) <= LEARN_MAX_CORRECTIONS

\* y is the line of r + <<x>> that the limits take: the oldest of its sort, and not x.
LosesOnly(r, x, p, y) ==
  /\ y # x /\ ToSet(p) = ToSet(Append(r, x)) \ {y}
  /\ \A z \in ToSet(r) : (z \in Corrections <=> y \in Corrections) /\ z # y => Before(r, y, z)
  /\ IF y \in Corrections
     THEN x \in Corrections /\ Cardinality(CorrectionsIn(p)) = LEARN_MAX_CORRECTIONS
     ELSE Len(p) = LEARN_MAX_LINES

LEMMA CorrectionsInIs ==
  ASSUME NEW s PROVE CorrectionsIn(s) = ToSet(s) \cap Corrections
BY DEF CorrectionsIn, _is_correction_line

LEMMA DropOneLineIs ==
  ASSUME NEW t \in Seq(Lines), Unique(t), Len(t) <= LEARN_MAX_LINES + 1,
         Cardinality(CorrectionsIn(t)) <= LEARN_MAX_CORRECTIONS
  PROVE  /\ Len(t) <= LEARN_MAX_LINES => DropOneLine(t) = t
         /\ Len(t) > LEARN_MAX_LINES =>
              \E y \in ToSet(t) \ Corrections :
                /\ DropOneLine(t) \in Seq(Lines) /\ Unique(DropOneLine(t))
                /\ Len(DropOneLine(t)) = LEARN_MAX_LINES
                /\ ToSet(DropOneLine(t)) = ToSet(t) \ {y}
                /\ \A z \in ToSet(t) \ Corrections : z # y => Before(t, y, z)
                /\ \E z \in ToSet(t) \ Corrections : z # y
<1>0. /\ LEARN_MAX_CORRECTIONS \in Nat /\ LEARN_MAX_LINES \in Nat
      /\ LEARN_MAX_CORRECTIONS < LEARN_MAX_LINES
  BY LearnLimits DEF LearnTerms
<1> DEFINE i == SelectInSeq(t, LAMBDA x : ~_is_correction_line(x))
<1>1. DropOneLine(t) = IF Len(t) > LEARN_MAX_LINES /\ i # 0 THEN RemoveAt(t, i) ELSE t
  BY DEF DropOneLine
<1>2. \/ i = 0 /\ \A j \in 1..Len(t) : t[j] \in Corrections
      \/ /\ i \in 1..Len(t) /\ t[i] \notin Corrections
         /\ \A j \in 1..Len(t) : t[j] \notin Corrections => i <= j
  BY FirstOrdinary
<1> HIDE DEF i
<1>3. Len(t) \in Nat /\ DOMAIN t = 1..Len(t) OBVIOUS
<1> DEFINE n == Len(t)
           m == LEARN_MAX_LINES
<1>4. n \in Nat /\ m \in Nat /\ n <= m + 1 BY <1>0, <1>3
<1> HIDE DEF n, m
<1>5. ~(n <= m) => n > m BY <1>4
<1>6. n > m => n - 1 = m /\ ~(n <= m) BY <1>4
<1>7. IsFiniteSet(ToSet(t)) /\ Cardinality(ToSet(t)) = Len(t) BY UniqueLength
<1>8. CASE Len(t) <= LEARN_MAX_LINES BY <1>1, <1>8, <1>6 DEF n, m
<1>9. CASE Len(t) > LEARN_MAX_LINES
  <2>1. ASSUME ToSet(t) \subseteq Corrections PROVE FALSE
    <3>1. CorrectionsIn(t) = ToSet(t) BY <2>1, CorrectionsInIs
    <3> QED BY <1>0, <1>3, <1>7, <1>9, <3>1
  <2>2. i \in 1..Len(t) /\ t[i] \notin Corrections BY <1>2, <1>3, <2>1 DEF ToSet
  <2> DEFINE y == t[i]
  <2>3. y \in ToSet(t) \ Corrections BY <1>3, <2>2 DEF ToSet
  <2>4. DropOneLine(t) = RemoveAt(t, i) BY <1>1, <1>9, <2>2
  <2>5. /\ DropOneLine(t) \in Seq(Lines) /\ Unique(DropOneLine(t))
        /\ Len(DropOneLine(t)) = Len(t) - 1 /\ ToSet(DropOneLine(t)) = ToSet(t) \ {y}
    BY <2>2, <2>4, Removed
  <2>6. ASSUME NEW z \in ToSet(t) \ Corrections, z # y PROVE Before(t, y, z)
    <3>1. PICK j \in 1..Len(t) : t[j] = z BY <1>3 DEF ToSet
    <3>2. i <= j /\ i # j BY <1>2, <2>2, <2>6, <3>1
    <3>3. i < j BY <2>2, <3>1, <3>2
    <3> QED BY <1>3, <2>2, <3>1, <3>3 DEF Before
  <2>7. \E z \in ToSet(t) \ Corrections : z # y
    <3> SUFFICES ASSUME ToSet(t) \subseteq CorrectionsIn(t) \cup {y} PROVE FALSE
      BY CorrectionsInIs
    <3>1. IsFiniteSet(CorrectionsIn(t)) BY <1>7, CorrectionsInIs, FS_Subset
    <3>2. y \notin CorrectionsIn(t) BY <2>3, CorrectionsInIs
    <3>3. /\ IsFiniteSet(CorrectionsIn(t) \cup {y})
          /\ Cardinality(CorrectionsIn(t) \cup {y}) = Cardinality(CorrectionsIn(t)) + 1
      BY <3>1, <3>2, FS_AddElement
    <3>4. Cardinality(ToSet(t)) <= Cardinality(CorrectionsIn(t) \cup {y}) BY <3>3, FS_Subset
    <3>5. Cardinality(CorrectionsIn(t)) \in Nat BY <3>1, FS_CardinalityType
    <3> QED BY <1>0, <1>3, <1>7, <1>9, <3>3, <3>4, <3>5
  <2> HIDE DEF y
  <2>8. Len(t) - 1 = LEARN_MAX_LINES /\ ~(Len(t) <= LEARN_MAX_LINES) BY <1>9, <1>6 DEF n, m
  <2> QED BY <2>3, <2>5, <2>6, <2>7, <2>8
<1> QED BY <1>8, <1>9, <1>5 DEF n, m

\* What DropCorrections makes of a note that a line was added to.
LEMMA DropCorrectionsIs ==
  ASSUME NEW r, Within(r), NEW x \in Lines \ ToSet(r)
  PROVE  LET s == Append(r, x)
             t == DropCorrections(s) IN
         /\ t \in Seq(Lines) /\ Unique(t) /\ x \in ToSet(t)
         /\ Cardinality(CorrectionsIn(t)) <= LEARN_MAX_CORRECTIONS
         /\ \A a, b : Before(t, a, b) => Before(s, a, b)
         /\ \/ ToSet(t) = ToSet(s) /\ Len(t) = Len(r) + 1
            \/ /\ Len(t) = Len(r)
               /\ \E y \in ToSet(r) : LosesOnly(r, x, t, y)
<1> DEFINE s == Append(r, x)
           t == DropCorrections(s)
           c == Filter(s, Corrections)
           M == LEARN_MAX_CORRECTIONS
           drop == {c[i] : i \in 1..(Len(c) - M)}
<1>1. r \in Seq(Lines) /\ Unique(r) /\ Cardinality(CorrectionsIn(r)) <= M BY DEF Within
<1>2. M \in Nat /\ M >= 1 /\ Corrections \subseteq Lines BY LearnLimits DEF LearnTerms
<1>3. /\ s \in Seq(Lines) /\ Len(s) = Len(r) + 1 /\ Len(r) \in Nat
      /\ ToSet(s) = ToSet(r) \cup {x} /\ Unique(s)
      /\ \A a, b : Before(s, a, b) <=> Before(r, a, b) \/ (a \in ToSet(r) /\ b = x)
  <2>1. s \in Seq(Lines) /\ Len(s) = Len(r) + 1 /\ Len(r) \in Nat BY <1>1
  <2> QED BY <1>1, <2>1, Appended
<1>4. t = Filter(s, Lines \ drop) BY DEF DropCorrections
<1> HIDE DEF s, t, M
<1>5. /\ c \in Seq(Lines) /\ Unique(c) /\ ToSet(c) = ToSet(s) \cap Corrections
      /\ \A a, b : Before(c, a, b) => Before(s, a, b)
      /\ Len(c) = Cardinality(ToSet(c)) /\ IsFiniteSet(ToSet(c))
  <2>1. /\ c \in Seq(Lines) /\ ToSet(c) = ToSet(s) \cap Corrections /\ Unique(c)
        /\ \A a, b : Before(c, a, b) => Before(s, a, b)
    BY <1>3, FilterSpec
  <2> QED BY <2>1, UniqueLength
<1> HIDE DEF c, drop
<1>6. /\ t \in Seq(Lines) /\ Unique(t) /\ ToSet(t) = ToSet(s) \cap (Lines \ drop)
      /\ \A a, b : Before(t, a, b) => Before(s, a, b)
      /\ Len(t) = Cardinality(ToSet(t)) /\ IsFiniteSet(ToSet(t))
  <2>1. /\ t \in Seq(Lines) /\ ToSet(t) = ToSet(s) \cap (Lines \ drop) /\ Unique(t)
        /\ \A a, b : Before(t, a, b) => Before(s, a, b)
    BY <1>3, <1>4, FilterSpec
  <2> QED BY <2>1, UniqueLength
<1>7. ToSet(s) \subseteq Lines /\ ToSet(t) = ToSet(s) \ drop
  <2>1. ToSet(s) \subseteq Lines BY <1>3 DEF ToSet
  <2> QED BY <1>6, <2>1
<1>8. Len(s) = Cardinality(ToSet(s)) /\ IsFiniteSet(ToSet(s)) BY <1>3, UniqueLength
<1>9. CorrectionsIn(t) = ToSet(c) \ drop BY <1>5, <1>7, CorrectionsInIs
<1>10. /\ IsFiniteSet(CorrectionsIn(r)) /\ Cardinality(CorrectionsIn(r)) \in Nat
       /\ x \notin CorrectionsIn(r)
       /\ x \in Corrections => ToSet(c) = CorrectionsIn(r) \cup {x} /\ Len(c) <= M + 1
       /\ x \notin Corrections => ToSet(c) = CorrectionsIn(r) /\ Len(c) <= M
  <2>1. IsFiniteSet(CorrectionsIn(r)) /\ x \notin CorrectionsIn(r)
    BY <1>1, UniqueLength, CorrectionsInIs, FS_Subset
  <2>2. Cardinality(CorrectionsIn(r)) \in Nat BY <2>1, FS_CardinalityType
  <2>3. Cardinality(CorrectionsIn(r) \cup {x}) = Cardinality(CorrectionsIn(r)) + 1
    BY <2>1, FS_AddElement
  <2>4. x \in Corrections => ToSet(c) = CorrectionsIn(r) \cup {x}
    BY <1>3, <1>5, CorrectionsInIs
  <2>5. x \notin Corrections => ToSet(c) = CorrectionsIn(r)
    BY <1>3, <1>5, CorrectionsInIs
  <2> DEFINE k == Cardinality(CorrectionsIn(r))
  <2>6. k \in Nat /\ k <= M /\ k + 1 <= M + 1 BY <1>1, <1>2, <2>2
  <2>7. x \in Corrections => Len(c) = k + 1 BY <1>5, <2>3, <2>4
  <2>8. x \notin Corrections => Len(c) = k BY <1>5, <2>5
  <2> HIDE DEF k
  <2>9. /\ x \in Corrections => Len(c) <= M + 1
        /\ x \notin Corrections => Len(c) <= M
    BY <2>6, <2>7, <2>8
  <2> QED BY <2>1, <2>2, <2>4, <2>5, <2>9
<1>11. Len(c) \in Nat /\ DOMAIN c = 1..Len(c) BY <1>5
<1>12. CASE Len(c) <= M
  <2>1. drop = {}
    <3>1. 1..(Len(c) - M) = {} BY <1>2, <1>11, <1>12
    <3> QED BY <3>1 DEF drop
  <2>2. ToSet(t) = ToSet(s) BY <1>7, <2>1
  <2>3. Len(t) = Len(r) + 1 BY <1>3, <1>6, <1>8, <2>2
  <2>4. Cardinality(CorrectionsIn(t)) <= M BY <1>5, <1>9, <1>12, <2>1
  <2>5. x \in ToSet(t) BY <1>3, <2>2
  <2> QED BY <1>6, <2>2, <2>3, <2>4, <2>5 DEF s, t, M
<1>13. CASE ~(Len(c) <= M)
  <2>1. Len(c) = M + 1 /\ x \in Corrections /\ ToSet(c) = CorrectionsIn(r) \cup {x}
    <3>1. x \in Corrections /\ Len(c) <= M + 1 /\ ToSet(c) = CorrectionsIn(r) \cup {x}
      BY <1>10, <1>13
    <3>2. Len(c) = M + 1
      <4> DEFINE k == Len(c)
      <4>1. k \in Nat /\ M \in Nat /\ k <= M + 1 /\ ~(k <= M) BY <1>2, <1>11, <1>13, <3>1
      <4> HIDE DEF k
      <4>2. k = M + 1 BY <4>1
      <4> QED BY <4>2 DEF k
    <3> QED BY <3>1, <3>2
  <2> DEFINE y == c[1]
  <2>2. 1 \in DOMAIN c /\ 2 \in DOMAIN c BY <1>2, <1>11, <2>1
  <2>3. y \in ToSet(c) /\ c[2] \in ToSet(c) /\ c[2] # y
    BY <1>5, <2>2 DEF ToSet, Unique
  <2>4. drop = {y}
    <3>1. Len(c) - M = 1 BY <1>2, <2>1
    <3>2. drop = {c[i] : i \in 1..1} BY <3>1 DEF drop
    <3> QED BY <3>2
  <2>5. ASSUME NEW z \in ToSet(c), z # y PROVE Before(s, y, z)
    <3>1. PICK j \in DOMAIN c : c[j] = z BY DEF ToSet
    <3>2. j # 1 /\ 1 < j BY <1>11, <2>5, <3>1
    <3>3. Before(c, y, z) BY <2>2, <3>1, <3>2 DEF Before
    <3> QED BY <1>5, <3>3
  <2>6. ASSUME NEW z, Before(s, y, z) PROVE y \in ToSet(r) /\ (Before(r, y, z) \/ z = x)
    BY <1>3, <2>6, BeforeIn
  <2>7. y # x /\ y \in ToSet(r)
    <3>1. Before(s, y, c[2]) BY <2>3, <2>5
    <3> QED BY <2>6, <3>1
  <2>8. y \in Corrections BY <1>5, <2>3
  <2> HIDE DEF y
  <2>9. ToSet(t) = ToSet(s) \ {y} BY <1>7, <2>4
  <2>10. Cardinality(CorrectionsIn(t)) = M
    <3>1. Cardinality(ToSet(c) \ {y}) = Cardinality(ToSet(c)) - 1
      BY <1>5, <2>3, FS_RemoveElement
    <3>2. CorrectionsIn(t) = ToSet(c) \ {y} BY <1>9, <2>4
    <3>3. Cardinality(ToSet(c)) = M + 1 BY <1>5, <2>1
    <3>4. (M + 1) - 1 = M BY <1>2
    <3> QED BY <3>1, <3>2, <3>3, <3>4
  <2>11. Len(t) = Len(r)
    <3>1. y \in ToSet(s) BY <1>3, <2>7
    <3>2. Cardinality(ToSet(s) \ {y}) = Cardinality(ToSet(s)) - 1
      BY <1>8, <3>1, FS_RemoveElement
    <3>3. Cardinality(ToSet(s)) = Len(r) + 1 BY <1>3, <1>8
    <3>4. (Len(r) + 1) - 1 = Len(r) BY <1>3
    <3> QED BY <1>6, <2>9, <3>2, <3>3, <3>4
  <2>12. ASSUME NEW z \in ToSet(r), z \in Corrections <=> y \in Corrections, z # y
         PROVE  Before(r, y, z)
    <3>1. z \in ToSet(c) BY <1>3, <1>5, <2>8, <2>12
    <3>2. Before(s, y, z) BY <2>5, <2>12, <3>1
    <3>3. z # x OBVIOUS
    <3> QED BY <2>6, <3>2, <3>3
  <2>13. LosesOnly(r, x, t, y)
    BY <2>1, <2>7, <2>8, <2>9, <2>10, <2>12 DEF LosesOnly, s, M
  <2>14. x \in ToSet(t) BY <1>3, <2>7, <2>9
  <2>15. Cardinality(CorrectionsIn(t)) <= M BY <1>2, <2>10
  <2> QED BY <1>6, <2>7, <2>11, <2>13, <2>14, <2>15 DEF s, t, M
<1> QED BY <1>12, <1>13

\* What the note then becomes: within its limits again, with the line just said, and
\* without at most one other, the oldest of its sort.
LEMMA PruneIs ==
  ASSUME NEW r, Within(r), NEW x \in Lines \ ToSet(r)
  PROVE  LET p == _prune_learn_lines(Append(r, x)) IN
         /\ Within(p) /\ x \in ToSet(p)
         /\ ToSet(p) = ToSet(Append(r, x)) \/ \E y \in ToSet(r) : LosesOnly(r, x, p, y)
<1> DEFINE s == Append(r, x)
           t == DropCorrections(s)
           d == DropOneLine(t)
           p == _prune_learn_lines(s)
           N == LEARN_MAX_LINES
           M == LEARN_MAX_CORRECTIONS
<1>1. N \in Nat /\ M \in Nat BY LearnLimits DEF LearnTerms
<1>2. r \in Seq(Lines) /\ Unique(r) /\ Len(r) <= N /\ Len(r) \in Nat BY DEF Within
<1>3. s \in Seq(Lines) /\ Len(s) >= 1 /\ ToSet(s) = ToSet(r) \cup {x}
      /\ \A a, b : Before(s, a, b) <=> Before(r, a, b) \/ (a \in ToSet(r) /\ b = x)
  <2>1. s \in Seq(Lines) /\ Len(s) = Len(r) + 1 BY <1>2
  <2>2. Len(s) >= 1 BY <1>2, <2>1
  <2> QED BY <1>2, <2>1, <2>2, Appended
<1>4. /\ t \in Seq(Lines) /\ Unique(t) /\ x \in ToSet(t)
      /\ Cardinality(CorrectionsIn(t)) <= M
      /\ \A a, b : Before(t, a, b) => Before(s, a, b)
      /\ \/ ToSet(t) = ToSet(s) /\ Len(t) = Len(r) + 1
         \/ /\ Len(t) = Len(r)
            /\ \E y \in ToSet(r) : LosesOnly(r, x, t, y)
  BY DropCorrectionsIs
<1>5. d = DropOneLine(d) => p = d BY <1>3, PruneOnce
<1> HIDE DEF s, t, d, p
<1>6. Len(t) \in Nat /\ Len(t) <= N + 1
  <2>1. Len(t) \in Nat BY <1>4
  <2>2. Len(t) = Len(r) + 1 \/ Len(t) = Len(r) BY <1>4
  <2> QED BY <1>1, <1>2, <2>1, <2>2
<1>7. CASE Len(t) <= N
  <2>1. d = t BY <1>4, <1>6, <1>7, DropOneLineIs DEF d
  <2>2. DropOneLine(t) = t BY <2>1 DEF d
  <2>3. p = t BY <1>5, <2>1, <2>2
  <2>4. Within(p) BY <1>4, <1>7, <2>3 DEF Within
  <2> QED BY <1>4, <2>3, <2>4 DEF s, p
<1>8. CASE Len(t) > N
  <2>1. ToSet(t) = ToSet(s)
    <3>1. Len(t) # Len(r) BY <1>1, <1>2, <1>8
    <3> QED BY <1>4, <3>1
  <2>2. PICK y \in ToSet(t) \ Corrections :
          /\ d \in Seq(Lines) /\ Unique(d) /\ Len(d) = N /\ ToSet(d) = ToSet(t) \ {y}
          /\ \A z \in ToSet(t) \ Corrections : z # y => Before(t, y, z)
          /\ \E z \in ToSet(t) \ Corrections : z # y
    BY <1>4, <1>6, <1>8, DropOneLineIs DEF d
  <2>3. CorrectionsIn(d) = CorrectionsIn(t) BY <2>2, CorrectionsInIs
  <2>4. Len(d) <= N /\ Len(d) <= N + 1 BY <1>1, <2>2
  <2>5. Within(d) BY <1>4, <2>2, <2>3, <2>4 DEF Within
  <2>6. p = d
    <3>1. DropOneLine(d) = d BY <1>4, <2>2, <2>3, <2>4, DropOneLineIs
    <3> QED BY <1>5, <3>1
  <2>7. ASSUME NEW z \in ToSet(t) \ Corrections, z # y
        PROVE  y \in ToSet(r) /\ (Before(r, y, z) \/ z = x)
    <3>1. Before(s, y, z) BY <1>4, <2>2, <2>7
    <3> QED BY <1>3, <3>1, BeforeIn
  <2>8. y # x /\ y \in ToSet(r) BY <2>2, <2>7
  <2>9. \A z \in ToSet(r) : (z \in Corrections <=> y \in Corrections) /\ z # y => Before(r, y, z)
    <3> SUFFICES ASSUME NEW z \in ToSet(r), z \notin Corrections, z # y PROVE Before(r, y, z)
      OBVIOUS
    <3>1. z \in ToSet(t) /\ z # x BY <1>3, <2>1
    <3> QED BY <2>7, <3>1
  <2>10. LosesOnly(r, x, p, y) BY <2>1, <2>2, <2>6, <2>8, <2>9 DEF LosesOnly, s
  <2>11. x \in ToSet(p) BY <1>4, <2>2, <2>6, <2>8
  <2> QED BY <2>5, <2>6, <2>8, <2>10, <2>11 DEF s, p
<1>9. Len(t) <= N \/ Len(t) > N BY <1>1, <1>6
<1> QED BY <1>7, <1>8, <1>9

\* The note and the text about to be written are within the limits, and the line said
\* last is in one of them.
LearnInv == /\ Within(notes) /\ Within(text)
            /\ pc \in {"idle", "open"} /\ last \in Lines \cup {NoLine} /\ crashes \in Nat
            /\ last \in Lines => last \in ToSet(Shown)

LEMMA WithinEmpty == Within(<<>>)
<1>1. <<>> \in Seq(Lines) /\ Len(<<>>) = 0 OBVIOUS
<1>2. CorrectionsIn(<<>>) = {} BY EmptyFacts, CorrectionsInIs
<1>3. Cardinality({}) = 0 BY FS_EmptySet
<1>4. 0 <= LEARN_MAX_LINES /\ 0 <= LEARN_MAX_CORRECTIONS BY LearnLimits DEF LearnTerms
<1> QED BY <1>1, <1>2, <1>3, <1>4, EmptyFacts DEF Within

LEMMA LearnInvInit == LearnInit => LearnInv
<1> SUFFICES ASSUME LearnInit PROVE LearnInv OBVIOUS
<1>1. last \notin Lines BY LearnLimits DEF LearnInit, LearnTerms
<1> QED BY <1>1, WithinEmpty DEF LearnInit, LearnInv

LEMMA LearnInvNext == LearnInv /\ [LearnNext]_learnVars => LearnInv'
<1> SUFFICES ASSUME LearnInv, [LearnNext]_learnVars PROVE LearnInv' OBVIOUS
<1>1. ASSUME NEW x \in Lines, Say(x), x \in ToSet(notes) PROVE LearnInv'
  BY <1>1 DEF Say, LearnInv, Within, Shown, CorrectionsIn, _is_correction_line
<1>2. ASSUME NEW x \in Lines, Say(x), x \notin ToSet(notes) PROVE LearnInv'
  <2>1. /\ text' = _prune_learn_lines(Append(notes, x)) /\ pc' = "open" /\ notes' = <<>>
        /\ last' = x /\ crashes' = crashes
    BY <1>2 DEF Say
  <2> DEFINE p == _prune_learn_lines(Append(notes, x))
  <2>2. Within(p) /\ x \in ToSet(p) BY <1>2, PruneIs DEF LearnInv
  <2> HIDE DEF p
  <2>3. Shown' = p BY <2>1 DEF Shown, p
  <2>4. Within(text)' /\ Within(notes)'
    BY <2>1, <2>2, WithinEmpty DEF Within, CorrectionsIn, _is_correction_line, p
  <2>5. crashes' \in Nat BY <2>1 DEF LearnInv
  <2> QED BY <2>1, <2>2, <2>3, <2>4, <2>5 DEF LearnInv
<1>3. CASE Write
  <2>1. /\ notes' = text /\ pc' = "idle" /\ text' = <<>> /\ last' = last /\ crashes' = crashes
        /\ pc = "open"
    BY <1>3 DEF Write
  <2>2. Within(notes)' BY <2>1 DEF LearnInv, Within, CorrectionsIn, _is_correction_line
  <2>3. Within(text)' BY <2>1, WithinEmpty DEF Within, CorrectionsIn, _is_correction_line
  <2>4. Shown' = Shown BY <2>1 DEF Shown
  <2> QED BY <2>1, <2>2, <2>3, <2>4 DEF LearnInv
<1>4. CASE Crash
  <2>1. /\ notes' = notes /\ pc' = "idle" /\ text' = <<>> /\ last' = NoLine
        /\ crashes' = crashes + 1
    BY <1>4 DEF Crash
  <2>2. Within(notes)' BY <2>1 DEF LearnInv, Within, CorrectionsIn, _is_correction_line
  <2>3. Within(text)' BY <2>1, WithinEmpty DEF Within, CorrectionsIn, _is_correction_line
  <2>4. last' \notin Lines BY <2>1, LearnLimits DEF LearnTerms
  <2>5. crashes' \in Nat BY <2>1 DEF LearnInv
  <2> QED BY <2>1, <2>2, <2>3, <2>4, <2>5 DEF LearnInv
<1>5. CASE UNCHANGED learnVars
  BY <1>5 DEF learnVars, LearnInv, Within, Shown, CorrectionsIn, _is_correction_line
<1> QED BY <1>1, <1>2, <1>3, <1>4, <1>5 DEF LearnNext

LEMMA LearnInvAlways == LearnSpec => []LearnInv
BY LearnInvInit, LearnInvNext, PTL DEF LearnSpec

\* The variables of the learning note always have their types
\* (bogo_runtime.py:220-263).
THEOREM LearnTypeCorrect == LearnSpec => []LearnTypeOK
<1>1. LearnInv => LearnTypeOK BY DEF LearnInv, LearnTypeOK, Within
<1> QED BY <1>1, LearnInvAlways, PTL

\* Whatever is said, however often, the note keeps its limits and the line just said
\* (bogo_runtime.py:266-297).
THEOREM LessonsKept == LearnSpec => []LastSaidKept
<1>1. LearnInv => LastSaidKept
  <2> SUFFICES ASSUME LearnInv PROVE LastSaidKept OBVIOUS
  <2>1. Within(Shown) BY DEF LearnInv, Shown
  <2> QED BY <2>1 DEF LearnInv, LastSaidKept, Within
<1> QED BY <1>1, LearnInvAlways, PTL

\* But for a crash, a line is forgotten only when a limit forces it, and only the oldest
\* of its sort (bogo_runtime.py:266-282).
THEOREM OldestGoesFirst == LearnSpec => ForgetsOldestFirst
<1>1. ASSUME LearnInv, [LearnNext]_learnVars PROVE [ForgetsOldest]_learnVars
  <2> SUFFICES ASSUME crashes' = crashes, NEW y \in ToSet(Shown), y \notin ToSet(Shown')
               PROVE  LET kin == {z \in ToSet(Shown) : z \in Corrections <=> y \in Corrections} IN
                      /\ (kin \cap Newer(Shown, y)) \subseteq ToSet(Shown')
                      /\ (kin \cap ToSet(Shown')) \subseteq Newer(Shown, y)
                      /\ IF y \in Corrections
                         THEN /\ last' \in Corrections
                              /\ Cardinality(CorrectionsIn(Shown')) = LEARN_MAX_CORRECTIONS
                         ELSE Len(Shown') = LEARN_MAX_LINES
    BY DEF ForgetsOldest, _is_correction_line
  <2>1. Shown' # Shown OBVIOUS
  <2>2. PICK x \in Lines : Say(x) /\ x \notin ToSet(notes)
    <3>1. ~UNCHANGED learnVars BY <2>1 DEF learnVars, Shown
    <3>2. ~Write BY <2>1 DEF Write, Shown
    <3>3. ~Crash BY <1>1 DEF Crash, LearnInv
    <3>4. \A x \in Lines : Say(x) /\ x \in ToSet(notes) => Shown' = Shown BY DEF Say, Shown
    <3> QED BY <1>1, <2>1, <3>1, <3>2, <3>3, <3>4 DEF LearnNext
  <2> DEFINE p == _prune_learn_lines(Append(notes, x))
  <2>3. Shown = notes /\ Shown' = p /\ last' = x BY <2>2 DEF Say, Shown
  <2>4. Within(notes) BY <1>1 DEF LearnInv
  <2>5. ToSet(p) = ToSet(Append(notes, x)) \/ \E z \in ToSet(notes) : LosesOnly(notes, x, p, z)
    BY <2>2, <2>4, PruneIs
  <2> HIDE DEF p
  <2>6. ToSet(Append(notes, x)) = ToSet(notes) \cup {x} BY <2>4, Appended DEF Within
  <2>7. LosesOnly(notes, x, p, y)
    <3>1. y \in ToSet(Append(notes, x)) /\ y \notin ToSet(p) BY <2>3, <2>6
    <3>2. PICK z \in ToSet(notes) : LosesOnly(notes, x, p, z) BY <2>5, <3>1
    <3>3. z = y BY <3>1, <3>2 DEF LosesOnly
    <3> QED BY <3>2, <3>3
  <2>8. ASSUME NEW z PROVE z \in Newer(notes, y) <=> Before(notes, y, z)
    BY DEF Newer, Before
  <2>9. ~Before(notes, y, y)
    <3> SUFFICES ASSUME NEW i \in DOMAIN notes, NEW j \in DOMAIN notes, i < j,
                        notes[i] = notes[j]
                 PROVE  FALSE
      BY DEF Before
    <3>1. i = j BY <2>4 DEF Within, Unique
    <3>2. i \in Nat BY <2>4 DEF Within
    <3> QED BY <3>1, <3>2
  <2>10. /\ ToSet(p) = (ToSet(notes) \cup {x}) \ {y}
         /\ \A z \in ToSet(notes) : (z \in Corrections <=> y \in Corrections) /\ z # y => Before(notes, y, z)
    BY <2>6, <2>7 DEF LosesOnly
  <2>11. ASSUME NEW z \in ToSet(notes), z \in Corrections <=> y \in Corrections
         PROVE  /\ z \in Newer(notes, y) => z \in ToSet(p)
                /\ z \in ToSet(p) => z \in Newer(notes, y)
    BY <2>8, <2>9, <2>10, <2>11
  <2>12. IF y \in Corrections
         THEN /\ last' \in Corrections /\ Cardinality(CorrectionsIn(p)) = LEARN_MAX_CORRECTIONS
         ELSE Len(p) = LEARN_MAX_LINES
    BY <2>3, <2>7 DEF LosesOnly
  <2>13. CorrectionsIn(Shown') = CorrectionsIn(p) BY <2>3
  <2> QED BY <2>3, <2>11, <2>12, <2>13
<1> QED BY <1>1, LearnInvAlways, PTL DEF LearnSpec, ForgetsOldestFirst
=============================================================================
