------------------------------ MODULE LearnNote ------------------------------
(***************************************************************************)
(* The learning note memory_learn_<role>.json of app/bogo_runtime.py: what *)
(* humans say in a role's learning room, one line each, corrections marked.*)
(* Only the role's own process writes it.  A save reads the note, skips a  *)
(* line it already holds, prunes, opens the file (which truncates it) and  *)
(* writes.                                                                 *)
(***************************************************************************)
EXTENDS Integers, SequencesExt

CONSTANTS
  Lines,                  \* what can be said, after normalisation
  Corrections,            \* the lines with CORRECTION_PREFIX
  LEARN_MAX_LINES, LEARN_MAX_CORRECTIONS,
  MaxCrashes              \* bound: process deaths

VARIABLES
  notes,    \* the lines of the file, oldest first
  pc,       \* "idle", or "open": truncated and not yet written
  text,     \* the lines about to be written
  last,     \* the line said last to this process (NoLine: none)
  crashes

learnVars == <<notes, pc, text, last, crashes>>

NoLine == "no line"

ASSUME LearnNoteOK ==
  /\ Corrections \subseteq Lines /\ NoLine \notin Lines
  /\ LEARN_MAX_CORRECTIONS \in Nat \ {0} /\ LEARN_MAX_LINES \in Nat
  /\ LEARN_MAX_CORRECTIONS < LEARN_MAX_LINES /\ MaxCrashes \in Nat

LearnInit == /\ notes = <<>> /\ pc = "idle" /\ text = <<>>
        /\ last = NoLine /\ crashes = 0

_is_correction_line(x) == x \in Corrections

\* The lines of s that are in T, in their order.
Filter(s, T) == FoldLeft(LAMBDA t, x : IF x \in T THEN Append(t, x) ELSE t, <<>>, s)

\* The oldest corrections beyond their own limit go first; then the oldest
\* ordinary lines, one by one, until the whole fits or only corrections are left.
DropCorrections(s) ==
  LET c == Filter(s, Corrections)
      drop == {c[i] : i \in 1..(Len(c) - LEARN_MAX_CORRECTIONS)}
  IN Filter(s, Lines \ drop)

\* Slip: the newest ordinary line goes.
DropOneLine_newest(s) ==
  LET i == SelectLastInSeq(s, LAMBDA x : ~_is_correction_line(x))
  IN IF Len(s) > LEARN_MAX_LINES /\ i # 0 THEN RemoveAt(s, i) ELSE s

\* Slip: the oldest line goes, a correction or not.
DropOneLine_any(s) == IF Len(s) > LEARN_MAX_LINES THEN Tail(s) ELSE s

DropOneLine(s) ==
  LET i == SelectInSeq(s, LAMBDA x : ~_is_correction_line(x))
  IN IF Len(s) > LEARN_MAX_LINES /\ i # 0 THEN RemoveAt(s, i) ELSE s

_prune_learn_lines(s) == FoldLeft(LAMBDA t, x : DropOneLine(t), DropCorrections(s), s)

\* A human says x in the learning room.
Say(x) ==
  /\ pc = "idle"
  /\ last' = x
  /\ IF x \in ToSet(notes)
     THEN UNCHANGED <<notes, pc, text>>
     ELSE /\ text' = _prune_learn_lines(Append(notes, x))
          /\ pc' = "open" /\ notes' = <<>>
  /\ UNCHANGED crashes

Write == /\ pc = "open"
         /\ notes' = text /\ pc' = "idle" /\ text' = <<>>
         /\ UNCHANGED <<last, crashes>>

\* The process dies with the file truncated.  Elsewhere a death changes nothing
\* here.
Crash == /\ pc = "open" /\ crashes < MaxCrashes
         /\ pc' = "idle" /\ text' = <<>> /\ last' = NoLine /\ crashes' = crashes + 1
         /\ UNCHANGED notes

LearnNext == (\E x \in Lines : Say(x)) \/ Write \/ Crash

LearnSpec == LearnInit /\ [][LearnNext]_learnVars

-----------------------------------------------------------------------------
LearnTypeOK == /\ notes \in Seq(Lines) /\ text \in Seq(Lines) /\ pc \in {"idle", "open"}
               /\ last \in Lines \cup {NoLine} /\ crashes \in Nat

\* What the note holds or is about to hold.
Shown == IF pc = "open" THEN text ELSE notes
CorrectionsIn(s) == {x \in ToSet(s) : _is_correction_line(x)}

\* Pruning never takes the lesson just taught, and the note never outgrows its
\* limits, whichever lines were said, dropped and said again.
LastSaidKept == /\ last \in Lines => last \in ToSet(Shown)
                /\ Len(Shown) <= LEARN_MAX_LINES
                /\ Cardinality(CorrectionsIn(Shown)) <= LEARN_MAX_CORRECTIONS

Newer(s, x) == {s[j] : j \in {k \in DOMAIN s : \E i \in DOMAIN s : i < k /\ s[i] = x}}
ForgetsOldest ==
  crashes' = crashes => \A x \in ToSet(Shown) \ ToSet(Shown') :
    LET kin == {y \in ToSet(Shown) : _is_correction_line(y) <=> _is_correction_line(x)} IN
    /\ (kin \cap Newer(Shown, x)) \subseteq ToSet(Shown')
    /\ (kin \cap ToSet(Shown')) \subseteq Newer(Shown, x)
    /\ IF _is_correction_line(x)
       THEN /\ last' \in Corrections
            /\ Cardinality(CorrectionsIn(Shown')) = LEARN_MAX_CORRECTIONS
       ELSE Len(Shown') = LEARN_MAX_LINES

\* But for a crash, a line is forgotten only when its limit forces it and only
\* before every newer line of its sort; an ordinary line never displaces a
\* correction.
ForgetsOldestFirst == [][ForgetsOldest]_learnVars
=============================================================================
