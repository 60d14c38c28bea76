---------------------------- MODULE OfficialBrain ----------------------------
(***************************************************************************)
(* app/bogo_brain.py: how a role's process asks the external CLI that is   *)
(* its official brain.  The CLI keeps sessions and memory files in a home  *)
(* of the role's own.  Every message is to be a turn of one session, which *)
(* is found by its title in the CLI's session list, not by anything the    *)
(* process remembers.  Every CLI call may fail or run into its timeout,    *)
(* before or after it has had its effect.                                  *)
(***************************************************************************)
EXTENDS Integers, FiniteSets

CONSTANTS
  MaxTurns,     \* bound: messages ever asked about
  MaxDeaths,    \* bound: deaths of the role's process
  MaxPrunes     \* bound: times that somebody clears the session list

VARIABLES
  home,         \* the role's home exists
  memories,     \* the turns the home's memory files have learnt something from
  taken,        \* who took which turn: a set of [turn, session]
  titled,       \* the sessions with the role's title
  newest,       \* the session that was active last (0: none)
  nSessions,    \* sessions ever made
  ready,        \* _home_ready of the process
  ask,          \* where call_official_brain is
  turn,         \* the message asked about, or the last one
  faulty,       \* a CLI call has failed
  deaths, prunes

cliVars   == <<home, memories, taken, titled, newest, nSessions>>
brainVars == <<cliVars, ready, ask, turn, faulty, deaths, prunes>>

Asking == {"idle", "home", "list", "continue", "create", "name", "out", "none"}

ASSUME OfficialBrainOK == MaxTurns \in Nat /\ MaxDeaths \in Nat /\ MaxPrunes \in Nat

BrainInit ==
  /\ home = FALSE /\ memories = {} /\ taken = {} /\ titled = {} /\ newest = 0
  /\ nSessions = 0 /\ ready = FALSE /\ ask = "idle" /\ turn = 0
  /\ faulty = FALSE /\ deaths = 0 /\ prunes = 0

-----------------------------------------------------------------------------
Works == UNCHANGED faulty
Fails == faulty' = TRUE

\* A role's home is made once; a call that fails may have made it.  The first time
\* a process gets here its memory files are emptied, whoever made the home.
_ensure_role_home ==
  /\ ask = "home" /\ ask' = "list"
  /\ \/ ready /\ Works /\ UNCHANGED <<home, memories, ready>>
     \/ /\ ~ready /\ home' = TRUE /\ memories' = {} /\ ready' = TRUE /\ Works
     \/ /\ ~ready /\ ~home
        /\ home' \in BOOLEAN /\ Fails /\ UNCHANGED <<memories, ready>>
  /\ UNCHANGED <<taken, titled, newest, nSessions, turn, deaths, prunes>>

\* Slip: a title is known only to the process that gave it.
session_exists_cached == titled # {} /\ deaths = 0

session_exists == titled # {}

\* Slip: after a list that fails everything starts over.
List_again ==
  /\ ask = "list"
  /\ \/ ask' = (IF session_exists THEN "continue" ELSE "create") /\ Works
     \/ ask' = "home" /\ Fails
  /\ UNCHANGED <<cliVars, ready, turn, deaths, prunes>>

\* Is there a session with the title?  A list that fails says no.
List ==
  /\ ask = "list"
  /\ \/ ask' = (IF session_exists THEN "continue" ELSE "create") /\ Works
     \/ ask' = "create" /\ Fails
  /\ UNCHANGED <<cliVars, ready, turn, deaths, prunes>>

\* Session s takes the turn; the CLI may learn from it, and makes the home if it
\* has to.
Takes(s) == /\ taken' = taken \cup {[turn |-> turn, session |-> s]}
            /\ newest' = s
            /\ memories' \in {memories, memories \cup {turn}}
            /\ home' = TRUE

\* --continue: a failed call, or one that finds no session any more, is followed
\* by a new session.
Continue ==
  /\ ask = "continue"
  /\ \/ \E s \in titled : Takes(s) /\ ask' = "out" /\ Works
     \/ \E s \in titled : Takes(s) /\ ask' = "create" /\ Fails
     \/ UNCHANGED <<home, memories, taken, newest>> /\ ask' = "create" /\ Fails
     \/ /\ titled = {} /\ ask' = "create" /\ Works
        /\ UNCHANGED <<home, memories, taken, newest>>
  /\ UNCHANGED <<titled, nSessions, ready, turn, deaths, prunes>>

\* Slip: a new session is tried until one works.
Create_again ==
  /\ ask = "create"
  /\ Takes(nSessions + 1) /\ nSessions' = nSessions + 1
  /\ \/ ask' = "name" /\ Works
     \/ Fails /\ UNCHANGED ask
  /\ UNCHANGED <<titled, ready, turn, deaths, prunes>>

\* A new session without a title.
Create ==
  /\ ask = "create"
  /\ \/ /\ Takes(nSessions + 1) /\ nSessions' = nSessions + 1
        /\ \/ ask' = "name" /\ Works
           \/ ask' = "none" /\ Fails
     \/ ask' = "none" /\ Fails /\ UNCHANGED <<home, memories, taken, newest, nSessions>>
  /\ UNCHANGED <<titled, ready, turn, deaths, prunes>>

\* Its id is in the output or else at the top of the session list; it gets the
\* title.  A failure costs nothing but the title.
_name_session ==
  /\ ask = "name" /\ ask' = "out"
  /\ \/ titled' = titled \cup {newest} /\ faulty' \in {faulty, TRUE}
     \/ Fails /\ UNCHANGED titled
  /\ UNCHANGED <<home, memories, taken, newest, nSessions, ready, turn, deaths, prunes>>

call_official_brain == _ensure_role_home \/ List \/ Continue \/ Create \/ _name_session

-----------------------------------------------------------------------------
\* Somebody clears the list of sessions.
Prune == /\ prunes < MaxPrunes /\ titled # {}
         /\ titled' = {} /\ prunes' = prunes + 1
         /\ UNCHANGED <<home, memories, taken, newest, nSessions, ready, ask, turn, faulty, deaths>>

\* The process dies and a new one starts.
Dies == /\ deaths < MaxDeaths
        /\ deaths' = deaths + 1 /\ ready' = FALSE /\ ask' = "idle"
        /\ UNCHANGED <<cliVars, turn, faulty, prunes>>

-----------------------------------------------------------------------------
BrainTypeOK ==
  /\ home \in BOOLEAN /\ memories \subseteq Nat
  /\ taken \subseteq [turn: Nat, session: Nat] /\ titled \subseteq Nat
  /\ newest \in Nat /\ nSessions \in Nat
  /\ ready \in BOOLEAN /\ ask \in Asking /\ turn \in Nat
  /\ faulty \in BOOLEAN /\ deaths \in Nat /\ prunes \in Nat

\* Learning accumulates in one session: as long as no CLI call fails, once a session
\* has the role's title every turn is taken by it, also by the next process
\* (call_official_brain, session_exists).
StaysInSession ==
  [][\A e \in taken' \ taken : titled # {} /\ ~faulty' => e.session \in titled]_brainVars

\* However calls fail and processes die, no message is asked more than twice: once
\* of the session with the title and once of a new one (call_official_brain).
AskedTwiceAtMost ==
  \A e \in taken : Cardinality({f \in taken : f.turn = e.turn}) <= 2
=============================================================================
