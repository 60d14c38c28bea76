----------------------------- MODULE RoomMemory -----------------------------
(***************************************************************************)
(* The rolling memory files of app/bogo_runtime.py: memory_ch_<room>.json, *)
(* which the processes of all the roles of a room share without a lock     *)
(* (save_room_mem), and memory_<role>.json, which one process writes       *)
(* (save_mem).  A save reads the file, opens it for writing (which         *)
(* truncates it), and its text reaches the file when the handle is closed. *)
(* AgentRuntime treats the two saves of a memo as one step.                *)
(***************************************************************************)
EXTENDS Integers, Sequences

CONSTANTS
  Roles, Rooms, \* a process per role; a shared file per room, an own file per role
  Subs,         \* Subs[r]: the rooms of role r
  KEEP,         \* lines kept
  MaxMemos,     \* bound: memos
  MaxCrashes    \* bound: process deaths

VARIABLES
  file,         \* file[f]: the lines in f; <<>>: no file, or a truncated one
  torn,         \* torn[f]: f does not parse: the tail of a longer text follows a shorter one
  pc,           \* pc[r]: "idle", "read" (has read, will open), "open" (has
                \* truncated), "own" (is going to save the memo in its own file)
  at,           \* at[r]: the file r is saving to
  memo,         \* memo[r]: the memo r is saving, or saved last
  text,         \* text[r]: the lines r is going to write
  behind,       \* behind[r]: another text reached the file after r truncated it
  next,         \* number of the next memo
  losses,       \* losses[f]: deaths with f truncated
  crashes

vars == <<file, torn, pc, at, memo, text, behind, next, losses, crashes>>

Files == Rooms \cup Roles

ASSUME RoomMemoryOK ==
  /\ Roles # {} /\ Rooms \cap Roles = {} /\ Subs \in [Roles -> SUBSET Rooms]
  /\ KEEP \in Nat \ {0} /\ MaxMemos \in Nat /\ MaxCrashes \in Nat

Init == /\ file = [f \in Files |-> <<>>] /\ torn = [f \in Files |-> FALSE]
        /\ pc = [r \in Roles |-> "idle"] /\ at = [r \in Roles |-> r]
        /\ memo = [r \in Roles |-> 0] /\ text = [r \in Roles |-> <<>>]
        /\ behind = [r \in Roles |-> FALSE]
        /\ next = 1
        /\ losses = [f \in Files |-> 0] /\ crashes = 0

\* Slip: one line too many is kept.
Rolled_one_more(s) == IF Len(s) <= KEEP THEN s ELSE SubSeq(s, Len(s) - KEEP, Len(s))

Rolled(s) == IF Len(s) <= KEEP THEN s ELSE SubSeq(s, Len(s) - KEEP + 1, Len(s))

\* What a reader gets: nothing when the file is missing, empty or does not parse.
load(f) == IF torn[f] THEN <<>> ELSE file[f]

\* A save of memo x starts by reading what is there.
Read(r, f, x) == /\ text' = [text EXCEPT ![r] = Rolled(Append(load(f), x))]
                 /\ pc' = [pc EXCEPT ![r] = "read"]
                 /\ at' = [at EXCEPT ![r] = f]
                 /\ memo' = [memo EXCEPT ![r] = x]
                 /\ UNCHANGED <<file, torn, behind, losses, crashes>>

\* save_room_mem of a new memo.
save_room_mem(r, c) == /\ pc[r] = "idle" /\ c \in Subs[r] /\ next <= MaxMemos
                       /\ Read(r, c, next)
                       /\ next' = next + 1

\* save_mem of the memo just saved for the room.
save_mem(r) == /\ pc[r] = "own"
               /\ Read(r, r, memo[r])
               /\ UNCHANGED next

Open(r) ==
  /\ pc[r] = "read"
  /\ file' = [file EXCEPT ![at[r]] = <<>>] /\ torn' = [torn EXCEPT ![at[r]] = FALSE]
  /\ pc' = [pc EXCEPT ![r] = "open"]
  /\ behind' = [q \in Roles |-> behind[q] /\ q # r /\ at[q] # at[r]]
  /\ UNCHANGED <<at, memo, text, next, losses, crashes>>

\* Slip: the new line is appended to whatever is there by now.
Close_append(r) ==
  /\ pc[r] = "open"
  /\ file' = [file EXCEPT ![at[r]] = Append(@, memo[r])]
  /\ pc' = [pc EXCEPT ![r] = IF at[r] = r THEN "idle" ELSE "own"]
  /\ UNCHANGED <<torn, at, memo, text, behind, next, losses, crashes>>

\* The handle is closed: the text goes to the start of the file.  A longer text
\* that got there first keeps its tail.  After a room's file comes the role's own.
Close(r) ==
  /\ pc[r] = "open"
  /\ file' = [file EXCEPT ![at[r]] = text[r]]
  /\ \E t \in BOOLEAN : /\ t => behind[r]
                        /\ torn' = [torn EXCEPT ![at[r]] = t]
  /\ behind' = [q \in Roles |->
                 q # r /\ (behind[q] \/ (pc[q] = "open" /\ at[q] = at[r]))]
  /\ pc' = [pc EXCEPT ![r] = IF at[r] = r THEN "idle" ELSE "own"]
  /\ UNCHANGED <<at, memo, text, next, losses, crashes>>

Crash(r) ==
  /\ pc[r] # "idle" /\ crashes < MaxCrashes
  /\ pc' = [pc EXCEPT ![r] = "idle"]
  /\ losses' = IF pc[r] = "open" THEN [losses EXCEPT ![at[r]] = @ + 1] ELSE losses
  /\ crashes' = crashes + 1
  /\ UNCHANGED <<file, torn, at, memo, text, behind, next>>

Next == \E r \in Roles : \/ \E c \in Rooms : save_room_mem(r, c)
                         \/ save_mem(r) \/ Open(r) \/ Close(r) \/ Crash(r)

Spec == Init /\ [][Next]_vars

-----------------------------------------------------------------------------
TypeOK ==
  /\ file \in [Files -> Seq(Nat)] /\ torn \in [Files -> BOOLEAN]
  /\ pc \in [Roles -> {"idle", "read", "open", "own"}] /\ at \in [Roles -> Files]
  /\ memo \in [Roles -> Nat] /\ text \in [Roles -> Seq(Nat)]
  /\ behind \in [Roles -> BOOLEAN]
  /\ next \in Nat \ {0}
  /\ losses \in [Files -> Nat] /\ crashes \in Nat

\* Overlapping saves lose memos, but whatever they and dying processes do to a
\* file (save_room_mem, save_mem), what a prompt gets from it is never out of
\* order and holds no memo twice.
Increasing(s) == \A i, j \in DOMAIN s : i < j => s[i] < s[j]
InOrder == \A f \in Files : Increasing(load(f))

\* A role's own memory (save_mem) is a rolling log, whatever the others do to the
\* rooms' files: a memo counts from the moment the file is opened for it, and
\* only a death before the text is there loses what was saved before.
L == INSTANCE RollingLog WITH
       Logs <- Roles,
       log <- [r \in Roles |-> IF pc[r] = "open" /\ at[r] = r THEN text[r] ELSE load(r)],
       losses <- [r \in Roles |-> losses[r]]
ImplementsLog == L!Spec
=============================================================================
