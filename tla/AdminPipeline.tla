--------------------------- MODULE AdminPipeline ---------------------------
(***************************************************************************)
(* app/ceo_admin_runtime.py: the bot that lets people edit an agent's      *)
(* definition agents/<role>.md from that role's learning room.  An         *)
(* instruction yields a preview that waits in PENDING; "apply" writes the  *)
(* file, adds it to git, commits and reloads the agent; "reject" forgets   *)
(* it.  One event loop serves all the rooms, one message at a time, with   *)
(* the handler in a worker thread.  On macOS the agents run a mirror of    *)
(* the repository, which .githooks/post-commit refreshes.                  *)
(***************************************************************************)
EXTENDS Integers, Sequences

CONSTANTS
  Roles,        \* the owners of the learning rooms
  Texts, First, \* what a definition may say; what every one says at first
  Bad,          \* the texts that break a required field
  Empty,        \* a truncated definition
  None,         \* no text
  MaxMsgs,      \* bound: messages ever written
  MaxCrashes    \* bound: deaths of the bot

VARIABLES
  mirrored,   \* macOS: agents run the mirror and git runs the post-commit hook
  queue,      \* messages received and not yet handled: [room, cmd]
  PENDING,    \* PENDING[r]: the text waiting for approval (None: nothing)
  pc,         \* the handler: [at, role, text]
  file,       \* file[r]: agents/<r>.md in the repository's worktree
  index,      \* index[r]: in git's index
  head,       \* head[r]: in git's HEAD
  mirror,     \* mirror[r]: in ~/.bogo-bin/app
  running,    \* running[r]: what agent r's process loaded (None: it cannot start)
  approved,   \* approved[r]: First and the texts "apply" was said to in room r
  nMsgs, nCrashes

git  == <<index, head>>
bot  == <<queue, PENDING, pc>>
vars == <<mirrored, bot, file, git, mirror, running, approved, nMsgs, nCrashes>>

Commands == {"update", "apply", "reject"}
Message  == [room: Roles, cmd: Commands]
Places   == {"down", "idle", "write", "add", "commit", "reload"}
At(place, r, t) == [at |-> place, role |-> r, text |-> t]

ASSUME AdminPipelineOK ==
  /\ Roles # {} /\ First \in Texts \ Bad
  /\ Empty \notin Texts /\ None \notin Texts \cup {Empty}
  /\ MaxMsgs \in Nat /\ MaxCrashes \in Nat

AnyRole == CHOOSE r \in Roles : TRUE
Idle    == At("idle", AnyRole, None)
Down    == At("down", AnyRole, None)
Nothing == [r \in Roles |-> None]

Init ==
  /\ mirrored \in BOOLEAN
  /\ queue = <<>> /\ PENDING = Nothing /\ pc = Idle
  /\ file = [r \in Roles |-> First] /\ index = file /\ head = file
  /\ mirror = file /\ running = file
  /\ approved = [r \in Roles |-> {First}]
  /\ nMsgs = 0 /\ nCrashes = 0

-----------------------------------------------------------------------------
(* People, agents and the service manager *)

\* Anyone but the bot itself may write in a learning room; a bot that is
\* not there misses it.
Say(r, cmd) ==
  /\ nMsgs < MaxMsgs
  /\ nMsgs' = nMsgs + 1
  /\ queue' = IF pc.at = "down" THEN queue
              ELSE Append(queue, [room |-> r, cmd |-> cmd])
  /\ UNCHANGED <<PENDING, pc, file, git, mirror, running, approved, nCrashes>>

\* The definitions a process of this PC loads; every process loads all of them
\* and none starts when one is broken.
Deployed == IF mirrored THEN mirror ELSE file

Loaded(defs) == IF \A s \in Roles : defs[s] # Empty THEN defs ELSE Nothing

\* The service manager or a reboot starts agent r anew.
Restart(r) ==
  /\ running' = [running EXCEPT ![r] = Loaded(Deployed)[r]]
  /\ UNCHANGED <<bot, file, git, mirror, approved, nMsgs, nCrashes>>

Die == /\ queue' = <<>> /\ PENDING' = Nothing /\ pc' = Down

Crash == /\ nCrashes < MaxCrashes /\ pc.at # "down"
         /\ nCrashes' = nCrashes + 1
         /\ Die
         /\ UNCHANGED <<file, git, mirror, running, approved, nMsgs>>

StartBot == /\ pc.at = "down" /\ Loaded(Deployed) # Nothing
            /\ pc' = Idle
            /\ UNCHANGED <<queue, PENDING, file, git, mirror, running,
                           approved, nMsgs, nCrashes>>

\* The socket is lost between two messages, with the frames not yet read.
Reconnect == /\ pc.at = "idle" /\ queue # <<>>
             /\ queue' = <<>>
             /\ UNCHANGED <<PENDING, pc, file, git, mirror, running,
                            approved, nMsgs, nCrashes>>

-----------------------------------------------------------------------------
(* handle() *)

Taken(cmd) == /\ pc.at = "idle" /\ queue # <<>> /\ Head(queue).cmd = cmd
              /\ queue' = Tail(queue)
Room == Head(queue).room

\* Slip: any rewritten text is offered.
frontmatter_any(t) == TRUE

frontmatter_ok(t) == t \notin Bad

\* The new text replaces the waiting one.
Preview ==
  /\ Taken("update")
  /\ \E t \in Texts : /\ t # file[Room] /\ frontmatter_ok(t)
                      /\ PENDING' = [PENDING EXCEPT ![Room] = t]
  /\ UNCHANGED <<pc, file, git, mirror, running, approved, nMsgs, nCrashes>>

\* No intention to edit, an error of the model, an unchanged text or a broken one.
NoPreview ==
  /\ Taken("update")
  /\ UNCHANGED <<PENDING, pc, file, git, mirror, running, approved,
                 nMsgs, nCrashes>>

Reject ==
  /\ Taken("reject")
  /\ PENDING' = [PENDING EXCEPT ![Room] = None]
  /\ UNCHANGED <<pc, file, git, mirror, running, approved, nMsgs, nCrashes>>

\* Nothing waits, or the file cannot be opened.
ApplyNothing ==
  /\ Taken("apply")
  /\ UNCHANGED <<PENDING, pc, file, git, mirror, running, approved,
                 nMsgs, nCrashes>>

\* Opening the file for writing truncates it.
Apply ==
  /\ Taken("apply") /\ PENDING[Room] # None
  /\ approved' = [approved EXCEPT ![Room] = @ \cup {PENDING[Room]}]
  /\ file' = [file EXCEPT ![Room] = Empty]
  /\ pc' = At("write", Room, PENDING[Room])
  /\ UNCHANGED <<PENDING, git, mirror, running, nMsgs, nCrashes>>

\* Each step may fail: the handler reports it and the change keeps waiting.
Fails == pc' = Idle

WriteFile ==
  /\ pc.at = "write"
  /\ \/ file' = [file EXCEPT ![pc.role] = pc.text] /\ pc' = [pc EXCEPT !.at = "add"]
     \/ Fails /\ UNCHANGED file
  /\ UNCHANGED <<queue, PENDING, git, mirror, running, approved, nMsgs, nCrashes>>

\* Slip: the result of git add is not looked at.
GitAdd_unchecked ==
  /\ pc.at = "add"
  /\ index' \in {index, [index EXCEPT ![pc.role] = file[pc.role]]}
  /\ pc' = [pc EXCEPT !.at = "commit"]
  /\ UNCHANGED <<queue, PENDING, file, head, mirror, running,
                 approved, nMsgs, nCrashes>>

GitAdd ==
  /\ pc.at = "add"
  /\ \/ index' = [index EXCEPT ![pc.role] = file[pc.role]]
        /\ pc' = [pc EXCEPT !.at = "commit"]
     \/ Fails /\ UNCHANGED index
  /\ UNCHANGED <<queue, PENDING, file, head, mirror, running,
                 approved, nMsgs, nCrashes>>

\* Git says "nothing to commit" only when the whole worktree is clean; otherwise
\* an unchanged index is an error.
NothingToCommit ==
  /\ pc.at = "commit" /\ index = head
  /\ IF file = index THEN pc' = [pc EXCEPT !.at = "reload"] ELSE Fails
  /\ UNCHANGED <<queue, PENDING, file, git, mirror, running, approved,
                 nMsgs, nCrashes>>

\* The post-commit hook copies the worktree to the mirror and restarts every
\* agent and this bot; when the copy fails it does nothing more.
post_commit ==
  \/ /\ mirrored
     /\ mirror' = file /\ running' = Loaded(mirror')
     /\ Die
  \/ /\ pc' = [pc EXCEPT !.at = "reload"]
     /\ UNCHANGED <<queue, PENDING, mirror, running>>

\* git commit takes the whole index.
GitCommit ==
  /\ pc.at = "commit" /\ index # head
  /\ \/ /\ head' = index
        /\ post_commit
     \/ Fails /\ UNCHANGED <<head, queue, PENDING, mirror, running>>
  /\ UNCHANGED <<index, file, approved, nMsgs, nCrashes>>

\* There is no launchd/sync_app.sh in the repository, so nothing is copied here;
\* launchctl restarts the agent, where there is a launchctl.
Reload ==
  /\ pc.at = "reload"
  /\ running' \in {running} \cup
       (IF mirrored THEN {[running EXCEPT ![pc.role] = Loaded(mirror)[pc.role]]} ELSE {})
  /\ PENDING' = [PENDING EXCEPT ![pc.role] = None]
  /\ pc' = Idle
  /\ UNCHANGED <<queue, file, git, mirror, approved, nMsgs, nCrashes>>

-----------------------------------------------------------------------------
handle == \/ Preview \/ NoPreview \/ Reject \/ ApplyNothing \/ Apply
          \/ WriteFile \/ GitAdd \/ NothingToCommit \/ GitCommit \/ Reload

\* The platform stays what it is.
Next == /\ mirrored' = mirrored
        /\ \/ handle \/ Crash \/ StartBot \/ Reconnect
           \/ \E r \in Roles : Restart(r) \/ \E cmd \in Commands : Say(r, cmd)

Spec == Init /\ [][Next]_vars

-----------------------------------------------------------------------------
Definitions(S) == [Roles -> S]

TypeOK ==
  /\ mirrored \in BOOLEAN
  /\ queue \in Seq(Message)
  /\ PENDING \in Definitions(Texts \cup {None})
  /\ pc \in [at: Places, role: Roles, text: Texts \cup {None}]
  /\ file \in Definitions(Texts \cup {Empty}) /\ mirror \in Definitions(Texts \cup {Empty})
  /\ index \in Definitions(Texts \cup {Empty}) /\ head \in Definitions(Texts \cup {Empty})
  /\ running \in Definitions(Texts \cup {Empty, None})
  /\ approved \in Definitions(SUBSET Texts)
  /\ nMsgs \in Nat /\ nCrashes \in Nat

\* Whatever fails, dies or overtakes what: only a text that somebody applied in
\* the role's own room, and none that breaks a required field, reaches a role's
\* file or mirror, git or its process; and a half-written file reaches neither
\* git nor a process.
ApprovedOnly == \A r \in Roles :
  /\ {index[r], head[r]} \subseteq approved[r]
  /\ file[r] \in approved[r] \cup {Empty} /\ mirror[r] \in approved[r] \cup {Empty}
  /\ running[r] \in approved[r] \cup {None}
  /\ approved[r] \cap Bad = {}

\* When apply reports success, HEAD holds the text: after retries, after failed
\* steps of other rooms, and when there was nothing to commit.
DoneMeansCommitted ==
  [][pc.at = "reload" /\ pc'.at = "idle" => head[pc.role] = pc.text]_vars
=============================================================================
