------------------------ MODULE AdminPipeline_proofs ------------------------
(***************************************************************************)
(* Proofs about AdminPipeline: only approved texts spread, and a reported  *)
(* success is a commit, for any roles, texts, bounds and either platform.  *)
(***************************************************************************)
EXTENDS AdminPipeline, TLAPS

\* What the handler knows at each of its steps, besides the types: a waiting text
\* is well-formed; the text being applied was approved, and it is in the file
\* before git add, in the index before git commit, and in HEAD before the reload.
Handling ==
  /\ \A r \in Roles : PENDING[r] \notin Bad \/ PENDING[r] = None
  /\ pc.at \in {"write", "add", "commit", "reload"} => pc.text \in approved[pc.role]
  /\ pc.at = "add" => file[pc.role] = pc.text
  /\ pc.at = "commit" => index[pc.role] = pc.text
  /\ pc.at = "reload" => head[pc.role] = pc.text

IInv == TypeOK /\ ApprovedOnly /\ Handling

-----------------------------------------------------------------------------
\* The role that stands in pc while nothing is handled is a role.
LEMMA AnyRoleIsRole == AnyRole \in Roles
BY AdminPipelineOK DEF AnyRole

\* Initially all variables have their types.
LEMMA TypeInit == Init => TypeOK
<1> SUFFICES ASSUME Init PROVE TypeOK
    OBVIOUS
<1>1. AnyRole \in Roles
      BY AnyRoleIsRole
<1>2. First \in Texts
      BY AdminPipelineOK
<1> QED BY <1>1, <1>2 DEF Init, TypeOK, Definitions, Idle, At, Nothing, Places

\* A message that is taken leaves a queue of messages and comes from some room.
LEMMA TakenType == ASSUME TypeOK, NEW cmd \in Commands, Taken(cmd)
                   PROVE  /\ Room \in Roles
                          /\ queue' \in Seq(Message)
<1>1. queue \in Seq(Message) /\ queue # <<>> /\ queue' = Tail(queue)
      BY DEF TypeOK, Taken
<1>2. Head(queue) \in Message /\ queue' \in Seq(Message)
      BY <1>1
<1> QED BY <1>2 DEF Room, Message

\* What a process loads has the type of a loaded definition.
LEMMA LoadedType == ASSUME NEW defs \in [Roles -> Texts \cup {Empty}]
                    PROVE  Loaded(defs) \in [Roles -> Texts \cup {Empty, None}]
BY DEF Loaded, Nothing

\* Every step of the handler keeps the types.
LEMMA HandleType == ASSUME TypeOK, Handling, handle, UNCHANGED mirrored PROVE TypeOK'
<1> USE DEF TypeOK, Definitions, Commands, Places, git
<1>1. CASE Preview
  <2>1. Room \in Roles /\ queue' \in Seq(Message)
        BY <1>1, TakenType DEF Preview
  <2> QED BY <1>1, <2>1 DEF Preview
<1>2. CASE NoPreview
  <2>1. queue' \in Seq(Message)
        BY <1>2, TakenType DEF NoPreview
  <2> QED BY <1>2, <2>1 DEF NoPreview
<1>3. CASE Reject
  <2>1. Room \in Roles /\ queue' \in Seq(Message)
        BY <1>3, TakenType DEF Reject
  <2> QED BY <1>3, <2>1 DEF Reject
<1>4. CASE ApplyNothing
  <2>1. queue' \in Seq(Message)
        BY <1>4, TakenType DEF ApplyNothing
  <2> QED BY <1>4, <2>1 DEF ApplyNothing
<1>5. CASE Apply
  <2>1. Room \in Roles /\ queue' \in Seq(Message)
        BY <1>5, TakenType DEF Apply
  <2>2. PENDING[Room] \in Texts
        BY <1>5, <2>1 DEF Apply
  <2> QED BY <1>5, <2>1, <2>2 DEF Apply, At
<1>6. CASE WriteFile
  <2>1. CASE Fails
        BY <1>6, <2>1, AnyRoleIsRole DEF WriteFile, Fails, Idle, At
  <2>2. CASE ~Fails
    <3>1. pc.text \in Texts
          BY <1>6 DEF WriteFile, Handling
    <3> QED BY <1>6, <2>2, <3>1 DEF WriteFile
  <2> QED BY <2>1, <2>2
<1>7. CASE GitAdd
  <2>1. CASE Fails
        BY <1>7, <2>1, AnyRoleIsRole DEF GitAdd, Fails, Idle, At
  <2>2. CASE ~Fails
    <3>1. index' = [index EXCEPT ![pc.role] = file[pc.role]] /\ pc' = [pc EXCEPT !.at = "commit"]
          BY <1>7, <2>2 DEF GitAdd
    <3>2. pc.role \in Roles /\ index' \in [Roles -> Texts \cup {Empty}]
          BY <3>1
    <3>3. pc' \in [at: Places, role: Roles, text: Texts \cup {None}]
          BY <3>1
    <3> QED BY <1>7, <3>2, <3>3 DEF GitAdd
  <2> QED BY <2>1, <2>2
<1>8. CASE NothingToCommit
  <2>1. CASE Fails
        BY <1>8, <2>1, AnyRoleIsRole DEF NothingToCommit, Fails, Idle, At, git
  <2>2. CASE ~Fails
        BY <1>8, <2>2 DEF NothingToCommit, git
  <2> QED BY <2>1, <2>2
<1>9. CASE GitCommit
  <2>1. CASE Fails /\ UNCHANGED <<head, queue, PENDING, mirror, running>>
        BY <1>9, <2>1, AnyRoleIsRole DEF GitCommit, Fails, Idle, At
  <2>2. CASE head' = index /\ post_commit
    <3>1. head' = index
          BY <2>2
    <3>2. CASE mirror' = file /\ running' = Loaded(mirror') /\ Die
      <4>1. running' \in [Roles -> Texts \cup {Empty, None}]
            BY <3>2, LoadedType
      <4>2. pc' \in [at: Places, role: Roles, text: Texts \cup {None}]
            BY <3>2, AnyRoleIsRole DEF Die, Down, At
      <4> QED BY <1>9, <3>1, <3>2, <4>1, <4>2 DEF GitCommit, Die, Nothing
    <3>3. CASE pc' = [pc EXCEPT !.at = "reload"] /\ UNCHANGED <<queue, PENDING, mirror, running>>
          BY <1>9, <3>1, <3>3 DEF GitCommit
    <3> QED BY <2>2, <3>2, <3>3 DEF post_commit
  <2> QED BY <1>9, <2>1, <2>2 DEF GitCommit
<1>10. CASE Reload
  <2>1. Loaded(mirror) \in [Roles -> Texts \cup {Empty, None}]
        BY LoadedType
  <2>2. running' \in [Roles -> Texts \cup {Empty, None}]
        BY <1>10, <2>1 DEF Reload
  <2>3. pc' \in [at: Places, role: Roles, text: Texts \cup {None}]
        BY <1>10, AnyRoleIsRole DEF Reload, Idle, At
  <2> QED BY <1>10, <2>2, <2>3 DEF Reload, git
<1> QED BY <1>1, <1>2, <1>3, <1>4, <1>5, <1>6, <1>7, <1>8, <1>9, <1>10 DEF handle

\* So does every other step.
LEMMA TypeStep == TypeOK /\ Handling /\ [Next]_vars => TypeOK'
<1> SUFFICES ASSUME TypeOK, Handling, [Next]_vars PROVE TypeOK'
    OBVIOUS
<1> USE DEF TypeOK, Definitions, Places
<1>0. Next => UNCHANGED mirrored
      BY DEF Next
<1>1. CASE Next /\ handle
      BY <1>0, <1>1, HandleType
<1>2. CASE Next /\ Crash
      BY <1>0, <1>2, AnyRoleIsRole DEF Crash, Die, Down, At, Nothing, git
<1>3. CASE Next /\ StartBot
      BY <1>0, <1>3, AnyRoleIsRole DEF StartBot, Idle, At, git
<1>4. CASE Next /\ Reconnect
      BY <1>0, <1>4 DEF Reconnect, git
<1>5. ASSUME Next, NEW r \in Roles, Restart(r) PROVE TypeOK'
  <2>1. Loaded(Deployed) \in [Roles -> Texts \cup {Empty, None}]
        BY LoadedType DEF Deployed
  <2> QED BY <1>0, <1>5, <2>1 DEF Restart, bot, git
<1>6. ASSUME Next, NEW r \in Roles, NEW cmd \in Commands, Say(r, cmd) PROVE TypeOK'
  <2>1. [room |-> r, cmd |-> cmd] \in Message
        BY <1>6 DEF Message
  <2> QED BY <1>0, <1>6, <2>1 DEF Say, git
<1>7. CASE UNCHANGED vars
      BY <1>7 DEF vars, bot, git
<1> QED BY <1>1, <1>2, <1>3, <1>4, <1>5, <1>6, <1>7 DEF Next

-----------------------------------------------------------------------------
\* A handler that stands nowhere in an application knows nothing to keep.
LEMMA AtRest == ASSUME TypeOK', pc' = Idle \/ pc' = Down,
                       \A r \in Roles : PENDING'[r] \notin Bad \/ PENDING'[r] = None
                PROVE  Handling'
BY DEF Handling, Idle, Down, At

\* Every step keeps what the handler knows.
LEMMA HandlingStep == ASSUME TypeOK, TypeOK', Handling, [Next]_vars PROVE Handling'
<1> USE DEF Handling
<1>1. CASE Preview
  <2>1. Room \in Roles
        BY <1>1, TakenType DEF Preview, Commands
  <2> QED BY <1>1, <2>1 DEF Preview, Taken, frontmatter_ok, git, TypeOK, Definitions
<1>2. CASE NoPreview \/ ApplyNothing
      BY <1>2 DEF NoPreview, ApplyNothing, git
<1>3. CASE Reject
  <2>1. Room \in Roles
        BY <1>3, TakenType DEF Reject, Commands
  <2> QED BY <1>3, <2>1 DEF Reject, git, TypeOK, Definitions
<1>4. CASE Apply
  <2>1. Room \in Roles
        BY <1>4, TakenType DEF Apply, Commands
  <2> QED BY <1>4, <2>1 DEF Apply, At, TypeOK, Definitions
<1>5. CASE WriteFile
  <2>1. CASE Fails
        BY <1>5, <2>1, AtRest DEF WriteFile, Fails
  <2>2. CASE file' = [file EXCEPT ![pc.role] = pc.text] /\ pc' = [pc EXCEPT !.at = "add"]
        BY <1>5, <2>2 DEF WriteFile, TypeOK, Definitions
  <2> QED BY <1>5, <2>1, <2>2 DEF WriteFile
<1>6. CASE GitAdd
  <2>1. CASE Fails
        BY <1>6, <2>1, AtRest DEF GitAdd, Fails
  <2>2. CASE index' = [index EXCEPT ![pc.role] = file[pc.role]] /\ pc' = [pc EXCEPT !.at = "commit"]
        BY <1>6, <2>2 DEF GitAdd, TypeOK, Definitions
  <2> QED BY <1>6, <2>1, <2>2 DEF GitAdd
<1>7. CASE NothingToCommit
  <2>1. CASE Fails
        BY <1>7, <2>1, AtRest DEF NothingToCommit, Fails
  <2>2. CASE pc' = [pc EXCEPT !.at = "reload"]
        BY <1>7, <2>2 DEF NothingToCommit, TypeOK, git
  <2> QED BY <1>7, <2>1, <2>2 DEF NothingToCommit
<1>8. CASE GitCommit
  <2>1. CASE Fails /\ UNCHANGED PENDING
        BY <2>1, AtRest DEF Fails
  <2>2. CASE Die
        BY <2>2, AtRest DEF Die, Nothing
  <2>3. CASE /\ head' = index /\ pc' = [pc EXCEPT !.at = "reload"] /\ UNCHANGED PENDING
        BY <1>8, <2>3 DEF GitCommit, TypeOK
  <2> QED BY <1>8, <2>1, <2>2, <2>3 DEF GitCommit, post_commit
<1>9. CASE Reload
  <2>1. \A r \in Roles : PENDING'[r] \notin Bad \/ PENDING'[r] = None
        BY <1>9 DEF Reload, TypeOK, Definitions
  <2> QED BY <1>9, <2>1, AtRest DEF Reload
<1>10. CASE Crash
       BY <1>10, AtRest DEF Crash, Die, Nothing
<1>11. CASE StartBot
       BY <1>11, AtRest DEF StartBot
<1>12. CASE Reconnect
       BY <1>12 DEF Reconnect, git
<1>13. ASSUME NEW r \in Roles, Restart(r) PROVE Handling'
       BY <1>13 DEF Restart, bot, git
<1>14. ASSUME NEW r \in Roles, NEW cmd \in Commands, Say(r, cmd) PROVE Handling'
       BY <1>14 DEF Say, git
<1>15. CASE UNCHANGED vars
       BY <1>15 DEF vars, bot, git
<1> QED BY <1>1, <1>2, <1>3, <1>4, <1>5, <1>6, <1>7, <1>8, <1>9, <1>10, <1>11,
           <1>12, <1>13, <1>14, <1>15 DEF Next, handle

-----------------------------------------------------------------------------
\* What is loaded from approved or half-written definitions is approved.
LEMMA LoadedApproved ==
  ASSUME NEW defs, \A r \in Roles : defs[r] \in approved[r] \cup {Empty}
  PROVE  \A r \in Roles : Loaded(defs)[r] \in approved[r] \cup {None}
BY DEF Loaded, Nothing

\* Every step keeps unapproved texts out.
LEMMA ApprovedStep == ASSUME IInv, TypeOK', [Next]_vars PROVE ApprovedOnly'
<1> USE DEF IInv, ApprovedOnly
<1>1. CASE Preview \/ NoPreview \/ Reject \/ ApplyNothing \/ NothingToCommit
      BY <1>1 DEF Preview, NoPreview, Reject, ApplyNothing, NothingToCommit, git
<1>2. CASE Apply
  <2>1. Room \in Roles
        BY <1>2, TakenType DEF Apply, Commands
  <2>2. PENDING[Room] \notin Bad
        BY <1>2, <2>1 DEF Apply, Handling
  <2>3. \A r \in Roles : approved[r] \subseteq approved'[r] /\ approved'[r] \cap Bad = {}
        BY <1>2, <2>1, <2>2 DEF Apply, TypeOK, Definitions
  <2>4. \A r \in Roles : file'[r] \in {file[r], Empty}
        BY <1>2, <2>1 DEF Apply, TypeOK, Definitions
  <2> QED BY <1>2, <2>3, <2>4 DEF Apply, git
<1>3. CASE WriteFile
      BY <1>3 DEF WriteFile, Handling, git, TypeOK, Definitions
<1>4. CASE GitAdd
  <2>1. file[pc.role] \in approved[pc.role]
        BY <1>4 DEF GitAdd, Handling
  <2>2. \A r \in Roles : index'[r] = index[r] \/ (r = pc.role /\ index'[r] = file[r])
    <3>1. index \in [Roles -> Texts \cup {Empty}]
          BY DEF TypeOK, Definitions
    <3>2. index' = index \/ index' = [index EXCEPT ![pc.role] = file[pc.role]]
          BY <1>4 DEF GitAdd
    <3> QED BY <3>1, <3>2
  <2> QED BY <1>4, <2>1, <2>2 DEF GitAdd
<1>5. CASE GitCommit
  <2>1. \A r \in Roles : Loaded(file)[r] \in approved[r] \cup {None}
        BY LoadedApproved
  <2>2. \A r \in Roles : head'[r] \in approved[r]
        BY <1>5 DEF GitCommit
  <2>3. \A r \in Roles : mirror'[r] \in {mirror[r], file[r]}
        BY <1>5 DEF GitCommit, post_commit
  <2>4. \A r \in Roles : running'[r] \in {running[r], Loaded(file)[r]}
        BY <1>5 DEF GitCommit, post_commit
  <2> QED BY <1>5, <2>1, <2>2, <2>3, <2>4 DEF GitCommit
<1>6. CASE Reload
  <2>1. \A r \in Roles : Loaded(mirror)[r] \in approved[r] \cup {None}
        BY LoadedApproved
  <2>2. \A r \in Roles : running'[r] \in {running[r], Loaded(mirror)[r]}
        BY <1>6 DEF Reload, TypeOK, Definitions
  <2> QED BY <1>6, <2>1, <2>2 DEF Reload, git
<1>7. CASE Crash \/ StartBot \/ Reconnect
      BY <1>7 DEF Crash, StartBot, Reconnect, git
<1>8. ASSUME NEW s \in Roles, Restart(s) PROVE ApprovedOnly'
  <2>1. \A r \in Roles : Loaded(Deployed)[r] \in approved[r] \cup {None}
        BY LoadedApproved DEF Deployed
  <2>2. \A r \in Roles : running'[r] \in {running[r], Loaded(Deployed)[r]}
        BY <1>8 DEF Restart, TypeOK, Definitions
  <2> QED BY <1>8, <2>1, <2>2 DEF Restart, bot, git
<1>9. ASSUME NEW s \in Roles, NEW cmd \in Commands, Say(s, cmd) PROVE ApprovedOnly'
      BY <1>9 DEF Say, git
<1>10. CASE UNCHANGED vars
       BY <1>10 DEF vars, bot, git
<1> QED BY <1>1, <1>2, <1>3, <1>4, <1>5, <1>6, <1>7, <1>8, <1>9, <1>10 DEF Next, handle

\* The invariant holds initially.
LEMMA InvInit == Init => IInv
<1> SUFFICES ASSUME Init PROVE IInv
    OBVIOUS
<1>1. TypeOK
      BY TypeInit
<1>2. Handling
      BY DEF Init, Handling, Idle, At, Nothing
<1>3. ApprovedOnly
      BY AdminPipelineOK DEF Init, ApprovedOnly
<1> QED BY <1>1, <1>2, <1>3 DEF IInv

\* Every step keeps the invariant.
LEMMA InvStep == IInv /\ [Next]_vars => IInv'
<1> SUFFICES ASSUME IInv, [Next]_vars PROVE IInv'
    OBVIOUS
<1>1. TypeOK'
      BY TypeStep DEF IInv
<1> QED BY <1>1, HandlingStep, ApprovedStep DEF IInv

\* Type correctness of the pipeline: its variables hold texts, roles and messages
\* (ceo_admin_runtime.py, PENDING, apply_change, handle and run).
THEOREM TypeCorrect == Spec => []TypeOK
<1>1. IInv => TypeOK
      BY DEF IInv
<1> QED BY InvInit, InvStep, <1>1, PTL DEF Spec

\* Only texts that somebody applied in the role's own room, and none that breaks a
\* required field, reach its file, git, the mirror or its process, for any number
\* of rooms, messages and deaths of the bot.
THEOREM OnlyApproved == Spec => []ApprovedOnly
<1>1. IInv => ApprovedOnly
      BY DEF IInv
<1> QED BY InvInit, InvStep, <1>1, PTL DEF Spec

\* An apply that reports success leaves its text in HEAD.
THEOREM SuccessIsCommitted == Spec => DoneMeansCommitted
<1>1. IInv /\ [Next]_vars => [pc.at = "reload" /\ pc'.at = "idle" => head[pc.role] = pc.text]_vars
      BY DEF IInv, Handling
<1> QED BY InvInit, InvStep, <1>1, PTL DEF Spec, DoneMeansCommitted
=============================================================================
