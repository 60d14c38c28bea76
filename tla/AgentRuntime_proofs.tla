------------------------ MODULE AgentRuntime_proofs ------------------------
(***************************************************************************)
(* Proofs about AgentRuntime for every set of roles, rooms and decisions   *)
(* and every value of the bounds: types, the backstop, and the refinement  *)
(* of AgentContract.                                                       *)
(***************************************************************************)
EXTENDS AgentRuntime, FiniteSetTheorems, TLAPS

\* A rolled memory is again a memory: a sequence of post ids.
LEMMA RolledType ==
  ASSUME NEW s \in Seq(Nat), NEW x \in Nat
  PROVE  Rolled(s, x) \in Seq(Nat)
<1> DEFINE t == Append(s, x)
<1>1. t \in Seq(Nat) OBVIOUS
<1>2. CASE Len(t) <= KEEP
  BY <1>1, <1>2 DEF Rolled
<1>3. CASE ~(Len(t) <= KEEP)
  <2>1. KEEP \in Nat \ {0} BY ConstantsOK
  <2>2. Len(t) \in Nat BY <1>1
  <2>3. Len(t) - KEEP + 1 \in 1..Len(t) + 1 BY <1>3, <2>1, <2>2
  <2>4. SubSeq(t, Len(t) - KEEP + 1, Len(t)) \in Seq(Nat)
    BY <1>1, <2>2, <2>3
  <2> QED BY <1>3, <2>4 DEF Rolled
<1> QED BY <1>2, <1>3

\* Writing one entry keeps a function's type.
LEMMA UpdateType ==
  ASSUME NEW S, NEW T, NEW f \in [S -> T], NEW x, NEW v \in T
  PROVE  [f EXCEPT ![x] = v] \in [S -> T]
OBVIOUS

\* What the server does to its store and to the inboxes keeps their types.
LEMMA StoreType ==
  ASSUME TypeOK, NEW p \in C!Post, Store(p)
  PROVE  /\ posts' \subseteq C!Post /\ nextId' \in Nat \ {0}
         /\ inbox' \in [Roles -> SUBSET Nat]
<1>1. p.id \in Nat BY DEF C!Post
<1> QED BY <1>1 DEF TypeOK, Store

\* What an agent writes is a post of the contract.
LEMMA AgentPostType ==
  ASSUME TypeOK, NEW r \in Roles, NEW room \in Rooms,
         NEW kind \in C!AgentKinds, NEW m \in SUBSET Roles
  PROVE  AgentPost(r, room, kind, m) \in C!Post
BY DEF TypeOK, AgentPost, C!Post

\* The empty decision is one.
LEMMA NoDecisionType == NoDecision \in Decision
BY DEF NoDecision, Decision, Fields

\* A process that has just started has the types.
LEMMA TypeInit == Init => TypeOK
BY ConstantsOK DEF Init, TypeOK, Decision, NoDecision, States, Fields

\* The variables of AgentRuntime have their types, whatever the constants are.
THEOREM TypeCorrect == Spec => []TypeOK
<1> USE ConstantsOK
<1>1. Init => TypeOK BY TypeInit
<1>2. TypeOK /\ [Next]_vars => TypeOK'
  <2> SUFFICES ASSUME TypeOK, [Next]_vars PROVE TypeOK'
    OBVIOUS
  <2> USE DEF TypeOK
  <2>1. CASE Tick
    BY <2>1 DEF Tick
  <2>2. CASE HumanSpeaks
    <3> PICK s \in Speech :
             /\ Store([id |-> nextId, by |-> Human, room |-> s.room, kind |-> s.kind,
                       mentions |-> {}, cause |-> 0, at |-> now])
             /\ UNCHANGED <<now, link, pc, cur, dec, sent, credits, lastResp, learn,
                            roomMem, mem, inc>>
      BY <2>2 DEF HumanSpeaks
    <3>1. [id |-> nextId, by |-> Human, room |-> s.room, kind |-> s.kind,
           mentions |-> {}, cause |-> 0, at |-> now] \in C!Post
      BY DEF C!Post
    <3> QED BY <3>1, StoreType
  <2>3. ASSUME NEW r \in Roles, Skip(r) PROVE TypeOK'
    BY <2>3 DEF Skip, Read, NextFrame, C!Post
  <2>4. ASSUME NEW r \in Roles, Accept(r) PROVE TypeOK'
    <3> PICK p \in posts :
             /\ Read(r, p) /\ Learn(r, p)
             /\ pc' = [pc EXCEPT ![r] = "decide"]
             /\ UNCHANGED <<now, posts, nextId, link, dec, sent, credits, lastResp,
                            roomMem, mem, inc>>
      BY <2>4 DEF Accept
    <3>1. p.id \in Nat BY DEF C!Post
    <3>2. learn' \in [Roles -> SUBSET Lesson]
      <4> DEFINE l == [ev |-> p.id, about |-> IF p.kind = "correction" THEN lastResp[r] ELSE 0]
      <4>1. l \in Lesson BY <3>1 DEF Lesson
      <4>2. learn' = learn \/ learn' = [learn EXCEPT ![r] = @ \cup {l}]
        BY DEF Learn
      <4> HIDE DEF l
      <4>3. learn[r] \cup {l} \in SUBSET Lesson BY <4>1
      <4> QED BY <4>2, <4>3
    <3>3. inbox' \in [Roles -> SUBSET Nat] /\ cur' \in [Roles -> Nat]
      BY <3>1 DEF Read
    <3>4. pc' \in [Roles -> States] BY DEF States
    <3> QED BY <3>2, <3>3, <3>4
  <2>5. ASSUME NEW r \in Roles, Silent(r) PROVE TypeOK'
    BY <2>5 DEF Silent, States
  <2>6. ASSUME NEW r \in Roles, Blocked(r) PROVE TypeOK'
    BY <2>6 DEF Blocked, States, InWindow
  <2>7. ASSUME NEW r \in Roles, Granted(r) PROVE TypeOK'
    BY <2>7 DEF Granted, States, InWindow, Credit
  <2>8. ASSUME NEW r \in Roles, DecideFails(r) PROVE TypeOK'
    <3> PICK p \in posts :
             /\ pc' = [pc EXCEPT ![r] = "idle"]
             /\ \/ Store(AgentPost(r, p.room, "error", {}))
                \/ NotStored
             /\ UNCHANGED <<now, link, cur, dec, sent, credits, lastResp, learn,
                            roomMem, mem, inc>>
      BY <2>8 DEF DecideFails
    <3>1. AgentPost(r, p.room, "error", {}) \in C!Post
      BY AgentPostType DEF C!Post, C!AgentKinds
    <3> QED BY <3>1, StoreType DEF NotStored, States
  <2>9. ASSUME NEW r \in Roles, SendAck(r) PROVE TypeOK'
    <3>1. dec[r].ack # NoRoom => AgentPost(r, dec[r].ack, "ack", dec[r].mentions) \in C!Post
      BY AgentPostType DEF Decision, C!AgentKinds
    <3>2. posts' \subseteq C!Post /\ nextId' \in Nat \ {0} /\ inbox' \in [Roles -> SUBSET Nat]
      BY <2>9, <3>1, StoreType DEF SendAck, NotStored
    <3> QED BY <2>9, <3>2 DEF SendAck, States
  <2>10. ASSUME NEW r \in Roles, SendReply(r) PROVE TypeOK'
    <3>1. dec[r].target # NoRoom => AgentPost(r, dec[r].target, "reply", dec[r].mentions) \in C!Post
      BY AgentPostType DEF Decision, C!AgentKinds
    <3>2. posts' \subseteq C!Post /\ nextId' \in Nat \ {0} /\ inbox' \in [Roles -> SUBSET Nat]
      BY <2>10, <3>1, StoreType DEF SendReply, NotStored
    <3>3. lastResp' \in [Roles -> Nat]
      BY <2>10 DEF SendReply, NotStored
    <3> QED BY <2>10, <3>2, <3>3 DEF SendReply, States
  <2>11. ASSUME NEW r \in Roles, SaveMemo(r) PROVE TypeOK'
    <3> PICK p \in posts :
             /\ pc' = [pc EXCEPT ![r] = "idle"]
             /\ dec' = [dec EXCEPT ![r] = NoDecision]
             /\ IF dec[r].memo # "none"
                THEN /\ roomMem' = [roomMem EXCEPT ![p.room] = Rolled(@, p.id)]
                     /\ mem' = [mem EXCEPT ![r] = Rolled(@, p.id)]
                ELSE UNCHANGED <<roomMem, mem>>
             /\ UNCHANGED <<now, posts, nextId, link, inbox, cur, sent, credits, lastResp,
                            learn, inc>>
      BY <2>11 DEF SaveMemo
    <3>1. p.room \in Rooms /\ p.id \in Nat BY DEF C!Post
    <3>2. Rolled(roomMem[p.room], p.id) \in Seq(Nat) /\ Rolled(mem[r], p.id) \in Seq(Nat)
      BY <3>1, RolledType
    <3>3. roomMem' \in [Rooms -> Seq(Nat)] /\ mem' \in [Roles -> Seq(Nat)]
      <4> DEFINE a == Rolled(roomMem[p.room], p.id)
                 b == Rolled(mem[r], p.id)
      <4>1. a \in Seq(Nat) /\ b \in Seq(Nat) BY <3>2
      <4>2. \/ roomMem' = roomMem /\ mem' = mem
            \/ roomMem' = [roomMem EXCEPT ![p.room] = a] /\ mem' = [mem EXCEPT ![r] = b]
        OBVIOUS
      <4> HIDE DEF a, b
      <4>3. [roomMem EXCEPT ![p.room] = a] \in [Rooms -> Seq(Nat)]
        BY <4>1, UpdateType
      <4>4. [mem EXCEPT ![r] = b] \in [Roles -> Seq(Nat)]
        BY <4>1, UpdateType
      <4> QED BY <4>2, <4>3, <4>4
    <3>4. pc' \in [Roles -> States] /\ dec' \in [Roles -> Decision]
      BY NoDecisionType DEF States
    <3> QED BY <3>3, <3>4
  <2>12. ASSUME NEW r \in Roles, HandlerRaises(r) PROVE TypeOK'
    BY <2>12 DEF HandlerRaises, States, Decision, NoDecision, Fields
  <2>13. ASSUME NEW r \in Roles, Break(r) \/ Leave(r) \/ Reconnect(r) PROVE TypeOK'
    BY <2>13 DEF Break, Leave, Reconnect
  <2>14. ASSUME NEW r \in Roles, Crash(r) PROVE TypeOK'
    BY <2>14 DEF Crash, States, Decision, NoDecision, Fields
  <2>15. CASE UNCHANGED vars
    BY <2>15 DEF vars
  <2> QED
    BY <2>1, <2>2, <2>3, <2>4, <2>5, <2>6, <2>7, <2>8, <2>9, <2>10, <2>11, <2>12,
       <2>13, <2>14, <2>15 DEF Next, Handle
<1> QED BY <1>1, <1>2, PTL DEF Spec

-----------------------------------------------------------------------------
(* The backstop.  A process remembers, in sent, every credit of its own that *)
(* may still share a window with a new one: that is what makes counting the  *)
(* remembered credits enough.                                                *)

CreditsDated == \A c \in credits : c.at <= now /\ c.inc <= inc[c.role]

CreditsRemembered ==
  \A c \in credits : c.inc = inc[c.role] /\ now - c.at < BACKSTOP_WINDOW
                       => c \in sent[c.role]

CreditsFinite == IsFiniteSet(credits) /\ \A r \in Roles : IsFiniteSet(sent[r])

WindowsFull == \A r \in Roles, n \in Nat, w \in Nat :
                 Cardinality(CreditsIn(r, n, w)) <= BACKSTOP_MAX

BackstopInv == TypeOK /\ CreditsDated /\ CreditsRemembered /\ CreditsFinite /\ WindowsFull

\* A step that neither grants a credit nor forgets a current one keeps it all.
LEMMA BackstopFrame ==
  ASSUME BackstopInv, TypeOK', credits' = credits, now' >= now,
         inc' = inc, sent' = sent
  PROVE  BackstopInv'
<1>1. CreditsDated' BY DEF BackstopInv, CreditsDated, TypeOK, Credit
<1>2. CreditsRemembered'
  <2> SUFFICES ASSUME NEW c \in credits, c.inc = inc[c.role],
                      now' - c.at < BACKSTOP_WINDOW
               PROVE  c \in sent[c.role]
    BY DEF CreditsRemembered
  <2>1. c.at \in Nat /\ now \in Nat /\ now' \in Nat BY DEF BackstopInv, TypeOK, Credit
  <2>2. now - c.at < BACKSTOP_WINDOW BY <2>1, ConstantsOK
  <2> QED BY <2>2 DEF BackstopInv, CreditsRemembered
<1>3. CreditsFinite' BY DEF BackstopInv, CreditsFinite
<1>4. WindowsFull' BY DEF BackstopInv, WindowsFull, CreditsIn
<1> QED BY <1>1, <1>2, <1>3, <1>4 DEF BackstopInv

\* Blocked forgets only credits a whole window old.
LEMMA BackstopBlocked ==
  ASSUME BackstopInv, TypeOK', NEW r \in Roles, Blocked(r)
  PROVE  BackstopInv'
<1> USE DEF BackstopInv
<1>1. CreditsDated' BY DEF CreditsDated, Blocked
<1>2. CreditsRemembered'
  <2> SUFFICES ASSUME NEW c \in credits, c.inc = inc[c.role],
                      now - c.at < BACKSTOP_WINDOW
               PROVE  c \in sent'[c.role]
    BY DEF CreditsRemembered, Blocked
  <2>1. c \in sent[c.role] BY DEF CreditsRemembered
  <2>2. sent' = [sent EXCEPT ![r] = InWindow(r)] BY DEF Blocked
  <2> QED BY <2>1, <2>2 DEF InWindow, TypeOK, Credit
<1>3. CreditsFinite'
  <2>1. InWindow(r) \in SUBSET sent[r] BY DEF InWindow
  <2>2. IsFiniteSet(InWindow(r)) BY <2>1, FS_Subset DEF CreditsFinite
  <2>3. sent' = [sent EXCEPT ![r] = InWindow(r)] /\ credits' = credits BY DEF Blocked
  <2> QED BY <2>2, <2>3 DEF CreditsFinite, TypeOK
<1>4. WindowsFull' BY DEF WindowsFull, CreditsIn, Blocked
<1> QED BY <1>1, <1>2, <1>3, <1>4

\* The credit a grant adds shares a window only with credits still remembered.
LEMMA BackstopGranted ==
  ASSUME BackstopInv, TypeOK', NEW r \in Roles, Granted(r)
  PROVE  BackstopInv'
<1> USE DEF BackstopInv
<1> DEFINE c0 == [role |-> r, inc |-> inc[r], ev |-> cur[r], at |-> now]
<1>0. /\ credits' = credits \cup {c0} /\ now' = now /\ inc' = inc
      /\ sent' = [sent EXCEPT ![r] = InWindow(r) \cup {c0}]
      /\ Cardinality(InWindow(r)) < BACKSTOP_MAX
  BY DEF Granted, backstop_ok
<1>a. c0 \in Credit /\ c0.role = r /\ c0.inc = inc[r] /\ c0.at = now
  BY DEF Credit, TypeOK
<1>b. InWindow(r) \in SUBSET sent[r] BY DEF InWindow
<1>c. IsFiniteSet(InWindow(r)) BY <1>b, FS_Subset DEF CreditsFinite
<1> HIDE DEF c0
<1>1. CreditsDated'
  BY <1>0, <1>a DEF CreditsDated, TypeOK, Credit
<1>2. CreditsRemembered'
  <2> SUFFICES ASSUME NEW c \in credits', c.inc = inc[c.role],
                      now - c.at < BACKSTOP_WINDOW
               PROVE  c \in sent'[c.role]
    BY <1>0 DEF CreditsRemembered
  <2>1. CASE c = c0 BY <2>1, <1>0, <1>a DEF TypeOK
  <2>2. CASE c \in credits
    <3>1. c \in sent[c.role] BY <2>2 DEF CreditsRemembered
    <3>2. CASE c.role = r BY <3>1, <3>2, <1>0 DEF InWindow, TypeOK
    <3>3. CASE c.role # r BY <3>1, <3>3, <1>0 DEF TypeOK
    <3> QED BY <3>2, <3>3
  <2> QED BY <2>1, <2>2, <1>0
<1>3. CreditsFinite'
  <2>1. IsFiniteSet(credits') BY <1>0, FS_AddElement DEF CreditsFinite
  <2>2. IsFiniteSet(InWindow(r) \cup {c0}) BY <1>c, FS_AddElement
  <2> QED BY <1>0, <2>1, <2>2 DEF CreditsFinite, TypeOK
<1>4. WindowsFull'
  <2> SUFFICES ASSUME NEW q \in Roles, NEW n \in Nat, NEW w \in Nat
               PROVE  Cardinality(CreditsIn(q, n, w)') <= BACKSTOP_MAX
    BY <1>0 DEF WindowsFull
  <2>1. CASE c0 \in CreditsIn(q, n, w)'
    <3>1. q = r /\ n = inc[r] /\ w <= now /\ now < w + BACKSTOP_WINDOW
      BY <2>1, <1>a DEF CreditsIn
    <3>2. CreditsIn(q, n, w)' \in SUBSET (InWindow(r) \cup {c0})
      <4> SUFFICES ASSUME NEW c \in credits, c.role = r, c.inc = inc[r],
                          w <= c.at, c.at < w + BACKSTOP_WINDOW
                   PROVE  c \in InWindow(r)
        BY <1>0, <3>1 DEF CreditsIn
      <4>1. c.at \in Nat /\ now \in Nat /\ BACKSTOP_WINDOW \in Nat
        BY ConstantsOK DEF TypeOK, Credit
      <4>2. now - c.at < BACKSTOP_WINDOW BY <3>1, <4>1
      <4> QED BY <4>2 DEF CreditsRemembered, InWindow
    <3>3. /\ IsFiniteSet(InWindow(r) \cup {c0})
          /\ Cardinality(InWindow(r) \cup {c0}) <= Cardinality(InWindow(r)) + 1
      <4>1. Cardinality(InWindow(r)) \in Nat BY <1>c, FS_CardinalityType
      <4> DEFINE S == InWindow(r)
      <4>2. /\ IsFiniteSet(S \cup {c0})
            /\ Cardinality(S \cup {c0}) = IF c0 \in S THEN Cardinality(S) ELSE Cardinality(S) + 1
        <5> HIDE DEF S
        <5> QED BY <1>c, FS_AddElement DEF S
      <4> QED BY <4>1, <4>2
    <3>4. Cardinality(CreditsIn(q, n, w)') <= Cardinality(InWindow(r) \cup {c0})
      BY <3>2, <3>3, FS_Subset
    <3>5. CreditsIn(q, n, w)' \in SUBSET (InWindow(r) \cup {c0}) =>
            Cardinality(CreditsIn(q, n, w)') \in Nat
      BY <3>3, FS_Subset, FS_CardinalityType
    <3>6. Cardinality(InWindow(r)) \in Nat /\ Cardinality(InWindow(r) \cup {c0}) \in Nat
      BY <1>c, <3>3, FS_CardinalityType
    <3> QED BY <3>2, <3>3, <3>4, <3>5, <3>6, <1>0, ConstantsOK
  <2>2. CASE c0 \notin CreditsIn(q, n, w)'
    <3>1. CreditsIn(q, n, w)' = CreditsIn(q, n, w)
      BY <2>2, <1>0 DEF CreditsIn
    <3> QED BY <3>1 DEF WindowsFull
  <2> QED BY <2>1, <2>2
<1> QED BY <1>1, <1>2, <1>3, <1>4

\* A new process has no credits yet, so forgetting them all is right.
LEMMA BackstopCrash ==
  ASSUME BackstopInv, TypeOK', NEW r \in Roles, Crash(r)
  PROVE  BackstopInv'
<1> USE DEF BackstopInv
<1>1. /\ inc' = [inc EXCEPT ![r] = @ + 1] /\ sent' = [sent EXCEPT ![r] = {}]
      /\ credits' = credits /\ now' = now
  BY DEF Crash
<1>2. CreditsDated'
  <2> SUFFICES ASSUME NEW c \in credits PROVE c.at <= now /\ c.inc <= inc'[c.role]
    BY <1>1 DEF CreditsDated
  <2>1. c.inc <= inc[c.role] /\ c.at <= now BY DEF CreditsDated
  <2>2. c.inc \in Nat /\ c.role \in Roles /\ inc[c.role] \in Nat BY DEF TypeOK, Credit
  <2>3. inc'[c.role] = inc[c.role] \/ inc'[c.role] = inc[c.role] + 1
    <3>1. inc \in [Roles -> Nat] BY DEF TypeOK
    <3> HIDE DEF BackstopInv
    <3> QED BY <1>1, <2>2, <3>1
  <2> HIDE DEF BackstopInv
  <2> QED BY <2>1, <2>2, <2>3
<1>3. CreditsRemembered'
  <2> SUFFICES ASSUME NEW c \in credits, c.inc = inc'[c.role],
                      now - c.at < BACKSTOP_WINDOW
               PROVE  c \in sent'[c.role]
    BY <1>1 DEF CreditsRemembered
  <2>1. c.role # r BY <1>1 DEF CreditsDated, TypeOK, Credit
  <2> QED BY <1>1, <2>1 DEF CreditsRemembered, TypeOK, Credit
<1>4. CreditsFinite' BY <1>1, FS_EmptySet DEF CreditsFinite, TypeOK
<1>5. WindowsFull' BY <1>1 DEF WindowsFull, CreditsIn
<1> QED BY <1>2, <1>3, <1>4, <1>5

\* Every step keeps what the sliding window relies on.
LEMMA BackstopStep == BackstopInv /\ TypeOK' /\ [Next]_vars => BackstopInv'
<1> SUFFICES ASSUME BackstopInv, TypeOK', [Next]_vars PROVE BackstopInv'
  OBVIOUS
<1>0. now \in Nat BY DEF BackstopInv, TypeOK
<1>1. CASE Tick BY <1>1, <1>0, BackstopFrame DEF Tick
<1>2. CASE HumanSpeaks BY <1>2, <1>0, BackstopFrame DEF HumanSpeaks
<1>3. ASSUME NEW r \in Roles,
             Skip(r) \/ Accept(r) \/ Silent(r) \/ DecideFails(r) \/ SendAck(r)
               \/ SendReply(r) \/ SaveMemo(r) \/ HandlerRaises(r)
      PROVE  BackstopInv'
  BY <1>3, <1>0, BackstopFrame DEF Skip, Accept, Silent, DecideFails, SendAck,
     SendReply, SaveMemo, HandlerRaises
<1>4. ASSUME NEW r \in Roles, Break(r) \/ Leave(r) \/ Reconnect(r) PROVE BackstopInv'
  BY <1>4, <1>0, BackstopFrame DEF Break, Leave, Reconnect
<1>5. ASSUME NEW r \in Roles, Blocked(r) PROVE BackstopInv' BY <1>5, BackstopBlocked
<1>6. ASSUME NEW r \in Roles, Granted(r) PROVE BackstopInv' BY <1>6, BackstopGranted
<1>7. ASSUME NEW r \in Roles, Crash(r) PROVE BackstopInv' BY <1>7, BackstopCrash
<1>8. CASE UNCHANGED vars BY <1>8, <1>0, BackstopFrame DEF vars
<1> QED BY <1>1, <1>2, <1>3, <1>4, <1>5, <1>6, <1>7, <1>8 DEF Next, Handle

\* backstop_ok keeps its promise in every window of every run of every process,
\* whatever the window, the limit and the decisions.
THEOREM Backstop == Spec => []CreditsPerWindow
<1>1. Init => BackstopInv
  <2> SUFFICES ASSUME Init PROVE BackstopInv OBVIOUS
  <2>1. TypeOK BY TypeInit
  <2>2. credits = {} /\ sent = [r \in Roles |-> {}] BY DEF Init
  <2>3. \A r \in Roles, n \in Nat, w \in Nat : CreditsIn(r, n, w) = {}
    BY <2>2 DEF CreditsIn
  <2>4. CreditsFinite BY <2>2, FS_EmptySet DEF CreditsFinite
  <2>5. WindowsFull
    <3> SUFFICES ASSUME NEW r \in Roles, NEW n \in Nat, NEW w \in Nat
                 PROVE  Cardinality(CreditsIn(r, n, w)) <= BACKSTOP_MAX
      BY DEF WindowsFull
    <3>1. Cardinality(CreditsIn(r, n, w)) = 0 BY <2>3, FS_EmptySet
    <3> QED BY <3>1, ConstantsOK
  <2> QED BY <2>1, <2>2, <2>4, <2>5 DEF BackstopInv, CreditsDated, CreditsRemembered
<1>2. BackstopInv => CreditsPerWindow
  BY ConstantsOK DEF BackstopInv, WindowsFull, CreditsPerWindow
<1>3. BackstopInv /\ TypeOK' /\ [Next]_vars => BackstopInv' BY BackstopStep
<1> QED BY <1>1, <1>2, <1>3, TypeCorrect, PTL DEF Spec

-----------------------------------------------------------------------------
(***************************************************************************)
(* AgentRuntime implements AgentContract, for every set of roles, rooms    *)
(* and decisions: each step stores at most one post, and the state of the  *)
(* process that stores it shows that the contract allows that post.        *)
(***************************************************************************)

\* The server numbers the posts.
IdsBelow  == \A p \in posts : p.id < nextId
IdsUnique == \A p, q \in posts : p.id = q.id => p = q

\* What a process has yet to read comes after what it read.
InboxAhead == \A r \in Roles : /\ cur[r] < nextId
                              /\ \A i \in inbox[r] : cur[r] < i /\ i < nextId

\* Whatever an agent wrote, it wrote for a post it had read.
AnswersRead == \A r \in Roles : \A q \in posts : q.by = r => q.cause <= cur[r]

\* A handler at work handles a stored post that calls for it ...
Called == \A r \in Roles : pc[r] # "idle" =>
            \E p \in posts : p.id = cur[r] /\ C!Addressed(r, p)

\* ... and has answered it no further than its place in the code says.
Unanswered == \A r \in Roles : pc[r] \in {"decide", "ack"} =>
                \A q \in posts : q.by = r => q.cause # cur[r]
OnlyAck == \A r \in Roles : pc[r] = "reply" =>
             \A q \in posts : q.by = r /\ q.cause = cur[r] => q.kind = "ack"

ContractInv == /\ TypeOK /\ IdsBelow /\ IdsUnique /\ InboxAhead
               /\ AnswersRead /\ Called /\ Unanswered /\ OnlyAck

-----------------------------------------------------------------------------
(* Steps that store nothing *)

\* r's handler moves on without a new frame, or goes back to idle, and perhaps
\* loses frames; no post is stored.
LEMMA QuietStep ==
  ASSUME ContractInv, TypeOK', NEW r \in Roles,
         posts' = posts, nextId' = nextId, cur' = cur,
         \A q \in Roles : inbox'[q] \subseteq inbox[q],
         \A q \in Roles \ {r} : pc'[q] = pc[q],
         \/ pc'[r] \in {pc[r], "idle"}
         \/ pc[r] = "decide" /\ pc'[r] = "ack"
  PROVE  ContractInv'
<1> USE DEF ContractInv
<1>1. IdsBelow' /\ IdsUnique' BY DEF IdsBelow, IdsUnique
<1>2. InboxAhead' BY DEF InboxAhead
<1>3. AnswersRead' BY DEF AnswersRead
<1>4. Called'
  <2> SUFFICES ASSUME NEW q \in Roles, pc'[q] # "idle"
               PROVE  \E p \in posts : p.id = cur[q] /\ C!Addressed(q, p)
    BY DEF Called, C!Addressed
  <2>1. pc[q] # "idle" OBVIOUS
  <2> QED BY <2>1 DEF Called
<1>5. Unanswered' BY DEF Unanswered
<1>6. OnlyAck' BY DEF OnlyAck
<1> QED BY <1>1, <1>2, <1>3, <1>4, <1>5, <1>6

\* Skip and Accept read the oldest frame; Accept starts on it.
LEMMA ReadStep ==
  ASSUME ContractInv, TypeOK', NEW r \in Roles, NEW p \in posts,
         NextFrame(r, p), Read(r, p), posts' = posts, nextId' = nextId,
         \/ pc' = pc
         \/ pc' = [pc EXCEPT ![r] = "decide"] /\ C!Addressed(r, p)
  PROVE  ContractInv'
<1> USE DEF ContractInv
<1>1. /\ cur' = [cur EXCEPT ![r] = p.id] /\ inbox' = [inbox EXCEPT ![r] = @ \ {p.id}]
      /\ pc[r] = "idle" /\ p.id \in inbox[r] /\ \A i \in inbox[r] : p.id <= i
  BY DEF NextFrame, Read
<1>2. /\ cur \in [Roles -> Nat] /\ inbox \in [Roles -> SUBSET Nat]
      /\ pc \in [Roles -> States] /\ p.id \in Nat /\ nextId \in Nat
      /\ \A q \in posts : q.cause \in Nat
  BY DEF TypeOK, C!Post
<1>3. cur[r] < p.id /\ p.id < nextId BY <1>1 DEF InboxAhead
<1>4. IdsBelow' /\ IdsUnique' BY DEF IdsBelow, IdsUnique
<1>5. InboxAhead'
  <2> SUFFICES ASSUME NEW q \in Roles
               PROVE  /\ cur'[q] < nextId
                      /\ \A i \in inbox'[q] : cur'[q] < i /\ i < nextId
    BY DEF InboxAhead
  <2>1. CASE q = r BY <2>1, <1>1, <1>2, <1>3 DEF InboxAhead
  <2>2. CASE q # r BY <2>2, <1>1, <1>2 DEF InboxAhead
  <2> QED BY <2>1, <2>2
<1>6. AnswersRead' BY <1>1, <1>2, <1>3 DEF AnswersRead
<1>7. Called'
  <2> SUFFICES ASSUME NEW q \in Roles, pc'[q] # "idle"
               PROVE  \E x \in posts : x.id = cur'[q] /\ C!Addressed(q, x)
    BY DEF Called, C!Addressed
  <2>1. CASE q = r BY <2>1, <1>1, <1>2
  <2>2. CASE q # r BY <2>2, <1>1, <1>2 DEF Called
  <2> QED BY <2>1, <2>2
<1>8. Unanswered'
  <2> SUFFICES ASSUME NEW q \in Roles, pc'[q] \in {"decide", "ack"},
                      NEW x \in posts, x.by = q
               PROVE  x.cause # cur'[q]
    BY DEF Unanswered
  <2>1. CASE q = r BY <2>1, <1>1, <1>2, <1>3 DEF AnswersRead
  <2>2. CASE q # r BY <2>2, <1>1, <1>2 DEF Unanswered
  <2> QED BY <2>1, <2>2
<1>9. OnlyAck'
  <2> SUFFICES ASSUME NEW q \in Roles, pc'[q] = "reply",
                      NEW x \in posts, x.by = q, x.cause = cur'[q]
               PROVE  x.kind = "ack"
    BY DEF OnlyAck
  <2>1. q # r BY <1>1, <1>2
  <2> QED BY <2>1, <1>1, <1>2 DEF OnlyAck
<1> QED BY <1>4, <1>5, <1>6, <1>7, <1>8, <1>9

-----------------------------------------------------------------------------
(* Steps that store a post *)

\* A stored post keeps what does not depend on its author.
LEMMA StoreStep ==
  ASSUME ContractInv, NEW p \in C!Post, p.id = nextId, Store(p), cur' = cur
  PROVE  IdsBelow' /\ IdsUnique' /\ InboxAhead' /\ C!Stores(p)
<1> USE DEF ContractInv
<1>1. posts' = posts \cup {p} /\ nextId' = nextId + 1 BY DEF Store
<1>2. nextId \in Nat \ {0} /\ \A q \in posts : q.id \in Nat BY DEF TypeOK, C!Post
<1>3. IdsBelow' BY <1>1, <1>2 DEF IdsBelow
<1>4. IdsUnique' BY <1>1, <1>2 DEF IdsUnique, IdsBelow
<1>5. InboxAhead'
  <2> SUFFICES ASSUME NEW r \in Roles
               PROVE  /\ cur[r] < nextId + 1
                      /\ \A i \in inbox'[r] : cur[r] < i /\ i < nextId + 1
    BY <1>1 DEF InboxAhead
  <2>1. inbox'[r] \subseteq inbox[r] \cup {nextId} BY DEF Store
  <2>2. cur[r] \in Nat /\ inbox[r] \subseteq Nat BY DEF TypeOK
  <2> QED BY <1>2, <2>1, <2>2 DEF InboxAhead
<1>6. C!Stores(p) BY <1>1, <1>2 DEF C!Stores, C!Fresh, IdsBelow
<1> QED BY <1>3, <1>4, <1>5, <1>6

\* An answer the handler of r stores keeps the invariant, when the place the
\* handler moves to owns up to it.
LEMMA AnswerStep ==
  ASSUME ContractInv, TypeOK', NEW r \in Roles, NEW p \in C!Post, p.id = nextId,
         Store(p), cur' = cur, p.by = r, p.cause = cur[r],
         pc[r] \in {"decide", "ack", "reply"},
         \/ pc' = [pc EXCEPT ![r] = "reply"] /\ p.kind = "ack" /\ pc[r] # "reply"
         \/ pc' = [pc EXCEPT ![r] = "idle"]
         \/ pc' = [pc EXCEPT ![r] = "memo"]
  PROVE  ContractInv'
<1> USE DEF ContractInv
<1>1. posts' = posts \cup {p} BY DEF Store
<1>2. pc \in [Roles -> States] /\ cur \in [Roles -> Nat] BY DEF TypeOK
<1>3. IdsBelow' /\ IdsUnique' /\ InboxAhead' BY StoreStep
<1>4. AnswersRead' BY <1>1, <1>2 DEF AnswersRead
<1>5. Called'
  <2> SUFFICES ASSUME NEW q \in Roles, pc'[q] # "idle"
               PROVE  \E x \in posts' : x.id = cur[q] /\ C!Addressed(q, x)
    BY DEF Called, C!Addressed
  <2>1. pc[q] # "idle" BY <1>2
  <2> QED BY <1>1, <2>1 DEF Called
<1>6. Unanswered'
  <2> SUFFICES ASSUME NEW q \in Roles, pc'[q] \in {"decide", "ack"},
                      NEW x \in posts', x.by = q
               PROVE  x.cause # cur[q]
    BY DEF Unanswered
  <2>1. q # r /\ pc[q] = pc'[q] BY <1>2
  <2> QED BY <1>1, <2>1 DEF Unanswered
<1>7. OnlyAck'
  <2> SUFFICES ASSUME NEW q \in Roles, pc'[q] = "reply",
                      NEW x \in posts', x.by = q, x.cause = cur[q]
               PROVE  x.kind = "ack"
    BY DEF OnlyAck
  <2>1. CASE q = r BY <1>1, <1>2, <2>1 DEF Unanswered
  <2>2. CASE q # r BY <1>1, <1>2, <2>2 DEF OnlyAck
  <2> QED BY <2>1, <2>2
<1> QED BY <1>3, <1>4, <1>5, <1>6, <1>7

-----------------------------------------------------------------------------
(* One lemma per action that may store a post: it keeps the invariant and is *)
(* a step of the contract.                                                   *)

\* When r's handler stores p for a post it was called for, the contract allows p.
LEMMA AnswerAllowed ==
  ASSUME ContractInv, NEW r \in Roles, NEW p \in C!Post, C!Stores(p),
         p.by = r, p.cause = cur[r], p.room \in Subs[r], p.kind \in C!AgentKinds,
         NEW c \in posts, c.id = cur[r], C!Addressed(r, c),
         \A q \in posts : q.by = r /\ q.cause = cur[r] => q.kind = "ack" /\ p.kind = "reply",
         p.kind = "error" => c.by = Human /\ p.room = c.room
  PROVE  C!Answer(r)
<1>1. \A q \in posts : q.by = r => q.cause <= c.id
  BY DEF ContractInv, AnswersRead
<1>2. C!MayAnswer(r, c, p) BY <1>1 DEF C!MayAnswer
<1>3. p \in posts' BY DEF C!Stores
<1> QED BY <1>2, <1>3 DEF C!Answer

\* A human's post is one the contract lets a human write.
LEMMA HumanStep ==
  ASSUME ContractInv, TypeOK', HumanSpeaks PROVE ContractInv' /\ C!Speak
<1> USE DEF ContractInv
<1>1. PICK s \in Speech :
        /\ Store([id |-> nextId, by |-> Human, room |-> s.room, kind |-> s.kind,
                  mentions |-> {}, cause |-> 0, at |-> now])
        /\ UNCHANGED <<now, link, pc, cur, dec, sent, credits, lastResp, learn,
                       roomMem, mem, inc>>
  BY DEF HumanSpeaks
<1> DEFINE p == [id |-> nextId, by |-> Human, room |-> s.room, kind |-> s.kind,
                 mentions |-> {}, cause |-> 0, at |-> now]
<1>2. p \in C!Post BY ConstantsOK DEF TypeOK, C!Post
<1>3. p.id = nextId /\ p.by = Human /\ p.kind \in C!HumanKinds BY ConstantsOK
<1>4. Human \notin Roles BY ConstantsOK
<1>5. Store(p) /\ cur' = cur /\ pc' = pc BY <1>1
<1> HIDE DEF p
<1>6. IdsBelow' /\ IdsUnique' /\ InboxAhead' /\ C!Stores(p)
  BY <1>2, <1>3, <1>5, StoreStep
<1>7. posts' = posts \cup {p} BY <1>5 DEF Store
<1>8. AnswersRead' BY <1>3, <1>4, <1>5, <1>7 DEF AnswersRead
<1>9. Called'
  <2> SUFFICES ASSUME NEW q \in Roles, pc[q] # "idle"
               PROVE  \E x \in posts' : x.id = cur[q] /\ C!Addressed(q, x)
    BY <1>5 DEF Called, C!Addressed
  <2> QED BY <1>7 DEF Called
<1>10. Unanswered' BY <1>3, <1>4, <1>5, <1>7 DEF Unanswered
<1>11. OnlyAck' BY <1>3, <1>4, <1>5, <1>7 DEF OnlyAck
<1>12. C!Speak BY <1>3, <1>6, <1>7 DEF C!Speak
<1> QED BY <1>6, <1>8, <1>9, <1>10, <1>11, <1>12

\* The notice of a failed decision is an answer to the human's post in hand.
LEMMA DecideFailsStep ==
  ASSUME ContractInv, TypeOK', NEW r \in Roles, DecideFails(r)
  PROVE  ContractInv' /\ (C!Answer(r) \/ posts' = posts)
<1>1. PICK c \in posts :
        /\ c.id = cur[r] /\ pc' = [pc EXCEPT ![r] = "idle"]
        /\ \/ /\ c.by = Human /\ can_send(r, c.room)
              /\ Store(AgentPost(r, c.room, "error", {}))
           \/ NotStored
        /\ pc[r] = "decide" /\ cur' = cur
  BY DEF DecideFails
<1>2. pc \in [Roles -> States] BY DEF ContractInv, TypeOK
<1>3. CASE NotStored
  BY <1>1, <1>2, <1>3, QuietStep DEF NotStored
<1>4. CASE c.by = Human /\ can_send(r, c.room) /\ Store(AgentPost(r, c.room, "error", {}))
  <2> DEFINE p == AgentPost(r, c.room, "error", {})
  <2>1. p \in C!Post
    BY AgentPostType DEF ContractInv, TypeOK, C!Post, C!AgentKinds
  <2>2. /\ p.id = nextId /\ p.by = r /\ p.cause = cur[r] /\ p.kind = "error"
        /\ p.room = c.room /\ p.room \in Subs[r]
    BY <1>4 DEF AgentPost, can_send
  <2> HIDE DEF p
  <2>3. Store(p) BY <1>4 DEF p
  <2>4. ContractInv' BY <1>1, <2>1, <2>2, <2>3, AnswerStep
  <2>5. C!Stores(p) BY <1>1, <2>1, <2>2, <2>3, StoreStep
  <2>6. C!Addressed(r, c)
    BY <1>1 DEF ContractInv, Called, IdsUnique
  <2>7. \A q \in posts : ~(q.by = r /\ q.cause = cur[r])
    BY <1>1 DEF ContractInv, Unanswered
  <2>8. C!Answer(r)
    BY <1>1, <1>4, <2>1, <2>2, <2>5, <2>6, <2>7, AnswerAllowed DEF C!AgentKinds
  <2> QED BY <2>4, <2>8
<1> QED BY <1>1, <1>3, <1>4

\* The acknowledgement is an answer to the post in hand, in a subscribed room.
LEMMA SendAckStep ==
  ASSUME ContractInv, TypeOK', NEW r \in Roles, SendAck(r)
  PROVE  ContractInv' /\ (C!Answer(r) \/ posts' = posts)
<1>1. /\ pc[r] = "ack" /\ pc' = [pc EXCEPT ![r] = "reply"] /\ cur' = cur
      /\ \/ /\ dec[r].ack # NoRoom /\ can_send(r, dec[r].ack)
            /\ Store(AgentPost(r, dec[r].ack, "ack", dec[r].mentions))
         \/ NotStored
  BY DEF SendAck
<1>2. pc \in [Roles -> States] /\ dec[r] \in Decision /\ cur \in [Roles -> Nat]
  BY DEF ContractInv, TypeOK
<1>3. CASE NotStored
  <2> USE DEF ContractInv
  <2>1. posts' = posts /\ nextId' = nextId /\ inbox' = inbox BY <1>3 DEF NotStored
  <2>2. IdsBelow' /\ IdsUnique' /\ InboxAhead' /\ AnswersRead'
    BY <1>1, <2>1 DEF IdsBelow, IdsUnique, InboxAhead, AnswersRead
  <2>3. Called'
    <3> SUFFICES ASSUME NEW q \in Roles, pc'[q] # "idle"
                 PROVE  \E x \in posts : x.id = cur[q] /\ C!Addressed(q, x)
      BY <1>1, <2>1 DEF Called, C!Addressed
    <3>1. pc[q] # "idle" BY <1>1, <1>2
    <3> QED BY <3>1 DEF Called
  <2>4. Unanswered' BY <1>1, <1>2, <2>1 DEF Unanswered
  <2>5. OnlyAck' BY <1>1, <1>2, <2>1 DEF OnlyAck, Unanswered
  <2> QED BY <2>1, <2>2, <2>3, <2>4, <2>5
<1>4. CASE /\ dec[r].ack # NoRoom /\ can_send(r, dec[r].ack)
           /\ Store(AgentPost(r, dec[r].ack, "ack", dec[r].mentions))
  <2> DEFINE p == AgentPost(r, dec[r].ack, "ack", dec[r].mentions)
  <2>1. p \in C!Post
    BY <1>2, <1>4, AgentPostType DEF ContractInv, Decision, C!AgentKinds
  <2>2. /\ p.id = nextId /\ p.by = r /\ p.cause = cur[r] /\ p.kind = "ack"
        /\ p.room \in Subs[r]
    BY <1>4 DEF AgentPost, can_send
  <2> HIDE DEF p
  <2>3. Store(p) BY <1>4 DEF p
  <2>4. ContractInv' BY <1>1, <2>1, <2>2, <2>3, AnswerStep
  <2>5. C!Stores(p) BY <1>1, <2>1, <2>2, <2>3, StoreStep
  <2>6. PICK c \in posts : c.id = cur[r] /\ C!Addressed(r, c)
    BY <1>1 DEF ContractInv, Called
  <2>7. \A q \in posts : ~(q.by = r /\ q.cause = cur[r])
    BY <1>1 DEF ContractInv, Unanswered
  <2>8. C!Answer(r)
    BY <2>1, <2>2, <2>5, <2>6, <2>7, AnswerAllowed DEF C!AgentKinds
  <2> QED BY <2>4, <2>8
<1> QED BY <1>1, <1>3, <1>4

\* So is the reply, and it comes after the acknowledgement.
LEMMA SendReplyStep ==
  ASSUME ContractInv, TypeOK', NEW r \in Roles, SendReply(r)
  PROVE  ContractInv' /\ (C!Answer(r) \/ posts' = posts)
<1>1. /\ pc[r] = "reply" /\ pc' = [pc EXCEPT ![r] = "memo"] /\ cur' = cur
      /\ \/ /\ dec[r].target # NoRoom /\ can_send(r, dec[r].target)
            /\ Store(AgentPost(r, dec[r].target, "reply", dec[r].mentions))
         \/ NotStored
  BY DEF SendReply
<1>2. pc \in [Roles -> States] /\ dec[r] \in Decision /\ cur \in [Roles -> Nat]
  BY DEF ContractInv, TypeOK
<1>3. CASE NotStored
  <2> USE DEF ContractInv
  <2>1. posts' = posts /\ nextId' = nextId /\ inbox' = inbox BY <1>3 DEF NotStored
  <2>2. IdsBelow' /\ IdsUnique' /\ InboxAhead' /\ AnswersRead'
    BY <1>1, <2>1 DEF IdsBelow, IdsUnique, InboxAhead, AnswersRead
  <2>3. Called'
    <3> SUFFICES ASSUME NEW q \in Roles, pc'[q] # "idle"
                 PROVE  \E x \in posts : x.id = cur[q] /\ C!Addressed(q, x)
      BY <1>1, <2>1 DEF Called, C!Addressed
    <3>1. pc[q] # "idle" BY <1>1, <1>2
    <3> QED BY <3>1 DEF Called
  <2>4. Unanswered' BY <1>1, <1>2, <2>1 DEF Unanswered
  <2>5. OnlyAck' BY <1>1, <1>2, <2>1 DEF OnlyAck
  <2> QED BY <2>1, <2>2, <2>3, <2>4, <2>5
<1>4. CASE /\ dec[r].target # NoRoom /\ can_send(r, dec[r].target)
           /\ Store(AgentPost(r, dec[r].target, "reply", dec[r].mentions))
  <2> DEFINE p == AgentPost(r, dec[r].target, "reply", dec[r].mentions)
  <2>1. p \in C!Post
    BY <1>2, <1>4, AgentPostType DEF ContractInv, Decision, C!AgentKinds
  <2>2. /\ p.id = nextId /\ p.by = r /\ p.cause = cur[r] /\ p.kind = "reply"
        /\ p.room \in Subs[r]
    BY <1>4 DEF AgentPost, can_send
  <2> HIDE DEF p
  <2>3. Store(p) BY <1>4 DEF p
  <2>4. ContractInv' BY <1>1, <2>1, <2>2, <2>3, AnswerStep
  <2>5. C!Stores(p) BY <1>1, <2>1, <2>2, <2>3, StoreStep
  <2>6. PICK c \in posts : c.id = cur[r] /\ C!Addressed(r, c)
    BY <1>1 DEF ContractInv, Called
  <2>7. \A q \in posts : q.by = r /\ q.cause = cur[r] => q.kind = "ack"
    BY <1>1 DEF ContractInv, OnlyAck
  <2>8. C!Answer(r)
    BY <2>1, <2>2, <2>5, <2>6, <2>7, AnswerAllowed DEF C!AgentKinds
  <2> QED BY <2>4, <2>8
<1> QED BY <1>1, <1>3, <1>4

-----------------------------------------------------------------------------
\* Every step keeps the invariant, and the posts it changes it changes as the
\* contract allows.
LEMMA ContractStep ==
  ContractInv /\ TypeOK' /\ [Next]_vars => ContractInv' /\ [C!Next]_posts
<1> SUFFICES ASSUME ContractInv, TypeOK', [Next]_vars
             PROVE  ContractInv' /\ [C!Next]_posts
  OBVIOUS
<1>0. pc \in [Roles -> States] /\ inbox \in [Roles -> SUBSET Nat]
  BY DEF ContractInv, TypeOK
<1>1. ASSUME Tick \/ UNCHANGED vars PROVE ContractInv' /\ posts' = posts
  <2>1. /\ posts' = posts /\ nextId' = nextId /\ cur' = cur
        /\ inbox' = inbox /\ pc' = pc
    BY <1>1 DEF Tick, vars
  <2> QED BY <2>1 DEF ContractInv, IdsBelow, IdsUnique, InboxAhead, AnswersRead,
                      Called, Unanswered, OnlyAck, C!Addressed
<1>2. CASE HumanSpeaks BY <1>2, HumanStep DEF C!Next
<1>3. ASSUME NEW r \in Roles, Skip(r) PROVE ContractInv' /\ posts' = posts
  <2>1. PICK p \in posts : NextFrame(r, p) /\ Read(r, p)
    BY <1>3 DEF Skip
  <2>2. posts' = posts /\ nextId' = nextId /\ pc' = pc BY <1>3 DEF Skip
  <2> QED BY <2>1, <2>2, ReadStep
<1>4. ASSUME NEW r \in Roles, Accept(r) PROVE ContractInv' /\ posts' = posts
  <2>1. PICK p \in posts : NextFrame(r, p) /\ Read(r, p) /\ Heard(r, p) /\ gate(r, p)
    BY <1>4 DEF Accept
  <2>2. posts' = posts /\ nextId' = nextId /\ pc' = [pc EXCEPT ![r] = "decide"]
    BY <1>4 DEF Accept
  <2>3. C!Addressed(r, p) BY <2>1 DEF C!Addressed, Heard, gate
  <2> QED BY <2>1, <2>2, <2>3, ReadStep
<1>5. ASSUME NEW r \in Roles, Silent(r) \/ Blocked(r) PROVE ContractInv' /\ posts' = posts
  <2>1. /\ posts' = posts /\ nextId' = nextId /\ cur' = cur /\ inbox' = inbox
        /\ pc' = [pc EXCEPT ![r] = "idle"]
    BY <1>5 DEF Silent, Blocked
  <2> QED BY <1>0, <2>1, QuietStep
<1>6. ASSUME NEW r \in Roles, Granted(r) PROVE ContractInv' /\ posts' = posts
  <2>1. /\ posts' = posts /\ nextId' = nextId /\ cur' = cur /\ inbox' = inbox
        /\ pc[r] = "decide" /\ pc' = [pc EXCEPT ![r] = "ack"]
    BY <1>6 DEF Granted
  <2> QED BY <1>0, <2>1, QuietStep
<1>7. ASSUME NEW r \in Roles, SaveMemo(r) PROVE ContractInv' /\ posts' = posts
  <2>1. /\ posts' = posts /\ nextId' = nextId /\ cur' = cur /\ inbox' = inbox
        /\ pc' = [pc EXCEPT ![r] = "idle"]
    BY <1>7 DEF SaveMemo
  <2> QED BY <1>0, <2>1, QuietStep
<1>8. ASSUME NEW r \in Roles, HandlerRaises(r) \/ Crash(r)
      PROVE  ContractInv' /\ posts' = posts
  <2>1. /\ posts' = posts /\ nextId' = nextId /\ cur' = cur
        /\ inbox' = [inbox EXCEPT ![r] = {}] /\ pc' = [pc EXCEPT ![r] = "idle"]
    BY <1>8 DEF HandlerRaises, Crash
  <2> QED BY <1>0, <2>1, QuietStep
<1>9. ASSUME NEW r \in Roles, Break(r) \/ Leave(r) \/ Reconnect(r)
      PROVE  ContractInv' /\ posts' = posts
  <2>1. /\ posts' = posts /\ nextId' = nextId /\ cur' = cur /\ pc' = pc
        /\ inbox' = inbox \/ inbox' = [inbox EXCEPT ![r] = {}]
    BY <1>9 DEF Break, Leave, Reconnect
  <2> QED BY <1>0, <2>1, QuietStep
<1>10. ASSUME NEW r \in Roles, DecideFails(r) \/ SendAck(r) \/ SendReply(r)
       PROVE  ContractInv' /\ (C!Answer(r) \/ posts' = posts)
  BY <1>10, DecideFailsStep, SendAckStep, SendReplyStep
<1> QED
  BY <1>1, <1>2, <1>3, <1>4, <1>5, <1>6, <1>7, <1>8, <1>9, <1>10
  DEF Next, Handle, C!Next

\* The runtime keeps the contract: whatever the processes, the sockets, the
\* brains and the memories do, a room never sees an answer that no post called
\* for, a second answer, an answer out of order or one outside the whitelist.
THEOREM Refinement == Spec => Contract
<1>1. Init => ContractInv /\ C!Init
  <2> SUFFICES ASSUME Init PROVE ContractInv /\ C!Init OBVIOUS
  <2>1. TypeOK BY TypeInit
  <2> QED BY <2>1 DEF Init, C!Init, ContractInv, IdsBelow, IdsUnique, InboxAhead,
             AnswersRead, Called, Unanswered, OnlyAck
<1>2. ContractInv /\ TypeOK' /\ [Next]_vars => ContractInv' /\ [C!Next]_posts
  BY ContractStep
<1> QED BY <1>1, <1>2, TypeCorrect, PTL DEF Spec, Contract, C!Spec
=============================================================================
