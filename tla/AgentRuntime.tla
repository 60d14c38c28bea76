---------------------------- MODULE AgentRuntime ----------------------------
(***************************************************************************)
(* The agents of app/bogo_runtime.py: one process per role that listens to *)
(* Mattermost over a websocket, takes one addressed post at a time, asks   *)
(* its brain for a decision in a worker thread, and carries it out (an     *)
(* acknowledgement, a reply, a memo) behind a send whitelist and a sliding *)
(* backstop.  Everything after the brain's answer runs without an await,   *)
(* so within a process the steps below are sequential; between processes,  *)
(* humans and the server they interleave at every network call.            *)
(***************************************************************************)
EXTENDS Integers, FiniteSets, Sequences

CONSTANTS
  Roles, Rooms, Human,
  Subs,             \* Subs[r]: agents/<r>.md "channels"
  Members,          \* Members[c]: the roles whose bot is a member of room c
  LearnRoom,        \* LearnRoom[r]: r's learning room
  NoRoom,           \* an empty ack_channel or target_channel
  Decisions,        \* the decisions a brain may return
  Speech,           \* what humans may say: [room, kind] records
  BACKSTOP_WINDOW, BACKSTOP_MAX,
  KEEP,             \* lines a rolling memory keeps
  MaxPosts,         \* bound: posts ever stored
  MaxTime,          \* bound: clock
  MaxRestarts       \* bound: process deaths per role

VARIABLES
  now,        \* wall clock, read by backstop_ok
  posts,      \* the server's store
  nextId,     \* id of the next post
  link,       \* link[r]: websocket "up", "broken" (dead, not yet noticed), "down"
  inbox,      \* inbox[r]: ids of frames received and not yet read, oldest first
  pc,         \* pc[r]: where r's handler is
  cur,        \* cur[r]: the post being handled, or the last one taken (0: none)
  dec,        \* dec[r]: the decision being carried out
  sent,       \* sent[r]: the runtime's list _sent
  credits,    \* every credit backstop_ok ever granted
  lastResp,   \* lastResp[r]: the runtime's _last_response (0: none)
  learn,      \* learn[r]: entries of memory_learn_<r>.json
  roomMem,    \* roomMem[c]: memory_ch_<c>.json, shared by the roles of room c
  mem,        \* mem[r]: memory_<r>.json, r's personal memory
  inc         \* inc[r]: how often r's process died

vars == <<now, posts, nextId, link, inbox, pc, cur, dec, sent, credits,
          lastResp, learn, roomMem, mem, inc>>

C == INSTANCE AgentContract

Fields    == {"none", "ack", "reply", "memo"}
Decision  == [act: BOOLEAN, ack: Rooms \cup {NoRoom}, target: Rooms \cup {NoRoom},
              mentions: SUBSET Roles,   \* whom its texts name, in words or by the list
              memo: {"none", "memo", "closed"},
              bad: Fields]   \* the text field that is not a string, if any
Credit    == [role: Roles, inc: Nat, ev: Nat, at: Nat]
Lesson    == [ev: Nat, about: Nat]
States    == {"idle", "decide", "ack", "reply", "memo"}
NoDecision == [act |-> FALSE, ack |-> NoRoom, target |-> NoRoom, mentions |-> {},
               memo |-> "none", bad |-> "none"]

ASSUME ConstantsOK ==
  /\ Human \notin Roles /\ NoRoom \notin Rooms
  /\ Subs \in [Roles -> SUBSET Rooms] /\ Members \in [Rooms -> SUBSET Roles]
  /\ LearnRoom \in [Roles -> Rooms]
  /\ Decisions \subseteq Decision /\ Speech \subseteq [room: Rooms, kind: C!HumanKinds]
  /\ BACKSTOP_WINDOW \in Nat \ {0} /\ BACKSTOP_MAX \in Nat \ {0} /\ KEEP \in Nat \ {0}
  /\ MaxPosts \in Nat /\ MaxTime \in Nat /\ MaxRestarts \in Nat

Init ==
  /\ now = 0 /\ posts = {} /\ nextId = 1 /\ credits = {}
  /\ link = [r \in Roles |-> "down"]   /\ inbox = [r \in Roles |-> {}]
  /\ pc = [r \in Roles |-> "idle"]     /\ cur = [r \in Roles |-> 0]
  /\ dec = [r \in Roles |-> NoDecision] /\ sent = [r \in Roles |-> {}]
  /\ lastResp = [r \in Roles |-> 0]    /\ learn = [r \in Roles |-> {}]
  /\ roomMem = [c \in Rooms |-> <<>>]  /\ mem = [r \in Roles |-> <<>>]
  /\ inc = [r \in Roles |-> 0]

-----------------------------------------------------------------------------
(* The server *)

PostOf(id) == CHOOSE p \in posts : p.id = id

\* The server stores p and hands it to every live socket of a member bot, the
\* author's own included.  A socket that is not up misses it for good: the
\* runtime never reads the backlog.
Store(p) ==
  /\ nextId <= MaxPosts
  /\ posts' = posts \cup {p}
  /\ nextId' = nextId + 1
  /\ inbox' = [r \in Roles |-> IF link[r] = "up" /\ r \in Members[p.room]
                               THEN inbox[r] \cup {p.id} ELSE inbox[r]]

NotStored == UNCHANGED <<posts, nextId, inbox>>

AgentPost(r, room, kind, mentions) ==
  [id |-> nextId, by |-> r, room |-> room, kind |-> kind, mentions |-> mentions,
   cause |-> cur[r], at |-> now]

HumanSpeaks == \E s \in Speech :
  /\ Store([id |-> nextId, by |-> Human, room |-> s.room, kind |-> s.kind,
            mentions |-> {}, cause |-> 0, at |-> now])
  /\ UNCHANGED <<now, link, pc, cur, dec, sent, credits, lastResp, learn,
                 roomMem, mem, inc>>

Tick == /\ now < MaxTime
        /\ now' = now + 1
        /\ UNCHANGED <<posts, nextId, link, inbox, pc, cur, dec, sent, credits,
                       lastResp, learn, roomMem, mem, inc>>

-----------------------------------------------------------------------------
(* run(): the event loop of role r *)

\* Slip: agents answer every post of another agent.
gate_any(r, p) == TRUE

gate(r, p) == p.by = Human \/ r \in p.mentions
can_send(r, room) == room \in Subs[r]
Heard(r, p) == p.by # r /\ p.room \in Subs[r]

\* Slip: the newest frame first.
NextFrame_newest(r, p) == /\ pc[r] = "idle" /\ link[r] # "down"
                          /\ p \in posts /\ p.id \in inbox[r]
                          /\ \A i \in inbox[r] : i <= p.id

\* The frame the iterator yields next.
NextFrame(r, p) == /\ pc[r] = "idle" /\ link[r] # "down"
                   /\ p \in posts /\ p.id \in inbox[r]
                   /\ \A i \in inbox[r] : p.id <= i

Read(r, p) == /\ inbox' = [inbox EXCEPT ![r] = @ \ {p.id}]
              /\ cur' = [cur EXCEPT ![r] = p.id]

\* Own echo, a foreign room, or an agent's post that does not name r.
Skip(r) == \E p \in posts :
  /\ NextFrame(r, p)
  /\ ~(Heard(r, p) /\ gate(r, p))
  /\ Read(r, p)
  /\ UNCHANGED <<now, posts, nextId, link, pc, dec, sent, credits, lastResp,
                 learn, roomMem, mem, inc>>

\* What a human says in r's learning room is kept for good, a correction
\* together with the response it is taken to be about; an order to edit an agent
\* definition, or to apply or reject an edit, is not.
Learn(r, p) ==
  IF p.by = Human /\ p.room = LearnRoom[r] /\ p.kind # "edit"
  THEN learn' = [learn EXCEPT ![r] = @ \cup
         {[ev |-> p.id, about |-> IF p.kind = "correction" THEN lastResp[r] ELSE 0]}]
  ELSE UNCHANGED learn

Accept(r) == \E p \in posts :
  /\ NextFrame(r, p)
  /\ Heard(r, p) /\ gate(r, p)
  /\ Read(r, p)
  /\ Learn(r, p)
  /\ pc' = [pc EXCEPT ![r] = "decide"]
  /\ UNCHANGED <<now, posts, nextId, link, dec, sent, credits, lastResp,
                 roomMem, mem, inc>>

\* backstop_ok: forget the credits a whole window old, then count.
InWindow(r) == {c \in sent[r] : now - c.at < BACKSTOP_WINDOW}

\* Slip: one credit too many.
backstop_ok_one_more(r) == Cardinality(InWindow(r)) <= BACKSTOP_MAX

backstop_ok(r) == Cardinality(InWindow(r)) < BACKSTOP_MAX

Silent(r) ==
  /\ pc[r] = "decide"
  /\ \E d \in Decisions : ~d.act
  /\ pc' = [pc EXCEPT ![r] = "idle"]
  /\ UNCHANGED <<now, posts, nextId, link, inbox, cur, dec, sent, credits,
                 lastResp, learn, roomMem, mem, inc>>

\* Over the limit the whole decision is dropped, memo included.
Blocked(r) ==
  /\ pc[r] = "decide" /\ ~backstop_ok(r)
  /\ \E d \in Decisions : d.act
  /\ sent' = [sent EXCEPT ![r] = InWindow(r)]
  /\ pc' = [pc EXCEPT ![r] = "idle"]
  /\ UNCHANGED <<now, posts, nextId, link, inbox, cur, dec, credits, lastResp,
                 learn, roomMem, mem, inc>>

\* One credit pays for the whole decision, its acknowledgement and its reply.
Granted(r) ==
  LET c == [role |-> r, inc |-> inc[r], ev |-> cur[r], at |-> now] IN
  /\ pc[r] = "decide" /\ backstop_ok(r)
  /\ \E d \in Decisions : d.act /\ dec' = [dec EXCEPT ![r] = d]
  /\ sent' = [sent EXCEPT ![r] = InWindow(r) \cup {c}]
  /\ credits' = credits \cup {c}
  /\ pc' = [pc EXCEPT ![r] = "ack"]
  /\ UNCHANGED <<now, posts, nextId, link, inbox, cur, lastResp, learn, roomMem,
                 mem, inc>>

\* decide raised: a human is told (if the notice itself gets through), an agent
\* is not.  The notice costs no credit.
DecideFails(r) == \E p \in posts :
  /\ pc[r] = "decide" /\ p.id = cur[r]
  /\ pc' = [pc EXCEPT ![r] = "idle"]
  /\ \/ /\ p.by = Human /\ can_send(r, p.room)
        /\ Store(AgentPost(r, p.room, "error", {}))
     \/ NotStored
  /\ UNCHANGED <<now, link, cur, dec, sent, credits, lastResp, learn, roomMem,
                 mem, inc>>

\* A post may be stored, refused, or stored although the call failed: the error
\* is logged and the handler goes on in every case.
SendAck(r) ==
  /\ pc[r] = "ack" /\ dec[r].bad # "ack"
  /\ pc' = [pc EXCEPT ![r] = "reply"]
  /\ \/ /\ dec[r].ack # NoRoom /\ can_send(r, dec[r].ack)
        /\ Store(AgentPost(r, dec[r].ack, "ack", dec[r].mentions))
     \/ NotStored
  /\ UNCHANGED <<now, link, cur, dec, sent, credits, lastResp, learn, roomMem,
                 mem, inc>>

\* Only a reply whose call returned becomes _last_response.
SendReply(r) ==
  /\ pc[r] = "reply" /\ dec[r].bad # "reply"
  /\ pc' = [pc EXCEPT ![r] = "memo"]
  /\ \/ /\ dec[r].target # NoRoom /\ can_send(r, dec[r].target)
        /\ Store(AgentPost(r, dec[r].target, "reply", dec[r].mentions))
        /\ lastResp' \in {lastResp, [lastResp EXCEPT ![r] = nextId]}
     \/ NotStored /\ UNCHANGED lastResp
  /\ UNCHANGED <<now, link, cur, dec, sent, credits, learn, roomMem, mem, inc>>

Rolled(lines, x) == LET s == Append(lines, x) IN
  IF Len(s) <= KEEP THEN s ELSE SubSeq(s, Len(s) - KEEP + 1, Len(s))

\* A memo, or the note that the task is closed, goes to the room's memory and to
\* the role's own, whether or not anything was sent.
SaveMemo(r) == \E p \in posts :
  /\ pc[r] = "memo" /\ dec[r].bad # "memo" /\ p.id = cur[r]
  /\ pc' = [pc EXCEPT ![r] = "idle"]
  /\ dec' = [dec EXCEPT ![r] = NoDecision]
  /\ IF dec[r].memo # "none"
     THEN /\ roomMem' = [roomMem EXCEPT ![p.room] = Rolled(@, p.id)]
          /\ mem' = [mem EXCEPT ![r] = Rolled(@, p.id)]
     ELSE UNCHANGED <<roomMem, mem>>
  /\ UNCHANGED <<now, posts, nextId, link, inbox, cur, sent, credits, lastResp,
                 learn, inc>>

\* Slip: nobody catches what the handler raises.
HandlerRaises_uncaught(r) ==
  /\ pc[r] \in {"ack", "reply", "memo"} /\ dec[r].bad = pc[r]
  /\ pc' = [pc EXCEPT ![r] = "raised"]
  /\ UNCHANGED <<now, posts, nextId, link, inbox, cur, dec, sent, credits, lastResp,
                 learn, roomMem, mem, inc>>

\* A text field that is not a string raises outside every try: the exception
\* leaves run(), which closes the socket and forgets the unread frames.
HandlerRaises(r) ==
  /\ pc[r] \in {"ack", "reply", "memo"} /\ dec[r].bad = pc[r]
  /\ pc' = [pc EXCEPT ![r] = "idle"]
  /\ link' = [link EXCEPT ![r] = "down"]
  /\ inbox' = [inbox EXCEPT ![r] = {}]
  /\ dec' = [dec EXCEPT ![r] = NoDecision]
  /\ UNCHANGED <<now, posts, nextId, cur, sent, credits, lastResp, learn,
                 roomMem, mem, inc>>

-----------------------------------------------------------------------------
(* run_forever() and the service manager *)

\* The server, the network or a missed keepalive closes the socket under r.
Break(r) ==
  /\ link[r] = "up"
  /\ link' = [link EXCEPT ![r] = "broken"]
  /\ UNCHANGED <<now, posts, nextId, inbox, pc, cur, dec, sent, credits,
                 lastResp, learn, roomMem, mem, inc>>

\* Slip: no keepalive, so that a dead socket goes unnoticed.
Leave_unnoticed(r) == FALSE

\* Back at the iterator, run() ends; frames it had not yielded are lost.
Leave(r) ==
  /\ pc[r] = "idle" /\ link[r] = "broken"
  /\ link' = [link EXCEPT ![r] = "down"]
  /\ inbox' = [inbox EXCEPT ![r] = {}]
  /\ UNCHANGED <<now, posts, nextId, pc, cur, dec, sent, credits, lastResp,
                 learn, roomMem, mem, inc>>

Reconnect(r) ==
  /\ pc[r] = "idle" /\ link[r] = "down"
  /\ link' = [link EXCEPT ![r] = "up"]
  /\ UNCHANGED <<now, posts, nextId, inbox, pc, cur, dec, sent, credits,
                 lastResp, learn, roomMem, mem, inc>>

\* The process dies at any point and is started again: its variables are gone,
\* the memory files stay.  (cur is not the process's: it records what was read.)
Crash(r) ==
  /\ inc[r] < MaxRestarts
  /\ inc' = [inc EXCEPT ![r] = @ + 1]
  /\ pc' = [pc EXCEPT ![r] = "idle"]
  /\ link' = [link EXCEPT ![r] = "down"]
  /\ inbox' = [inbox EXCEPT ![r] = {}]
  /\ dec' = [dec EXCEPT ![r] = NoDecision]
  /\ sent' = [sent EXCEPT ![r] = {}]
  /\ lastResp' = [lastResp EXCEPT ![r] = 0]
  /\ UNCHANGED <<now, posts, nextId, cur, credits, learn, roomMem, mem>>

-----------------------------------------------------------------------------
Handle(r) == \/ Skip(r) \/ Accept(r)
             \/ Silent(r) \/ Blocked(r) \/ Granted(r) \/ DecideFails(r)
             \/ SendAck(r) \/ SendReply(r) \/ SaveMemo(r) \/ HandlerRaises(r)

Next == \/ Tick
        \/ HumanSpeaks
        \/ \E r \in Roles : Handle(r) \/ Break(r) \/ Leave(r) \/ Reconnect(r) \/ Crash(r)

Spec == Init /\ [][Next]_vars

\* Every call a handler makes has a timeout, and run_forever never gives up.
Fairness == \A r \in Roles : WF_vars(Handle(r)) /\ WF_vars(Leave(r)) /\ WF_vars(Reconnect(r))
FairSpec == Spec /\ Fairness

-----------------------------------------------------------------------------
TypeOK ==
  /\ now \in Nat /\ nextId \in Nat \ {0}
  /\ posts \subseteq C!Post /\ credits \subseteq Credit
  /\ link \in [Roles -> {"up", "broken", "down"}] /\ pc \in [Roles -> States]
  /\ inbox \in [Roles -> SUBSET Nat] /\ cur \in [Roles -> Nat]
  /\ dec \in [Roles -> Decision] /\ sent \in [Roles -> SUBSET Credit]
  /\ lastResp \in [Roles -> Nat] /\ learn \in [Roles -> SUBSET Lesson]
  /\ roomMem \in [Rooms -> Seq(Nat)] /\ mem \in [Roles -> Seq(Nat)]
  /\ inc \in [Roles -> Nat]

\* The backstop: in no window of BACKSTOP_WINDOW seconds, wherever it starts,
\* does one run of a role's process act on more than BACKSTOP_MAX decisions,
\* although it only remembers the credits it has not pruned.
CreditsIn(r, n, w) == {c \in credits : /\ c.role = r /\ c.inc = n
                                       /\ w <= c.at /\ c.at < w + BACKSTOP_WINDOW}
CreditsPerWindow ==
  \A r \in Roles, n \in 0..MaxRestarts, w \in 0..MaxTime :
    Cardinality(CreditsIn(r, n, w)) <= BACKSTOP_MAX

\* The abstract contract: whatever the processes, the sockets and the brains do,
\* the room sees no answer without a post that called for it, no second answer,
\* no answer out of order and no answer outside the whitelist, also across lost
\* calls, reconnects and restarts.
Contract == C!Spec

\* A handler always comes back to its socket: neither a brain nor a lost call
\* keeps an agent deaf for good.
HandlerReturns == \A r \in Roles : pc[r] # "idle" ~> pc[r] = "idle"

\* What Chatter sees of the sockets: the frames of r's inbox in the order of their
\* ids.  The first post of a human is the one it watches.
NthFrame(r, k) == CHOOSE p \in posts :
  /\ p.id \in inbox[r]
  /\ Cardinality({i \in inbox[r] : i < p.id}) = k - 1
FirstOfHuman(p) == p.by = Human /\ \A q \in posts : q.by = Human => p.id <= q.id
FrameKind(r, p) == IF ~C!Addressed(r, p) THEN "passed"
                   ELSE IF FirstOfHuman(p) THEN "watched" ELSE "addressed"
Queue == [r \in Roles |->
            [k \in 1..Cardinality(inbox[r]) |-> FrameKind(r, NthFrame(r, k))]]

Talk == INSTANCE Chatter WITH queue <- Queue, MaxQueue <- MaxPosts

\* The conversation whose fair runs Chatter checks without end is this one: the
\* loops read their sockets in order, decide, post and lose frames as it says.
ImplementsChatter == Talk!Spec

\* A lost socket is replaced, whatever lost it (server, network, own exception,
\* process death).
ComesBack == \A r \in Roles : link[r] # "up" ~> link[r] = "up"
=============================================================================
