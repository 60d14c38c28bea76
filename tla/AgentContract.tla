---------------------------- MODULE AgentContract ----------------------------
(***************************************************************************)
(* What the team may rely on when it reads a Mattermost room in which      *)
(* agents speak: the promise of bogo_runtime.py, stated over the posts     *)
(* alone.  It says nothing of processes, sockets, brains or memories.      *)
(***************************************************************************)
EXTENDS Integers

CONSTANTS
  Roles,    \* the agents: one runtime process and one bot account each
  Rooms,    \* the channels of channels.json
  Human,    \* any human author
  Subs      \* Subs[r]: the rooms of role r (its receive and send whitelist)

VARIABLE posts   \* every post the server ever stored

HumanKinds == {"talk", "correction", "edit"}
AgentKinds == {"ack", "reply", "error"}

Post == [id: Nat \ {0}, by: Roles \cup {Human}, room: Rooms,
         kind: HumanKinds \cup AgentKinds, mentions: SUBSET Roles,
         cause: Nat, at: Nat]

\* Ids grow in the order in which the server stores the posts.
Fresh(id) == id \in Nat \ {0} /\ \A q \in posts : q.id < id

\* A post r must react to: not its own, in one of its rooms, and, when another
\* agent wrote it, one that names r.
Addressed(r, p) == /\ p.by # r
                   /\ p.room \in Subs[r]
                   /\ p.by = Human \/ r \in p.mentions

\* p may be r's answer to the stored post c.  An answer goes to a room of r; r
\* answers in the order of the posts it answers; to one post it gives one
\* acknowledgement and then one reply, or one error notice and nothing else; an
\* error notice answers a human in the human's own room.
MayAnswer(r, c, p) ==
  /\ c \in posts /\ Addressed(r, c)
  /\ p.cause = c.id /\ p.room \in Subs[r]
  /\ p.kind \in AgentKinds
  /\ \A q \in posts : q.by = r => q.cause <= c.id
  /\ \A q \in posts : q.by = r /\ q.cause = c.id
                        => q.kind = "ack" /\ p.kind = "reply"
  /\ p.kind = "error" => c.by = Human /\ p.room = c.room

Init == posts = {}

\* One post is stored and none is ever changed or removed.
Stores(p) == p \in Post /\ Fresh(p.id) /\ posts' = posts \cup {p}

Speak == \E p \in posts' : /\ Stores(p)
                          /\ p.by = Human /\ p.kind \in HumanKinds

Answer(r) == \E p \in posts' : /\ Stores(p)
                              /\ p.by = r
                              /\ \E c \in posts : MayAnswer(r, c, p)

Next == Speak \/ \E r \in Roles : Answer(r)

Spec == Init /\ [][Next]_posts
=============================================================================
