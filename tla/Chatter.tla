------------------------------- MODULE Chatter -------------------------------
(***************************************************************************)
(* The event loops of app/bogo_runtime.py seen from their sockets only:    *)
(* agents that may name each other in every acknowledgement and reply, and *)
(* so talk without end.  Of a frame it is known only whether its reader    *)
(* must react; decisions, rooms, memories and the backstop are left open.  *)
(* Nothing counts the posts, so what must eventually happen in the middle  *)
(* of an endless conversation can be checked.                              *)
(***************************************************************************)
EXTENDS Integers, Sequences

CONSTANTS
  Roles,
  MaxQueue   \* bound: frames a socket holds; later ones are lost to the model

ASSUME MaxQueueOK == MaxQueue \in Nat \ {0}

VARIABLES
  queue,     \* queue[r]: frames r received and did not yet read, oldest first
  link,      \* link[r]: r's websocket
  pc         \* pc[r]: where r's handler is

vars == <<queue, link, pc>>

\* A post that r must react to, one that r passes over, and one chosen post of a
\* human that r must react to and whose fate is watched.
Frames == {"addressed", "passed", "watched"}

Init == /\ queue = [r \in Roles |-> <<>>]
        /\ link = [r \in Roles |-> "down"]
        /\ pc = [r \in Roles |-> "idle"]

-----------------------------------------------------------------------------
Waits(r) == \E k \in DOMAIN queue[r] : queue[r][k] = "watched"

\* The server hands K[r] to r's socket, or nothing.
Deliver(K) ==
  /\ \A r \in Roles : K[r] # "none" => link[r] = "up" /\ Len(queue[r]) < MaxQueue
  /\ queue' = [r \in Roles |-> IF K[r] = "none" THEN queue[r] ELSE Append(queue[r], K[r])]

\* The watched post is one post: it does not come to a socket a second time.
HumanSpeaks ==
  /\ UNCHANGED <<link, pc>>
  /\ \E K \in [Roles -> Frames \cup {"none"}] :
       /\ \A r \in Roles : K[r] = "watched" => ~Waits(r)
       /\ Deliver(K)

\* What r posts, or fails to post; r's own echo is passed over.
AgentSpeaks(r) == \E K \in [Roles -> {"addressed", "passed", "none"}] :
  /\ K[r] # "addressed"
  /\ Deliver(K)

\* Slip: the newest frame first.
NextIndex_newest(r) == Len(queue[r])

\* async for yields the oldest frame.
NextIndex(r) == 1

Without(s, i) == [k \in 1..Len(s) - 1 |-> IF k < i THEN s[k] ELSE s[k + 1]]

Read(r) == /\ pc[r] = "idle" /\ link[r] # "down" /\ queue[r] # <<>>
           /\ queue' = [queue EXCEPT ![r] = Without(@, NextIndex(r))]
           /\ UNCHANGED link

Skip(r) == /\ Read(r) /\ queue[r][NextIndex(r)] = "passed"
           /\ UNCHANGED pc

Accept(r) == /\ Read(r) /\ queue[r][NextIndex(r)] # "passed"
             /\ pc' = [pc EXCEPT ![r] = "decide"]

\* A decision to act, or silence, the backstop, or an exception with its notice.
Decide(r) == /\ pc[r] = "decide"
             /\ UNCHANGED link
             /\ \/ pc' = [pc EXCEPT ![r] = "ack"] /\ UNCHANGED queue
                \/ pc' = [pc EXCEPT ![r] = "idle"] /\ AgentSpeaks(r)

SendAck(r) == /\ pc[r] = "ack" /\ pc' = [pc EXCEPT ![r] = "reply"]
              /\ UNCHANGED link
              /\ AgentSpeaks(r)

SendReply(r) == /\ pc[r] = "reply" /\ pc' = [pc EXCEPT ![r] = "memo"]
                /\ UNCHANGED link
                /\ AgentSpeaks(r)

SaveMemo(r) == /\ pc[r] = "memo" /\ pc' = [pc EXCEPT ![r] = "idle"]
               /\ UNCHANGED <<queue, link>>

\* The socket is closed and its frames are gone: an exception leaves run(), or
\* the process dies.
Lost(r) == /\ pc' = [pc EXCEPT ![r] = "idle"]
           /\ link' = [link EXCEPT ![r] = "down"]
           /\ queue' = [queue EXCEPT ![r] = <<>>]

HandlerRaises(r) == pc[r] \in {"ack", "reply", "memo"} /\ Lost(r)
Leave(r) == pc[r] = "idle" /\ link[r] = "broken" /\ Lost(r)
Crash(r) == Lost(r)

Break(r) == /\ link[r] = "up" /\ link' = [link EXCEPT ![r] = "broken"]
            /\ UNCHANGED <<queue, pc>>

Reconnect(r) == /\ pc[r] = "idle" /\ link[r] = "down"
                /\ link' = [link EXCEPT ![r] = "up"]
                /\ UNCHANGED <<queue, pc>>

-----------------------------------------------------------------------------
Handle(r) == \/ Skip(r) \/ Accept(r) \/ Decide(r)
             \/ SendAck(r) \/ SendReply(r) \/ SaveMemo(r) \/ HandlerRaises(r)

Next == \/ HumanSpeaks
        \/ \E r \in Roles : Handle(r) \/ Break(r) \/ Leave(r) \/ Reconnect(r) \/ Crash(r)

Spec == Init /\ [][Next]_vars

\* Every call of a handler has a timeout, and run_forever never gives up.
Fairness == \A r \in Roles : WF_vars(Handle(r)) /\ WF_vars(Leave(r)) /\ WF_vars(Reconnect(r))
FairSpec == Spec /\ Fairness

-----------------------------------------------------------------------------
\* Agents that keep naming each other do not starve a human: each post that
\* reached an agent's socket is read, or given up with the socket, although new
\* frames never stop coming and every one of them is answered.
HumansHeard == \A r \in Roles : Waits(r) ~> ~Waits(r)
=============================================================================
