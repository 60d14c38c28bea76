-------------------------- MODULE RoomMemory_proofs --------------------------
(***************************************************************************)
(* Whatever overlapping saves and dying processes do to the files of the   *)
(* rooms and of the roles, what is read from them is in order, and the own *)
(* file of a role is a rolling log: for every set of roles and rooms and   *)
(* every bound.                                                            *)
(***************************************************************************)
EXTENDS RoomMemory, TLAPS

\* Every memo of s is below x, or not beyond it.
Below(s, x)  == \A i \in DOMAIN s : s[i] < x
UpTo(s, x)   == \A i \in DOMAIN s : s[i] <= x

\* A role saves to the files of rooms and to its own; before its own, the memo
\* has been saved for a room.
OwnFiles == \A r \in Roles : /\ at[r] \in Rooms \cup {r}
                             /\ pc[r] = "own" => at[r] \in Rooms

\* Files and the texts under way are in order and hold only memos begun.
Ordered == /\ \A f \in Files : Increasing(file[f]) /\ Below(file[f], next)
           /\ \A r \in Roles : /\ Increasing(text[r]) /\ Below(text[r], next)
                               /\ memo[r] < next

\* A role's own file is not ahead of the memo it is saving, and behind it until
\* that memo's turn comes.
OwnBehind == \A r \in Roles : /\ UpTo(file[r], memo[r])
                              /\ at[r] \in Rooms => Below(file[r], memo[r])
                              /\ at[r] = r => UpTo(text[r], memo[r])

OrderInv == TypeOK /\ OwnFiles /\ Ordered /\ OwnBehind

\* Rolling takes a suffix: it keeps the order and adds nothing.
LEMMA RolledOrder ==
  ASSUME NEW s \in Seq(Nat), Increasing(s)
  PROVE  /\ Rolled(s) \in Seq(Nat) /\ Increasing(Rolled(s))
         /\ \A i \in DOMAIN Rolled(s) : \E j \in DOMAIN s : Rolled(s)[i] = s[j]
<1>1. KEEP \in Nat \ {0} /\ Len(s) \in Nat BY RoomMemoryOK
<1>2. CASE Len(s) <= KEEP BY <1>2 DEF Rolled
<1>3. CASE Len(s) > KEEP
  <2> DEFINE k == Len(s) - KEEP
             t == SubSeq(s, k + 1, Len(s))
  <2>1. k \in Nat /\ k < Len(s) BY <1>1, <1>3
  <2>2. /\ t \in Seq(Nat) /\ Len(t) = Len(s) - k
        /\ \A i \in 1..Len(t) : t[i] = s[k + i] /\ k + i \in 1..Len(s)
    BY <1>1, <2>1
  <2>3. Rolled(s) = t BY <1>1, <1>3 DEF Rolled
  <2> HIDE DEF t, k
  <2>4. Increasing(t)
    <3> SUFFICES ASSUME NEW i \in DOMAIN t, NEW j \in DOMAIN t, i < j
                 PROVE  t[i] < t[j]
      BY DEF Increasing
    <3>1. i \in 1..Len(t) /\ j \in 1..Len(t) BY <2>2
    <3>2. k + i < k + j BY <2>1, <3>1
    <3>3. k + i \in DOMAIN s /\ k + j \in DOMAIN s /\ t[i] = s[k + i] /\ t[j] = s[k + j]
      BY <2>2, <3>1
    <3> HIDE DEF k
    <3> DEFINE a == k + i
               b == k + j
    <3> HIDE DEF a, b
    <3>4. a \in DOMAIN s /\ b \in DOMAIN s /\ a < b /\ t[i] = s[a] /\ t[j] = s[b]
      BY <3>2, <3>3 DEF a, b
    <3> QED BY <3>4 DEF Increasing
  <2>5. \A i \in DOMAIN t : \E j \in DOMAIN s : t[i] = s[j]
    <3> SUFFICES ASSUME NEW i \in DOMAIN t PROVE \E j \in DOMAIN s : t[i] = s[j]
      OBVIOUS
    <3>1. i \in 1..Len(t) BY <2>2
    <3>2. k + i \in DOMAIN s /\ t[i] = s[k + i] BY <2>2, <3>1
    <3> QED BY <3>2
  <2> QED BY <2>2, <2>3, <2>4, <2>5
<1> QED BY <1>1, <1>2, <1>3

\* Reading a file and adding a memo beyond all of it gives an ordered text that
\* ends nowhere beyond the memo; the files stay.
LEMMA ReadStep ==
  ASSUME OrderInv, NEW r \in Roles, NEW f \in Files, NEW x \in Nat,
         Below(file[f], x), Read(r, f, x)
  PROVE  /\ text' \in [Roles -> Seq(Nat)]
         /\ Increasing(text'[r]) /\ UpTo(text'[r], x)
         /\ \A q \in Roles \ {r} : text'[q] = text[q]
<1> DEFINE s == Append(load(f), x)
<1>1. text' = [text EXCEPT ![r] = Rolled(s)] BY DEF Read
<1>2. load(f) \in Seq(Nat) /\ Increasing(load(f)) /\ Below(load(f), x)
  BY DEF OrderInv, TypeOK, Ordered, load, Increasing, Below
<1>3. s \in Seq(Nat) /\ Increasing(s) /\ UpTo(s, x)
  BY <1>2 DEF Increasing, Below, UpTo
<1> HIDE DEF s
<1>4. /\ Rolled(s) \in Seq(Nat) /\ Increasing(Rolled(s))
      /\ \A i \in DOMAIN Rolled(s) : \E j \in DOMAIN s : Rolled(s)[i] = s[j]
  BY <1>3, RolledOrder
<1>5. UpTo(Rolled(s), x) BY <1>3, <1>4 DEF UpTo
<1>6. text \in [Roles -> Seq(Nat)] BY DEF OrderInv, TypeOK
<1> QED BY <1>1, <1>4, <1>5, <1>6

\* The invariant holds initially.
LEMMA OrderInit == Init => OrderInv
<1> SUFFICES ASSUME Init PROVE OrderInv OBVIOUS
<1>1. <<>> \in Seq(Nat) /\ Increasing(<<>>) /\ \A x \in Nat : Below(<<>>, x) /\ UpTo(<<>>, x)
  BY DEF Increasing, Below, UpTo
<1>2. TypeOK BY <1>1 DEF Init, TypeOK, Files
<1>3. OwnFiles BY DEF Init, OwnFiles
<1>4. Ordered BY <1>1 DEF Init, Ordered, Files
<1>5. OwnBehind BY <1>1, RoomMemoryOK DEF Init, OwnBehind, Files
<1> QED BY <1>2, <1>3, <1>4, <1>5 DEF OrderInv

\* A memo of a room is newer than everything in any file.
LEMMA RoomSaveStep ==
  ASSUME OrderInv, NEW r \in Roles, NEW c \in Rooms, save_room_mem(r, c)
  PROVE  OrderInv'
<1> USE DEF OrderInv
<1>1. /\ Read(r, c, next) /\ next' = next + 1 /\ next \in Nat /\ c \in Files
  BY DEF save_room_mem, TypeOK, Files
<1>2. /\ text' \in [Roles -> Seq(Nat)]
      /\ Increasing(text'[r]) /\ UpTo(text'[r], next)
      /\ \A q \in Roles \ {r} : text'[q] = text[q]
  BY <1>1, ReadStep DEF Ordered
<1>3. TypeOK' BY <1>1, <1>2 DEF TypeOK, Read
<1>4. OwnFiles' BY <1>1 DEF OwnFiles, Read, TypeOK
<1>5. Ordered'
  <2>1. \A f \in Files : Increasing(file'[f]) /\ Below(file'[f], next')
    BY <1>1 DEF Ordered, Read, Below, TypeOK
  <2>2. \A q \in Roles : \A i \in DOMAIN text'[q] : text'[q][i] < next + 1
    <3>1. \A i \in DOMAIN text'[r] : text'[r][i] < next + 1
      BY <1>1, <1>2 DEF UpTo
    <3>2. ASSUME NEW q \in Roles \ {r}, NEW i \in DOMAIN text[q] PROVE text[q][i] < next + 1
      <4>1. text[q] \in Seq(Nat) /\ text[q][i] < next BY <3>2 DEF Ordered, Below, TypeOK
      <4> QED BY <1>1, <4>1
    <3> QED BY <1>2, <3>1, <3>2
  <2>3. \A q \in Roles : Increasing(text'[q]) BY <1>2 DEF Ordered
  <2>4. \A q \in Roles : memo'[q] < next + 1 BY <1>1 DEF Ordered, Read, TypeOK
  <2> QED BY <1>1, <2>1, <2>2, <2>3, <2>4 DEF Ordered, Below
<1>6. OwnBehind'
  <2> SUFFICES ASSUME NEW q \in Roles
               PROVE  (UpTo(file[q], memo[q]) /\ (at[q] \in Rooms => Below(file[q], memo[q]))
                         /\ (at[q] = q => UpTo(text[q], memo[q])))'
    BY DEF OwnBehind
  <2>1. CASE q = r
    <3>1. memo'[r] = next /\ at'[r] = c /\ file' = file BY <1>1 DEF Read, TypeOK
    <3>2. r \in Files /\ c # r BY RoomMemoryOK DEF Files
    <3>3. Below(file[r], next) BY <3>2 DEF Ordered
    <3>4. UpTo(file[r], next)
      <4>1. file[r] \in Seq(Nat) BY <3>2 DEF TypeOK
      <4> HIDE DEF OrderInv
      <4> SUFFICES ASSUME NEW i \in DOMAIN file[r] PROVE file[r][i] <= next
        BY DEF UpTo
      <4>2. file[r][i] \in Nat /\ file[r][i] < next BY <3>3, <4>1 DEF Below
      <4> QED BY <1>1, <4>2
    <3> QED BY <2>1, <3>1, <3>2, <3>3, <3>4
  <2>2. CASE q # r
    <3>1. memo'[q] = memo[q] /\ at'[q] = at[q] /\ file' = file /\ text'[q] = text[q]
      BY <1>1, <1>2, <2>2 DEF Read, TypeOK
    <3> QED BY <3>1 DEF OwnBehind
  <2> QED BY <2>1, <2>2
<1> QED BY <1>3, <1>4, <1>5, <1>6

\* A memo saved for a room is newer than everything in the role's own file.
LEMMA OwnSaveStep ==
  ASSUME OrderInv, NEW r \in Roles, save_mem(r)
  PROVE  OrderInv'
<1> USE DEF OrderInv
<1>1. /\ Read(r, r, memo[r]) /\ next' = next /\ memo[r] \in Nat /\ r \in Files
      /\ memo[r] < next /\ next \in Nat /\ at[r] \in Rooms
  BY DEF save_mem, TypeOK, Files, Ordered, OwnFiles
<1>2. /\ text' \in [Roles -> Seq(Nat)]
      /\ Increasing(text'[r]) /\ UpTo(text'[r], memo[r])
      /\ \A q \in Roles \ {r} : text'[q] = text[q]
  <2>1. Below(file[r], memo[r]) BY <1>1 DEF OwnBehind
  <2> QED BY <1>1, <2>1, ReadStep
<1>3. TypeOK' BY <1>1, <1>2 DEF TypeOK, Read
<1>4. OwnFiles' BY <1>1 DEF OwnFiles, Read, TypeOK
<1>5. file' = file /\ memo' = memo BY <1>1 DEF Read, TypeOK
<1>6. Ordered'
  <2>1. \A i \in DOMAIN text'[r] : text'[r][i] < next
    BY <1>1, <1>2 DEF UpTo
  <2> QED BY <1>1, <1>2, <1>5, <2>1 DEF Ordered, Below
<1>7. OwnBehind'
  <2>1. at'[r] = r /\ r \notin Rooms /\ \A q \in Roles \ {r} : at'[q] = at[q]
    BY <1>1, RoomMemoryOK DEF Read, TypeOK
  <2> QED BY <1>2, <1>5, <2>1 DEF OwnBehind
<1> QED BY <1>3, <1>4, <1>6, <1>7

\* Opening a file empties it.
LEMMA OpenStep == ASSUME OrderInv, NEW r \in Roles, Open(r) PROVE OrderInv'
<1> USE DEF OrderInv
<1>1. /\ at[r] \in Files /\ file' = [file EXCEPT ![at[r]] = <<>>]
      /\ UNCHANGED <<at, memo, text, next>> /\ pc' = [pc EXCEPT ![r] = "open"]
  BY DEF Open, TypeOK
<1>2. <<>> \in Seq(Nat) /\ Increasing(<<>>) /\ \A x \in Nat : Below(<<>>, x) /\ UpTo(<<>>, x)
  BY DEF Increasing, Below, UpTo
<1>3. \A f \in Files : file'[f] = file[f] \/ file'[f] = <<>>
  BY <1>1 DEF TypeOK
<1>4. TypeOK' BY <1>1, <1>2 DEF Open, TypeOK
<1>5. OwnFiles' BY <1>1 DEF OwnFiles, TypeOK
<1>6. Ordered' BY <1>1, <1>2, <1>3 DEF Ordered, TypeOK
<1>7. OwnBehind' BY <1>1, <1>2, <1>3 DEF OwnBehind, TypeOK, Files
<1> QED BY <1>4, <1>5, <1>6, <1>7

\* Closing one puts a text there that is in order.
LEMMA CloseStep == ASSUME OrderInv, NEW r \in Roles, Close(r) PROVE OrderInv'
<1> USE DEF OrderInv
<1>1. /\ at[r] \in Files /\ file' = [file EXCEPT ![at[r]] = text[r]]
      /\ UNCHANGED <<at, memo, text, next>>
      /\ pc' = [pc EXCEPT ![r] = IF at[r] = r THEN "idle" ELSE "own"]
  BY DEF Close, TypeOK
<1>2. \A f \in Files : file'[f] = IF f = at[r] THEN text[r] ELSE file[f]
  BY <1>1 DEF TypeOK
<1>3. TypeOK' BY <1>1 DEF Close, TypeOK
<1>4. OwnFiles' BY <1>1 DEF OwnFiles, TypeOK
<1>5. Ordered' BY <1>1, <1>2 DEF Ordered
<1>6. OwnBehind'
  <2> SUFFICES ASSUME NEW q \in Roles
               PROVE  /\ UpTo(file'[q], memo[q])
                      /\ at[q] \in Rooms => Below(file'[q], memo[q])
                      /\ at[q] = q => UpTo(text[q], memo[q])
    BY <1>1 DEF OwnBehind
  <2>1. q \in Files /\ q \notin Rooms BY RoomMemoryOK DEF Files
  <2>2. CASE q = at[r]
    <3>1. q = r BY <2>1, <2>2 DEF OwnFiles
    <3> QED BY <1>2, <2>1, <2>2, <3>1 DEF OwnBehind
  <2>3. CASE q # at[r] BY <1>2, <2>1, <2>3 DEF OwnBehind
  <2> QED BY <2>2, <2>3
<1> QED BY <1>3, <1>4, <1>5, <1>6

\* A process that dies leaves the files as they are.
LEMMA CrashStep == ASSUME OrderInv, NEW r \in Roles, Crash(r) PROVE OrderInv'
<1> USE DEF OrderInv
<1>1. UNCHANGED <<file, at, memo, text, next>> /\ pc' = [pc EXCEPT ![r] = "idle"]
  BY DEF Crash
<1>2. TypeOK' BY <1>1 DEF Crash, TypeOK
<1>3. OwnFiles' BY <1>1 DEF OwnFiles, TypeOK
<1> QED BY <1>1, <1>2, <1>3 DEF Ordered, OwnBehind

\* Every step keeps the invariant.
LEMMA OrderStep == OrderInv /\ [Next]_vars => OrderInv'
<1> SUFFICES ASSUME OrderInv, [Next]_vars PROVE OrderInv' OBVIOUS
<1>1. CASE Next
  BY <1>1, RoomSaveStep, OwnSaveStep, OpenStep, CloseStep, CrashStep DEF Next
<1>2. CASE UNCHANGED vars
  BY <1>2 DEF vars, OrderInv, TypeOK, OwnFiles, Ordered, OwnBehind
<1> QED BY <1>1, <1>2

\* The files hold sequences of memos, and processes stand where the code has them
\* (save_room_mem, save_mem).
THEOREM TypeCorrect == Spec => []TypeOK
<1>1. OrderInv => TypeOK BY DEF OrderInv
<1> QED BY <1>1, OrderInit, OrderStep, PTL DEF Spec

\* Memos are read back in the order in which their saves began.
THEOREM MemosInOrder == Spec => []InOrder
<1>1. OrderInv => InOrder
  BY DEF OrderInv, Ordered, InOrder, load, Increasing
<1> QED BY <1>1, OrderInit, OrderStep, PTL DEF Spec

-----------------------------------------------------------------------------
(***************************************************************************)
(* The own file of every role implements a rolling log.                    *)
(***************************************************************************)

\* Nobody else has a role's own file open, so that it always parses; until it is
\* opened, the text to come is what it holds and the memo.
OwnLog == \A r \in Roles :
  /\ ~torn[r]
  /\ at[r] = r /\ pc[r] = "read" => /\ text[r] = Rolled(Append(file[r], memo[r]))
                                    /\ Below(file[r], memo[r])
  /\ at[r] = r /\ pc[r] = "open" => file[r] = <<>> /\ ~behind[r]

LogInv == OrderInv /\ OwnLog

\* The log of r as the refinement mapping has it.
LogOf(r) == IF pc[r] = "open" /\ at[r] = r THEN text[r] ELSE load(r)
Log      == [r \in Roles |-> LogOf(r)]
Lost     == [r \in Roles |-> losses[r]]

\* Only a role saves to its own file.
LEMMA OwnFile ==
  ASSUME OrderInv, NEW r \in Roles, NEW q \in Roles, at[r] = q
  PROVE  q = r
BY RoomMemoryOK DEF OrderInv, OwnFiles

\* A rolled text ends in what was added.
LEMMA RolledEnds ==
  ASSUME NEW s \in Seq(Nat), NEW x \in Nat
  PROVE  LET t == Rolled(Append(s, x)) IN t # <<>> /\ t[Len(t)] = x
<1> DEFINE a == Append(s, x)
<1>1. /\ a \in Seq(Nat) /\ Len(a) \in Nat /\ Len(a) > 0 /\ a[Len(a)] = x /\ a # <<>>
      /\ KEEP \in Nat \ {0}
  BY RoomMemoryOK
<1> HIDE DEF a
<1>2. CASE Len(a) <= KEEP
  BY <1>1, <1>2 DEF Rolled, a
<1>3. CASE ~(Len(a) <= KEEP)
  <2> DEFINE m == Len(a) - KEEP + 1
             n == Len(a)
             t == SubSeq(a, m, n)
  <2>1. m \in 1..n /\ n \in Nat BY <1>1, <1>3
  <2>2. \A k \in m..n : a[k] \in Nat BY <1>1, <2>1
  <2>3. /\ t \in Seq(Nat) /\ Len(t) = n - m + 1
        /\ \A k \in 1..(n - m + 1) : t[k] = a[m + k - 1]
    BY <2>1, <2>2
  <2>4. Len(t) = KEEP /\ t[KEEP] = a[n] BY <1>1, <2>1, <2>3
  <2>5. t # <<>> BY <1>1, <2>3, <2>4
  <2>6. Rolled(a) = t BY <1>3 DEF Rolled
  <2> QED BY <1>1, <2>4, <2>5, <2>6 DEF a
<1> QED BY <1>2, <1>3

LEMMA LogInit == Init => OwnLog
BY DEF Init, OwnLog, Files

\* A step at which the role q neither moves nor has its file written.
LEMMA OwnFrame ==
  ASSUME OwnLog, NEW q \in Roles, file'[q] = file[q], torn'[q] = torn[q],
         pc'[q] = pc[q], at'[q] = at[q], memo'[q] = memo[q], text'[q] = text[q],
         at[q] = q /\ pc[q] = "open" /\ ~behind[q] => ~behind'[q]
  PROVE  /\ ~torn'[q]
         /\ at'[q] = q /\ pc'[q] = "read" => /\ text'[q] = Rolled(Append(file'[q], memo'[q]))
                                             /\ Below(file'[q], memo'[q])
         /\ at'[q] = q /\ pc'[q] = "open" => file'[q] = <<>> /\ ~behind'[q]
         /\ LogOf(q)' = LogOf(q)
BY DEF OwnLog, LogOf, load

\* Reading a file changes no log, and a role's own file is read for a memo beyond it.
LEMMA LogRead ==
  ASSUME LogInv, NEW r \in Roles, save_mem(r) \/ \E c \in Rooms : save_room_mem(r, c)
  PROVE  OwnLog' /\ \A q \in Roles : LogOf(q)' = LogOf(q)
<1> USE DEF LogInv
<1>1. /\ UNCHANGED <<file, torn, behind>> /\ pc' = [pc EXCEPT ![r] = "read"]
      /\ pc[r] \in {"idle", "own"}
      /\ \A q \in Roles \ {r} : /\ pc'[q] = pc[q] /\ at'[q] = at[q]
                                /\ memo'[q] = memo[q] /\ text'[q] = text[q]
  BY DEF save_mem, save_room_mem, Read, OrderInv, TypeOK
<1>2. r \in Files /\ ~torn[r] /\ pc'[r] = "read"
  BY <1>1 DEF Files, OwnLog, OrderInv, TypeOK
<1>3. LogOf(r)' = LogOf(r)
  BY <1>1, <1>2 DEF LogOf, load
<1>4. at'[r] = r => /\ text'[r] = Rolled(Append(file'[r], memo'[r]))
                    /\ Below(file'[r], memo'[r])
  <2>1. CASE \E c \in Rooms : save_room_mem(r, c)
    BY <2>1, RoomMemoryOK DEF save_room_mem, Read, OrderInv, TypeOK
  <2>2. CASE save_mem(r)
    <3>1. /\ at[r] \in Rooms /\ text'[r] = Rolled(Append(load(r), memo[r]))
          /\ memo'[r] = memo[r] /\ file' = file
      BY <2>2 DEF save_mem, Read, OrderInv, TypeOK, OwnFiles
    <3> QED BY <1>2, <3>1 DEF OrderInv, OwnBehind, load
  <2> QED BY <2>1, <2>2
<1>5. \A q \in Roles \ {r} : LogOf(q)' = LogOf(q)
  BY <1>1 DEF LogOf, load
<1>6. OwnLog'
  BY <1>1, <1>2, <1>4 DEF OwnLog
<1> QED BY <1>3, <1>5, <1>6

\* Opening its own file is where a role's memo is added; opening a room's is nothing.
LEMMA LogOpen ==
  ASSUME LogInv, NEW r \in Roles, Open(r)
  PROVE  /\ OwnLog' /\ \A q \in Roles \ {r} : LogOf(q)' = LogOf(q)
         /\ IF at[r] = r
            THEN LogOf(r)' = Rolled(Append(LogOf(r), memo[r])) /\ Below(LogOf(r), memo[r])
            ELSE LogOf(r)' = LogOf(r)
<1> USE DEF LogInv
<1>1. /\ UNCHANGED <<at, memo, text>> /\ pc[r] = "read" /\ pc'[r] = "open"
      /\ \A q \in Roles \ {r} : pc'[q] = pc[q]
      /\ \A q \in Roles : behind'[q] => behind[q] /\ q # r
      /\ \A f \in Files : f # at[r] => file'[f] = file[f] /\ torn'[f] = torn[f]
      /\ at[r] \in Files /\ file'[at[r]] = <<>> /\ torn'[at[r]] = FALSE
  BY DEF Open, OrderInv, TypeOK
<1>2. \A q \in Roles : q \in Files /\ (q # r => at[r] # q)
  BY OwnFile DEF Files
<1>3. ASSUME NEW q \in Roles \ {r}
      PROVE  /\ file'[q] = file[q] /\ torn'[q] = torn[q] /\ LogOf(q)' = LogOf(q)
  BY <1>1, <1>2, <1>3 DEF LogOf, load
<1>4. CASE at[r] = r
  <2>1. LogOf(r)' = text[r] /\ LogOf(r) = file[r]
    BY <1>1, <1>4 DEF LogOf, load, OwnLog
  <2>2. text[r] = Rolled(Append(file[r], memo[r])) /\ Below(file[r], memo[r])
    BY <1>1, <1>4 DEF OwnLog
  <2>3. OwnLog'
    BY <1>1, <1>3, <1>4 DEF OwnLog
  <2> QED BY <1>3, <1>4, <2>1, <2>2, <2>3
<1>5. CASE at[r] # r
  <2>1. file'[r] = file[r] /\ torn'[r] = torn[r]
    BY <1>1, <1>2, <1>5
  <2>2. LogOf(r)' = LogOf(r)
    BY <1>1, <1>5, <2>1 DEF LogOf, load
  <2>3. OwnLog'
    BY <1>1, <1>3, <1>5, <2>1 DEF OwnLog
  <2> QED BY <1>3, <1>5, <2>2, <2>3
<1> QED BY <1>4, <1>5

\* Closing a file puts there what the log has held since it was opened.
LEMMA LogClose ==
  ASSUME LogInv, NEW r \in Roles, Close(r)
  PROVE  OwnLog' /\ \A q \in Roles : LogOf(q)' = LogOf(q)
<1> USE DEF LogInv
<1>1. /\ UNCHANGED <<at, memo, text>> /\ pc[r] = "open" /\ pc'[r] \in {"idle", "own"}
      /\ \A q \in Roles \ {r} : pc'[q] = pc[q]
      /\ \A q \in Roles : behind'[q] => behind[q] \/ (q # r /\ at[q] = at[r])
      /\ \A f \in Files : f # at[r] => file'[f] = file[f] /\ torn'[f] = torn[f]
      /\ at[r] \in Files /\ file'[at[r]] = text[r] /\ (torn'[at[r]] => behind[r])
  BY DEF Close, OrderInv, TypeOK
<1>2. \A q \in Roles : q \in Files /\ (q # r => at[r] # q)
  BY OwnFile DEF Files
<1>3. ASSUME NEW q \in Roles \ {r}
      PROVE  file'[q] = file[q] /\ torn'[q] = torn[q] /\ (at[q] = q /\ ~behind[q] => ~behind'[q])
  BY <1>1, <1>2, <1>3
<1>4. ASSUME NEW q \in Roles \ {r} PROVE LogOf(q)' = LogOf(q)
  BY <1>1, <1>3, <1>4 DEF LogOf, load
<1>5. ~torn'[r] /\ LogOf(r)' = LogOf(r)
  <2>1. CASE at[r] = r
    BY <1>1, <2>1 DEF LogOf, load, OwnLog
  <2>2. CASE at[r] # r
    <3>1. file'[r] = file[r] /\ torn'[r] = torn[r]
      BY <1>1, <1>2, <2>2
    <3> QED BY <1>1, <2>2, <3>1 DEF LogOf, load, OwnLog
  <2> QED BY <2>1, <2>2
<1>6. OwnLog'
  BY <1>1, <1>3, <1>5 DEF OwnLog
<1> QED BY <1>4, <1>5, <1>6

\* A death loses a log only between opening and closing its file.
LEMMA LogCrash ==
  ASSUME LogInv, NEW r \in Roles, Crash(r)
  PROVE  /\ OwnLog' /\ \A q \in Roles \ {r} : LogOf(q)' = LogOf(q)
         /\ IF pc[r] = "open" /\ at[r] = r THEN LogOf(r)' = <<>>
                                           ELSE LogOf(r)' = LogOf(r)
<1> USE DEF LogInv
<1>1. /\ UNCHANGED <<file, torn, at, memo, text, behind>> /\ pc'[r] = "idle"
      /\ \A q \in Roles \ {r} : pc'[q] = pc[q]
  BY DEF Crash, OrderInv, TypeOK
<1>2. OwnLog' BY <1>1 DEF OwnLog
<1>3. \A q \in Roles \ {r} : LogOf(q)' = LogOf(q) BY <1>1 DEF LogOf, load
<1>4. LogOf(r)' = load(r) BY <1>1 DEF LogOf, load
<1>5. pc[r] = "open" /\ at[r] = r => load(r) = <<>> BY DEF OwnLog, load
<1> QED BY <1>2, <1>3, <1>4, <1>5 DEF LogOf

LEMMA LogStep == LogInv /\ [Next]_vars => LogInv'
<1> SUFFICES ASSUME LogInv, [Next]_vars PROVE OwnLog'
  BY OrderStep DEF LogInv
<1>1. CASE Next
  BY <1>1, LogRead, LogOpen, LogClose, LogCrash DEF Next
<1>2. CASE UNCHANGED vars
  BY <1>2 DEF vars, LogInv, OwnLog
<1> QED BY <1>1, <1>2

\* The own files start as empty logs ...
LEMMA ImplementsInit == Init => L!Init
BY DEF Init, L!Init, load, Files

\* ... and each step adds a line to one, loses one, or leaves all of them as they are.
LEMMA ImplementsStep ==
  LogInv /\ [Next]_vars => (\E f \in Roles : L!Add(f) \/ L!Lose(f)) \/ UNCHANGED <<Log, Lost>>
<1> SUFFICES ASSUME LogInv, [Next]_vars
             PROVE  (\E f \in Roles : L!Add(f) \/ L!Lose(f)) \/ UNCHANGED <<Log, Lost>>
  OBVIOUS
<1>1. CASE UNCHANGED vars
  BY <1>1 DEF vars, Log, Lost, LogOf, load
<1>2. CASE \E r \in Roles : save_mem(r) \/ \E c \in Rooms : save_room_mem(r, c)
  <2>1. \A q \in Roles : LogOf(q)' = LogOf(q) BY <1>2, LogRead
  <2>2. losses' = losses BY <1>2 DEF save_mem, save_room_mem, Read
  <2> QED BY <2>1, <2>2 DEF Log, Lost
<1>3. CASE \E r \in Roles : Close(r)
  <2>1. \A q \in Roles : LogOf(q)' = LogOf(q) BY <1>3, LogClose
  <2>2. losses' = losses BY <1>3 DEF Close
  <2> QED BY <2>1, <2>2 DEF Log, Lost
<1>4. ASSUME NEW r \in Roles, Open(r)
      PROVE  L!Add(r) \/ UNCHANGED <<Log, Lost>>
  <2>1. /\ \A q \in Roles \ {r} : LogOf(q)' = LogOf(q)
        /\ IF at[r] = r
           THEN LogOf(r)' = Rolled(Append(LogOf(r), memo[r])) /\ Below(LogOf(r), memo[r])
           ELSE LogOf(r)' = LogOf(r)
    BY <1>4, LogOpen
  <2>2. losses' = losses BY <1>4 DEF Open
  <2>3. CASE at[r] # r
    BY <2>1, <2>2, <2>3 DEF Log, Lost
  <2>4. CASE at[r] = r
    <3>1. LogOf(r) \in Seq(Nat) /\ memo[r] \in Nat
      BY DEF LogInv, OrderInv, TypeOK, LogOf, load, Files
    <3>2. /\ LogOf(r)' # <<>> /\ LogOf(r)'[Len(LogOf(r)')] = memo[r]
          /\ LogOf(r)' = Rolled(Append(LogOf(r), memo[r]))
      BY <2>1, <2>4, <3>1, RolledEnds
    <3>3. /\ Log'[r] = LogOf(r)' /\ Log[r] = LogOf(r)
          /\ Log' = [Log EXCEPT ![r] = Rolled(Append(Log[r], memo[r]))]
      BY <2>1, <3>2 DEF Log
    <3>4. \A i \in DOMAIN Log[r] : Log[r][i] < memo[r]
      BY <2>1, <2>4, <3>3 DEF Below
    <3>5. Lost' = Lost BY <2>2 DEF Lost
    <3>6. \A s : L!Rolled(s) = Rolled(s) BY DEF L!Rolled, Rolled
    <3> HIDE DEF LogOf
    <3>7. LET x == Log'[r][Len(Log'[r])] IN
            /\ Log'[r] # <<>> /\ x \in Nat
            /\ \A i \in DOMAIN Log[r] : Log[r][i] < x
            /\ Log' = [Log EXCEPT ![r] = L!Rolled(Append(Log[r], x))]
            /\ UNCHANGED Lost
      BY <3>1, <3>2, <3>3, <3>4, <3>5, <3>6
    <3>8. L!Add(r) BY <3>7 DEF L!Add, Log, LogOf, Lost
    <3> QED BY <3>8
  <2> QED BY <2>3, <2>4
<1>5. ASSUME NEW r \in Roles, Crash(r)
      PROVE  L!Lose(r) \/ UNCHANGED <<Log, Lost>>
  <2>1. /\ \A q \in Roles \ {r} : LogOf(q)' = LogOf(q)
        /\ IF pc[r] = "open" /\ at[r] = r THEN LogOf(r)' = <<>>
                                          ELSE LogOf(r)' = LogOf(r)
    BY <1>5, LogCrash
  <2>2. losses' = IF pc[r] = "open" THEN [losses EXCEPT ![at[r]] = @ + 1] ELSE losses
    BY <1>5 DEF Crash
  <2>3. losses \in [Files -> Nat] /\ Roles \subseteq Files /\ at[r] \in Rooms \cup {r}
    BY DEF LogInv, OrderInv, TypeOK, OwnFiles, Files
  <2>4. CASE pc[r] = "open" /\ at[r] = r
    <3>1. Log' = [Log EXCEPT ![r] = <<>>] BY <2>1, <2>4 DEF Log
    <3>2. Lost' = [Lost EXCEPT ![r] = @ + 1] BY <2>2, <2>3, <2>4 DEF Lost
    <3>3. L!Lose(r) BY <3>1, <3>2 DEF L!Lose, Log, LogOf, Lost
    <3> QED BY <3>3
  <2>5. CASE ~(pc[r] = "open" /\ at[r] = r)
    <3>1. Log' = Log BY <2>1, <2>5 DEF Log
    <3>2. Lost' = Lost BY <2>2, <2>3, <2>5, RoomMemoryOK DEF Lost
    <3> QED BY <3>1, <3>2
  <2> QED BY <2>4, <2>5
<1> QED BY <1>1, <1>2, <1>3, <1>4, <1>5 DEF Next

\* For every set of roles and rooms: the own memory of a role is a rolling log that
\* the overlapping saves of the others cannot touch, and that only a death in the
\* middle of a save can empty (save_mem).
THEOREM OwnMemoryIsALog == Spec => ImplementsLog
<1>1. Init => LogInv BY OrderInit, LogInit DEF LogInv
<1>2. LogInv /\ [Next]_vars =>
        [\E f \in Roles : L!Add(f) \/ L!Lose(f)]_<<[r \in Roles |-> IF pc[r] = "open" /\ at[r] = r
                                                                   THEN text[r] ELSE load(r)],
                                                  [r \in Roles |-> losses[r]]>>
  BY ImplementsStep DEF Log, LogOf, Lost
<1> QED BY <1>1, LogStep, ImplementsInit, <1>2, PTL DEF Spec, ImplementsLog, L!Spec
=============================================================================
