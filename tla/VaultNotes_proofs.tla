-------------------------- MODULE VaultNotes_proofs --------------------------
(***************************************************************************)
(* Proofs about VaultNotes for any tools, memory files, agents, periods    *)
(* and bounds: a line becomes one note and arrives, a roll-up digests what *)
(* it found and forgets nothing, and the map lists digests that exist,     *)
(* whichever tools overlap, fail or are killed.                            *)
(***************************************************************************)
EXTENDS VaultNotes, SequenceTheorems, TLAPS

\* What a migration takes for migrated: lines in notes, and lines in temporary files
\* that killed migrations left.
Arrived == Held \cup OriginsOf({f.note : f \in {x \in temps : x.what = "note"}})

-----------------------------------------------------------------------------
(* The invariant: the vault *)

NotesTyped == /\ memory \in [Sources -> Seq(Line)] /\ notes \in Seq(NoteType)
              /\ today \in 1..LastDay
              /\ nLines \in 0..MaxLines /\ nRuns \in 0..MaxRuns /\ nCrashes \in 0..MaxCrashes

\* A digest links notes of its group and period, and its id names the two.
DigestOK(d) == /\ d.period \in Period /\ d.group \in Groups /\ d.links \subseteq NoteIds
               /\ d.id = _digest_id(d.period, d.group)
               /\ \A j \in d.links : notes[j].group = d.group /\ notes[j].day \in Days(d.period)

DigestsOK == \A d \in digests : DigestOK(d) /\ \A e \in digests : d.id = e.id => d = e

TempsOK == \A f \in temps : /\ f.what \in {"note", "digest", "home"}
                            /\ f.what = "note" => f.note \in NoteType

-----------------------------------------------------------------------------
(* The invariant: the tools *)

TablesOK == /\ pc \in [Tool -> {"idle", "migrate", "collect", "roll", "sync"}]
            /\ DOMAIN out = Tool /\ DOMAIN existing = Tool /\ DOMAIN files = Tool
            /\ DOMAIN lines = Tool /\ DOMAIN got = Tool /\ DOMAIN period = Tool
            /\ DOMAIN base = Tool /\ DOMAIN items = Tool /\ DOMAIN groups = Tool

\* A tool's temporary file is what its code was just writing.
OutOK(p) ==
  \/ out[p] = Nothing
  \/ /\ out[p].what = "note" /\ out[p].note \in NoteType
     /\ pc[p] = "migrate" /\ lines[p] # <<>>
     /\ out[p].note.from = Head(lines[p])
     /\ _dedup_key(Head(lines[p])) \notin existing[p]
  \/ /\ out[p].what = "digest" /\ pc[p] = "roll"
     /\ LET d == out[p].digest IN
          /\ d.period = period[p] /\ d.group \in groups[p]
          /\ d.id = _digest_id(period[p], d.group) /\ d.links = ItemsOf(items[p], d.group)
  \/ /\ out[p].what = "home" /\ pc[p] = "sync" /\ out[p].ids \subseteq DigestIds

ToolOK(p) ==
  /\ OutOK(p)
  /\ pc[p] # "migrate" => existing[p] = {} /\ lines[p] = <<>> /\ got[p] = {}
  /\ lines[p] \in Seq(Origin) /\ files[p] \in 0..Len(Source)
  /\ items[p] \subseteq NoteIds /\ base[p] \in 0..Len(notes) /\ groups[p] \subseteq Groups
  /\ pc[p] \in {"collect", "roll"} => period[p] \in Period

\* A migration that runs alone knows the keys of all lines in notes and of no line that
\* has not arrived; what it has read has arrived or is still to be taken.
Known(p) ==
  pc[p] = "migrate" /\ "migrate" \notin twice =>
    /\ \A o \in Held : _dedup_key(o) \in existing[p]
    /\ \A k \in existing[p] : \E o \in Arrived : _dedup_key(o) = k
    /\ \A o \in got[p] : o \in Arrived \/ \E k \in DOMAIN lines[p] : lines[p][k] = o

\* A roll-up has collected the notes of the period that were there when it began.
Collected(p) ==
  pc[p] = "roll" =>
    /\ \A i \in items[p] : _in_period(notes[i], period[p])
    /\ \A i \in 1 .. base[p] : _in_period(notes[i], period[p]) => i \in items[p]

\* While a roll-up runs alone, digests that link newer notes are its own, and the groups
\* it has done have what it collected of them.
Rolling(p) ==
  pc[p] \in {"collect", "roll"} /\ "collect" \notin twice =>
    /\ \A e \in digests : \/ e.links \subseteq 1 .. base[p]
                          \/ pc[p] = "roll" /\ e.period = period[p] /\ e.group \notin groups[p]
    /\ pc[p] = "roll" =>
         \A i \in 1 .. base[p] : _in_period(notes[i], period[p]) =>
           \/ notes[i].group \in groups[p]
           \/ \E d \in digests : d.period = period[p] /\ d.group = notes[i].group /\ i \in d.links

Solo == /\ "migrate" \notin twice =>
             \A p, q \in Tool : pc[p] = "migrate" /\ pc[q] = "migrate" => p = q
        /\ "collect" \notin twice =>
             \A p, q \in Tool : pc[p] \in {"collect", "roll"} /\ pc[q] \in {"collect", "roll"} => p = q

ToolInv(p) == ToolOK(p) /\ Known(p) /\ Collected(p) /\ Rolling(p)

IInv == /\ NotesTyped /\ DigestsOK /\ TempsOK /\ MapLinksExist /\ TablesOK /\ Solo
        /\ MigratedOnce /\ \A p \in Tool : ToolInv(p)

-----------------------------------------------------------------------------
(* Frames *)

Local(p) == <<pc[p], out[p], existing[p], files[p], lines[p], got[p], period[p], base[p],
              items[p], groups[p]>>

\* Notes are only ever added.
NotesGrow == Len(notes) <= Len(notes') /\ \A i \in NoteIds : notes'[i] = notes[i]

LEMMA AppendNote ==
  ASSUME NotesTyped, NEW n \in NoteType, notes' = Append(notes, n)
  PROVE  /\ notes' \in Seq(NoteType) /\ NotesGrow
         /\ Len(notes') = Len(notes) + 1 /\ notes'[Len(notes')] = n
         /\ NoteIds \subseteq NoteIds' /\ NoteIds' = NoteIds \cup {Len(notes')}
BY DEF NotesTyped, NotesGrow, NoteIds

\* What a tool holds stays right when it does not move and the vault grows.
LEMMA ToolFrame ==
  ASSUME NotesTyped, NotesTyped', NotesGrow, DigestIds \subseteq DigestIds',
         NEW p \in Tool, ToolOK(p), UNCHANGED Local(p)
  PROVE  ToolOK(p)'
<1>1. /\ \A i \in items[p] : i \in NoteIds /\ i \in NoteIds' /\ notes'[i] = notes[i]
      /\ NoteIds \subseteq NoteIds' /\ Len(notes) \in Nat /\ Len(notes') \in Nat
      /\ Len(notes) <= Len(notes')
  BY DEF NotesTyped, NotesGrow, NoteIds, ToolOK
<1>2. \A g : ItemsOf(items[p], g)' = ItemsOf(items[p], g)
  BY <1>1 DEF ItemsOf, Local
<1>3. OutOK(p)'
  <2>1. CASE out[p] = Nothing BY <2>1 DEF OutOK, Local, Nothing
  <2>2. CASE out[p].what = "note"
    BY <2>2 DEF ToolOK, OutOK, Local, NoteType, _dedup_key, Nothing
  <2>3. CASE out[p].what = "digest"
    <3> DEFINE d == out[p].digest
    <3>1. /\ d.period = period[p] /\ d.group \in groups[p] /\ pc[p] = "roll"
          /\ d.id = _digest_id(period[p], d.group) /\ d.links = ItemsOf(items[p], d.group)
      BY <2>3 DEF ToolOK, OutOK, Nothing
    <3>2. ItemsOf(items[p], d.group)' = ItemsOf(items[p], d.group) /\ d' = d
      BY <1>2 DEF Local, ItemsOf
    <3> QED BY <2>3, <3>1, <3>2 DEF OutOK, Local, _digest_id, ItemsOf
  <2>4. CASE out[p].what = "home"
    BY <2>4 DEF ToolOK, OutOK, Local, Nothing
  <2> QED BY <2>1, <2>2, <2>3, <2>4 DEF ToolOK, OutOK
<1>4. base'[p] \in 0..Len(notes')
  BY <1>1 DEF ToolOK, Local
<1> QED BY <1>1, <1>3, <1>4 DEF ToolOK, Local

LEMMA KnownFrame ==
  ASSUME NEW p \in Tool, Known(p), UNCHANGED Local(p), UNCHANGED notes,
         temps \subseteq temps', twice \subseteq twice'
  PROVE  Known(p)'
<1>1. Held' = Held /\ Arrived \subseteq Arrived'
  BY DEF Held, OriginsOf, NoteIds, Arrived, NoOrigin
<1> QED BY <1>1 DEF Known, Local, _dedup_key

LEMMA CollectedFrame ==
  ASSUME NotesTyped, NotesGrow, NEW p \in Tool, ToolOK(p), Collected(p), UNCHANGED Local(p)
  PROVE  Collected(p)'
<1>1. /\ \A i \in items[p] : notes'[i] = notes[i]
      /\ \A i \in 1 .. base[p] : notes'[i] = notes[i]
  BY DEF NotesTyped, NotesGrow, NoteIds, ToolOK
<1> QED BY <1>1 DEF Collected, Local, _in_period, Days

LEMMA RollingFrame ==
  ASSUME NotesTyped, NotesGrow, NEW p \in Tool, ToolOK(p), Rolling(p), UNCHANGED Local(p),
         UNCHANGED digests, twice \subseteq twice'
  PROVE  Rolling(p)'
<1>1. \A i \in 1 .. base[p] : notes'[i] = notes[i]
  BY DEF NotesTyped, NotesGrow, NoteIds, ToolOK
<1> QED BY <1>1 DEF Rolling, Local, _in_period, Days

\* The digests stay right when notes are added and no digest changes.
LEMMA DigestsFrame ==
  ASSUME NotesTyped, NotesGrow, NoteIds \subseteq NoteIds', DigestsOK, UNCHANGED digests
  PROVE  DigestsOK' /\ DigestIds' = DigestIds
<1>1. ASSUME NEW d \in digests PROVE DigestOK(d)'
  <2>1. DigestOK(d) BY DEF DigestsOK
  <2>2. \A j \in d.links : j \in NoteIds' /\ notes'[j] = notes[j]
    BY <2>1 DEF DigestOK, NotesGrow
  <2> QED BY <2>1, <2>2 DEF DigestOK, _digest_id, Days
<1> QED BY <1>1 DEF DigestsOK, DigestIds

\* One tool moves without adding a note or a digest: what is left to show is that it
\* moves well, and that temporary files and the map are well written.
LEMMA ToolMoves ==
  ASSUME IInv, NEW p \in Tool, \A q \in Tool \ {p} : UNCHANGED Local(q),
         UNCHANGED <<notes, digests>>, temps \subseteq temps', twice \subseteq twice',
         NotesTyped', TempsOK', MapLinksExist', TablesOK', Solo', ToolInv(p)'
  PROVE  IInv'
<1> USE DEF IInv
<1>1. NotesGrow /\ NoteIds' = NoteIds BY DEF NotesGrow, NotesTyped, NoteIds
<1>2. DigestsOK' /\ DigestIds' = DigestIds BY <1>1, DigestsFrame
<1>3. MigratedOnce' BY DEF MigratedOnce, NoteIds, NoOrigin
<1>4. ASSUME NEW q \in Tool \ {p} PROVE ToolInv(q)'
  <2>1. ToolInv(q) /\ UNCHANGED Local(q) OBVIOUS
  <2>2. ToolOK(q)' BY <1>1, <1>2, <2>1, ToolFrame DEF ToolInv
  <2>3. Known(q)' BY <2>1, KnownFrame DEF ToolInv
  <2>4. Collected(q)' BY <1>1, <2>1, CollectedFrame DEF ToolInv
  <2>5. Rolling(q)' BY <1>1, <2>1, RollingFrame DEF ToolInv
  <2> QED BY <2>2, <2>3, <2>4, <2>5 DEF ToolInv
<1> QED BY <1>2, <1>3, <1>4

\* A tool that stops is ready for the next run.
LEMMA StopOK ==
  ASSUME IInv, NEW p \in Tool, Stop(p), UNCHANGED notes, UNCHANGED twice
  PROVE  TablesOK' /\ Solo' /\ ToolInv(p)' /\ \A q \in Tool \ {p} : UNCHANGED Local(q)
<1> USE DEF IInv
<1>1. TablesOK' /\ \A q \in Tool \ {p} : UNCHANGED Local(q)
  BY DEF Stop, TablesOK, Local
<1>2. /\ pc'[p] = "idle" /\ out'[p] = Nothing /\ existing'[p] = {} /\ files'[p] = 0
      /\ lines'[p] = <<>> /\ got'[p] = {} /\ base'[p] = 0 /\ items'[p] = {} /\ groups'[p] = {}
      /\ \A q \in Tool : pc'[q] = pc[q] \/ pc'[q] = "idle"
  BY DEF Stop, TablesOK
<1>3. Solo' BY <1>2 DEF Solo
<1>4. 0 \in 0..Len(Source) /\ 0 \in 0..Len(notes') /\ <<>> \in Seq(Origin)
  BY NotesOK DEF NotesTyped
<1>5. ToolOK(p)' BY <1>2, <1>4 DEF ToolOK, OutOK, Nothing
<1>6. Known(p)' /\ Collected(p)' /\ Rolling(p)' BY <1>2 DEF Known, Collected, Rolling
<1> QED BY <1>1, <1>3, <1>5, <1>6 DEF ToolInv

\* The tools that give up, are killed, or come to their end.
LEMMA StopStep ==
  ASSUME IInv, NEW p \in Tool,
         Fail(p) \/ Crash(p) \/ MigrateEnd(p) \/ RollEnd(p) \/ MapAppears(p)
  PROVE  IInv'
<1> USE DEF IInv
<1>1. /\ Stop(p) /\ UNCHANGED <<notes, digests, worldVars, twice, nRuns>>
      /\ temps \subseteq temps' /\ (temps' = temps \/ temps' = temps \cup ({out[p]} \ {Nothing}))
      /\ (home' = home \/ (out[p].what = "home" /\ home' = out[p].ids))
      /\ nCrashes' \in 0..MaxCrashes
  <2>1. CASE Crash(p)
    BY <2>1, NotesOK DEF Crash, NotesTyped, worldVars
  <2>2. CASE Fail(p) \/ MigrateEnd(p) \/ RollEnd(p) \/ MapAppears(p)
    BY <2>2 DEF Fail, MigrateEnd, RollEnd, MapAppears, vaultVars, NotesTyped
  <2> QED BY <2>1, <2>2
<1>2. TablesOK' /\ Solo' /\ ToolInv(p)' /\ \A q \in Tool \ {p} : UNCHANGED Local(q)
  BY <1>1, StopOK
<1>3. NotesTyped' BY <1>1 DEF NotesTyped, worldVars
<1>4. OutOK(p) BY DEF ToolInv, ToolOK
<1>5. TempsOK' BY <1>1, <1>4 DEF TempsOK, OutOK
<1>6. MapLinksExist'
  <2>1. DigestIds' = DigestIds BY <1>1 DEF DigestIds
  <2>2. out[p].what = "home" => out[p].ids \subseteq DigestIds
    BY <1>4 DEF OutOK, Nothing
  <2> QED BY <1>1, <2>1, <2>2 DEF MapLinksExist
<1> QED BY <1>1, <1>2, <1>3, <1>5, <1>6, ToolMoves

-----------------------------------------------------------------------------
(* Tools that begin *)

\* Beginning a tool of a kind that runs already is noticed.
LEMMA StartOK ==
  ASSUME IInv, NEW p \in Tool,
         \/ Start(p, "migrate", {"migrate"}) \/ Start(p, "collect", {"collect", "roll"})
         \/ Start(p, "sync", {"sync"})
  PROVE  /\ Solo' /\ twice \subseteq twice' /\ pc[p] = "idle" /\ nRuns' \in 0..MaxRuns
         /\ pc' \in [Tool -> {"idle", "migrate", "collect", "roll", "sync"}]
         /\ \A q \in Tool \ {p} : pc'[q] = pc[q]
<1> USE DEF IInv, Start, Solo, TablesOK
<1>1. nRuns' \in 0..MaxRuns BY NotesOK DEF NotesTyped
<1>2. CASE Start(p, "migrate", {"migrate"})
  <2>1. pc'[p] = "migrate" /\ \A q \in Tool \ {p} : pc'[q] = pc[q] BY <1>2
  <2>2. (\E q \in Tool \ {p} : pc[q] = "migrate") => "migrate" \in twice' BY <1>2
  <2> QED BY <1>1, <1>2, <2>1, <2>2
<1>3. CASE Start(p, "collect", {"collect", "roll"})
  <2>1. pc'[p] = "collect" /\ \A q \in Tool \ {p} : pc'[q] = pc[q] BY <1>3
  <2>2. (\E q \in Tool \ {p} : pc[q] \in {"collect", "roll"}) => "collect" \in twice' BY <1>3
  <2> QED BY <1>1, <1>3, <2>1, <2>2
<1>4. CASE Start(p, "sync", {"sync"})
  <2>1. pc'[p] = "sync" /\ \A q \in Tool \ {p} : pc'[q] = pc[q] BY <1>4
  <2> QED BY <1>1, <1>4, <2>1
<1> QED BY <1>2, <1>3, <1>4

\* An idle tool has written nothing.
LEMMA IdleTool ==
  ASSUME NEW p \in Tool, ToolOK(p), pc[p] = "idle"
  PROVE  out[p] = Nothing /\ existing[p] = {} /\ lines[p] = <<>> /\ got[p] = {}
BY DEF ToolOK, OutOK

\* A migration that begins alone knows the keys of what has arrived.
LEMMA MigrateBeginStep == ASSUME IInv, NEW p \in Tool, MigrateBegin(p) PROVE IInv'
<1> USE DEF IInv
<1>1. /\ Start(p, "migrate", {"migrate"})
      /\ UNCHANGED <<notes, digests, home, temps, memory, today, nLines, out, got, period, base,
                     items, groups, nCrashes>>
  BY DEF MigrateBegin, vaultVars, worldVars, rollVars
<1>2. /\ Solo' /\ twice \subseteq twice' /\ pc[p] = "idle" /\ nRuns' \in 0..MaxRuns
      /\ pc' \in [Tool -> {"idle", "migrate", "collect", "roll", "sync"}]
      /\ \A q \in Tool \ {p} : pc'[q] = pc[q]
  BY <1>1, StartOK
<1>3. out[p] = Nothing /\ lines[p] = <<>> /\ got[p] = {}
  BY <1>2, IdleTool DEF ToolInv
<1>4. /\ pc'[p] = "migrate" /\ existing'[p] = _existing_keys /\ files'[p] = 0 /\ lines'[p] = <<>>
      /\ TablesOK' /\ \A q \in Tool \ {p} : UNCHANGED Local(q)
  <2>1. pc'[p] = "migrate" BY <1>1 DEF Start, TablesOK
  <2> QED BY <1>1, <1>2, <2>1 DEF MigrateBegin, TablesOK, Local
<1>5. ToolOK(p)'
  <2>1. /\ ToolOK(p) /\ 0 \in 0..Len(Source) /\ <<>> \in Seq(Origin) /\ NoteIds' = NoteIds
    BY <1>1, NotesOK DEF ToolInv, NoteIds
  <2> QED BY <1>1, <1>3, <1>4, <2>1 DEF ToolOK, OutOK, Nothing
<1>6. Known(p)'
  <2> SUFFICES ASSUME "migrate" \notin twice'
               PROVE  /\ \A o \in Held' : _dedup_key(o) \in existing'[p]
                      /\ \A k \in existing'[p] : \E o \in Arrived' : _dedup_key(o) = k
                      /\ \A o \in got'[p] : o \in Arrived'
    BY DEF Known, _dedup_key
  <2>1. Held' = Held /\ Arrived' = Arrived /\ got'[p] = {}
    BY <1>1, <1>3 DEF Held, Arrived, OriginsOf, NoteIds, NoOrigin
  <2>2. \A q \in Tool : out[q].what # "note"
    <3>1. ASSUME NEW q \in Tool, out[q].what = "note" PROVE pc[q] = "migrate"
      BY <3>1 DEF ToolInv, ToolOK, OutOK, Nothing
    <3>2. \A q \in Tool \ {p} : pc[q] # "migrate"
      BY <1>1 DEF Start
    <3> QED BY <1>2, <3>1, <3>2
  <2>3. Put("note") = {x \in temps : x.what = "note"}
    BY <2>2 DEF Put
  <2>4. existing'[p] = {_dedup_key(o) : o \in Arrived}
    BY <1>4, <2>3 DEF _existing_keys, Arrived
  <2> QED BY <2>1, <2>4 DEF Arrived
<1>7. Collected(p)' /\ Rolling(p)' BY <1>4 DEF Collected, Rolling
<1>8. NotesTyped' BY <1>1, <1>2 DEF NotesTyped
<1>9. TempsOK' /\ MapLinksExist' BY <1>1 DEF TempsOK, MapLinksExist, DigestIds
<1> QED BY <1>1, <1>2, <1>4, <1>5, <1>6, <1>7, <1>8, <1>9, ToolMoves DEF ToolInv

\* A roll-up that begins alone finds no digest with notes yet to come.
LEMMA RollBeginStep ==
  ASSUME IInv, NEW p \in Tool, NEW per \in Period, RollBegin(p, per) PROVE IInv'
<1> USE DEF IInv
<1>1. /\ Start(p, "collect", {"collect", "roll"})
      /\ UNCHANGED <<notes, digests, home, temps, memory, today, nLines, out, existing, files,
                     lines, got, items, groups, nCrashes>>
  BY DEF RollBegin, vaultVars, worldVars, migrateVars
<1>2. /\ Solo' /\ twice \subseteq twice' /\ pc[p] = "idle" /\ nRuns' \in 0..MaxRuns
      /\ pc' \in [Tool -> {"idle", "migrate", "collect", "roll", "sync"}]
      /\ \A q \in Tool \ {p} : pc'[q] = pc[q]
  BY <1>1, StartOK
<1>3. out[p] = Nothing /\ existing[p] = {} /\ lines[p] = <<>> /\ got[p] = {}
  BY <1>2, IdleTool DEF ToolInv
<1>4. /\ pc'[p] = "collect" /\ period'[p] = per /\ base'[p] = Len(notes)
      /\ TablesOK' /\ \A q \in Tool \ {p} : UNCHANGED Local(q)
  <2>1. pc'[p] = "collect" BY <1>1 DEF Start, TablesOK
  <2> QED BY <1>1, <1>2, <2>1 DEF RollBegin, TablesOK, Local
<1>5. ToolOK(p)'
  <2>1. /\ ToolOK(p) /\ NoteIds' = NoteIds /\ Len(notes) \in Nat
    BY <1>1 DEF ToolInv, NoteIds, NotesTyped
  <2> QED BY <1>1, <1>3, <1>4, <2>1 DEF ToolOK, OutOK, Nothing
<1>6. Rolling(p)'
  <2>1. \A e \in digests : e.links \subseteq 1 .. Len(notes)
    BY DEF DigestsOK, DigestOK, NoteIds, NotesTyped
  <2> QED BY <1>1, <1>4, <2>1 DEF Rolling
<1>7. Collected(p)' /\ Known(p)' BY <1>4 DEF Collected, Known
<1>8. NotesTyped' BY <1>1, <1>2 DEF NotesTyped
<1>9. TempsOK' /\ MapLinksExist' BY <1>1 DEF TempsOK, MapLinksExist, DigestIds
<1> QED BY <1>1, <1>2, <1>4, <1>5, <1>6, <1>7, <1>8, <1>9, ToolMoves DEF ToolInv

\* The map is made of digests that are there.
LEMMA MapStep == ASSUME IInv, NEW p \in Tool, write_moc(p) PROVE IInv'
<1> USE DEF IInv
<1>1. /\ Start(p, "sync", {"sync"})
      /\ UNCHANGED <<notes, digests, home, temps, memory, today, nLines, existing, files, lines,
                     got, period, base, items, groups, nCrashes>>
  BY DEF write_moc, vaultVars, worldVars, migrateVars, rollVars
<1>2. /\ Solo' /\ twice \subseteq twice' /\ pc[p] = "idle" /\ nRuns' \in 0..MaxRuns
      /\ pc' \in [Tool -> {"idle", "migrate", "collect", "roll", "sync"}]
      /\ \A q \in Tool \ {p} : pc'[q] = pc[q]
  BY <1>1, StartOK
<1>3. existing[p] = {} /\ lines[p] = <<>> /\ got[p] = {}
  BY <1>2, IdleTool DEF ToolInv
<1>4. PICK ids \in _recent_digests : out' = [out EXCEPT ![p] = HomePut(ids)]
  BY DEF write_moc
<1>5. ids \subseteq DigestIds
  BY DEF _recent_digests, Latest, DigestIds
<1>6. /\ pc'[p] = "sync" /\ out'[p] = HomePut(ids)
      /\ TablesOK' /\ \A q \in Tool \ {p} : UNCHANGED Local(q)
  <2>1. pc'[p] = "sync" BY <1>1 DEF Start, TablesOK
  <2> QED BY <1>1, <1>2, <1>4, <2>1 DEF TablesOK, Local
<1>7. ToolOK(p)'
  <2>1. ToolOK(p) /\ NoteIds' = NoteIds /\ DigestIds' = DigestIds
    BY <1>1 DEF ToolInv, NoteIds, DigestIds
  <2>2. out'[p].what = "home" /\ out'[p].ids = ids BY <1>6 DEF HomePut
  <2>3. OutOK(p)' BY <1>5, <1>6, <2>1, <2>2 DEF OutOK
  <2> QED BY <1>1, <1>3, <1>6, <2>1, <2>3 DEF ToolOK
<1>8. Known(p)' /\ Collected(p)' /\ Rolling(p)' BY <1>6 DEF Known, Collected, Rolling
<1>9. NotesTyped' BY <1>1, <1>2 DEF NotesTyped
<1>10. TempsOK' /\ MapLinksExist' BY <1>1 DEF TempsOK, MapLinksExist, DigestIds
<1> QED BY <1>1, <1>2, <1>6, <1>7, <1>8, <1>9, <1>10, ToolMoves DEF ToolInv

-----------------------------------------------------------------------------
(* Migrations at work *)

\* A memory file says whose it is.
LEMMA SourceType ==
  ASSUME NEW i \in Sources
  PROVE  Source[i].type \in {"report", "feedback"} /\ Source[i].group \in Groups
<1> DEFINE R == [role: STRING, type: {"report", "feedback"}, group: [team: STRING, role: STRING]]
<1>1. Source \in Seq(R) BY NotesOK
<1>2. Source[i] \in R
  <2> HIDE DEF R
  <2> QED BY <1>1 DEF Sources
<1> QED BY <1>2 DEF Groups

\* A line per entry of a memory file makes a sequence of lines.
LEMMA LinesOf ==
  ASSUME NEW i \in Sources, NEW text \in Seq(Line)
  PROVE  [k \in DOMAIN text |-> <<i, text[k]>>] \in Seq(Origin)
<1>1. Len(text) \in Nat /\ DOMAIN text = 1..Len(text) /\ \A k \in DOMAIN text : text[k] \in Line
  OBVIOUS
<1>2. [k \in 1..Len(text) |-> <<i, text[k]>>] \in [1..Len(text) -> Origin]
  BY <1>1 DEF Origin
<1> QED BY <1>1, <1>2, SeqDef

LEMMA OpenMemoryStep == ASSUME IInv, NEW p \in Tool, OpenMemory(p) PROVE IInv'
<1> USE DEF IInv
<1> DEFINE i == files[p] + 1
<1>1. /\ pc[p] = "migrate" /\ lines[p] = <<>> /\ files[p] < Len(Source)
      /\ UNCHANGED <<notes, digests, home, temps, memory, today, nLines, pc, out, existing,
                     period, base, items, groups, twice, nRuns, nCrashes>>
  BY DEF OpenMemory, vaultVars, worldVars, rollVars
<1>2. PICK text \in {memory[i], <<>>} :
        /\ lines' = [lines EXCEPT ![p] = [k \in DOMAIN text |-> <<i, text[k]>>]]
        /\ got' = [got EXCEPT ![p] = @ \cup {<<i, text[k]>> : k \in DOMAIN text}]
        /\ files' = [files EXCEPT ![p] = i]
  BY DEF OpenMemory
<1>3. ToolOK(p) /\ Known(p) BY DEF ToolInv
<1>4. i \in Sources /\ i \in 0..Len(Source)
  BY <1>1, <1>3, NotesOK DEF ToolOK, Sources
<1>5. text \in Seq(Line)
  <2>1. memory[i] \in Seq(Line) /\ <<>> \in Seq(Line)
    <3> HIDE DEF i
    <3> QED BY <1>4 DEF NotesTyped
  <2> QED BY <2>1
<1>6. /\ lines'[p] = [k \in DOMAIN text |-> <<i, text[k]>>] /\ files'[p] = i
      /\ got'[p] = got[p] \cup {<<i, text[k]>> : k \in DOMAIN text}
      /\ TablesOK' /\ \A q \in Tool \ {p} : UNCHANGED Local(q)
  BY <1>1, <1>2 DEF TablesOK, Local
<1>7. lines'[p] \in Seq(Origin) BY <1>4, <1>5, <1>6, LinesOf
<1> HIDE DEF i
<1>8. out[p] = Nothing
  BY <1>1, <1>3 DEF ToolOK, OutOK
<1>9. ToolOK(p)'
  BY <1>1, <1>3, <1>4, <1>6, <1>7, <1>8 DEF ToolOK, OutOK, NoteIds, Nothing
<1>10. Known(p)'
  <2>1. Held' = Held /\ Arrived' = Arrived
    BY <1>1 DEF Held, Arrived, OriginsOf, NoteIds, NoOrigin
  <2>2. \A o \in got'[p] : o \in got[p] \/ \E k \in DOMAIN lines'[p] : lines'[p][k] = o
    BY <1>6
  <2> QED BY <1>1, <1>3, <2>1, <2>2 DEF Known, _dedup_key
<1>11. Collected(p)' /\ Rolling(p)' BY <1>1 DEF Collected, Rolling
<1>12. NotesTyped' /\ TempsOK' /\ MapLinksExist' /\ Solo'
  BY <1>1 DEF NotesTyped, TempsOK, MapLinksExist, DigestIds, Solo
<1> QED BY <1>1, <1>6, <1>9, <1>10, <1>11, <1>12, ToolMoves DEF ToolInv

\* The lines to be taken are the first and the others.
LEMMA HeadTail ==
  ASSUME NEW s \in Seq(Origin), s # <<>>
  PROVE  /\ Head(s) \in Origin /\ Tail(s) \in Seq(Origin)
         /\ \A k \in DOMAIN s : s[k] = Head(s) \/ \E j \in DOMAIN Tail(s) : Tail(s)[j] = s[k]
<1>1. Head(s) = s[1] /\ Head(s) \in Origin /\ Tail(s) \in Seq(Origin) /\ Len(Tail(s)) = Len(s) - 1
  OBVIOUS
<1>2. ASSUME NEW k \in DOMAIN s, k # 1 PROVE \E j \in DOMAIN Tail(s) : Tail(s)[j] = s[k]
  <2>1. k - 1 \in DOMAIN Tail(s) /\ Tail(s)[k - 1] = s[k] BY <1>1, <1>2
  <2> QED BY <2>1
<1> QED BY <1>1, <1>2

\* The key names the memory file and the line.
LEMMA KeyInjective ==
  ASSUME NEW o \in Origin, NEW q \in Origin, _dedup_key(o) = _dedup_key(q)
  PROVE  o = q
<1>1. PICK i \in Sources, l \in Line : o = <<i, l>> BY DEF Origin
<1>2. PICK j \in Sources, m \in Line : q = <<j, m>> BY DEF Origin
<1>3. Source[i].role = Source[j].role /\ Source[i].type = Source[j].type /\ l = m
  BY <1>1, <1>2 DEF _dedup_key
<1> QED BY <1>1, <1>2, <1>3, KeysOK

\* What has arrived are lines of memory files.
LEMMA ArrivedType == ASSUME IInv PROVE Held \subseteq Origin /\ Arrived \subseteq Origin
<1>1. \A n \in NoteType : n.from # NoOrigin => n.from \in Origin
  BY DEF NoteType
<1>2. \A i \in NoteIds : notes[i] \in NoteType
  BY DEF IInv, NotesTyped, NoteIds
<1>3. \A f \in temps : f.what = "note" => f.note \in NoteType
  BY DEF IInv, TempsOK
<1>4. Held \subseteq Origin
  BY <1>1, <1>2 DEF Held, OriginsOf
<1> QED BY <1>1, <1>3, <1>4 DEF Arrived, OriginsOf

LEMMA SkipLineStep == ASSUME IInv, NEW p \in Tool, SkipLine(p) PROVE IInv'
<1> USE DEF IInv
<1>1. /\ lines[p] # <<>> /\ _dedup_key(Head(lines[p])) \in existing[p]
      /\ lines' = [lines EXCEPT ![p] = Tail(@)]
      /\ UNCHANGED <<notes, digests, home, temps, memory, today, nLines, pc, out, existing, files,
                     got, period, base, items, groups, twice, nRuns, nCrashes>>
  BY DEF SkipLine, vaultVars, worldVars, rollVars
<1>2. ToolOK(p) /\ Known(p) BY DEF ToolInv
<1>3. pc[p] = "migrate" /\ out[p] = Nothing
  BY <1>1, <1>2 DEF ToolOK, OutOK
<1>4. /\ lines'[p] = Tail(lines[p]) /\ TablesOK' /\ \A q \in Tool \ {p} : UNCHANGED Local(q)
  BY <1>1 DEF TablesOK, Local
<1>5. lines[p] \in Seq(Origin) BY <1>2 DEF ToolOK
<1>6. /\ Head(lines[p]) \in Origin /\ lines'[p] \in Seq(Origin)
      /\ \A k \in DOMAIN lines[p] : \/ lines[p][k] = Head(lines[p])
                                    \/ \E j \in DOMAIN lines'[p] : lines'[p][j] = lines[p][k]
  BY <1>1, <1>4, <1>5, HeadTail
<1>7. ToolOK(p)'
  BY <1>1, <1>2, <1>3, <1>6 DEF ToolOK, OutOK, NoteIds, Nothing
<1>8. Known(p)'
  <2>1. Held' = Held /\ Arrived' = Arrived
    BY <1>1 DEF Held, Arrived, OriginsOf, NoteIds, NoOrigin
  <2>2. ASSUME "migrate" \notin twice PROVE Head(lines[p]) \in Arrived
    <3>1. PICK o \in Arrived : _dedup_key(o) = _dedup_key(Head(lines[p]))
      BY <1>1, <1>2, <1>3, <2>2 DEF Known
    <3> QED BY <1>6, <3>1, ArrivedType, KeyInjective
  <2> QED BY <1>1, <1>2, <1>3, <1>6, <2>1, <2>2 DEF Known, _dedup_key
<1>9. Collected(p)' /\ Rolling(p)' BY <1>1, <1>3 DEF Collected, Rolling
<1>10. NotesTyped' /\ TempsOK' /\ MapLinksExist' /\ Solo'
  BY <1>1 DEF NotesTyped, TempsOK, MapLinksExist, DigestIds, Solo
<1> QED BY <1>1, <1>4, <1>7, <1>8, <1>9, <1>10, ToolMoves DEF ToolInv

LEMMA WriteMigratedStep == ASSUME IInv, NEW p \in Tool, _write_migrated(p) PROVE IInv'
<1> USE DEF IInv
<1> DEFINE o == Head(lines[p])
           n == [type |-> Source[o[1]].type, group |-> Source[o[1]].group, day |-> today, from |-> o]
<1>1. /\ lines[p] # <<>> /\ out[p] = Nothing /\ _dedup_key(o) \notin existing[p]
      /\ out' = [out EXCEPT ![p] = NotePut(n)]
      /\ UNCHANGED <<notes, digests, home, temps, memory, today, nLines, pc, existing, files, lines,
                     got, period, base, items, groups, twice, nRuns, nCrashes>>
  BY DEF _write_migrated, vaultVars, worldVars, migrateVars, rollVars
<1>2. ToolOK(p) /\ Known(p) BY DEF ToolInv
<1>3. pc[p] = "migrate" /\ lines[p] \in Seq(Origin) BY <1>1, <1>2 DEF ToolOK
<1>4. o \in Origin BY <1>1, <1>3, HeadTail
<1>5. n \in NoteType
  <2>1. PICK i \in Sources, l \in Line : o = <<i, l>> BY <1>4 DEF Origin
  <2>2. Source[i].type \in {"report", "feedback"} /\ Source[i].group \in Groups
    BY SourceType
  <2> QED BY <1>4, <2>1, <2>2 DEF NoteType, NotesTyped
<1>6. n.from = o OBVIOUS
<1> HIDE DEF n, o
<1>7. /\ out'[p].what = "note" /\ out'[p].note = n
      /\ TablesOK' /\ \A q \in Tool \ {p} : UNCHANGED Local(q)
  BY <1>1 DEF TablesOK, Local, NotePut
<1>8. ToolOK(p)'
  <2>1. OutOK(p)' BY <1>1, <1>3, <1>5, <1>6, <1>7 DEF OutOK, o, _dedup_key, NoteType
  <2> QED BY <1>1, <1>2, <2>1 DEF ToolOK, NoteIds
<1>9. Known(p)'
  <2>1. Held' = Held /\ Arrived' = Arrived
    BY <1>1 DEF Held, Arrived, OriginsOf, NoteIds, NoOrigin
  <2> QED BY <1>1, <1>2, <2>1 DEF Known, _dedup_key
<1>10. Collected(p)' /\ Rolling(p)' BY <1>1, <1>3 DEF Collected, Rolling
<1>11. NotesTyped' /\ TempsOK' /\ MapLinksExist' /\ Solo'
  BY <1>1 DEF NotesTyped, TempsOK, MapLinksExist, DigestIds, Solo
<1> QED BY <1>1, <1>7, <1>8, <1>9, <1>10, <1>11, ToolMoves DEF ToolInv

-----------------------------------------------------------------------------
(* Notes appear *)

\* A note of an agent changes nothing of what has arrived.
LEMMA PersistStep ==
  ASSUME IInv, NEW g \in Group, NEW t \in {"report", "feedback"}, Persist(g, t) PROVE IInv'
<1> USE DEF IInv
<1> DEFINE n == [type |-> t, group |-> g, day |-> today, from |-> NoOrigin]
<1>1. /\ notes' = Append(notes, n)
      /\ UNCHANGED <<digests, home, temps, memory, today, nLines, pc, out, existing, files, lines,
                     got, period, base, items, groups, twice, nRuns, nCrashes>>
  BY DEF Persist, worldVars, migrateVars, rollVars
<1>2. n \in NoteType BY DEF NoteType, Groups, NotesTyped
<1>3. n.from = NoOrigin OBVIOUS
<1> HIDE DEF n
<1>4. /\ notes' \in Seq(NoteType) /\ NotesGrow
      /\ Len(notes') = Len(notes) + 1 /\ notes'[Len(notes')] = n
      /\ NoteIds \subseteq NoteIds' /\ NoteIds' = NoteIds \cup {Len(notes')}
  BY <1>1, <1>2, AppendNote
<1>5. NotesTyped' BY <1>1, <1>4 DEF NotesTyped
<1>6. DigestsOK' /\ DigestIds' = DigestIds BY <1>1, <1>4, DigestsFrame
<1>7. \A i \in NoteIds : notes'[i] = notes[i] BY <1>4 DEF NotesGrow
<1>8. Held' = Held /\ Arrived' = Arrived
  <2>1. Held' = Held BY <1>3, <1>4, <1>7 DEF Held, OriginsOf, NoOrigin
  <2> QED BY <1>1, <2>1 DEF Arrived, OriginsOf, NoOrigin
<1>9. MigratedOnce'
  <2> SUFFICES ASSUME "migrate" \notin twice
               PROVE  \A i, j \in NoteIds' : notes'[i].from = notes'[j].from
                                              /\ notes'[i].from # NoOrigin => i = j
    BY <1>1 DEF MigratedOnce, NoOrigin
  <2>1. \A i, j \in NoteIds : notes[i].from = notes[j].from /\ notes[i].from # NoOrigin => i = j
    BY DEF MigratedOnce
  <2> QED BY <1>3, <1>4, <1>7, <2>1
<1>10. ASSUME NEW q \in Tool PROVE ToolInv(q)'
  <2>1. ToolInv(q) /\ UNCHANGED Local(q) BY <1>1 DEF Local
  <2>2. ToolOK(q)' BY <1>4, <1>5, <1>6, <2>1, ToolFrame DEF ToolInv
  <2>3. Known(q)' BY <1>1, <1>8, <2>1 DEF ToolInv, Known, _dedup_key
  <2>4. Collected(q)' BY <1>4, <2>1, CollectedFrame DEF ToolInv
  <2>5. Rolling(q)' BY <1>1, <1>4, <2>1, RollingFrame DEF ToolInv
  <2> QED BY <2>2, <2>3, <2>4, <2>5 DEF ToolInv
<1>11. TempsOK' /\ MapLinksExist' /\ Solo' /\ TablesOK'
  BY <1>1 DEF TempsOK, MapLinksExist, DigestIds, Solo, TablesOK
<1> QED BY <1>5, <1>6, <1>9, <1>10, <1>11

\* The note of a line appears: it is the first of that line if the migration is alone.
LEMMA NoteAppearsStep == ASSUME IInv, NEW p \in Tool, NoteAppears(p) PROVE IInv'
<1> USE DEF IInv
<1> DEFINE n == out[p].note
           o == Head(lines[p])
<1>1. /\ out[p].what = "note" /\ notes' = Append(notes, n)
      /\ out' = [out EXCEPT ![p] = Nothing] /\ lines' = [lines EXCEPT ![p] = Tail(@)]
      /\ existing' = [existing EXCEPT ![p] = @ \cup {_dedup_key(n.from)}]
      /\ UNCHANGED <<digests, home, temps, memory, today, nLines, pc, files, got, period, base,
                     items, groups, twice, nRuns, nCrashes>>
  BY DEF NoteAppears, worldVars, rollVars
<1>2. ToolOK(p) /\ Known(p) BY DEF ToolInv
<1>3. /\ n \in NoteType /\ pc[p] = "migrate" /\ lines[p] # <<>> /\ n.from = o
      /\ _dedup_key(o) \notin existing[p] /\ lines[p] \in Seq(Origin)
  BY <1>1, <1>2 DEF ToolOK, OutOK, Nothing
<1> HIDE DEF n
<1>4. /\ notes' \in Seq(NoteType) /\ NotesGrow
      /\ Len(notes') = Len(notes) + 1 /\ notes'[Len(notes')] = n
      /\ NoteIds \subseteq NoteIds' /\ NoteIds' = NoteIds \cup {Len(notes')}
  BY <1>1, <1>3, AppendNote
<1>5. /\ o \in Origin /\ Tail(lines[p]) \in Seq(Origin)
      /\ \A k \in DOMAIN lines[p] : \/ lines[p][k] = o
                                    \/ \E j \in DOMAIN Tail(lines[p]) : Tail(lines[p])[j] = lines[p][k]
  BY <1>3, HeadTail
<1> HIDE DEF o
<1>6. o # NoOrigin
  <2>1. PICK i \in Sources, l \in Line : o = <<i, l>> BY <1>5 DEF Origin
  <2>2. Len(<<i, l>>) = 2 /\ Len(<<>>) = 0 OBVIOUS
  <2> QED BY <2>1, <2>2 DEF NoOrigin
<1>7. /\ out'[p] = Nothing /\ lines'[p] = Tail(lines[p])
      /\ existing'[p] = existing[p] \cup {_dedup_key(o)}
      /\ TablesOK' /\ \A q \in Tool \ {p} : UNCHANGED Local(q)
  BY <1>1, <1>3 DEF TablesOK, Local
<1>8. NotesTyped' BY <1>1, <1>4 DEF NotesTyped
<1>9. DigestsOK' /\ DigestIds' = DigestIds BY <1>1, <1>4, DigestsFrame
<1>10. \A i \in NoteIds : notes'[i] = notes[i] BY <1>4 DEF NotesGrow
<1>11. Held' = Held \cup {o} /\ Arrived' = Arrived \cup {o}
  <2>1. Held' = Held \cup {o} BY <1>3, <1>4, <1>6, <1>10 DEF Held, OriginsOf, NoOrigin
  <2> QED BY <1>1, <2>1 DEF Arrived, OriginsOf, NoOrigin
<1>12. MigratedOnce'
  <2> SUFFICES ASSUME "migrate" \notin twice
               PROVE  \A i, j \in NoteIds' : notes'[i].from = notes'[j].from
                                              /\ notes'[i].from # NoOrigin => i = j
    BY <1>1 DEF MigratedOnce, NoOrigin
  <2>1. \A h \in Held : _dedup_key(h) \in existing[p]
    BY <1>2, <1>3 DEF Known
  <2>2. o \notin Held BY <1>3, <2>1 DEF o
  <2>3. \A i \in NoteIds : notes[i].from # o
    BY <1>6, <2>2 DEF Held, OriginsOf
  <2>4. \A i, j \in NoteIds : notes[i].from = notes[j].from /\ notes[i].from # NoOrigin => i = j
    BY DEF MigratedOnce
  <2> QED BY <1>3, <1>4, <1>10, <2>3, <2>4
<1>13. ToolInv(p)'
  <2>1. ToolOK(p)'
    <3>1. NoteIds \subseteq NoteIds' /\ base[p] \in 0..Len(notes')
      BY <1>2, <1>4 DEF ToolOK, NotesTyped
    <3> QED BY <1>1, <1>2, <1>3, <1>5, <1>7, <3>1 DEF ToolOK, OutOK, Nothing
  <2>2. Known(p)'
    <3> SUFFICES ASSUME "migrate" \notin twice
                 PROVE  /\ \A h \in Held' : _dedup_key(h) \in existing'[p]
                        /\ \A k \in existing'[p] : \E h \in Arrived' : _dedup_key(h) = k
                        /\ \A h \in got[p] : h \in Arrived' \/ \E k \in DOMAIN lines'[p] : lines'[p][k] = h
      BY <1>1 DEF Known, _dedup_key
    <3>1. /\ \A h \in Held : _dedup_key(h) \in existing[p]
          /\ \A k \in existing[p] : \E h \in Arrived : _dedup_key(h) = k
          /\ \A h \in got[p] : h \in Arrived \/ \E k \in DOMAIN lines[p] : lines[p][k] = h
      BY <1>2, <1>3 DEF Known
    <3>2. \A h \in Held' : _dedup_key(h) \in existing'[p] BY <1>7, <1>11, <3>1
    <3>3. \A k \in existing'[p] : \E h \in Arrived' : _dedup_key(h) = k BY <1>7, <1>11, <3>1
    <3>4. \A h \in got[p] : h \in Arrived' \/ \E k \in DOMAIN lines'[p] : lines'[p][k] = h
      BY <1>5, <1>7, <1>11, <3>1
    <3> QED BY <3>2, <3>3, <3>4
  <2>3. Collected(p)' /\ Rolling(p)' BY <1>1, <1>3 DEF Collected, Rolling
  <2> QED BY <2>1, <2>2, <2>3 DEF ToolInv
<1>14. ASSUME NEW q \in Tool \ {p} PROVE ToolInv(q)'
  <2>1. ToolInv(q) /\ UNCHANGED Local(q) BY <1>7
  <2>2. ToolOK(q)' BY <1>4, <1>8, <1>9, <2>1, ToolFrame DEF ToolInv
  <2>3. Known(q)' BY <1>1, <1>3 DEF Known, Solo
  <2>4. Collected(q)' BY <1>4, <2>1, CollectedFrame DEF ToolInv
  <2>5. Rolling(q)' BY <1>1, <1>4, <2>1, RollingFrame DEF ToolInv
  <2> QED BY <2>2, <2>3, <2>4, <2>5 DEF ToolInv
<1>15. TempsOK' /\ MapLinksExist' /\ Solo'
  BY <1>1 DEF TempsOK, MapLinksExist, DigestIds, Solo
<1> QED BY <1>7, <1>8, <1>9, <1>12, <1>13, <1>14, <1>15

\* Days pass and memory files change.
LEMMA WorldStep ==
  ASSUME IInv, NextDay \/ \E i \in Sources, l \in Line : Remember(i, l) PROVE IInv'
<1> USE DEF IInv
<1>1. /\ UNCHANGED <<notes, digests, home, temps, pc, out, existing, files, lines, got, period,
                     base, items, groups, twice, nRuns, nCrashes>>
  BY DEF NextDay, Remember, vaultVars, migrateVars, rollVars
<1>2. NotesTyped'
  <2>1. CASE NextDay
    <3>1. today' \in 1..LastDay BY <2>1, NotesOK DEF NextDay, NotesTyped
    <3> QED BY <1>1, <2>1, <3>1 DEF NextDay, NotesTyped
  <2>2. ASSUME NEW i \in Sources, NEW l \in Line, Remember(i, l) PROVE NotesTyped'
    <3> DEFINE all == Append(memory[i], l)
               m   == IF Len(all) > KeepLines THEN Len(all) - KeepLines + 1 ELSE 1
    <3>1. nLines' = nLines + 1 /\ nLines < MaxLines /\ UNCHANGED today
      BY <2>2 DEF Remember
    <3>2. memory' = [memory EXCEPT ![i] = SubSeq(all, m, Len(all))]
      BY <2>2 DEF Remember
    <3>3. all \in Seq(Line) /\ Len(all) \in Nat /\ KeepLines \in Nat
      BY NotesOK DEF NotesTyped
    <3>4. m \in 1..(Len(all) + 1) BY <3>3
    <3> HIDE DEF all, m
    <3>5. SubSeq(all, m, Len(all)) \in Seq(Line)
      <4>1. \A k \in m..Len(all) : all[k] \in Line BY <3>3, <3>4
      <4> QED BY <3>3, <3>4, <4>1
    <3>6. memory' \in [Sources -> Seq(Line)] BY <3>2, <3>5 DEF NotesTyped
    <3> QED BY <1>1, <3>1, <3>6, NotesOK DEF NotesTyped
  <2> QED BY <2>1, <2>2
<1>3. TempsOK' /\ MapLinksExist' /\ Solo' /\ TablesOK' /\ MigratedOnce'
  BY <1>1 DEF TempsOK, MapLinksExist, DigestIds, Solo, TablesOK, MigratedOnce, NoteIds, NoOrigin
<1>4. NotesGrow /\ NoteIds' = NoteIds BY <1>1 DEF NotesGrow, NotesTyped, NoteIds
<1>5. DigestsOK' /\ DigestIds' = DigestIds BY <1>1, <1>4, DigestsFrame
<1>6. ASSUME NEW q \in Tool PROVE ToolInv(q)'
  <2>1. ToolInv(q) /\ UNCHANGED Local(q) BY <1>1 DEF Local
  <2>2. ToolOK(q)' BY <1>2, <1>4, <1>5, <2>1, ToolFrame DEF ToolInv
  <2>3. Known(q)' BY <1>1, <2>1, KnownFrame DEF ToolInv
  <2>4. Collected(q)' BY <1>4, <2>1, CollectedFrame DEF ToolInv
  <2>5. Rolling(q)' BY <1>1, <1>4, <2>1, RollingFrame DEF ToolInv
  <2> QED BY <2>2, <2>3, <2>4, <2>5 DEF ToolInv
<1> QED BY <1>2, <1>3, <1>5, <1>6

-----------------------------------------------------------------------------
(* Roll-ups at work *)

\* Whatever it finds of the notes that appear meanwhile, it finds all that were there.
LEMMA CollectStep == ASSUME IInv, NEW p \in Tool, _collect_notes(p) PROVE IInv'
<1> USE DEF IInv
<1>1. /\ pc[p] = "collect" /\ pc' = [pc EXCEPT ![p] = "roll"]
      /\ UNCHANGED <<notes, digests, home, temps, memory, today, nLines, out, existing, files, lines,
                     got, period, base, twice, nRuns, nCrashes>>
  BY DEF _collect_notes, vaultVars, worldVars, migrateVars
<1>2. PICK late \in SUBSET ((base[p] + 1) .. Len(notes)) :
        LET S == {i \in (1 .. base[p]) \cup late : _in_period(notes[i], period[p])}
        IN /\ items' = [items EXCEPT ![p] = S]
           /\ groups' = [groups EXCEPT ![p] = {notes[i].group : i \in S}]
  BY DEF _collect_notes
<1> DEFINE S == {i \in (1 .. base[p]) \cup late : _in_period(notes[i], period[p])}
<1>3. ToolOK(p) /\ Rolling(p) BY DEF ToolInv
<1>4. /\ pc'[p] = "roll" /\ items'[p] = S /\ groups'[p] = {notes[i].group : i \in S}
      /\ TablesOK' /\ \A q \in Tool \ {p} : UNCHANGED Local(q)
  BY <1>1, <1>2 DEF TablesOK, Local
<1>5. S \subseteq NoteIds
  <2>1. base[p] \in 0..Len(notes) /\ Len(notes) \in Nat /\ NoteIds = 1..Len(notes)
    BY <1>3 DEF ToolOK, NotesTyped, NoteIds
  <2>2. ASSUME NEW i \in 1 .. base[p] PROVE i \in 1..Len(notes) BY <2>1
  <2>3. ASSUME NEW i \in late PROVE i \in 1..Len(notes)
    <3>1. i \in (base[p] + 1) .. Len(notes) OBVIOUS
    <3> QED BY <2>1, <3>1
  <2> QED BY <2>1, <2>2, <2>3
<1>6. \A i \in NoteIds : notes[i].group \in Groups
  <2>1. \A i \in NoteIds : notes[i] \in NoteType BY DEF NotesTyped, NoteIds
  <2> QED BY <2>1 DEF NoteType
<1>7. ToolOK(p)'
  <2>1. out[p] = Nothing BY <1>1, <1>3 DEF ToolOK, OutOK
  <2>2. groups'[p] \subseteq Groups BY <1>4, <1>5, <1>6
  <2> HIDE DEF S
  <2> QED BY <1>1, <1>3, <1>4, <1>5, <2>1, <2>2 DEF ToolOK, OutOK, NoteIds, Nothing
<1>8. Collected(p)' BY <1>1, <1>4 DEF Collected, _in_period, Days
<1>9. Rolling(p)'
  <2>1. \A i \in 1 .. base[p] : _in_period(notes[i], period[p]) => notes[i].group \in groups'[p]
    BY <1>4
  <2>2. "collect" \notin twice => \A e \in digests : e.links \subseteq 1 .. base[p]
    BY <1>1, <1>3 DEF Rolling
  <2> QED BY <1>1, <2>1, <2>2 DEF Rolling, _in_period, Days
<1>10. Known(p)' BY <1>4 DEF Known
<1>11. Solo'
  BY <1>1, <1>4 DEF Solo, TablesOK
<1>12. NotesTyped' /\ TempsOK' /\ MapLinksExist'
  BY <1>1 DEF NotesTyped, TempsOK, MapLinksExist, DigestIds
<1> QED BY <1>1, <1>4, <1>7, <1>8, <1>9, <1>10, <1>11, <1>12, ToolMoves DEF ToolInv

LEMMA WriteDigestStep ==
  ASSUME IInv, NEW p \in Tool, NEW g \in Groups, WriteDigest(p, g) PROVE IInv'
<1> USE DEF IInv
<1> DEFINE d == [id |-> _digest_id(period[p], g), period |-> period[p],
                 group |-> g, links |-> ItemsOf(items[p], g), day |-> today]
<1>1. /\ pc[p] = "roll" /\ out[p] = Nothing /\ g \in groups[p]
      /\ out' = [out EXCEPT ![p] = DigestPut(d)]
      /\ UNCHANGED <<notes, digests, home, temps, memory, today, nLines, pc, existing, files, lines,
                     got, period, base, items, groups, twice, nRuns, nCrashes>>
  BY DEF WriteDigest, vaultVars, worldVars, migrateVars, rollVars
<1>2. /\ d.id = _digest_id(period[p], g) /\ d.period = period[p] /\ d.group = g
      /\ d.links = ItemsOf(items[p], g)
  OBVIOUS
<1> HIDE DEF d
<1>3. /\ out'[p].what = "digest" /\ out'[p].digest = d
      /\ TablesOK' /\ \A q \in Tool \ {p} : UNCHANGED Local(q)
  BY <1>1 DEF TablesOK, Local, DigestPut
<1>4. ToolOK(p) /\ Collected(p) /\ Rolling(p) BY DEF ToolInv
<1>5. OutOK(p)'
  <2>1. ItemsOf(items[p], g)' = ItemsOf(items[p], g) BY <1>1 DEF ItemsOf
  <2> QED BY <1>1, <1>2, <1>3, <2>1 DEF OutOK, _digest_id, ItemsOf
<1>6. ToolOK(p)' BY <1>1, <1>4, <1>5 DEF ToolOK, NoteIds
<1>7. Known(p)' BY <1>1 DEF Known
<1>8. Collected(p)' BY <1>1, <1>4 DEF Collected, _in_period, Days
<1>9. Rolling(p)' BY <1>1, <1>4 DEF Rolling, _in_period, Days
<1>10. NotesTyped' /\ TempsOK' /\ MapLinksExist' /\ Solo'
  BY <1>1 DEF NotesTyped, TempsOK, MapLinksExist, DigestIds, Solo
<1> QED BY <1>1, <1>3, <1>6, <1>7, <1>8, <1>9, <1>10, ToolMoves DEF ToolInv

\* An id names a period and a group.
LEMMA IdInjective ==
  ASSUME NEW a \in Period, NEW b \in Period, NEW g, NEW h,
         _digest_id(a, g) = _digest_id(b, h)
  PROVE  a = b /\ g = h
<1>1. a \in [kind: {"daily", "weekly"}, start: Nat] /\ b \in [kind: {"daily", "weekly"}, start: Nat]
  BY NotesOK
<1>2. a.kind = b.kind /\ a.start = b.start /\ g = h BY DEF _digest_id
<1> QED BY <1>1, <1>2

\* What a roll-up is about to put in its place: a true digest of its group that links all
\* it collected of it.
LEMMA ReadyDigest ==
  ASSUME IInv, NEW p \in Tool, out[p].what = "digest"
  PROVE  LET d == out[p].digest IN
           /\ pc[p] = "roll" /\ d.period = period[p] /\ d.group \in groups[p]
           /\ d.links = ItemsOf(items[p], d.group) /\ DigestOK(d)
<1> USE DEF IInv
<1> DEFINE d == out[p].digest
<1>1. ToolOK(p) /\ Collected(p) BY DEF ToolInv
<1>2. /\ d.period = period[p] /\ d.group \in groups[p] /\ pc[p] = "roll"
      /\ d.id = _digest_id(period[p], d.group) /\ d.links = ItemsOf(items[p], d.group)
  BY <1>1 DEF ToolOK, OutOK, Nothing
<1> HIDE DEF d
<1>3. d.period \in Period /\ d.group \in Groups /\ d.links \subseteq NoteIds
  BY <1>1, <1>2 DEF ToolOK, ItemsOf
<1>4. \A j \in d.links : notes[j].group = d.group /\ notes[j].day \in Days(d.period)
  BY <1>1, <1>2 DEF Collected, ItemsOf, _in_period
<1>5. DigestOK(d) BY <1>2, <1>3, <1>4 DEF DigestOK
<1> QED BY <1>2, <1>5 DEF d

\* A digest takes the place of an older one of its period and group.
LEMMA DigestAppearsStep == ASSUME IInv, NEW p \in Tool, DigestAppears(p) PROVE IInv'
<1> USE DEF IInv
<1> DEFINE d == out[p].digest
<1>1. /\ out[p].what = "digest"
      /\ digests' = {e \in digests : e.id # d.id} \cup {d}
      /\ groups' = [groups EXCEPT ![p] = @ \ {d.group}]
      /\ out' = [out EXCEPT ![p] = Nothing]
      /\ UNCHANGED <<notes, home, temps, memory, today, nLines, pc, existing, files, lines, got,
                     period, base, items, twice, nRuns, nCrashes>>
  BY DEF DigestAppears, worldVars, migrateVars
<1>2. /\ pc[p] = "roll" /\ d.period = period[p] /\ d.group \in groups[p]
      /\ d.links = ItemsOf(items[p], d.group) /\ DigestOK(d)
  BY <1>1, ReadyDigest
<1>3. ToolOK(p) /\ Collected(p) /\ Rolling(p) BY DEF ToolInv
<1> HIDE DEF d
<1>4. /\ groups'[p] = groups[p] \ {d.group} /\ out'[p] = Nothing
      /\ TablesOK' /\ \A q \in Tool \ {p} : UNCHANGED Local(q)
  BY <1>1 DEF TablesOK, Local
<1>5. NotesTyped' /\ TempsOK' /\ Solo' /\ MigratedOnce'
  BY <1>1 DEF NotesTyped, TempsOK, Solo, MigratedOnce, NoteIds, NoOrigin
<1>6. NotesGrow /\ NoteIds' = NoteIds BY <1>1 DEF NotesGrow, NotesTyped, NoteIds
<1>7. DigestsOK'
  <2>1. \A e \in digests' : DigestOK(e) BY <1>1, <1>2 DEF DigestsOK
  <2>2. \A e \in digests' : DigestOK(e)'
    BY <1>1, <1>6, <2>1 DEF DigestOK, _digest_id, Days
  <2>3. \A e, f \in digests' : e.id = f.id => e = f BY <1>1 DEF DigestsOK
  <2> QED BY <2>2, <2>3 DEF DigestsOK
<1>8. DigestIds \subseteq DigestIds' BY <1>1 DEF DigestIds
<1>9. MapLinksExist' BY <1>1, <1>8 DEF MapLinksExist
<1>10. ASSUME NEW e \in digests, e.id = d.id PROVE e.period = d.period /\ e.group = d.group
  BY <1>2, <1>10, IdInjective DEF DigestsOK, DigestOK
<1>11. Rolling(p)'
  <2> SUFFICES ASSUME "collect" \notin twice
               PROVE  /\ \A e \in digests' : \/ e.links \subseteq 1 .. base[p]
                                             \/ e.period = period[p] /\ e.group \notin groups'[p]
                      /\ \A i \in 1 .. base[p] : _in_period(notes[i], period[p]) =>
                           \/ notes[i].group \in groups'[p]
                           \/ \E f \in digests' : f.period = period[p] /\ f.group = notes[i].group
                                                  /\ i \in f.links
    BY <1>1, <1>2 DEF Rolling, _in_period, Days
  <2>1. \A e \in digests' : \/ e.links \subseteq 1 .. base[p]
                            \/ e.period = period[p] /\ e.group \notin groups'[p]
    BY <1>1, <1>2, <1>3, <1>4 DEF Rolling
  <2>2. ASSUME NEW i \in 1 .. base[p], _in_period(notes[i], period[p]),
               notes[i].group \notin groups'[p]
        PROVE  \E f \in digests' : f.period = period[p] /\ f.group = notes[i].group /\ i \in f.links
    <3>1. CASE notes[i].group = d.group
      <4>1. i \in d.links BY <1>2, <1>3, <2>2, <3>1 DEF Collected, ItemsOf
      <4>2. d \in digests' BY <1>1
      <4> QED BY <1>2, <3>1, <4>1, <4>2
    <3>2. CASE notes[i].group # d.group
      <4>1. PICK f \in digests : f.period = period[p] /\ f.group = notes[i].group /\ i \in f.links
        BY <1>2, <1>3, <1>4, <2>2, <3>2 DEF Rolling
      <4>2. f.id # d.id BY <1>10, <3>2, <4>1
      <4>3. f \in digests' BY <1>1, <4>2
      <4> QED BY <4>1, <4>3
    <3> QED BY <3>1, <3>2
  <2> QED BY <2>1, <2>2
<1>12. ToolInv(p)'
  <2>1. pc[p] # "migrate" /\ out'[p] = Nothing BY <1>2, <1>4
  <2>2. OutOK(p)' BY <2>1 DEF OutOK, Nothing
  <2>3. ToolOK(p)' BY <1>1, <1>3, <1>4, <1>6, <2>2 DEF ToolOK
  <2>4. Known(p)' BY <1>1, <2>1 DEF Known
  <2>5. Collected(p)' BY <1>1, <1>3 DEF Collected, _in_period, Days
  <2> QED BY <1>11, <2>3, <2>4, <2>5 DEF ToolInv
<1>13. ASSUME NEW q \in Tool \ {p} PROVE ToolInv(q)'
  <2>1. ToolInv(q) /\ UNCHANGED Local(q) BY <1>4
  <2>2. ToolOK(q)' BY <1>5, <1>6, <1>8, <2>1, ToolFrame DEF ToolInv
  <2>3. Known(q)' BY <1>1, <2>1, KnownFrame DEF ToolInv
  <2>4. Collected(q)' BY <1>6, <2>1, CollectedFrame DEF ToolInv
  <2>5. Rolling(q)' BY <1>1, <1>2 DEF Rolling, Solo
  <2> QED BY <2>2, <2>3, <2>4, <2>5 DEF ToolInv
<1> QED BY <1>4, <1>5, <1>7, <1>9, <1>12, <1>13

-----------------------------------------------------------------------------
(* The invariant of every behaviour *)

LEMMA InvInit == Init => IInv
<1> SUFFICES ASSUME Init PROVE IInv
  OBVIOUS
<1> USE DEF Init
<1>1. NotesTyped
  <2>1. 0 \in 0..MaxLines /\ 0 \in 0..MaxRuns /\ 0 \in 0..MaxCrashes /\ 1 \in 1..LastDay
    BY NotesOK
  <2>2. <<>> \in Seq(NoteType) OBVIOUS
  <2> QED BY <2>1, <2>2, NotesOK DEF NotesTyped
<1>2. DigestsOK /\ TempsOK /\ MapLinksExist /\ TablesOK
  BY DEF DigestsOK, TempsOK, MapLinksExist, TablesOK
<1>3. Solo BY DEF Solo
<1>4. NoteIds = {} BY DEF NoteIds
<1>5. MigratedOnce BY <1>4 DEF MigratedOnce
<1>6. ASSUME NEW p \in Tool PROVE ToolInv(p)
  <2>1. 0 \in 0..Len(Source) /\ 0 \in 0..Len(notes) /\ <<>> \in Seq(Origin)
    BY NotesOK
  <2>2. ToolOK(p) BY <2>1 DEF ToolOK, OutOK
  <2>3. Known(p) /\ Collected(p) /\ Rolling(p) BY DEF Known, Collected, Rolling
  <2> QED BY <2>2, <2>3 DEF ToolInv
<1> QED BY <1>1, <1>2, <1>3, <1>5, <1>6 DEF IInv

LEMMA InvStep == IInv /\ [Next]_vars => IInv'
<1> SUFFICES ASSUME IInv, [Next]_vars PROVE IInv'
  OBVIOUS
<1>1. CASE UNCHANGED vars
  <2> USE DEF vars, vaultVars, worldVars, migrateVars, rollVars, IInv
  <2>1. NotesTyped' /\ TempsOK' /\ MapLinksExist' /\ TablesOK' /\ Solo' /\ MigratedOnce'
    BY <1>1 DEF NotesTyped, TempsOK, MapLinksExist, DigestIds, TablesOK, Solo, MigratedOnce,
                NoteIds, NoOrigin
  <2>2. NotesGrow /\ NoteIds' = NoteIds BY <1>1 DEF NotesGrow, NotesTyped, NoteIds
  <2>3. DigestsOK' /\ DigestIds' = DigestIds BY <1>1, <2>2, DigestsFrame
  <2>4. ASSUME NEW q \in Tool PROVE ToolInv(q)'
    <3>1. ToolInv(q) /\ UNCHANGED Local(q) /\ UNCHANGED <<notes, digests, temps, twice>>
      BY <1>1 DEF Local
    <3>2. ToolOK(q)' BY <2>1, <2>2, <2>3, <3>1, ToolFrame DEF ToolInv
    <3>3. Known(q)' BY <3>1, KnownFrame DEF ToolInv
    <3>4. Collected(q)' BY <2>2, <3>1, CollectedFrame DEF ToolInv
    <3>5. Rolling(q)' BY <2>2, <3>1, RollingFrame DEF ToolInv
    <3> QED BY <3>2, <3>3, <3>4, <3>5 DEF ToolInv
  <2> QED BY <2>1, <2>3, <2>4
<1>2. CASE \E g \in Group, t \in {"report", "feedback"} : Persist(g, t)
  BY <1>2, PersistStep
<1>3. CASE NextDay \/ \E i \in Sources, l \in Line : Remember(i, l)
  BY <1>3, WorldStep
<1>4. ASSUME NEW p \in Tool, ToolStep(p) PROVE IInv'
  <2>1. CASE Fail(p) \/ Crash(p) \/ MigrateEnd(p) \/ RollEnd(p) \/ MapAppears(p)
    BY <2>1, StopStep
  <2>2. CASE MigrateBegin(p) \/ write_moc(p) \/ \E per \in Period : RollBegin(p, per)
    BY <2>2, MigrateBeginStep, MapStep, RollBeginStep
  <2>3. CASE OpenMemory(p) \/ SkipLine(p) \/ _write_migrated(p) \/ NoteAppears(p)
    BY <2>3, OpenMemoryStep, SkipLineStep, WriteMigratedStep, NoteAppearsStep
  <2>4. CASE _collect_notes(p) \/ (\E g \in Groups : WriteDigest(p, g)) \/ DigestAppears(p)
    BY <2>4, CollectStep, WriteDigestStep, DigestAppearsStep
  <2> QED BY <1>4, <2>1, <2>2, <2>3, <2>4 DEF ToolStep
<1> QED BY <1>1, <1>2, <1>3, <1>4 DEF Next

LEMMA Inv == Spec => []IInv
BY InvInit, InvStep, PTL DEF Spec

-----------------------------------------------------------------------------
\* Notes, digests, temporary files and the state of the tools have their types.
THEOREM TypeCorrect == Spec => []TypeOK
<1>1. IInv => TypeOK
  <2> SUFFICES ASSUME IInv PROVE TypeOK
    OBVIOUS
  <2> USE DEF IInv
  <2>1. /\ memory \in [Sources -> Seq(Line)] /\ notes \in Seq(NoteType) /\ today \in 1..LastDay
        /\ nLines \in 0..MaxLines /\ nRuns \in 0..MaxRuns /\ nCrashes \in 0..MaxCrashes
    BY DEF NotesTyped
  <2>2. \A d \in digests : /\ d.period \in Period /\ d.group \in Groups /\ d.links \subseteq NoteIds
                           /\ \A e \in digests : d.id = e.id => d = e
    BY DEF DigestsOK, DigestOK
  <2>3. pc \in [Tool -> {"idle", "migrate", "collect", "roll", "sync"}] BY DEF TablesOK
  <2>4. ASSUME NEW p \in Tool
        PROVE  /\ out[p].what \in {"nothing", "note", "digest", "home"}
               /\ pc[p] # "migrate" => existing[p] = {} /\ lines[p] = <<>> /\ got[p] = {}
               /\ lines[p] \in Seq(Origin) /\ items[p] \subseteq NoteIds
               /\ base[p] \in 0..Len(notes) /\ groups[p] \subseteq Groups
               /\ out[p].what = "note" => pc[p] = "migrate" /\ lines[p] # <<>>
               /\ out[p].what = "digest" => pc[p] = "roll" /\ out[p].digest.group \in groups[p]
    <3>1. ToolOK(p) BY DEF ToolInv
    <3> HIDE DEF IInv
    <3>2. OutOK(p) BY <3>1 DEF ToolOK
    <3>3. /\ out[p].what \in {"nothing", "note", "digest", "home"}
          /\ out[p].what = "note" => pc[p] = "migrate" /\ lines[p] # <<>>
          /\ out[p].what = "digest" => pc[p] = "roll" /\ out[p].digest.group \in groups[p]
      BY <3>2 DEF OutOK, Nothing
    <3> QED BY <3>1, <3>3 DEF ToolOK
  <2>5. \A f \in temps : f.what \in {"note", "digest", "home"} BY DEF TempsOK
  <2> HIDE DEF IInv
  <2> QED BY <2>1, <2>2, <2>3, <2>4, <2>5 DEF TypeOK
<1> QED BY <1>1, Inv, PTL

\* For any memory files and however often migrations fail, are killed or start again:
\* a line becomes one note, unless two migrations ran at once (vault_migrate.py).
THEOREM OneNotePerLine == Spec => []MigratedOnce
<1>1. IInv => MigratedOnce BY DEF IInv
<1> QED BY <1>1, Inv, PTL

\* What a migration has read when it ends has arrived (vault_migrate.py).
THEOREM NoLineLost == Spec => []LinesArrive
<1>1. IInv => LinesArrive
  <2> SUFFICES ASSUME IInv, NEW p \in Tool, Migrated(p), "migrate" \notin twice, NEW o \in got[p]
               PROVE  o \in Arrived
    BY DEF LinesArrive, Arrived
  <2>1. Known(p) /\ pc[p] = "migrate" /\ lines[p] = <<>> BY DEF IInv, ToolInv, Migrated
  <2> QED BY <2>1 DEF Known
<1> QED BY <1>1, Inv, PTL

\* A roll-up that ends has digested what it had to, for any groups and periods and
\* whatever notes appear meanwhile (vault_rollup.py).
THEOREM RollUpsTrue == Spec => []DigestsTrue
<1>1. IInv => DigestsTrue
  <2> SUFFICES ASSUME IInv, NEW p \in Tool, Rolled(p), "collect" \notin twice,
                      NEW i \in 1 .. base[p], _in_period(notes[i], period[p])
               PROVE  \E d \in digests :
                        /\ d.period = period[p] /\ d.group = notes[i].group /\ i \in d.links
                        /\ \A j \in d.links : notes[j].group = d.group /\ notes[j].day \in Days(d.period)
    BY DEF DigestsTrue
  <2>1. Rolling(p) /\ pc[p] = "roll" /\ groups[p] = {} BY DEF IInv, ToolInv, Rolled
  <2>2. PICK d \in digests : d.period = period[p] /\ d.group = notes[i].group /\ i \in d.links
    BY <2>1 DEF Rolling
  <2>3. DigestOK(d) BY DEF IInv, DigestsOK
  <2> QED BY <2>2, <2>3 DEF DigestOK
<1> QED BY <1>1, Inv, PTL

\* The map lists only digests that exist (vault_org.py).
THEOREM MapTrue == Spec => []MapLinksExist
<1>1. IInv => MapLinksExist BY DEF IInv
<1> QED BY <1>1, Inv, PTL

\* A digest that is written again keeps every note it has linked, unless two roll-ups
\* ran at once (vault_rollup.py).
THEOREM NoNoteForgotten == Spec => DigestsGrow
<1> DEFINE Grow == \A d \in digests : "collect" \in twice \/
                     \E e \in digests' : e.period = d.period /\ e.group = d.group /\ d.links \subseteq e.links
<1>1. IInv /\ [Next]_vars => [Grow]_digests
  <2> SUFFICES ASSUME IInv, [Next]_vars, digests' # digests, NEW c \in digests, "collect" \notin twice
               PROVE  \E e \in digests' : e.period = c.period /\ e.group = c.group /\ c.links \subseteq e.links
    OBVIOUS
  <2>1. PICK p \in Tool : DigestAppears(p)
    BY DEF Next, vars, vaultVars, Persist, Remember, NextDay, ToolStep, Fail, Crash, MigrateBegin,
           OpenMemory, SkipLine, _write_migrated, NoteAppears, MigrateEnd, RollBegin, _collect_notes,
           WriteDigest, RollEnd, write_moc, MapAppears
  <2> DEFINE d == out[p].digest
  <2>2. digests' = {e \in digests : e.id # d.id} \cup {d} /\ out[p].what = "digest"
    BY <2>1 DEF DigestAppears
  <2>3. /\ pc[p] = "roll" /\ d.period = period[p] /\ d.group \in groups[p]
        /\ d.links = ItemsOf(items[p], d.group) /\ DigestOK(d)
    BY <2>2, ReadyDigest
  <2> HIDE DEF d
  <2>4. CASE c.id # d.id BY <2>2, <2>4
  <2>5. CASE c.id = d.id
    <3>1. DigestOK(c) BY DEF IInv, DigestsOK
    <3>2. c.period = d.period /\ c.group = d.group
      <4>1. /\ c.period \in Period /\ d.period \in Period
            /\ _digest_id(c.period, c.group) = _digest_id(d.period, d.group)
        BY <2>3, <2>5, <3>1 DEF DigestOK
      <4> QED BY <4>1, IdInjective
    <3>3. Collected(p) /\ Rolling(p) BY DEF IInv, ToolInv
    <3>4. c.links \subseteq 1 .. base[p] BY <2>3, <3>2, <3>3 DEF Rolling
    <3>5. c.links \subseteq d.links
      BY <2>3, <3>1, <3>2, <3>3, <3>4 DEF Collected, ItemsOf, DigestOK, _in_period
    <3> QED BY <2>2, <3>2, <3>5
  <2> QED BY <2>4, <2>5
<1> QED BY <1>1, Inv, PTL DEF Spec, DigestsGrow
=============================================================================
