-------------------------- MODULE VaultIndex_proofs --------------------------
(***************************************************************************)
(* Proofs about VaultIndex.  The first part is about the operators on a    *)
(* database; the second shows that the types, the agreement of the tables  *)
(* with the order of rowids and versions, and what a search holds at each  *)
(* of its steps are inductive.                                             *)
(***************************************************************************)
EXTENDS VaultIndex, TLAPS

-----------------------------------------------------------------------------
(* Databases *)

\* No rowid in use is above the largest one ever given.
Bounded(d) ==
  /\ \A r \in d.rows : r.rowid <= d.seq
  /\ \A e \in d.fts : e.rowid <= d.seq
  /\ \A e \in d.vec : e.rowid <= d.seq

Good(d) == d \in Database /\ Agree(d) /\ Bounded(d)

\* A rowid names the same note in both.
SameNotes(d, e) == \A r \in d.rows, s \in e.rows : r.rowid = s.rowid => r.path = s.path

\* _init_schema: an empty database is good.
LEMMA EmptyGood == Good(EmptyDb)
BY DEF Good, EmptyDb, Database, Agree, Bounded

\* _bump_version changes the version only.
LEMMA BumpGood ==
  ASSUME NEW d, Good(d)
  PROVE  /\ Good(_bump_version(d)) /\ _bump_version(d).version = d.version + 1
         /\ _bump_version(d).rows = d.rows /\ _bump_version(d).fts = d.fts
         /\ _bump_version(d).vec = d.vec /\ _bump_version(d).seq = d.seq
BY DEF Good, _bump_version, Database, Agree, Bounded

\* _index_one, INSERT: a path without a row gets one under a rowid nobody has had.
LEMMA InsertedGood ==
  ASSUME NEW d, Good(d), NEW n \in Note, NEW c \in Content, NEW model \in BOOLEAN,
         RowsAt(d, n) = {}
  PROVE  /\ Good(Inserted(d, n, c, model))
         /\ Inserted(d, n, c, model).version = d.version
         /\ Inserted(d, n, c, model).seq = d.seq + 1
         /\ Inserted(d, n, c, model).rows =
              d.rows \cup {[rowid |-> d.seq + 1, path |-> n, content |-> c]}
<1> DEFINE id == d.seq + 1
           row == [rowid |-> id, path |-> n, content |-> c]
           new == Inserted(d, n, c, model)
<1>1. d.seq \in Nat /\ id \in Nat /\ d.version \in Nat
  BY DEF Good, Database
<1>2. /\ new.rows = d.rows \cup {row} /\ new.fts = d.fts \cup {Entry(id, c)}
      /\ new.vec = d.vec \cup (IF model THEN {Entry(id, c)} ELSE {})
      /\ new.seq = id /\ new.version = d.version
  BY <1>1 DEF Good, Database, Inserted, NextRowid
<1>3. new \in Database
  <2>1. row \in RowType /\ Entry(id, c) \in EntryType
    BY <1>1 DEF RowType, EntryType, Entry
  <2> QED BY <1>1, <2>1 DEF Good, Database, Inserted, NextRowid
<1>4. Bounded(new)
  BY <1>1, <1>2 DEF Good, Bounded, Database, RowType, EntryType, Entry
<1>5. Agree(new)
  <2>1. ASSUME NEW r \in new.rows, NEW s \in new.rows, r.path = s.path \/ r.rowid = s.rowid
        PROVE  r = s
    BY <1>1, <1>2, <2>1 DEF Good, Agree, Bounded, Database, RowType, RowsAt
  <2>2. ASSUME NEW r \in new.rows
        PROVE  {e \in new.fts : e.rowid = r.rowid} = {Entry(r.rowid, r.content)}
    <3>1. CASE r = row
      BY <1>1, <1>2, <3>1 DEF Good, Bounded, Database, EntryType, Entry
    <3>2. CASE r \in d.rows
      <4>1. r.rowid # id
        BY <1>1, <3>2 DEF Good, Bounded, Database, RowType
      <4>2. {e \in d.fts : e.rowid = r.rowid} = {Entry(r.rowid, r.content)}
        BY <3>2 DEF Good, Agree
      <4> QED BY <1>2, <4>1, <4>2 DEF Entry
    <3> QED BY <1>2, <3>1, <3>2
  <2>3. ASSUME NEW r \in new.rows, NEW e \in new.vec, e.rowid = r.rowid
        PROVE  e.content = r.content
    BY <1>1, <1>2, <2>3 DEF Good, Agree, Bounded, Database, RowType, EntryType, Entry
  <2> QED BY <2>1, <2>2, <2>3 DEF Agree
<1> QED BY <1>2, <1>3, <1>4, <1>5 DEF Good

\* _index_one, UPDATE: the entries under a rowid are replaced, whether or not its row is
\* still there.
LEMMA UpdatedGood ==
  ASSUME NEW d, Good(d), NEW id \in Nat, id <= d.seq, NEW c \in Content, NEW model \in BOOLEAN
  PROVE  /\ Good(Updated(d, id, c, model))
         /\ Updated(d, id, c, model).version = d.version
         /\ Updated(d, id, c, model).seq = d.seq
         /\ \A r \in Updated(d, id, c, model).rows :
              \E s \in d.rows : s.rowid = r.rowid /\ s.path = r.path
<1> DEFINE new == Updated(d, id, c, model)
           Mod(r) == IF r.rowid = id THEN [r EXCEPT !.content = c] ELSE r
<1>1. /\ new.rows = {Mod(r) : r \in d.rows}
      /\ new.fts = {t \in d.fts : t.rowid \notin {id}} \cup {Entry(id, c)}
      /\ new.vec = {t \in d.vec : t.rowid \notin {id}} \cup (IF model THEN {Entry(id, c)} ELSE {})
      /\ new.seq = d.seq /\ new.version = d.version
  BY DEF Good, Database, Updated, Drop
<1>2. \A r \in d.rows : /\ r \in RowType /\ Mod(r) \in RowType
                        /\ Mod(r).rowid = r.rowid /\ Mod(r).path = r.path
                        /\ Mod(r).content = IF r.rowid = id THEN c ELSE r.content
  BY DEF Good, Database, RowType
<1> HIDE DEF Mod
<1>3. new \in Database
  <2>1. Entry(id, c) \in EntryType
    BY DEF EntryType, Entry
  <2>2. new.rows \subseteq RowType /\ new.fts \subseteq EntryType /\ new.vec \subseteq EntryType
    BY <1>1, <1>2, <2>1 DEF Good, Database
  <2>3. new = [d EXCEPT !.rows = new.rows, !.fts = new.fts, !.vec = new.vec]
    BY <1>1 DEF Good, Database, Updated
  <2> QED BY <2>2, <2>3 DEF Good, Database
<1>4. Bounded(new)
  BY <1>1, <1>2 DEF Good, Bounded, Entry
<1>5. Agree(new)
  <2>1. ASSUME NEW r \in new.rows, NEW s \in new.rows, r.path = s.path \/ r.rowid = s.rowid
        PROVE  r = s
    BY <1>1, <1>2, <2>1 DEF Good, Agree
  <2>2. ASSUME NEW r \in new.rows
        PROVE  {e \in new.fts : e.rowid = r.rowid} = {Entry(r.rowid, r.content)}
    <3>1. PICK s \in d.rows : r = Mod(s)
      BY <1>1
    <3>2. CASE s.rowid = id
      BY <1>1, <1>2, <3>1, <3>2 DEF Entry
    <3>3. CASE s.rowid # id
      <4>1. {e \in d.fts : e.rowid = s.rowid} = {Entry(s.rowid, s.content)}
        BY DEF Good, Agree
      <4>2. r.rowid = s.rowid /\ r.content = s.content
        BY <1>2, <3>1, <3>3
      <4> QED BY <1>1, <3>3, <4>1, <4>2 DEF Entry
    <3> QED BY <3>2, <3>3
  <2>3. ASSUME NEW r \in new.rows, NEW e \in new.vec, e.rowid = r.rowid
        PROVE  e.content = r.content
    BY <1>1, <1>2, <2>3 DEF Good, Agree, Entry
  <2> QED BY <2>1, <2>2, <2>3 DEF Agree
<1>6. \A r \in new.rows : \E s \in d.rows : s.rowid = r.rowid /\ s.path = r.path
  BY <1>1, <1>2
<1> QED BY <1>1, <1>3, <1>4, <1>5, <1>6 DEF Good

\* _purge_deleted: the rows without a file go, with their words and vectors.
LEMMA PurgeGood ==
  ASSUME NEW d, Good(d), NEW files
  PROVE  /\ Good(_purge_deleted(d, files))
         /\ _purge_deleted(d, files).version = d.version
         /\ _purge_deleted(d, files).seq = d.seq
         /\ _purge_deleted(d, files).rows \subseteq d.rows
<1> DEFINE ids == Rowids(Gone(d, files))
           new == _purge_deleted(d, files)
<1>1. /\ new.rows = d.rows \ Gone(d, files)
      /\ new.fts = {t \in d.fts : t.rowid \notin ids}
      /\ new.vec = {t \in d.vec : t.rowid \notin ids}
      /\ new.seq = d.seq /\ new.version = d.version
  BY DEF Good, Database, _purge_deleted, Drop
<1>2. \A r \in new.rows : r.rowid \notin ids
  BY <1>1 DEF Rowids, Gone, Good, Agree
<1>3. new \in Database
  <2> QED BY DEF Good, Database, _purge_deleted, Drop
<1>4. Agree(new)
  <2>1. ASSUME NEW r \in new.rows
        PROVE  {e \in new.fts : e.rowid = r.rowid} = {Entry(r.rowid, r.content)}
    <3>1. {e \in d.fts : e.rowid = r.rowid} = {Entry(r.rowid, r.content)}
      BY <1>1 DEF Good, Agree
    <3> QED BY <1>1, <1>2, <3>1
  <2> QED BY <1>1, <2>1 DEF Good, Agree
<1>5. Bounded(new)
  BY <1>1 DEF Good, Bounded
<1> QED BY <1>1, <1>3, <1>4, <1>5 DEF Good

-----------------------------------------------------------------------------
(* The invariant of the index *)

\* The open transaction continues the committed database.
Tables ==
  /\ Good(db)
  /\ writer # Nobody => /\ Good(tx) /\ tx.version = db.version /\ tx.seq >= db.seq
                        /\ SameNotes(db, tx)

\* The walk is at a path, or past the last; the row that a run is about to write is one
\* that has been given.
Hands == \A p \in Proc :
  /\ pc[p] = "walk" => at[p] \in 1..(Len(Path) + 1)
  /\ pc[p] = "write" => at[p] \in 1..Len(Path) /\ hand[p].row <= View(p).seq

\* Versions that processes have read do not lie ahead.
Versions == \A p \in Proc : /\ cache[p].version <= db.version
                            /\ version[p] <= db.version /\ since[p] <= db.version

\* The rows that searches have ranked keep their notes, in the open transaction too.
Ranks ==
  \A p \in Proc : \A a \in ranked[p] :
    /\ a.rowid <= db.seq
    /\ \A r \in db.rows : a.rowid = r.rowid => a.path = r.path
    /\ writer # Nobody => \A r \in tx.rows : a.rowid = r.rowid => a.path = r.path

IndexInv == TypeOK /\ Tables /\ Hands /\ Versions /\ CacheFresh /\ Ranks

\* The end of a run keeps the types and opens no transaction.
LEMMA EndRunType ==
  ASSUME TypeOK, NEW p \in Proc, EndRun(p)
  PROVE  /\ tx' \in Database /\ writer' \in Proc \cup {Nobody}
         /\ pc' = [pc EXCEPT ![p] = "idle"]
         /\ pc' \in [Proc -> {"idle", "walk", "write", "purge",
                              "rank", "version", "load", "mask", "fetch"}]
         /\ at' \in [Proc -> 0..(Len(Path) + 1)] /\ listing' \in [Proc -> SUBSET Note]
         /\ hand' \in [Proc -> [path: Note, content: Content, row: Nat] \cup {NoHand}]
         /\ changed' \in [Proc -> BOOLEAN]
         /\ \A q \in Proc : pc'[q] = "write" => /\ hand'[q] # NoHand /\ hand'[q] = hand[q]
                                                /\ pc[q] = "write" /\ q # p
         /\ writer' # Nobody =>
              /\ writer' = writer /\ writer # p /\ tx' = tx
              /\ pc'[writer'] \in {"walk", "write", "purge"} /\ changed'[writer']
<1>1. Len(Path) \in Nat
  BY VaultOK
<1>2. EmptyDb \in Database
  BY DEF EmptyDb, Database
<1> QED BY <1>1, <1>2, VaultOK DEF EndRun, TypeOK

\* The view of a process is a good database, from which a transaction can be continued.
LEMMA ViewGood ==
  ASSUME IndexInv, NEW p \in Proc, MayWrite(p)
  PROVE  /\ Good(View(p)) /\ View(p).version = db.version /\ View(p).seq >= db.seq
         /\ SameNotes(db, View(p))
         /\ \A q \in Proc : \A a \in ranked[q] : \A r \in View(p).rows :
              a.rowid = r.rowid => a.path = r.path
<1>1. CASE writer = p
  <2>1. p # Nobody
    BY VaultOK DEF Proc
  <2> QED BY <1>1, <2>1 DEF IndexInv, Tables, Ranks, View
<1>2. CASE writer = Nobody
  <2>1. View(p) = db
    BY <1>2, VaultOK DEF View, Proc
  <2>2. Good(db) /\ db.seq \in Nat
    BY DEF IndexInv, Tables, Good, Database
  <2> QED BY <2>1, <2>2 DEF IndexInv, Ranks, SameNotes, Good, Agree
<1> QED BY <1>1, <1>2 DEF MayWrite

\* The notes on disk, and the bounds, are all that these steps change.
LEMMA DiskSteps ==
  ASSUME IndexInv, NEW n \in Note, Remove(n) \/ \E c \in Content : Save(n, c)
  PROVE  IndexInv'
<1>1. UNCHANGED <<db, tx, writer, pc, at, hand, listing, changed, cache, version, since, ranked,
                  nRebuilds, nCrashes>>
  BY DEF Remove, Save, indexVars, searchVars, counters
<1>2. disk' \in [Note -> Content \cup {NoFile}] /\ nWrites' \in Nat
  <2>1. disk \in [Note -> Content \cup {NoFile}] /\ nWrites \in Nat
    BY DEF IndexInv, TypeOK
  <2>2. CASE Remove(n)
    BY <2>1, <2>2 DEF Remove
  <2>3. CASE \E c \in Content : Save(n, c)
    BY <2>1, <2>3 DEF Save
  <2> QED BY <2>2, <2>3
<1>3. TypeOK'
  BY <1>1, <1>2 DEF IndexInv, TypeOK
<1> QED BY <1>1, <1>3 DEF IndexInv, Tables, Hands, View, Versions, CacheFresh, Ranks

\* Steps of a run that change neither the database nor what a search holds.
LEMMA WalkSteps ==
  ASSUME IndexInv, NEW p \in Proc, IndexBegin(p) \/ PassNote(p) \/ ListFiles(p)
  PROVE  IndexInv'
<1>1. Len(Path) \in Nat /\ Nobody \notin Proc
  BY VaultOK DEF Proc
<1>2. UNCHANGED <<disk, nWrites, db, tx, writer, hand, changed, cache, version, since, ranked,
                  nRebuilds, nCrashes>>
  BY DEF IndexBegin, PassNote, ListFiles, diskVars, searchVars, counters
<1>3. /\ pc' \in [Proc -> {"idle", "walk", "write", "purge",
                           "rank", "version", "load", "mask", "fetch"}]
      /\ \A q \in Proc : pc'[q] # pc[q] => q = p /\ pc'[q] \in {"walk", "purge"}
      /\ pc[p] = "idle" \/ pc'[p] \in {"walk", "purge"}
  BY DEF IndexInv, TypeOK, IndexBegin, PassNote, ListFiles
<1>4. at' \in [Proc -> 0..(Len(Path) + 1)] /\ listing' \in [Proc -> SUBSET Note]
  <2>1. CASE IndexBegin(p)
    BY <1>1, <2>1 DEF IndexInv, TypeOK, IndexBegin
  <2>2. CASE PassNote(p)
    <3>1. at[p] \in 0..(Len(Path) + 1) /\ at[p] + 1 \in 0..(Len(Path) + 1)
      BY <1>1, <2>2 DEF IndexInv, TypeOK, PassNote
    <3> QED BY <2>2, <3>1 DEF IndexInv, TypeOK, PassNote
  <2>3. CASE ListFiles(p)
    BY <2>3 DEF IndexInv, TypeOK, ListFiles
  <2> QED BY <2>1, <2>2, <2>3
<1>5. TypeOK'
  BY <1>1, <1>2, <1>3, <1>4 DEF IndexInv, TypeOK
<1>6. Hands'
  <2>1. \A q \in Proc : pc'[q] = "walk" => at'[q] \in 1..(Len(Path) + 1)
    BY <1>1 DEF IndexInv, TypeOK, Hands, IndexBegin, PassNote, ListFiles
  <2>2. \A q \in Proc : pc'[q] = "write" => pc[q] = "write" /\ at'[q] = at[q]
    BY DEF IndexInv, TypeOK, IndexBegin, PassNote, ListFiles
  <2> QED BY <1>2, <2>1, <2>2 DEF IndexInv, Hands, View
<1> QED BY <1>2, <1>5, <1>6 DEF IndexInv, Tables, Versions, CacheFresh, Ranks

\* reindex: no transaction is open, and the version grows.
LEMMA ReindexStep ==
  ASSUME IndexInv, NEW p \in Proc, ReindexBegin(p)
  PROVE  IndexInv'
<1> DEFINE empty == [db EXCEPT !.rows = {}, !.fts = {}, !.vec = {}]
<1>1. Len(Path) \in Nat /\ Nobody \notin Proc /\ db \in Database
  BY VaultOK DEF Proc, IndexInv, TypeOK
<1>2. UNCHANGED <<disk, nWrites, tx, writer, hand, listing, changed, cache, version, since, ranked,
                  nCrashes>> /\ writer = Nobody /\ db' = _bump_version(empty)
  BY DEF ReindexBegin, diskVars, searchVars, Connects
<1>3. /\ empty.rows = {} /\ empty.fts = {} /\ empty.vec = {}
      /\ empty.version = db.version /\ empty.seq = db.seq /\ empty \in Database
  BY <1>1 DEF Database
<1>4. Good(empty)
  BY <1>3 DEF Good, Agree, Bounded
<1>5. /\ Good(db') /\ db'.version = db.version + 1 /\ db'.rows = {} /\ db'.seq = db.seq
  BY <1>2, <1>3, <1>4, BumpGood
<1>6. TypeOK'
  <2>1. /\ pc' \in [Proc -> {"idle", "walk", "write", "purge",
                             "rank", "version", "load", "mask", "fetch"}]
        /\ \A q \in Proc : pc'[q] = "write" => pc[q] = "write"
        /\ at' \in [Proc -> 0..(Len(Path) + 1)] /\ nRebuilds' \in Nat
    BY <1>1 DEF IndexInv, TypeOK, ReindexBegin
  <2> QED BY <1>2, <1>5, <2>1 DEF IndexInv, TypeOK, Good
<1>7. Hands'
  <2>1. \A q \in Proc : /\ pc'[q] = "write" => pc[q] = "write" /\ at'[q] = at[q]
                        /\ pc'[q] = "walk" => at'[q] = 1 \/ (pc[q] = "walk" /\ at'[q] = at[q])
    BY DEF IndexInv, TypeOK, ReindexBegin
  <2>2. \A q \in Proc : View(q) = db /\ View(q)' = db'
    BY <1>1, <1>2 DEF View
  <2> QED BY <1>1, <1>2, <1>5, <2>1, <2>2 DEF IndexInv, Hands
<1>8. Versions' /\ CacheFresh'
  <2>1. db.version \in Nat /\ \A q \in Proc : cache[q].version \in Int /\ version[q] \in Nat /\ since[q] \in Nat
    BY <1>1 DEF Database, IndexInv, TypeOK, NoCache
  <2> QED BY <1>2, <1>5, <2>1 DEF IndexInv, Versions, CacheFresh
<1> QED BY <1>2, <1>5, <1>6, <1>7, <1>8 DEF IndexInv, Tables, Ranks

\* The end of a run that commits nothing.
LEMMA EndRunStep ==
  ASSUME IndexInv, NEW p \in Proc, EndRun(p),
         UNCHANGED <<db, cache, version, since, ranked>>,
         disk' = disk, nWrites' = nWrites, nRebuilds' \in Nat, nCrashes' \in Nat
  PROVE  IndexInv'
<1>1. TypeOK'
  BY EndRunType DEF IndexInv, TypeOK
<1>2. Tables' /\ Ranks'
  BY EndRunType DEF IndexInv, Tables, Ranks
<1>3. Hands'
  <2>0. \A q \in Proc : pc'[q] = "walk" => pc[q] = "walk" /\ at'[q] = at[q]
    BY DEF IndexInv, TypeOK, EndRun
  <2>1. SUFFICES ASSUME NEW q \in Proc, pc'[q] = "write"
                 PROVE  at'[q] \in 1..Len(Path) /\ hand'[q].row <= View(q)'.seq
    BY <2>0 DEF Hands, IndexInv
  <2>2. hand'[q] = hand[q] /\ pc[q] = "write" /\ q # p /\ at'[q] = at[q]
    BY <2>1, EndRunType DEF IndexInv, TypeOK, EndRun
  <2>3. View(q)' = View(q)
    <3>1. q # Nobody
      BY VaultOK DEF Proc
    <3> QED BY <2>2, <3>1 DEF View, EndRun
  <2> QED BY <2>2, <2>3 DEF IndexInv, Hands
<1> QED BY <1>1, <1>2, <1>3 DEF IndexInv, Versions, CacheFresh

\* A note is read, or its level ends the run.
LEMMA ReadStep ==
  ASSUME IndexInv, NEW p \in Proc, ReadNote(p)
  PROVE  IndexInv'
<1> DEFINE n == Path[at[p]]
<1>1. n \in Note /\ disk[n] \in Content
  <2>1. at[p] \in DOMAIN Path
    BY VaultOK DEF IndexInv, TypeOK, Hands, ReadNote
  <2>2. n \in Note
    BY <2>1 DEF Note
  <2> QED BY <2>2 DEF ReadNote, Same, IndexInv, TypeOK
<1>2. UNCHANGED <<disk, nWrites, db, cache, version, since, ranked, nRebuilds, nCrashes>>
  BY DEF ReadNote, diskVars, searchVars, counters
<1>3. CASE RaisesOnRead(disk[n])
  <2>1. EndRun(p)
    BY <1>3 DEF ReadNote
  <2>2. nRebuilds' \in Nat /\ nCrashes' \in Nat
    BY <1>2 DEF IndexInv, TypeOK
  <2> QED BY <1>2, <2>1, <2>2, EndRunStep
<1>4. CASE ~RaisesOnRead(disk[n])
  <2> DEFINE h == [path |-> n, content |-> disk[n], row |-> RowidAt(View(p), n)]
  <2>1. /\ hand' = [hand EXCEPT ![p] = h] /\ pc' = [pc EXCEPT ![p] = "write"]
        /\ UNCHANGED <<at, tx, writer, listing, changed>>
    BY <1>4 DEF ReadNote
  <2>2. RowidAt(View(p), n) \in Nat /\ RowidAt(View(p), n) <= View(p).seq
    <3>1. Good(View(p))
      BY VaultOK DEF IndexInv, Tables, View, Proc
    <3>2. CASE RowsAt(View(p), n) = {}
      BY <3>1, <3>2 DEF RowidAt, Good, Database
    <3>3. CASE RowsAt(View(p), n) # {}
      <4>1. PICK r \in RowsAt(View(p), n) : r = CHOOSE x \in RowsAt(View(p), n) : TRUE
        BY <3>3
      <4>2. RowidAt(View(p), n) = r.rowid /\ r \in View(p).rows
        BY <3>3, <4>1 DEF RowidAt, RowsAt
      <4> QED BY <3>1, <4>2 DEF Good, Database, RowType, Bounded
    <3> QED BY <3>2, <3>3
  <2>3. h \in [path: Note, content: Content, row: Nat] /\ h # NoHand
    <3>1. h.content # NoFile /\ NoHand.content = NoFile
      BY <1>1, VaultOK DEF NoHand
    <3> QED BY <1>1, <2>2, <3>1
  <2>4. TypeOK'
    <3>1. /\ hand' \in [Proc -> [path: Note, content: Content, row: Nat] \cup {NoHand}]
          /\ pc' \in [Proc -> {"idle", "walk", "write", "purge",
                               "rank", "version", "load", "mask", "fetch"}]
      BY <2>1, <2>3 DEF IndexInv, TypeOK
    <3>2. \A q \in Proc : pc'[q] = "write" => hand'[q] # NoHand
      BY <2>1, <2>3 DEF IndexInv, TypeOK
    <3>3. writer # Nobody => pc'[writer] \in {"walk", "write", "purge"}
      BY <2>1 DEF IndexInv, TypeOK
    <3> QED BY <1>2, <2>1, <3>1, <3>2, <3>3 DEF IndexInv, TypeOK
  <2>5. Hands'
    <3>1. at[p] \in 1..Len(Path)
      BY VaultOK DEF IndexInv, TypeOK, Hands, ReadNote
    <3>2. \A q \in Proc : View(q)' = View(q) /\ at'[q] = at[q]
      BY <1>2, <2>1 DEF View
    <3> QED BY <2>1, <2>2, <3>1, <3>2 DEF IndexInv, TypeOK, Hands
  <2> QED BY <1>2, <2>1, <2>4, <2>5 DEF IndexInv, Tables, Versions, CacheFresh, Ranks
<1> QED BY <1>3, <1>4

\* A row is written into the open transaction.
LEMMA WriteStep ==
  ASSUME IndexInv, NEW p \in Proc, WriteRow(p)
  PROVE  IndexInv'
<1> DEFINE h == hand[p]
           model == p \in Embeds
<1>1. UNCHANGED <<disk, nWrites, db, cache, version, since, ranked, nRebuilds, nCrashes>>
  BY DEF WriteRow, diskVars, searchVars, counters
<1>2. CASE h.row = 0 /\ RowsAt(View(p), h.path) # {}
  <2>1. EndRun(p)
    BY <1>2 DEF WriteRow
  <2>2. nRebuilds' \in Nat /\ nCrashes' \in Nat
    BY <1>1 DEF IndexInv, TypeOK
  <2> QED BY <1>1, <2>1, <2>2, EndRunStep
<1>3. CASE ~(h.row = 0 /\ RowsAt(View(p), h.path) # {})
  <2>1. /\ tx' = IF h.row = 0 THEN Inserted(View(p), h.path, h.content, model)
                 ELSE Updated(View(p), h.row, h.content, model)
        /\ writer' = p /\ changed' = [changed EXCEPT ![p] = TRUE]
        /\ pc' = [pc EXCEPT ![p] = "walk"] /\ at' = [at EXCEPT ![p] = @ + 1]
        /\ hand' = [hand EXCEPT ![p] = NoHand] /\ UNCHANGED listing
    BY <1>3 DEF WriteRow
  <2>2. /\ h.path \in Note /\ h.content \in Content /\ h.row \in Nat /\ h.row <= View(p).seq
        /\ model \in BOOLEAN /\ p # Nobody
    BY VaultOK DEF WriteRow, IndexInv, TypeOK, Hands, Proc
  <2>3. /\ Good(View(p)) /\ View(p).version = db.version /\ View(p).seq >= db.seq
        /\ SameNotes(db, View(p))
        /\ \A q \in Proc : \A a \in ranked[q] : \A r \in View(p).rows :
             a.rowid = r.rowid => a.path = r.path
    BY ViewGood DEF WriteRow
  <2>4. /\ db.seq \in Nat /\ View(p).seq \in Nat
        /\ \A q \in Proc : \A a \in ranked[q] : a.rowid \in Nat /\ a.rowid <= db.seq
        /\ \A r \in db.rows : r.rowid \in Nat /\ r.rowid <= db.seq
    BY <2>3 DEF IndexInv, TypeOK, Ranks, Tables, Good, Database, RowType, Bounded
  <2> HIDE DEF h, model
  <2>5. /\ Good(tx') /\ tx'.version = db.version /\ tx'.seq >= db.seq
        /\ SameNotes(db, tx')
        /\ \A q \in Proc : \A a \in ranked[q] : \A r \in tx'.rows :
             a.rowid = r.rowid => a.path = r.path
    <3>1. CASE h.row = 0
      <4>1. tx' = Inserted(View(p), h.path, h.content, model) /\ RowsAt(View(p), h.path) = {}
        BY <1>3, <2>1, <3>1
      <4>2. /\ Good(tx') /\ tx'.version = View(p).version /\ tx'.seq = View(p).seq + 1
            /\ tx'.rows = View(p).rows \cup
                 {[rowid |-> View(p).seq + 1, path |-> h.path, content |-> h.content]}
        BY <2>2, <2>3, <4>1, InsertedGood
      <4> QED BY <2>3, <2>4, <4>2 DEF SameNotes
    <3>2. CASE h.row # 0
      <4>1. tx' = Updated(View(p), h.row, h.content, model)
        BY <2>1, <3>2
      <4>2. /\ Good(tx') /\ tx'.version = View(p).version /\ tx'.seq = View(p).seq
            /\ \A r \in tx'.rows : \E s \in View(p).rows : s.rowid = r.rowid /\ s.path = r.path
        BY <2>2, <2>3, <4>1, UpdatedGood
      <4> QED BY <2>3, <4>2 DEF SameNotes
    <3> QED BY <3>1, <3>2
  <2>6. TypeOK'
    <3>1. Len(Path) \in Nat /\ at[p] \in 1..Len(Path) /\ at[p] + 1 \in 0..(Len(Path) + 1)
      BY VaultOK DEF IndexInv, TypeOK, Hands, WriteRow
    <3>2. /\ pc' \in [Proc -> {"idle", "walk", "write", "purge",
                               "rank", "version", "load", "mask", "fetch"}]
          /\ at' \in [Proc -> 0..(Len(Path) + 1)]
          /\ hand' \in [Proc -> [path: Note, content: Content, row: Nat] \cup {NoHand}]
          /\ changed' \in [Proc -> BOOLEAN]
      BY <2>1, <3>1 DEF IndexInv, TypeOK
    <3>3. \A q \in Proc : pc'[q] = "write" => hand'[q] # NoHand
      BY <2>1 DEF IndexInv, TypeOK
    <3>4. pc'[p] = "walk" /\ changed'[p]
      BY <2>1 DEF IndexInv, TypeOK
    <3> QED BY <1>1, <2>1, <2>5, <3>2, <3>3, <3>4 DEF IndexInv, TypeOK, Good
  <2>7. Tables' /\ Ranks'
    BY <1>1, <2>1, <2>4, <2>5 DEF IndexInv, Tables, Ranks
  <2>8. Hands'
    <3>1. Len(Path) \in Nat /\ at[p] \in 1..Len(Path)
      BY VaultOK DEF IndexInv, Hands, WriteRow
    <3>2. \A q \in Proc : q # p => View(q)' = View(q)
      <4>1. \A q \in Proc : q # p => writer # q
        BY VaultOK DEF WriteRow, MayWrite, Proc
      <4> QED BY <1>1, <2>1, <4>1 DEF View
    <3>3. \A q \in Proc : /\ pc'[q] = (IF q = p THEN "walk" ELSE pc[q])
                          /\ at'[q] = (IF q = p THEN at[p] + 1 ELSE at[q])
                          /\ q # p => hand'[q] = hand[q]
      BY <2>1 DEF IndexInv, TypeOK
    <3> QED BY <3>1, <3>2, <3>3 DEF IndexInv, Hands
  <2> QED BY <1>1, <2>6, <2>7, <2>8 DEF IndexInv, Versions, CacheFresh
<1> QED BY <1>2, <1>3

\* A run that waited too long for the lock, or met a note with a list in a column.
LEMMA TimeoutStep ==
  ASSUME IndexInv, NEW p \in Proc, LockTimeout(p) \/ BindFails(p)
  PROVE  IndexInv'
<1>1. /\ UNCHANGED <<disk, nWrites, db, cache, version, since, ranked, nRebuilds, nCrashes>>
      /\ EndRun(p)
  BY DEF LockTimeout, BindFails, diskVars, searchVars, counters
<1>2. nRebuilds' \in Nat /\ nCrashes' \in Nat
  BY <1>1 DEF IndexInv, TypeOK
<1> QED BY <1>1, <1>2, EndRunStep

\* A process dies: its transaction and its memory are gone.
LEMMA CrashStep ==
  ASSUME IndexInv, NEW p \in Proc, Crash(p)
  PROVE  IndexInv'
<1>1. /\ UNCHANGED <<disk, nWrites, db, nRebuilds>> /\ EndRun(p) /\ nCrashes' = nCrashes + 1
      /\ cache' = [cache EXCEPT ![p] = NoCache] /\ ranked' = [ranked EXCEPT ![p] = {}]
      /\ version' = [version EXCEPT ![p] = 0] /\ since' = [since EXCEPT ![p] = 0]
  BY DEF Crash, diskVars
<1>2. TypeOK'
  BY <1>1, EndRunType DEF IndexInv, TypeOK
<1>3. Tables'
  BY <1>1, EndRunType DEF IndexInv, Tables
<1>4. Ranks'
  <2>1. \A q \in Proc : ranked'[q] \subseteq ranked[q]
    BY <1>1 DEF IndexInv, TypeOK
  <2>2. writer' # Nobody => writer # Nobody /\ tx' = tx
    BY <1>1, EndRunType DEF IndexInv
  <2> QED BY <1>1, <2>1, <2>2 DEF IndexInv, Ranks
<1>5. Hands'
  <2>1. \A q \in Proc : /\ pc'[q] = "walk" => pc[q] = "walk" /\ at'[q] = at[q]
                        /\ pc'[q] = "write" => /\ pc[q] = "write" /\ q # p /\ at'[q] = at[q]
                                              /\ hand'[q] = hand[q]
    BY <1>1 DEF IndexInv, TypeOK, EndRun
  <2>2. \A q \in Proc : q # p => View(q)' = View(q)
    <3>1. Nobody \notin Proc
      BY VaultOK DEF Proc
    <3> QED BY <1>1, <3>1 DEF View, EndRun
  <2> QED BY <2>1, <2>2 DEF IndexInv, Hands
<1>6. Versions' /\ CacheFresh'
  <2>1. db.version \in Nat /\ NoCache.version = -1
    BY DEF IndexInv, TypeOK, Database, NoCache
  <2> QED BY <1>1, <2>1 DEF IndexInv, TypeOK, Versions, CacheFresh
<1> QED BY <1>2, <1>3, <1>4, <1>5, <1>6 DEF IndexInv

\* A run commits, or ends without a change.
LEMMA CommitStep ==
  ASSUME IndexInv, NEW p \in Proc, Commit(p)
  PROVE  IndexInv'
<1>1. /\ UNCHANGED <<disk, nWrites, cache, version, since, ranked, nRebuilds, nCrashes>>
      /\ EndRun(p)
  BY DEF Commit, diskVars, searchVars, counters
<1>2. nRebuilds' \in Nat /\ nCrashes' \in Nat
  BY <1>1 DEF IndexInv, TypeOK
<1>3. CASE db' = db
  BY <1>1, <1>2, <1>3, EndRunStep
<1>4. CASE db' # db
  <2> DEFINE purged == _purge_deleted(View(p), listing[p])
  <2>1. MayWrite(p) /\ db' = _bump_version(purged)
    BY <1>4 DEF Commit
  <2>2. /\ Good(View(p)) /\ View(p).version = db.version /\ View(p).seq >= db.seq
        /\ SameNotes(db, View(p))
        /\ \A q \in Proc : \A a \in ranked[q] : \A r \in View(p).rows :
             a.rowid = r.rowid => a.path = r.path
    BY <2>1, ViewGood
  <2>3. /\ Good(purged) /\ purged.version = View(p).version /\ purged.seq = View(p).seq
        /\ purged.rows \subseteq View(p).rows
    BY <2>2, PurgeGood
  <2> HIDE DEF purged
  <2>4. /\ Good(db') /\ db'.version = db.version + 1 /\ db'.seq >= db.seq
        /\ db'.rows \subseteq View(p).rows
    BY <2>1, <2>2, <2>3, BumpGood
  <2>5. writer' = Nobody /\ db.version \in Nat /\ db.seq \in Nat /\ db'.seq \in Nat
    BY <1>1, <2>1, <2>4 DEF EndRun, MayWrite, IndexInv, TypeOK, Good, Database
  <2>6. TypeOK' /\ Tables'
    BY <1>1, <1>2, <2>4, <2>5, EndRunType DEF IndexInv, TypeOK, Tables, Good
  <2>7. Ranks'
    <3>1. \A q \in Proc : \A a \in ranked[q] : a.rowid \in Nat /\ a.rowid <= db.seq
      BY DEF IndexInv, TypeOK, Ranks
    <3> QED BY <1>1, <2>2, <2>4, <2>5, <3>1 DEF Ranks
  <2>8. Hands'
    <3>1. \A q \in Proc : /\ pc'[q] = "walk" => pc[q] = "walk" /\ at'[q] = at[q]
                          /\ pc'[q] = "write" => /\ pc[q] = "write" /\ q # p /\ at'[q] = at[q]
                                                /\ hand'[q] = hand[q]
      BY <1>1 DEF IndexInv, TypeOK, EndRun
    <3>2. \A q \in Proc : q # p => View(q) = db /\ View(q)' = db'
      BY <2>1, <2>5, VaultOK DEF View, MayWrite, Proc
    <3>3. \A q \in Proc : pc[q] = "write" => hand[q].row \in Nat
      BY DEF IndexInv, TypeOK
    <3> QED BY <2>4, <2>5, <3>1, <3>2, <3>3 DEF IndexInv, Hands
  <2>9. Versions' /\ CacheFresh'
    <3>1. \A q \in Proc : cache[q].version \in Int /\ version[q] \in Nat /\ since[q] \in Nat
      BY DEF IndexInv, TypeOK, NoCache
    <3> QED BY <1>1, <2>4, <2>5, <3>1 DEF IndexInv, Versions, CacheFresh
  <2> QED BY <2>6, <2>7, <2>8, <2>9 DEF IndexInv
<1> QED BY <1>3, <1>4

\* What a search may rank are rows of the database.
LEMMA AllowedRows ==
  ASSUME IndexInv, NEW p, NEW ids, NEW a \in Allowed(p, ids)
  PROVE  /\ a \in [rowid: Nat, path: Note] /\ a.rowid <= db.seq
         /\ \A r \in db.rows : a.rowid = r.rowid => a.path = r.path
         /\ writer # Nobody => \A r \in tx.rows : a.rowid = r.rowid => a.path = r.path
<1>1. PICK x \in db.rows : a = [rowid |-> x.rowid, path |-> x.path]
  BY DEF Allowed
<1>2. x \in RowType
  BY DEF IndexInv, TypeOK, Database
<1> QED BY <1>1, <1>2 DEF RowType, IndexInv, Tables, Good, Agree, Bounded, SameNotes

\* The steps of a search leave the database alone.
LEMMA SearchSteps ==
  ASSUME IndexInv, NEW p \in Proc, SearchBegin(p) \/ SearchStep(p)
  PROVE  IndexInv'
<1>1. UNCHANGED <<disk, nWrites, db, tx, writer, at, hand, listing, changed, nRebuilds, nCrashes>>
  BY DEF SearchBegin, SearchStep, Rank, ReadVersion, LoadMatrix, Mask, Fetch, diskVars, indexVars, counters
<1>2. /\ pc' \in [Proc -> {"idle", "walk", "write", "purge",
                           "rank", "version", "load", "mask", "fetch"}]
      /\ \A q \in Proc : pc'[q] \in {"walk", "write", "purge"} => pc'[q] = pc[q]
      /\ \A q \in Proc : pc[q] \in {"walk", "write", "purge"} => pc'[q] = pc[q]
  BY DEF SearchBegin, SearchStep, Rank, ReadVersion, LoadMatrix, Mask, Fetch, IndexInv, TypeOK
<1>3. db.version \in Nat /\ db.vec \subseteq EntryType
  BY DEF IndexInv, TypeOK, Database
<1>4. /\ version' \in [Proc -> Nat] /\ since' \in [Proc -> Nat]
      /\ \A q \in Proc : version'[q] <= db.version /\ since'[q] <= db.version
  <2>1. \/ version' = version
        \/ version' = [version EXCEPT ![p] = db.version]
        \/ version' = [version EXCEPT ![p] = 0]
    BY DEF SearchBegin, SearchStep, Rank, ReadVersion, LoadMatrix, Mask, Fetch, searchVars
  <2>2. \/ since' = since
        \/ since' = [since EXCEPT ![p] = db.version]
        \/ since' = [since EXCEPT ![p] = 0]
    BY DEF SearchBegin, SearchStep, Rank, ReadVersion, LoadMatrix, Mask, Fetch, searchVars
  <2>3. /\ version \in [Proc -> Nat] /\ since \in [Proc -> Nat] /\ 0 <= db.version
        /\ \A q \in Proc : version[q] <= db.version /\ since[q] <= db.version
    BY <1>3 DEF IndexInv, TypeOK, Versions
  <2>4. /\ version' \in [Proc -> Nat]
        /\ \A q \in Proc : version'[q] <= db.version
    BY <1>3, <2>1, <2>3
  <2>5. /\ since' \in [Proc -> Nat]
        /\ \A q \in Proc : since'[q] <= db.version
    BY <1>3, <2>2, <2>3
  <2> QED BY <2>4, <2>5
<1>5. /\ cache' \in [Proc -> [version: Nat, vec: SUBSET EntryType] \cup {NoCache}]
      /\ \A q \in Proc : cache'[q].version <= db.version
      /\ CacheFresh'
  <2>1. CASE LoadMatrix(p)
    BY <1>1, <1>3, <2>1 DEF LoadMatrix, IndexInv, TypeOK, Versions, CacheFresh
  <2>2. CASE ~LoadMatrix(p)
    <3>1. UNCHANGED cache
      BY <2>2 DEF SearchBegin, SearchStep, Rank, ReadVersion, Mask, Fetch
    <3> QED BY <1>1, <3>1 DEF IndexInv, TypeOK, Versions, CacheFresh
  <2> QED BY <2>1, <2>2
<1>6. \E ids : ranked' = [ranked EXCEPT ![p] = @ \cup Allowed(p, ids)] \/ ranked' = ranked
              \/ ranked' = [ranked EXCEPT ![p] = Allowed(p, ids)]
              \/ ranked' = [ranked EXCEPT ![p] = {}]
  <2>1. CASE Rank(p)
    BY <2>1 DEF Rank
  <2>2. CASE Mask(p)
    BY <2>2 DEF Mask
  <2>3. CASE ~Rank(p) /\ ~Mask(p)
    BY <2>3 DEF SearchBegin, SearchStep, ReadVersion, LoadMatrix, Fetch, searchVars
  <2> QED BY <2>1, <2>2, <2>3
<1>7. ranked' \in [Proc -> SUBSET [rowid: Nat, path: Note]] /\ Ranks'
  <2>1. PICK ids : ranked' = [ranked EXCEPT ![p] = @ \cup Allowed(p, ids)] \/ ranked' = ranked
                   \/ ranked' = [ranked EXCEPT ![p] = Allowed(p, ids)]
                   \/ ranked' = [ranked EXCEPT ![p] = {}]
    BY <1>6
  <2>2. \A q \in Proc : \A a \in ranked'[q] : a \in ranked[q] \/ a \in Allowed(p, ids)
    BY <2>1 DEF IndexInv, TypeOK
  <2>3. Allowed(p, ids) \subseteq [rowid: Nat, path: Note]
    BY AllowedRows
  <2>4. ranked' \in [Proc -> SUBSET [rowid: Nat, path: Note]]
    <3> DEFINE R == [rowid: Nat, path: Note]
    <3>1. ranked \in [Proc -> SUBSET R] /\ Allowed(p, ids) \subseteq R
      BY <2>3 DEF IndexInv, TypeOK
    <3> HIDE DEF R
    <3>2. ranked' \in [Proc -> SUBSET R]
      BY <2>1, <3>1
    <3> QED BY <3>2 DEF R
  <2> QED BY <1>1, <2>2, <2>4, AllowedRows DEF IndexInv, Ranks
<1>8. TypeOK'
  BY <1>1, <1>2, <1>4, <1>5, <1>7 DEF IndexInv, TypeOK
<1>9. Hands'
  BY <1>1, <1>2 DEF IndexInv, Hands, View
<1> QED BY <1>1, <1>4, <1>5, <1>7, <1>8, <1>9 DEF IndexInv, Tables, Versions

LEMMA IndexInit == Init => IndexInv
<1> SUFFICES ASSUME Init PROVE IndexInv
  OBVIOUS
<1>1. Len(Path) \in Nat
  BY VaultOK
<1>2. TypeOK
  BY <1>1, EmptyGood DEF Init, TypeOK, Good
<1>3. db.rows = {} /\ db.version = 0 /\ db.seq = 0 /\ NoCache.version = -1
  BY DEF Init, EmptyDb, NoCache
<1> QED BY <1>2, <1>3, EmptyGood DEF Init, IndexInv, Tables, Hands, Versions, CacheFresh, Ranks

LEMMA IndexNext == IndexInv /\ [Next]_vars => IndexInv'
<1> SUFFICES ASSUME IndexInv, [Next]_vars PROVE IndexInv'
  OBVIOUS
<1>1. CASE \E n \in Note : Remove(n) \/ \E c \in Content : Save(n, c)
  BY <1>1, DiskSteps
<1>2. ASSUME NEW p \in Proc, IndexBegin(p) \/ PassNote(p) \/ ListFiles(p)
      PROVE  IndexInv'
  BY <1>2, WalkSteps
<1>3. ASSUME NEW p \in Proc, ReindexBegin(p)
      PROVE  IndexInv'
  BY <1>3, ReindexStep
<1>4. ASSUME NEW p \in Proc, ReadNote(p)
      PROVE  IndexInv'
  BY <1>4, ReadStep
<1>5. ASSUME NEW p \in Proc, WriteRow(p)
      PROVE  IndexInv'
  BY <1>5, WriteStep
<1>6. ASSUME NEW p \in Proc, LockTimeout(p) \/ BindFails(p)
      PROVE  IndexInv'
  BY <1>6, TimeoutStep
<1>7. ASSUME NEW p \in Proc, Commit(p)
      PROVE  IndexInv'
  BY <1>7, CommitStep
<1>8. ASSUME NEW p \in Proc, SearchBegin(p) \/ SearchStep(p)
      PROVE  IndexInv'
  BY <1>8, SearchSteps
<1>9. ASSUME NEW p \in Proc, Crash(p)
      PROVE  IndexInv'
  BY <1>9, CrashStep
<1>10. CASE UNCHANGED vars
  BY <1>10 DEF vars, diskVars, indexVars, searchVars, counters, IndexInv, TypeOK, Tables, Hands,
               View, Versions, CacheFresh, Ranks
<1> QED BY <1>1, <1>2, <1>3, <1>4, <1>5, <1>6, <1>7, <1>8, <1>9, <1>10 DEF Next, IndexStep

THEOREM IndexInvariant == Spec => []IndexInv
BY IndexInit, IndexNext, PTL DEF Spec

\* The types, in every run of the processes: the state of a run, a search and a transaction
\* fit together whatever the number of processes, notes and agents.
THEOREM TypeCorrect == Spec => []TypeOK
<1>1. IndexInv => TypeOK
  BY DEF IndexInv
<1> QED BY <1>1, IndexInvariant, PTL

\* _index_one, _purge_deleted and reindex keep the three tables in agreement, committed and
\* in the open transaction, in whatever order the processes run them and wherever they die.
THEOREM TablesAlwaysAgree == Spec => []TablesAgree
<1>1. IndexInv => TablesAgree
  BY DEF IndexInv, Tables, Good, TablesAgree
<1> QED BY <1>1, IndexInvariant, PTL

\* _load_embed_matrix: vectors kept under the present version are those of the index.
THEOREM CachesFresh == Spec => []CacheFresh
<1>1. IndexInv => CacheFresh
  BY DEF IndexInv
<1> QED BY <1>1, IndexInvariant, PTL

\* search: a rowid that was ranked never comes to name another note (AUTOINCREMENT).
THEOREM RowidsKept == Spec => []RowidsNameOneNote
<1>1. IndexInv => RowidsNameOneNote
  BY DEF IndexInv, Ranks, RowidsNameOneNote
<1> QED BY <1>1, IndexInvariant, PTL

-----------------------------------------------------------------------------
(* What a search has ranked *)

Words(p) == Allowed(p, Rowids({e \in db.fts : e.content \in Matches}))

\* What a search since whose beginning nobody has committed holds at each step.
Ranking(p) ==
  /\ pc[p] \in {"version", "load", "mask"} => p \in Embeds /\ ranked[p] = Words(p)
  /\ pc[p] = "load" => version[p] = db.version
  /\ pc[p] = "mask" => cache[p].version = db.version
  /\ pc[p] = "fetch" =>
       ranked[p] = Words(p) \cup (IF p \in Embeds THEN Allowed(p, Rowids(db.vec)) ELSE {})
Exact == \A p \in Agent : since[p] = db.version => Ranking(p)

\* A step that leaves the database and a search alone leaves its ranking alone.
LEMMA RankingKept ==
  ASSUME NEW q, Ranking(q), db' = db,
         pc'[q] \in {"version", "load", "mask", "fetch"} =>
           /\ pc'[q] = pc[q] /\ ranked'[q] = ranked[q] /\ version'[q] = version[q]
           /\ cache'[q] = cache[q]
  PROVE  Ranking(q)'
BY DEF Ranking, Words, Allowed, _meta_where

\* A change of the database leaves every search behind.
LEMMA ChangeOutdates ==
  ASSUME IndexInv, since' = since, db'.version = db.version + 1
  PROVE  Exact'
<1>1. db.version \in Nat /\ \A q \in Agent : since[q] \in Nat /\ since[q] <= db.version
  BY DEF IndexInv, TypeOK, Versions, Database, Proc
<1> QED BY <1>1 DEF Exact

\* Saves, removals, index runs and deaths.
LEMMA ExactOther ==
  ASSUME IndexInv, Exact, NEW p \in Proc,
         \/ IndexBegin(p) \/ ReindexBegin(p) \/ IndexStep(p) \/ Crash(p)
  PROVE  Exact'
<1>1. CASE ReindexBegin(p)
  <2>1. db'.version = db.version + 1
    BY <1>1 DEF ReindexBegin, _bump_version, IndexInv, TypeOK, Database
  <2> QED BY <1>1, <2>1, ChangeOutdates DEF ReindexBegin, searchVars
<1>2. CASE Commit(p) /\ db' # db
  <2>1. /\ db' = _bump_version(_purge_deleted(View(p), listing[p])) /\ since' = since
        /\ MayWrite(p)
    BY <1>2 DEF Commit, searchVars
  <2>2. Good(View(p)) /\ View(p).version = db.version
    BY <2>1, ViewGood
  <2>3. db'.version = db.version + 1
    BY <2>1, <2>2, PurgeGood, BumpGood
  <2> QED BY <2>1, <2>3, ChangeOutdates
<1>3. CASE Crash(p)
  <2>1. /\ db' = db /\ pc' = [pc EXCEPT ![p] = "idle"] /\ cache' = [cache EXCEPT ![p] = NoCache]
        /\ ranked' = [ranked EXCEPT ![p] = {}] /\ version' = [version EXCEPT ![p] = 0]
        /\ since' = [since EXCEPT ![p] = 0]
    BY <1>3 DEF Crash, EndRun
  <2>2. p \in Agent => pc'[p] = "idle"
    BY <2>1 DEF IndexInv, TypeOK
  <2>3. \A q \in Agent : q # p => /\ since'[q] = since[q] /\ pc'[q] = pc[q]
                                  /\ ranked'[q] = ranked[q] /\ version'[q] = version[q]
                                  /\ cache'[q] = cache[q]
    BY <2>1 DEF IndexInv, TypeOK, Proc
  <2>4. ASSUME NEW q \in Agent, since'[q] = db'.version
        PROVE  Ranking(q)'
    <3>1. CASE q = p
      BY <2>2, <3>1 DEF Ranking
    <3>2. CASE q # p
      BY <2>1, <2>3, <2>4, <3>2, RankingKept DEF Exact
    <3> QED BY <3>1, <3>2
  <2> QED BY <2>4 DEF Exact
<1>4. CASE /\ IndexBegin(p) \/ PassNote(p) \/ ReadNote(p) \/ WriteRow(p) \/ LockTimeout(p)
              \/ BindFails(p) \/ ListFiles(p) \/ Commit(p)
           /\ db' = db
  <2>1. UNCHANGED <<cache, ranked, version, since>>
    BY <1>4 DEF IndexBegin, PassNote, ReadNote, WriteRow, LockTimeout, BindFails, ListFiles, Commit,
                searchVars
  <2>2. pc' = pc \/ \E w \in {"idle", "walk", "write", "purge"} : pc' = [pc EXCEPT ![p] = w]
    BY <1>4 DEF IndexBegin, PassNote, ReadNote, WriteRow, LockTimeout, BindFails, ListFiles, Commit,
                EndRun
  <2>3. \A q \in Agent : pc'[q] \in {"version", "load", "mask", "fetch"} => pc'[q] = pc[q]
    BY <2>2 DEF IndexInv, TypeOK, Proc
  <2> QED BY <1>4, <2>1, <2>3, RankingKept DEF Exact
<1>5. IndexBegin(p) \/ PassNote(p) \/ ReadNote(p) \/ WriteRow(p) \/ LockTimeout(p)
        \/ BindFails(p) \/ ListFiles(p) => db' = db
  BY DEF IndexBegin, PassNote, ReadNote, WriteRow, LockTimeout, BindFails, ListFiles
<1> QED BY <1>1, <1>2, <1>3, <1>4, <1>5 DEF IndexStep

\* The steps of a search.
LEMMA ExactSearch ==
  ASSUME IndexInv, Exact, NEW p \in Proc, SearchBegin(p) \/ SearchStep(p)
  PROVE  Exact'
<1>1. db' = db
  BY DEF SearchBegin, SearchStep, Rank, ReadVersion, LoadMatrix, Mask, Fetch
<1>2. ASSUME NEW q \in Agent, q # p, since'[q] = db'.version
      PROVE  Ranking(q)'
  <2>1. pc'[q] = pc[q] /\ cache'[q] = cache[q]
    BY <1>2 DEF SearchBegin, SearchStep, Rank, ReadVersion, LoadMatrix, Mask, Fetch,
                searchVars, IndexInv, TypeOK, Proc
  <2>2. ranked'[q] = ranked[q] /\ version'[q] = version[q] /\ since'[q] = since[q]
    BY <1>2 DEF SearchBegin, SearchStep, Rank, ReadVersion, LoadMatrix, Mask, Fetch,
                searchVars, IndexInv, TypeOK, Proc
  <2> QED BY <1>1, <1>2, <2>1, <2>2, RankingKept DEF Exact
<1>3. ASSUME p \in Agent, since'[p] = db'.version
      PROVE  Ranking(p)'
  <2>1. Words(p)' = Words(p) /\ \A ids : Allowed(p, ids)' = Allowed(p, ids)
    BY <1>1 DEF Words, Allowed, _meta_where
  <2>2. CASE SearchBegin(p)
    <3>1. pc'[p] = "rank"
      BY <2>2 DEF SearchBegin, IndexInv, TypeOK
    <3> QED BY <3>1 DEF Ranking
  <2>3. CASE Rank(p)
    <3>1. /\ ranked'[p] = Words(p)
          /\ pc'[p] = IF p \in Embeds THEN "version" ELSE "fetch"
      BY <2>3 DEF Rank, Words, IndexInv, TypeOK
    <3> QED BY <2>1, <3>1 DEF Ranking
  <2>4. CASE ReadVersion(p)
    <3>1. /\ ranked'[p] = ranked[p] /\ version'[p] = db.version /\ cache' = cache
          /\ pc[p] = "version" /\ since'[p] = since[p]
          /\ pc'[p] = IF cache[p].version = db.version THEN "mask" ELSE "load"
      BY <2>4 DEF ReadVersion, IndexInv, TypeOK
    <3>2. Ranking(p)
      BY <1>1, <1>3, <3>1 DEF Exact
    <3> QED BY <1>1, <2>1, <3>1, <3>2 DEF Ranking
  <2>5. CASE LoadMatrix(p)
    <3>1. /\ ranked' = ranked /\ since' = since /\ pc[p] = "load" /\ pc'[p] = "mask"
          /\ cache'[p].version = version[p]
      BY <2>5 DEF LoadMatrix, searchVars, IndexInv, TypeOK
    <3>2. Ranking(p)
      BY <1>1, <1>3, <3>1 DEF Exact
    <3> QED BY <1>1, <2>1, <3>1, <3>2 DEF Ranking
  <2>6. CASE Mask(p)
    <3>1. /\ since' = since /\ pc[p] = "mask" /\ pc'[p] = "fetch"
          /\ ranked'[p] = ranked[p] \cup Allowed(p, Rowids(cache[p].vec))
      BY <2>6 DEF Mask, IndexInv, TypeOK
    <3>2. p \in Embeds /\ ranked[p] = Words(p) /\ cache[p].version = db.version
      BY <1>1, <1>3, <3>1 DEF Exact, Ranking
    <3>3. cache[p].vec = db.vec
      BY <3>2 DEF IndexInv, CacheFresh
    <3>4. ranked'[p] = Words(p) \cup Allowed(p, Rowids(db.vec))
      BY <3>1, <3>2, <3>3
    <3>5. (Allowed(p, Rowids(db.vec)))' = Allowed(p, Rowids(db.vec))
      BY <1>1 DEF Allowed, _meta_where, Rowids
    <3> QED BY <2>1, <3>1, <3>2, <3>4, <3>5 DEF Ranking
  <2>7. CASE Fetch(p)
    <3>1. pc'[p] = "idle"
      BY <2>7 DEF Fetch, IndexInv, TypeOK
    <3> QED BY <3>1 DEF Ranking
  <2> QED BY <2>2, <2>3, <2>4, <2>5, <2>6, <2>7 DEF SearchStep
<1> QED BY <1>2, <1>3 DEF Exact

LEMMA ExactNext == IndexInv /\ Exact /\ [Next]_vars => Exact'
<1> SUFFICES ASSUME IndexInv, Exact, [Next]_vars PROVE Exact'
  OBVIOUS
<1>1. CASE (\E n \in Note : Remove(n) \/ \E c \in Content : Save(n, c)) \/ UNCHANGED vars
  <2>1. UNCHANGED <<db, pc, cache, ranked, version, since>>
    BY <1>1 DEF Remove, Save, vars, searchVars
  <2> QED BY <2>1, RankingKept DEF Exact
<1>2. ASSUME NEW p \in Proc, IndexBegin(p) \/ ReindexBegin(p) \/ IndexStep(p) \/ Crash(p)
      PROVE  Exact'
  BY <1>2, ExactOther
<1>3. ASSUME NEW p \in Proc, SearchBegin(p) \/ SearchStep(p)
      PROVE  Exact'
  BY <1>3, ExactSearch
<1> QED BY <1>1, <1>2, <1>3 DEF Next

\* _meta_where lets through what vault_schema says a viewer may read.
LEMMA FilterIsReaders ==
  ASSUME NEW p \in Agent, NEW c
  PROVE  _meta_where(p, c) <=> p \in Readers(c)
BY DEF _meta_where, Readers, normalize_visibility, default_visibility, Levels

\* Rowids are those of one row each: ranking rows and fetching them by rowid is the same.
LEMMA FetchedAreRanked ==
  ASSUME IndexInv, NEW p, NEW ids, NEW r \in db.rows
  PROVE  r.rowid \in Rowids(Allowed(p, ids)) <=> r.rowid \in ids /\ _meta_where(p, r.content)
<1>1. \A x \in db.rows : x.rowid = r.rowid => x = r
  BY DEF IndexInv, Tables, Good, Agree
<1>2. ASSUME r.rowid \in Rowids(Allowed(p, ids))
      PROVE  r.rowid \in ids /\ _meta_where(p, r.content)
  <2>1. PICK x \in db.rows : x.rowid \in ids /\ _meta_where(p, x.content) /\ x.rowid = r.rowid
    BY <1>2 DEF Rowids, Allowed
  <2> QED BY <1>1, <2>1
<1>3. ASSUME r.rowid \in ids, _meta_where(p, r.content)
      PROVE  r.rowid \in Rowids(Allowed(p, ids))
  <2>1. [rowid |-> r.rowid, path |-> r.path] \in Allowed(p, ids)
    BY <1>3 DEF Allowed
  <2> QED BY <2>1 DEF Rowids
<1> QED BY <1>2, <1>3

\* The words of a row are those of its content.
LEMMA WordsOfRow ==
  ASSUME IndexInv, NEW r \in db.rows
  PROVE  r.rowid \in Rowids({e \in db.fts : e.content \in Matches}) <=> r.content \in Matches
<1>1. {e \in db.fts : e.rowid = r.rowid} = {Entry(r.rowid, r.content)}
  BY DEF IndexInv, Tables, Good, Agree
<1>2. \A e \in db.fts : e.rowid = r.rowid => e.content = r.content
  BY <1>1 DEF Entry
<1>3. Entry(r.rowid, r.content) \in db.fts /\ Entry(r.rowid, r.content).rowid = r.rowid
  BY <1>1 DEF Entry
<1> QED BY <1>2, <1>3 DEF Rowids, Entry

\* search: a search during which nobody committed returns exactly the rows its process may
\* read that match, from words and vectors together.
THEOREM SearchesExact == Spec => []SearchExact
<1>1. Init => Exact
  BY DEF Init, Exact, Ranking, Proc
<1>2. IndexInv /\ Exact => SearchExact
  <2> SUFFICES ASSUME IndexInv, Exact, NEW p \in Agent, pc[p] = "fetch", since[p] = db.version,
                      NEW r \in db.rows
               PROVE  r.rowid \in Rowids(ranked[p]) <=>
                        /\ p \in Readers(r.content)
                        /\ \/ r.content \in Matches
                           \/ p \in Embeds /\ r.rowid \in Rowids(db.vec)
    BY DEF SearchExact, Results
  <2>1. ranked[p] = Words(p) \cup (IF p \in Embeds THEN Allowed(p, Rowids(db.vec)) ELSE {})
    BY DEF Exact, Ranking
  <2>2. r.rowid \in Rowids(ranked[p]) <=>
          \/ r.rowid \in Rowids(Words(p))
          \/ p \in Embeds /\ r.rowid \in Rowids(Allowed(p, Rowids(db.vec)))
    BY <2>1 DEF Rowids
  <2>3. r.rowid \in Rowids(Words(p)) <=> r.content \in Matches /\ _meta_where(p, r.content)
    BY FetchedAreRanked, WordsOfRow DEF Words
  <2>4. r.rowid \in Rowids(Allowed(p, Rowids(db.vec))) <=>
          r.rowid \in Rowids(db.vec) /\ _meta_where(p, r.content)
    BY FetchedAreRanked
  <2> QED BY <2>2, <2>3, <2>4, FilterIsReaders
<1> QED BY <1>1, <1>2, IndexInit, IndexNext, ExactNext, PTL DEF Spec
=============================================================================
