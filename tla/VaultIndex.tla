----------------------------- MODULE VaultIndex -----------------------------
(***************************************************************************)
(* The search index of the vault, vault_rag.py with the part of            *)
(* vault_integration.py that calls it.  Notes are files which agents,      *)
(* people in an editor and maintenance scripts write; the index is one     *)
(* SQLite file (WAL) which every process of the PC reads and brings up to  *)
(* date itself, and each process keeps the vectors in memory under the     *)
(* version of the index.  A process does one thing at a time.              *)
(*                                                                         *)
(* A read outside a transaction sees what is committed.  The first change  *)
(* of a run takes the write lock and opens the transaction, which ends     *)
(* with the run: `tx' is the database as its owner `writer' sees it.       *)
(***************************************************************************)
EXTENDS Integers, Sequences

CONSTANTS
  Path,         \* paths of note files, temporary ones and templates aside, as os.walk orders them
  Content,      \* records [type, role, team, visibility, form]: what a note may say
  NoFile,       \* what a path without a file holds
  Agent,        \* the agents' processes, which index and search
  Rebuilder,    \* processes that run `vault_rag.py reindex': one at every start
  Embeds,       \* processes in which the embedding model could be loaded
  Role, Team,   \* each agent as a viewer ("": none)
  Matches,      \* the contents that share a word with the query
  MaxWrites,    \* bound: notes written, edited or removed
  MaxRebuilds,  \* bound: rebuilds
  MaxCrashes    \* bound: deaths of a process

Note == {Path[i] : i \in DOMAIN Path}
Proc == Agent \cup Rebuilder
Nobody == "nobody"
NotText == "true"   \* a visibility that parse_note makes no text: `true', or a list of items
Levels  == {"private", "team", "org"}
\* A file that is not UTF-8, and a list for its id, type, role, team or date, are no
\* good form of a note.
Forms   == {"good", "bytes", "list"}

ASSUME VaultOK == /\ Path \in Seq(STRING) /\ NoFile \notin Content /\ Nobody \notin Proc
                  /\ Content \subseteq [type: STRING, role: STRING, team: STRING, visibility: STRING,
                                       form: Forms]
                  /\ Agent \cap Rebuilder = {} /\ Embeds \subseteq Proc /\ Matches \subseteq Content
                  /\ Role \in [Agent -> STRING] /\ Team \in [Agent -> STRING]
                  /\ MaxWrites \in Nat /\ MaxRebuilds \in Nat /\ MaxCrashes \in Nat

VARIABLES
  disk,      \* disk[n]: content of the file n
  db,        \* the committed database
  tx,        \* the database with the changes of the open transaction
  writer,    \* who holds the write lock
  pc,        \* where each process is
  at,        \* index: the note the walk has come to
  hand,      \* index: the note read, and the row found for it (0: none)
  listing,   \* index: the files found before the purge
  changed,   \* index: something was indexed
  cache,     \* _EMBED_CACHE: vectors and the version they are kept under
  version,   \* search: the version read
  ranked,    \* search: the rows that were ranked
  since,     \* search: version of the index when it began (observed)
  nWrites, nRebuilds, nCrashes

diskVars   == <<disk, nWrites>>
indexVars  == <<at, hand, listing, changed>>
searchVars == <<version, ranked, since>>
counters   == <<nRebuilds, nCrashes>>
vars == <<diskVars, db, tx, writer, pc, indexVars, cache, searchVars, counters>>

-----------------------------------------------------------------------------
(* Tables.  notes_fts is `fts', embeddings is `vec'; both are joined to notes by
   rowid.  AUTOINCREMENT keeps the largest rowid ever given in `seq'. *)

RowType   == [rowid: Nat, path: Note, content: Content]
EntryType == [rowid: Nat, content: Content]
Database  == [rows: SUBSET RowType, fts: SUBSET EntryType, vec: SUBSET EntryType,
              version: Nat, seq: Nat]
EmptyDb   == [rows |-> {}, fts |-> {}, vec |-> {}, version |-> 0, seq |-> 0]
NoCache   == [version |-> -1, vec |-> {}]
NoHand    == [path |-> NoFile, content |-> NoFile, row |-> 0]

RowsAt(d, n)    == {r \in d.rows : r.path = n}
RowidAt(d, n)   == IF RowsAt(d, n) = {} THEN 0 ELSE (CHOOSE r \in RowsAt(d, n) : TRUE).rowid
Rowids(T)       == {t.rowid : t \in T}
Drop(T, ids)    == {t \in T : t.rowid \notin ids}
Entry(id, c)    == [rowid |-> id, content |-> c]
View(p)         == IF writer = p THEN tx ELSE db
MayWrite(p)     == writer \in {Nobody, p}

_bump_version(d) == [d EXCEPT !.version = @ + 1]

\* vault_schema: the level a note has when its frontmatter gives none.
default_visibility(type) ==
  CASE type \in {"decision", "policy", "digest"} -> "org"
    [] type = "profile" -> "private"
    [] OTHER -> "team"

normalize_visibility(c) ==
  IF c.visibility \in Levels THEN c.visibility ELSE default_visibility(c.type)

\* The filter of a search by p, with the level a row was indexed with.
_meta_where(p, c) ==
  \/ Role[p] = "" /\ Team[p] = ""
  \/ Role[p] # "" /\ c.role = Role[p]
  \/ normalize_visibility(c) = "org"
  \/ Team[p] # "" /\ c.team = Team[p] /\ normalize_visibility(c) \in {"team", "org"}

\* Slip: INTEGER PRIMARY KEY without AUTOINCREMENT: one more than the largest in use.
NextRowid_reused(d) ==
  1 + CHOOSE m \in Rowids(d.rows) \cup {0} : \A i \in Rowids(d.rows) : i <= m

NextRowid(d) == d.seq + 1

\* A note that has no row yet.
Inserted(d, n, c, model) ==
  LET id == NextRowid(d)
  IN [d EXCEPT !.rows = @ \cup {[rowid |-> id, path |-> n, content |-> c]},
               !.fts  = @ \cup {Entry(id, c)},
               !.vec  = @ \cup (IF model THEN {Entry(id, c)} ELSE {}),
               !.seq  = id]

\* Slip: the old vector stays when the process has no model.
Updated_oldvector(d, id, c, model) ==
  [d EXCEPT !.rows = {IF r.rowid = id THEN [r EXCEPT !.content = c] ELSE r : r \in @},
            !.fts  = Drop(@, {id}) \cup {Entry(id, c)},
            !.vec  = IF model THEN Drop(@, {id}) \cup {Entry(id, c)} ELSE @]

\* A note whose row was found under id.  If somebody has purged the row since, the
\* UPDATE finds none and the two entries are left without a row.
Updated(d, id, c, model) ==
  [d EXCEPT !.rows = {IF r.rowid = id THEN [r EXCEPT !.content = c] ELSE r : r \in @},
            !.fts  = Drop(@, {id}) \cup {Entry(id, c)},
            !.vec  = Drop(@, {id}) \cup (IF model THEN {Entry(id, c)} ELSE {})]

Gone(d, files) == {r \in d.rows : r.path \notin files}

_purge_deleted(d, files) ==
  LET ids == Rowids(Gone(d, files))
  IN [d EXCEPT !.rows = @ \ Gone(d, files), !.fts = Drop(@, ids), !.vec = Drop(@, ids)]

-----------------------------------------------------------------------------
TypeOK ==
  /\ disk \in [Note -> Content \cup {NoFile}]
  /\ db \in Database /\ tx \in Database /\ writer \in Proc \cup {Nobody}
  /\ pc \in [Proc -> {"idle", "walk", "write", "purge",
                      "rank", "version", "load", "mask", "fetch"}]
  /\ at \in [Proc -> 0..(Len(Path) + 1)] /\ listing \in [Proc -> SUBSET Note]
  /\ hand \in [Proc -> [path: Note, content: Content, row: Nat] \cup {NoHand}]
  /\ changed \in [Proc -> BOOLEAN]
  /\ cache \in [Proc -> [version: Nat, vec: SUBSET EntryType] \cup {NoCache}]
  /\ version \in [Proc -> Nat] /\ since \in [Proc -> Nat]
  /\ ranked \in [Proc -> SUBSET [rowid: Nat, path: Note]]
  /\ nWrites \in Nat /\ nRebuilds \in Nat /\ nCrashes \in Nat
  /\ \A p \in Proc : pc[p] = "write" => hand[p] # NoHand
  /\ writer # Nobody => pc[writer] \in {"walk", "write", "purge"} /\ changed[writer]

Init ==
  /\ disk = [n \in Note |-> NoFile]
  /\ db = EmptyDb /\ tx = EmptyDb /\ writer = Nobody
  /\ pc = [p \in Proc |-> "idle"]
  /\ at = [p \in Proc |-> 0] /\ listing = [p \in Proc |-> {}]
  /\ hand = [p \in Proc |-> NoHand] /\ changed = [p \in Proc |-> FALSE]
  /\ cache = [p \in Proc |-> NoCache]
  /\ version = [p \in Proc |-> 0] /\ since = [p \in Proc |-> 0]
  /\ ranked = [p \in Proc |-> {}]
  /\ nWrites = 0 /\ nRebuilds = 0 /\ nCrashes = 0

-----------------------------------------------------------------------------
(* The notes *)

\* An agent's note, or a person's edit: a whole file appears in the place of the old.
Save(n, c) ==
  /\ nWrites < MaxWrites /\ disk[n] # c
  /\ disk' = [disk EXCEPT ![n] = c] /\ nWrites' = nWrites + 1
  /\ UNCHANGED <<db, tx, writer, pc, indexVars, cache, searchVars, counters>>

Remove(n) ==
  /\ nWrites < MaxWrites /\ disk[n] # NoFile
  /\ disk' = [disk EXCEPT ![n] = NoFile] /\ nWrites' = nWrites + 1
  /\ UNCHANGED <<db, tx, writer, pc, indexVars, cache, searchVars, counters>>

-----------------------------------------------------------------------------
(* A run of the index *)

\* connect() makes the schema sure with an INSERT OR IGNORE, which needs the write
\* lock: while another process holds it the caller waits, and gives up after 5 s
\* ("database is locked"), which leaves everything as it is.
Connects == writer = Nobody

\* ensure_indexed, when an agent retrieves context (its throttle is not modelled).
IndexBegin(p) ==
  /\ p \in Agent /\ pc[p] = "idle" /\ Connects
  /\ pc' = [pc EXCEPT ![p] = "walk"] /\ at' = [at EXCEPT ![p] = 1]
  /\ UNCHANGED <<diskVars, db, tx, writer, hand, listing, changed, cache, searchVars, counters>>

\* Slip: emptying the tables is not taken for a change.
ReindexBegin_nobump(p) ==
  /\ p \in Rebuilder /\ pc[p] = "idle" /\ Connects /\ nRebuilds < MaxRebuilds
  /\ db' = [db EXCEPT !.rows = {}, !.fts = {}, !.vec = {}]
  /\ pc' = [pc EXCEPT ![p] = "walk"] /\ at' = [at EXCEPT ![p] = 1]
  /\ nRebuilds' = nRebuilds + 1
  /\ UNCHANGED <<diskVars, tx, writer, hand, listing, changed, cache, searchVars, nCrashes>>

\* reindex empties the tables, commits, and goes on as an index run.
ReindexBegin(p) ==
  /\ p \in Rebuilder /\ pc[p] = "idle" /\ Connects /\ nRebuilds < MaxRebuilds
  /\ db' = _bump_version([db EXCEPT !.rows = {}, !.fts = {}, !.vec = {}])
  /\ pc' = [pc EXCEPT ![p] = "walk"] /\ at' = [at EXCEPT ![p] = 1]
  /\ nRebuilds' = nRebuilds + 1
  /\ UNCHANGED <<diskVars, tx, writer, hand, listing, changed, cache, searchVars, nCrashes>>

\* Slip: a run that fails leaves its connection open.
EndRun_open(p) ==
  /\ pc' = [pc EXCEPT ![p] = "idle"] /\ at' = [at EXCEPT ![p] = 0]
  /\ hand' = [hand EXCEPT ![p] = NoHand] /\ listing' = [listing EXCEPT ![p] = {}]
  /\ changed' = [changed EXCEPT ![p] = FALSE]
  /\ UNCHANGED <<writer, tx>>

\* The run is over: its connection is closed, and what is not committed is undone.
EndRun(p) ==
  /\ pc' = [pc EXCEPT ![p] = "idle"] /\ at' = [at EXCEPT ![p] = 0]
  /\ hand' = [hand EXCEPT ![p] = NoHand] /\ listing' = [listing EXCEPT ![p] = {}]
  /\ changed' = [changed EXCEPT ![p] = FALSE]
  /\ writer' = (IF writer = p THEN Nobody ELSE writer)
  /\ tx' = (IF writer = p THEN EmptyDb ELSE tx)

\* The walk passes over a note: there is no file, it vanishes before it is read, or the
\* hash is that of its row.
Same(p, n) == disk[n] = NoFile \/ \E r \in RowsAt(View(p), n) : r.content = disk[n]

PassNote(p) ==
  /\ pc[p] = "walk" /\ at[p] <= Len(Path) /\ Same(p, Path[at[p]])
  /\ at' = [at EXCEPT ![p] = @ + 1]
  /\ UNCHANGED <<diskVars, db, tx, writer, pc, hand, listing, changed, cache, searchVars, counters>>

\* What raises out of the whole run, as nothing but OSError is caught: bytes that do
\* not decode and a level without .strip() at once, a list when SQLite is to take it.
\* (A list-valued type of a note without a level raises in default_visibility already;
\* nothing happens in between.)
RaisesOnRead(c)  == c.form = "bytes" \/ c.visibility = NotText
RaisesOnWrite(c) == c.form = "list"

\* It reads a new or changed one and looks up its row.
ReadNote(p) ==
  /\ pc[p] = "walk" /\ at[p] <= Len(Path) /\ ~Same(p, Path[at[p]])
  /\ LET n == Path[at[p]] IN
     IF RaisesOnRead(disk[n])
     THEN EndRun(p)
     ELSE /\ hand' = [hand EXCEPT ![p] = [path |-> n, content |-> disk[n],
                                          row |-> RowidAt(View(p), n)]]
          /\ pc' = [pc EXCEPT ![p] = "write"]
          /\ UNCHANGED <<at, tx, writer, listing, changed>>
  /\ UNCHANGED <<diskVars, db, cache, searchVars, counters>>

\* SQLite refuses the values before it asks for the lock.
BindFails(p) ==
  /\ pc[p] = "write" /\ RaisesOnWrite(hand[p].content)
  /\ EndRun(p)
  /\ UNCHANGED <<diskVars, db, cache, searchVars, counters>>

\* The first change of a run opens the transaction.  A row that somebody else has
\* inserted meanwhile makes the INSERT fail (path is UNIQUE), and the run with it.
WriteRow(p) ==
  /\ pc[p] = "write" /\ ~RaisesOnWrite(hand[p].content) /\ MayWrite(p)
  /\ LET h == hand[p] IN
     IF h.row = 0 /\ RowsAt(View(p), h.path) # {}
     THEN EndRun(p)
     ELSE /\ tx' = IF h.row = 0 THEN Inserted(View(p), h.path, h.content, p \in Embeds)
                   ELSE Updated(View(p), h.row, h.content, p \in Embeds)
          /\ writer' = p /\ changed' = [changed EXCEPT ![p] = TRUE]
          /\ pc' = [pc EXCEPT ![p] = "walk"] /\ at' = [at EXCEPT ![p] = @ + 1]
          /\ hand' = [hand EXCEPT ![p] = NoHand] /\ UNCHANGED listing
  /\ UNCHANGED <<diskVars, db, cache, searchVars, counters>>

\* After 5 s without the lock the statement raises, and the run is over.
LockTimeout(p) ==
  /\ ~MayWrite(p)
  /\ pc[p] = "write" \/ (pc[p] = "purge" /\ Gone(db, listing[p]) # {})
  /\ EndRun(p)
  /\ UNCHANGED <<diskVars, db, cache, searchVars, counters>>

\* _purge_deleted lists the files again.
ListFiles(p) ==
  /\ pc[p] = "walk" /\ at[p] > Len(Path)
  /\ listing' = [listing EXCEPT ![p] = {n \in Note : disk[n] # NoFile}]
  /\ pc' = [pc EXCEPT ![p] = "purge"]
  /\ UNCHANGED <<diskVars, db, tx, writer, at, hand, changed, cache, searchVars, counters>>

\* Slip: the files found during the walk are taken for all files.
Commit_keepgone(p) ==
  /\ pc[p] = "purge"
  /\ IF changed[p] THEN MayWrite(p) /\ db' = _bump_version(View(p)) ELSE UNCHANGED db
  /\ EndRun(p)
  /\ UNCHANGED <<diskVars, cache, searchVars, counters>>

\* Rows without a file go, the version grows if anything changed, and the
\* transaction commits.  Without a change there is none to commit.
Commit(p) ==
  /\ pc[p] = "purge"
  /\ IF changed[p] \/ Gone(View(p), listing[p]) # {}
     THEN MayWrite(p) /\ db' = _bump_version(_purge_deleted(View(p), listing[p]))
     ELSE UNCHANGED db
  /\ EndRun(p)
  /\ UNCHANGED <<diskVars, cache, searchVars, counters>>

-----------------------------------------------------------------------------
(* A search: retrieve_context, the automatic back-links, the command line *)

SearchBegin(p) ==
  /\ p \in Agent /\ pc[p] = "idle" /\ Connects
  /\ pc' = [pc EXCEPT ![p] = "rank"] /\ since' = [since EXCEPT ![p] = db.version]
  /\ UNCHANGED <<diskVars, db, tx, writer, indexVars, cache, version, ranked, counters>>

\* The rows with a rowid of ids that p may see.
Allowed(p, ids) ==
  {[rowid |-> r.rowid, path |-> r.path] :
     r \in {x \in db.rows : x.rowid \in ids /\ _meta_where(p, x.content)}}

\* _fts_rank: one statement joins the words with the rows.
Rank(p) ==
  /\ pc[p] = "rank"
  /\ ranked' = [ranked EXCEPT ![p] = Allowed(p, Rowids({e \in db.fts : e.content \in Matches}))]
  /\ pc' = [pc EXCEPT ![p] = IF p \in Embeds THEN "version" ELSE "fetch"]
  /\ UNCHANGED <<diskVars, db, tx, writer, indexVars, cache, version, since, counters>>

\* Slip: any vectors in memory will do.
ReadVersion_anycache(p) ==
  /\ pc[p] = "version"
  /\ version' = [version EXCEPT ![p] = db.version]
  /\ pc' = [pc EXCEPT ![p] = IF cache[p] # NoCache THEN "mask" ELSE "load"]
  /\ UNCHANGED <<diskVars, db, tx, writer, indexVars, cache, ranked, since, counters>>

\* _load_embed_matrix reads the version first ...
ReadVersion(p) ==
  /\ pc[p] = "version"
  /\ version' = [version EXCEPT ![p] = db.version]
  /\ pc' = [pc EXCEPT ![p] = IF cache[p].version = db.version THEN "mask" ELSE "load"]
  /\ UNCHANGED <<diskVars, db, tx, writer, indexVars, cache, ranked, since, counters>>

\* ... and keeps the vectors under it.
LoadMatrix(p) ==
  /\ pc[p] = "load"
  /\ cache' = [cache EXCEPT ![p] = [version |-> version[p], vec |-> db.vec]]
  /\ pc' = [pc EXCEPT ![p] = "mask"]
  /\ UNCHANGED <<diskVars, db, tx, writer, indexVars, searchVars, counters>>

\* _semantic_rank filters by rows read now what the vectors in memory rank.
Mask(p) ==
  /\ pc[p] = "mask"
  /\ ranked' = [ranked EXCEPT ![p] = @ \cup Allowed(p, Rowids(cache[p].vec))]
  /\ pc' = [pc EXCEPT ![p] = "fetch"]
  /\ UNCHANGED <<diskVars, db, tx, writer, indexVars, cache, version, since, counters>>

\* The rows that a search about to fetch would return: by rowid, without the filter,
\* and one that has gone is passed over.  (Scores, and the limit of the best by score,
\* are left out.)
Results(p) == {r \in db.rows : r.rowid \in Rowids(ranked[p])}

Fetch(p) ==
  /\ pc[p] = "fetch"
  /\ pc' = [pc EXCEPT ![p] = "idle"]
  /\ ranked' = [ranked EXCEPT ![p] = {}] /\ version' = [version EXCEPT ![p] = 0]
  /\ since' = [since EXCEPT ![p] = 0]
  /\ UNCHANGED <<diskVars, db, tx, writer, indexVars, cache, counters>>

-----------------------------------------------------------------------------
\* A process dies and another takes its place: its transaction is rolled back by
\* whoever opens the file next, its memory is gone.
Crash(p) ==
  /\ nCrashes < MaxCrashes /\ (pc[p] # "idle" \/ cache[p] # NoCache)
  /\ EndRun(p)
  /\ cache' = [cache EXCEPT ![p] = NoCache]
  /\ ranked' = [ranked EXCEPT ![p] = {}] /\ version' = [version EXCEPT ![p] = 0]
  /\ since' = [since EXCEPT ![p] = 0] /\ nCrashes' = nCrashes + 1
  /\ UNCHANGED <<diskVars, db, nRebuilds>>

IndexStep(p) ==
  \/ PassNote(p) \/ ReadNote(p) \/ BindFails(p) \/ WriteRow(p) \/ LockTimeout(p)
  \/ ListFiles(p) \/ Commit(p)
SearchStep(p) == Rank(p) \/ ReadVersion(p) \/ LoadMatrix(p) \/ Mask(p) \/ Fetch(p)

Next ==
  \/ \E n \in Note : Remove(n) \/ \E c \in Content : Save(n, c)
  \/ \E p \in Proc : \/ IndexBegin(p) \/ ReindexBegin(p) \/ IndexStep(p)
                     \/ SearchBegin(p) \/ SearchStep(p) \/ Crash(p)

Spec == Init /\ [][Next]_vars

\* Every process goes on with what it has begun.  The chat goes on, and a retrieval whose
\* throttle of 60 s has run out indexes before it searches (vault_integration.py:92).
Live == \A p \in Proc : WF_vars(IndexStep(p)) /\ WF_vars(SearchStep(p)) /\ SF_vars(IndexBegin(p))
FairSpec == Spec /\ Live

-----------------------------------------------------------------------------
\* The three tables agree, in the open transaction too: a note has one row, the row
\* has one entry with its words, and a vector of the row is of what the row says,
\* whichever processes, with and without a model, have written it in turn, and
\* whoever has purged or rebuilt in between.
Agree(d) ==
  /\ \A r, s \in d.rows : r.path = s.path \/ r.rowid = s.rowid => r = s
  /\ \A r \in d.rows : {e \in d.fts : e.rowid = r.rowid} = {Entry(r.rowid, r.content)}
  /\ \A r \in d.rows, e \in d.vec : e.rowid = r.rowid => e.content = r.content
TablesAgree == Agree(db) /\ (writer # Nobody => Agree(tx))

\* Vectors in memory under the present version are those of the index: a process that
\* looks at nothing but the version never searches old ones (vault_rag.py:368).
CacheFresh == \A p \in Proc : cache[p].version = db.version => cache[p].vec = db.vec

\* Who may read a note, as vault_schema.py:45-50 has it.
Readers(c) ==
  LET level == IF c.visibility \in Levels THEN c.visibility
               ELSE IF c.type = "profile" THEN "private"
               ELSE IF c.type \in {"decision", "policy", "digest"} THEN "org" ELSE "team"
  IN {p \in Agent : \/ level = "org"
                    \/ (Role[p] = "" /\ Team[p] = "")
                    \/ Role[p] # "" /\ Role[p] = c.role
                    \/ level = "team" /\ Team[p] # "" /\ Team[p] = c.team}

\* A search during which nobody committed returns the rows its process may read that
\* share a word with the query or, when it has the model, have a vector: no row is
\* hidden by old vectors in memory, and none shown to others.
SearchExact ==
  \A p \in Agent : pc[p] = "fetch" /\ since[p] = db.version =>
    Results(p) = {r \in db.rows : /\ p \in Readers(r.content)
                                   /\ \/ r.content \in Matches
                                      \/ p \in Embeds /\ r.rowid \in Rowids(db.vec)}

\* Whatever commits while a search is under way, the row it fetches under a rowid is of
\* the note it ranked under it: searches name notes by rowid over four statements.
RowidsNameOneNote ==
  \A p \in Proc : \A a \in ranked[p], r \in db.rows : a.rowid = r.rowid => a.path = r.path

\* Once nobody writes notes any more the index comes to hold what they say and keeps
\* it, whatever died, was locked out, overwrote or emptied it before; unless there is a
\* note that ends every run: one that is not UTF-8 (vault_rag.py:209), whose level is
\* not a text (:221), or that has a list in a column (:224-235).
Synced  == {[path |-> r.path, content |-> r.content] : r \in db.rows} =
           {[path |-> n, content |-> disk[n]] : n \in {m \in Note : disk[m] # NoFile}}
Blocked == \E n \in Note :
  disk[n] # NoFile /\ (RaisesOnRead(disk[n]) \/ RaisesOnWrite(disk[n]))
CatchesUp == <>[](Synced \/ Blocked)
=============================================================================
