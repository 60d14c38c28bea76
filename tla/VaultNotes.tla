----------------------------- MODULE VaultNotes -----------------------------
(***************************************************************************)
(* The notes of the vault and the tools that work on all of them:          *)
(* vault_migrate.py turns the lines of the memory files into notes,        *)
(* vault_rollup.py digests the notes of a day or a week by team and role,  *)
(* vault_org.py writes the map of the vault.  People start the tools,      *)
(* nothing keeps two apart, and agents go on writing notes meanwhile.      *)
(*                                                                         *)
(* Every file is written as a temporary file beside its place and then     *)
(* moved there: `out' is what a tool has written and not yet moved, and a  *)
(* tool that is killed in between leaves it behind for good (`temps').     *)
(***************************************************************************)
EXTENDS Integers, Sequences, FiniteSets

CONSTANTS
  Tool,        \* processes in which a person starts tools
  Source,      \* the memory files in the order they are read: records [role, type, group]
  Line,        \* lines of memory files
  Memory0,     \* Memory0[i]: what the memory file Source[i] holds at first
  KeepLines,   \* lines a memory file keeps
  Group,       \* records [team, role] of the agents that write notes
  Period,      \* records [kind, start]: what a roll-up is asked for
  Recent,      \* digests the map lists (10 in the code)
  LastDay, MaxNotes, MaxLines, MaxRuns, MaxCrashes   \* bounds

Sources == DOMAIN Source
Groups  == Group \cup {Source[i].group : i \in Sources}
Origin  == Sources \X Line
NoOrigin == <<>>   \* a note that an agent has written
Nothing  == [what |-> "nothing"]

ASSUME NotesOK == /\ Source \in Seq([role: STRING, type: {"report", "feedback"},
                                      group: [team: STRING, role: STRING]])
                  /\ Group \subseteq [team: STRING, role: STRING]
                  /\ Memory0 \in [Sources -> Seq(Line)]
                  /\ Period \subseteq [kind: {"daily", "weekly"}, start: Nat]
                  /\ KeepLines \in Nat /\ Recent \in Nat /\ LastDay \in Nat \ {0}
                  /\ MaxNotes \in Nat /\ MaxLines \in Nat /\ MaxRuns \in Nat /\ MaxCrashes \in Nat

\* No two memory files are of one role and one kind: their names say which they are.
ASSUME KeysOK == \A i, j \in Sources :
                   Source[i].role = Source[j].role /\ Source[i].type = Source[j].type => i = j

VARIABLES
  memory,    \* memory[i]: lines of the memory file Source[i]
  notes,     \* the reports and feedbacks, in the order in which they appeared
  digests,   \* the digests
  home,      \* ids of the digests that _index/HOME.md lists
  temps,     \* temporary files of dead tools that were written out
  today,
  pc,        \* what each tool is doing
  out,       \* its temporary file
  existing,  \* migrate: the keys it takes for migrated
  files,     \* migrate: memory files still to be read
  lines,     \* migrate: lines still to be taken of the file being read, with its place
  got,       \* migrate: every line it has read (observed)
  period,    \* roll-up: what it was asked for
  base,      \* roll-up: how many notes there were when it began (observed)
  items,     \* roll-up: the notes it has collected
  groups,    \* roll-up: groups still to be digested
  twice,     \* the kinds of tool of which two have run at once (observed)
  nLines, nRuns, nCrashes

migrateVars == <<existing, files, lines, got>>
rollVars    == <<period, base, items, groups>>
vaultVars   == <<notes, digests, home, temps>>
worldVars   == <<memory, today, nLines>>
vars == <<vaultVars, worldVars, pc, out, migrateVars, rollVars, twice, nRuns, nCrashes>>

-----------------------------------------------------------------------------
(* Notes and digests *)

NoteType == [type: {"report", "feedback"}, group: Groups, day: 1..LastDay,
             from: Origin \cup {NoOrigin}]
NoteIds  == DOMAIN notes

NotePut(n)    == [what |-> "note", note |-> n]
DigestPut(d)  == [what |-> "digest", digest |-> d]
HomePut(ids)  == [what |-> "home", ids |-> ids]
Put(w)        == {f \in temps \cup {out[p] : p \in Tool} : f.what = w}

\* Slip: the kind of the note is left out of the key.
_dedup_key_notype(o) == <<Source[o[1]].role, o[2]>>

\* The key of a line is a hash of the role, the kind of note and the line.
_dedup_key(o) == <<Source[o[1]].role, Source[o[1]].type, o[2]>>

OriginsOf(N) == {n.from : n \in N} \ {NoOrigin}
Held == OriginsOf({notes[i] : i \in NoteIds})

\* Every .md file is looked at, temporary ones too, dead or not.
_existing_keys == {_dedup_key(o) : o \in Held \cup OriginsOf({f.note : f \in Put("note")})}

Days(p)         == IF p.kind = "weekly" THEN p.start .. (p.start + 6) ELSE {p.start}
_in_period(n, p) == n.day \in Days(p)

\* Slip: the id ends with the role, as the docstring of the module has it.
_digest_id_nohash(p, g) == <<p.kind, p.start, g.role>>

\* Slip: a day and a week that begins with it have one id.
_digest_id_noperiod(p, g) == <<p.start, g.role, g>>

\* The slug of a role may be that of another, and a role has notes with and without a
\* team: a hash of the two tells the groups apart.
_digest_id(p, g) == <<p.kind, p.start, g.role, g>>

DigestIds == {d.id : d \in digests}

\* The notes of a group among those collected.
ItemsOf(S, g) == {i \in S : notes[i].group = g}

-----------------------------------------------------------------------------
TypeOK ==
  /\ memory \in [Sources -> Seq(Line)] /\ notes \in Seq(NoteType) /\ today \in 1..LastDay
  /\ \A d \in digests : /\ d.period \in Period /\ d.group \in Groups /\ d.links \subseteq NoteIds
                        /\ \A e \in digests : d.id = e.id => d = e
  /\ pc \in [Tool -> {"idle", "migrate", "collect", "roll", "sync"}]
  /\ \A p \in Tool : /\ out[p].what \in {"nothing", "note", "digest", "home"}
                     /\ pc[p] # "migrate" => existing[p] = {} /\ lines[p] = <<>> /\ got[p] = {}
                     /\ lines[p] \in Seq(Origin) /\ items[p] \subseteq NoteIds
                     /\ base[p] \in 0..Len(notes) /\ groups[p] \subseteq Groups
                     /\ out[p].what = "note" => pc[p] = "migrate" /\ lines[p] # <<>>
                     /\ out[p].what = "digest" => pc[p] = "roll" /\ out[p].digest.group \in groups[p]
  /\ \A f \in temps : f.what \in {"note", "digest", "home"}
  /\ nLines \in 0..MaxLines /\ nRuns \in 0..MaxRuns /\ nCrashes \in 0..MaxCrashes

Init ==
  /\ memory = Memory0 /\ notes = <<>> /\ digests = {} /\ home = {} /\ temps = {} /\ today = 1
  /\ pc = [p \in Tool |-> "idle"] /\ out = [p \in Tool |-> Nothing]
  /\ existing = [p \in Tool |-> {}] /\ files = [p \in Tool |-> 0]
  /\ lines = [p \in Tool |-> <<>>] /\ got = [p \in Tool |-> {}]
  /\ period = [p \in Tool |-> CHOOSE q \in Period : TRUE] /\ base = [p \in Tool |-> 0]
  /\ items = [p \in Tool |-> {}] /\ groups = [p \in Tool |-> {}]
  /\ twice = {} /\ nLines = 0 /\ nRuns = 0 /\ nCrashes = 0

-----------------------------------------------------------------------------
(* Agents and time *)

\* persist_report, persist_feedback: a new file with a name of its own.
Persist(g, t) ==
  /\ Cardinality({i \in NoteIds : notes[i].from = NoOrigin}) < MaxNotes
  /\ notes' = Append(notes, [type |-> t, group |-> g, day |-> today, from |-> NoOrigin])
  /\ UNCHANGED <<digests, home, temps, worldVars, pc, out, migrateVars, rollVars, twice,
                 nRuns, nCrashes>>

\* A daemon adds a line to a memory file, which keeps the last ones.
Remember(i, l) ==
  /\ nLines < MaxLines /\ nLines' = nLines + 1
  /\ LET all == Append(memory[i], l)
     IN memory' = [memory EXCEPT ![i] = SubSeq(all, IF Len(all) > KeepLines THEN Len(all) - KeepLines + 1
                                                     ELSE 1, Len(all))]
  /\ UNCHANGED <<vaultVars, today, pc, out, migrateVars, rollVars, twice, nRuns, nCrashes>>

NextDay ==
  /\ today < LastDay /\ today' = today + 1
  /\ UNCHANGED <<vaultVars, memory, nLines, pc, out, migrateVars, rollVars, twice, nRuns, nCrashes>>

-----------------------------------------------------------------------------
(* A tool begins, stops, writes *)

Start(p, kind, working) ==
  /\ pc[p] = "idle" /\ nRuns < MaxRuns /\ nRuns' = nRuns + 1
  /\ pc' = [pc EXCEPT ![p] = kind]
  /\ twice' = twice \cup {k \in {kind} : \E q \in Tool \ {p} : pc[q] \in working}

\* What it had in memory is gone.
Stop(p) ==
  /\ pc' = [pc EXCEPT ![p] = "idle"] /\ out' = [out EXCEPT ![p] = Nothing]
  /\ existing' = [existing EXCEPT ![p] = {}] /\ files' = [files EXCEPT ![p] = 0]
  /\ lines' = [lines EXCEPT ![p] = <<>>] /\ got' = [got EXCEPT ![p] = {}]
  /\ base' = [base EXCEPT ![p] = 0] /\ items' = [items EXCEPT ![p] = {}]
  /\ groups' = [groups EXCEPT ![p] = {}] /\ period' = [period EXCEPT ![p] = CHOOSE q \in Period : TRUE]

\* A write fails: _atomic_write removes the temporary file and raises out of the tool.
Fail(p) ==
  /\ out[p] # Nothing /\ Stop(p)
  /\ UNCHANGED <<vaultVars, worldVars, twice, nRuns, nCrashes>>

\* A tool is killed.  A temporary file stays, empty or written out.
Crash(p) ==
  /\ pc[p] # "idle" /\ nCrashes < MaxCrashes /\ nCrashes' = nCrashes + 1
  /\ temps' \in {temps, temps \cup ({out[p]} \ {Nothing})}
  /\ Stop(p)
  /\ UNCHANGED <<notes, digests, home, worldVars, twice, nRuns>>

-----------------------------------------------------------------------------
(* migrate *)

MigrateBegin(p) ==
  /\ Start(p, "migrate", {"migrate"})
  /\ existing' = [existing EXCEPT ![p] = _existing_keys]
  /\ files' = [files EXCEPT ![p] = 0] /\ lines' = [lines EXCEPT ![p] = <<>>]
  /\ UNCHANGED <<vaultVars, worldVars, out, got, rollVars, nCrashes>>

\* The next memory file.  One that a daemon is just writing does not parse, and gives
\* no line (the write is not atomic: see RoomMemory).
OpenMemory(p) ==
  /\ pc[p] = "migrate" /\ lines[p] = <<>> /\ files[p] < Len(Source)
  /\ LET i == files[p] + 1 IN
     /\ files' = [files EXCEPT ![p] = i]
     /\ \E text \in {memory[i], <<>>} :
          /\ lines' = [lines EXCEPT ![p] = [k \in DOMAIN text |-> <<i, text[k]>>]]
          /\ got' = [got EXCEPT ![p] = @ \cup {<<i, text[k]>> : k \in DOMAIN text}]
  /\ UNCHANGED <<vaultVars, worldVars, pc, out, existing, rollVars, twice, nRuns, nCrashes>>

SkipLine(p) ==
  /\ lines[p] # <<>> /\ _dedup_key(Head(lines[p])) \in existing[p]
  /\ lines' = [lines EXCEPT ![p] = Tail(@)]
  /\ UNCHANGED <<vaultVars, worldVars, pc, out, existing, files, got, rollVars, twice, nRuns, nCrashes>>

_write_migrated(p) ==
  /\ lines[p] # <<>> /\ out[p] = Nothing /\ _dedup_key(Head(lines[p])) \notin existing[p]
  /\ LET o == Head(lines[p])
     IN out' = [out EXCEPT ![p] = NotePut([type |-> Source[o[1]].type, group |-> Source[o[1]].group,
                                           day |-> today, from |-> o])]
  /\ UNCHANGED <<vaultVars, worldVars, pc, migrateVars, rollVars, twice, nRuns, nCrashes>>

\* Slip: a key that was just written is not remembered.
NoteAppears_forgotten(p) ==
  /\ out[p].what = "note"
  /\ notes' = Append(notes, out[p].note) /\ out' = [out EXCEPT ![p] = Nothing]
  /\ lines' = [lines EXCEPT ![p] = Tail(@)]
  /\ UNCHANGED <<digests, home, temps, worldVars, pc, existing, files, got, rollVars, twice, nRuns, nCrashes>>

NoteAppears(p) ==
  /\ out[p].what = "note"
  /\ notes' = Append(notes, out[p].note) /\ out' = [out EXCEPT ![p] = Nothing]
  /\ existing' = [existing EXCEPT ![p] = @ \cup {_dedup_key(out[p].note.from)}]
  /\ lines' = [lines EXCEPT ![p] = Tail(@)]
  /\ UNCHANGED <<digests, home, temps, worldVars, pc, files, got, rollVars, twice, nRuns, nCrashes>>

Migrated(p) == pc[p] = "migrate" /\ lines[p] = <<>> /\ files[p] = Len(Source)

MigrateEnd(p) ==
  /\ Migrated(p) /\ Stop(p)
  /\ UNCHANGED <<vaultVars, worldVars, twice, nRuns, nCrashes>>

-----------------------------------------------------------------------------
(* rollup *)

RollBegin(p, per) ==
  /\ Start(p, "collect", {"collect", "roll"})
  /\ period' = [period EXCEPT ![p] = per] /\ base' = [base EXCEPT ![p] = Len(notes)]
  /\ UNCHANGED <<vaultVars, worldVars, out, migrateVars, items, groups, nCrashes>>

\* The walk finds every note that was there when it began, and of those that appear
\* meanwhile it may find any; it keeps those of the period.
_collect_notes(p) ==
  /\ pc[p] = "collect"
  /\ \E late \in SUBSET ((base[p] + 1) .. Len(notes)) :
       LET S == {i \in (1 .. base[p]) \cup late : _in_period(notes[i], period[p])}
       IN /\ items' = [items EXCEPT ![p] = S]
          /\ groups' = [groups EXCEPT ![p] = {notes[i].group : i \in S}]
  /\ pc' = [pc EXCEPT ![p] = "roll"]
  /\ UNCHANGED <<vaultVars, worldVars, out, migrateVars, period, base, twice, nRuns, nCrashes>>

\* The digest of a group links its notes.  (They come in the order of their names,
\* which no other step depends on.)
WriteDigest(p, g) ==
  /\ pc[p] = "roll" /\ out[p] = Nothing /\ g \in groups[p]
  /\ out' = [out EXCEPT ![p] = DigestPut([id |-> _digest_id(period[p], g), period |-> period[p],
                                          group |-> g, links |-> ItemsOf(items[p], g), day |-> today])]
  /\ UNCHANGED <<vaultVars, worldVars, pc, migrateVars, rollVars, twice, nRuns, nCrashes>>

\* It takes the place of the digest with its id, if there is one.
DigestAppears(p) ==
  /\ out[p].what = "digest"
  /\ LET d == out[p].digest IN
     /\ digests' = {e \in digests : e.id # d.id} \cup {d}
     /\ groups' = [groups EXCEPT ![p] = @ \ {d.group}]
  /\ out' = [out EXCEPT ![p] = Nothing]
  /\ UNCHANGED <<notes, home, temps, worldVars, pc, migrateVars, period, base, items, twice, nRuns, nCrashes>>

Rolled(p) == pc[p] = "roll" /\ groups[p] = {}

RollEnd(p) ==
  /\ Rolled(p) /\ Stop(p)
  /\ UNCHANGED <<vaultVars, worldVars, twice, nRuns, nCrashes>>

-----------------------------------------------------------------------------
(* sync_org *)

\* The latest of D by the day in their frontmatter (the code's dates have seconds; one
\* day's digests come in any order, which includes the code's).
Latest(D) == {S \in SUBSET D : /\ Cardinality(S) = (IF Cardinality(D) < Recent THEN Cardinality(D) ELSE Recent)
                               /\ \A d \in S, e \in D \ S : d.day >= e.day}

\* Slip: temporary files are not passed over.
_recent_digests_all == {{d.id : d \in S} : S \in Latest(digests \cup {f.digest : f \in Put("digest")})}

_recent_digests == {{d.id : d \in S} : S \in Latest(digests)}

write_moc(p) ==
  /\ Start(p, "sync", {"sync"})
  /\ \E ids \in _recent_digests : out' = [out EXCEPT ![p] = HomePut(ids)]
  /\ UNCHANGED <<vaultVars, worldVars, migrateVars, rollVars, nCrashes>>

MapAppears(p) ==
  /\ out[p].what = "home"
  /\ home' = out[p].ids /\ Stop(p)
  /\ UNCHANGED <<notes, digests, temps, worldVars, twice, nRuns, nCrashes>>

-----------------------------------------------------------------------------
ToolStep(p) ==
  \/ Fail(p) \/ Crash(p)
  \/ MigrateBegin(p) \/ OpenMemory(p) \/ SkipLine(p) \/ _write_migrated(p) \/ NoteAppears(p) \/ MigrateEnd(p)
  \/ \E per \in Period : RollBegin(p, per)
  \/ _collect_notes(p) \/ (\E g \in Groups : WriteDigest(p, g)) \/ DigestAppears(p) \/ RollEnd(p)
  \/ write_moc(p) \/ MapAppears(p)

Next ==
  \/ \E g \in Group, t \in {"report", "feedback"} : Persist(g, t)
  \/ \E i \in Sources, l \in Line : Remember(i, l)
  \/ NextDay
  \/ \E p \in Tool : ToolStep(p)

Spec == Init /\ [][Next]_vars

-----------------------------------------------------------------------------
\* However often migrations are started, fail or are killed, and although a memory file
\* may hold a line twice and hold it still at the next run, a line becomes one note;
\* unless two migrations ran at once, which nothing prevents (vault_migrate.py:94).
MigratedOnce ==
  "migrate" \notin twice =>
    \A i, j \in NoteIds : notes[i].from = notes[j].from /\ notes[i].from # NoOrigin => i = j

\* A migration that has come to its end has every line it read in a note, of the role
\* and kind of its memory file, or in a temporary file that a killed one left: that
\* counts as migrated ever after (vault_migrate.py:45).
LinesArrive ==
  \A p \in Tool : Migrated(p) /\ "migrate" \notin twice =>
    \A o \in got[p] : o \in Held \cup OriginsOf({f.note : f \in {x \in temps : x.what = "note"}})

\* A roll-up that has come to its end has for every group one digest under its id, with
\* the notes of that group and period only, and all of those that were there when it
\* began; unless two ran at once.
DigestsTrue ==
  \A p \in Tool : Rolled(p) /\ "collect" \notin twice =>
    \A i \in 1 .. base[p] : _in_period(notes[i], period[p]) =>
      \E d \in digests :
        /\ d.period = period[p] /\ d.group = notes[i].group /\ i \in d.links
        /\ \A j \in d.links : notes[j].group = d.group /\ notes[j].day \in Days(d.period)

\* A digest never loses a note it has linked, whatever died between two groups and
\* whichever days and weeks were digested in turn; unless two roll-ups ran at once,
\* when the one that collected first may write last.
DigestsGrow ==
  [][\A d \in digests : "collect" \in twice \/
       \E e \in digests' : e.period = d.period /\ e.group = d.group /\ d.links \subseteq e.links]_digests

\* Every digest that the map lists is there, although roll-ups are killed before a digest
\* appears and maps are written while others run.
MapLinksExist == home \subseteq DigestIds
=============================================================================
