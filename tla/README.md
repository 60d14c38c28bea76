# A TLA+ verification of BOGO

BOGO is a team of language-model agents that live in a Mattermost server: each
role runs one process (`app/bogo_runtime.py`) that listens to the rooms it belongs
to, asks a brain what to do and posts acknowledgements and replies. Around it are a
bot through which people edit the agents' definitions (`app/ceo_admin_runtime.py`),
a knowledge vault (`app/vault_*.py`), a CEO dashboard (`app/ceo_dashboard.py`), and
shell scripts that bring the containers up, provision the server, register the
services, and carry the data from PC to PC.

This directory holds TLA+ modules translated from that code, TLC configurations
that check them on small instances, and proofs for TLAPS that hold for every value
of the constants. Line numbers are those of the commit the modules were written
from; PROJECT.json maps every definition to its lines.

## 1. Inventory

| Component | State | Operations | Talks to | Hard because | Correct when |
|---|---|---|---|---|---|
| Agent runtime (`bogo_runtime.py` 690–943) | credits `_sent`, `_last_response`, socket, unread frames | read a frame, gate, learn, decide, check the backstop, acknowledge, reply, save a memo, reconnect | Mattermost over websocket and HTTP; the brain; memory files | processes interleave at every call; a lost answer to a POST may hide a stored post; processes die anywhere; answers provoke answers | no answer without cause, none twice, none out of order or outside the whitelist; a bounded number of decisions per window; it always comes back |
| Memory files (203–217, 362–390) | `memory_ch_<room>.json` shared by processes, `memory_<role>.json` of one | load, save with rolling | the runtimes | read, truncate and write without a lock | what a reader gets is in order and complete |
| Learning note (220–323) | `memory_learn_<role>.json` | add a line or a correction, prune by two limits | the runtime | two limits over one list of two sorts; a death while the file is truncated | the line just taught stays, the oldest is forgotten first |
| Decision engine (392–690, `bogo_brain.py`, `_mp_worker.py`) | the CLI's home, sessions and memory files; the loop's transcript | official brain, fallback loop, self-check, review | a CLI subprocess, an LLM endpoint, read-only tools | timeouts after the effect, malformed answers, sessions cleared in between, restarts | it ends, within its cap, with a validated decision or an exception; a role learns in one session |
| Definition pipeline (`ceo_admin_runtime.py`, `.githooks/post-commit`) | `PENDING`, worktree, git index and HEAD, mirror, what each agent loaded | preview, apply, reject, hook, reload | git, launchd, the agents | five steps that fail one by one; a hook that restarts the bot inside its own commit | only approved texts spread; success means committed |
| Backup and restore (`migration/*.sh`) | backups, latest pointer, marker, volumes, database | back up, rotate, restore, skip | Docker, the start pipeline | timer, stop and hand overlap without a lock, any command may fail, a death leaves torn archives and half a database, folders are copied between PCs | whole backups hold the attachments of their posts; a whole archive goes only when a newer whole one stays; a restore takes nothing from a live server |
| Start pipeline (`bogo_oneclick.sh`, `infra_up.sh`, `bootstrap.sh`, `service/*`) | containers, `.env`, services | start, stop, status, with resumable steps | Docker, provisioning, restore | partial failure and re-runs | a re-run completes what an earlier one left |
| Provisioning (`provision_mm.py`, `sync_channels.py`) | accounts, team, rooms, tokens; `.env`, `channels.json` | create what is missing, record ids and tokens | Mattermost REST | dies between a creation and its record | idempotent |
| Vault: index and retrieval (`vault_rag.py`, `vault_integration.py`) | one SQLite file: rows, words, vectors, a version; vectors in each process's memory | index, purge, rebuild, search | the note files, the runtimes' prompts | every process indexes and searches by itself, overlapping; the write lock is waited for and given up; processes die in transactions; a search is four statements | the tables agree; nobody searches old vectors; a search shows what its process may read; the index catches up with the notes |
| Vault: notes and tools (`vault_migrate.py`, `vault_rollup.py`, `vault_org.py`, `vault_schema.py`) | note, digest and map files, temporary files | write a note, migrate memory files, digest a day or a week, write the map | memory files, the index | tools started by people at any time, overlapping, killed between a temporary file and its place, started again | a line becomes one note; a digest loses no note; the map names what exists |
| Dashboard (`ceo_dashboard.py`, `ceo_auth.py`) | sessions, status and name caches, accounts; what each page shows | log in and out, agents' status, reports, post | Mattermost, account file, vault, agents' files | request threads share the dictionaries; answers come late, calls fail, sessions end and the server restarts in between | nothing is done for a login that ended or beyond its rights; a cached answer is young; pages settle on what is so |
| Network detection (`net_autodetect.py`) | `.env` | classify addresses, update `.env` | the OS | an update that rewrites the file | other lines of `.env` survive |
| Agent schema (`agent_schema.py`, `lint_agents.py`) | none | parse, validate, route | everything that loads definitions | text | a broken definition is refused |

How they interact: a post reaches the sockets of a room's member bots; each
runtime filters it, asks its brain, and may post again, so that agents talk to each
other through the server. Memos and notes flow into the next prompts. The
definition pipeline changes what the runtimes load at their next start. Reports and
feedback become notes of the vault, which every runtime indexes and searches before it
asks its brain; the tools of the vault and the dashboard work on the same files. The start
pipeline runs restore between containers and services; the backup timer runs
whenever it pleases.

Behaviours that are hard to test, each at its line and with the properties that
watch it, are listed in PROJECT.json under "hazards".

## 2. Modules

A module has the names of the code where TLA+ allows it: `gate`, `backstop_ok`,
`save_room_mem`, `_prune_learn_lines`, `frontmatter_ok`, `post_commit`,
`rotate_backups`, `_ensure_role_home`, `_react_loop`. An action is one handler or
one stretch of a handler between two points at which somebody else can act or
something can fail. Operators whose comment begins with "Slip" are variants of the
definition that follows them, with a plausible mistake in it; nothing uses them in
the specification. Putting one in the place of its original must make TLC find the
property violated that PROJECT.json names with it, which shows that the property
depends on the code.

**AgentContract** is the abstract specification of the team: over the stored posts
alone, who may answer what, where, how often and in which order. **AgentRuntime**
is the program: one runtime per role, the server's store, the sockets with their
unread frames, the sliding backstop, the learning note and the memories, process
deaths. `pc[r]` follows `run()`: "idle" is the iterator (:809), "decide" the worker
thread (:861), "ack", "reply" and "memo" the steps after it (:875, :885, :902), which
run without an await. `link[r]` is "broken" between the death of a socket and the
moment the iterator notices. A POST that raises may have been stored: each sending
action has both outcomes. A brain is a set of decisions, with every text field
possibly not a string (the code calls `.strip()` on it outside its `try`). The texts
themselves, the vault hooks and the terminal output are left out. `AgentRuntime`
implements `AgentContract` with `posts` as it is (property and theorem).

**Chatter** is the same loops as their sockets see them: of a frame it is known only
whether its reader must react to it, and decisions, rooms and the backstop are left open.
`AgentRuntime` counts its posts, so a conversation there ends; nothing counts them in
`Chatter`, where agents may name each other in everything they post, for ever, and a
watched post of a human is among the frames. `ImplementsChatter` maps the unread frames of
`AgentRuntime` to those of `Chatter` (what a frame is to its reader, oldest first) and
checks that every step of the runtimes is one of `Chatter`, so that what `Chatter` leaves
out does not lose what it is there for.

**RoomMemory** refines what `AgentRuntime` takes as one step: reading, truncating
and writing a memory file are separate, so saves of two processes overlap, and a
process may die with the file truncated. `torn` is the tail of a longer text behind
a shorter one (both wrote from position 0), which the loader reads as no memory.
**RollingLog** is the abstract log of one writer, which the file of a role is shown
to implement. **LearnNote** is the learning note with its two limits.

**OfficialBrain** is a role's use of the external CLI (`bogo_brain.py`): the home,
the sessions and memory files of the CLI are what `bogo_brain.py` says of them, and
any call may fail or time out before or after its effect. **Decide** composes it
with the rest of `decide`: settings, validation, the ReAct loop, the review. A
decision is reduced to whether it passes `_validate` and whether `self_check`
finds a contradiction.

**AdminPipeline** has the worktree, the index and HEAD of git, the mirror and what
each agent's process loaded, for Linux and for macOS (`mirrored`), and one action
per step of `apply_change`. What the LLM makes of an instruction is any text.
**Migration** has, per PC, Mattermost, its database and attachments, the archives
kept, the latest pointer, the restore marker, and the control points of several backups
at once (`Job`), of a restore and of a start. Posts are numbers; an archive is its stamp,
what it holds, and whether it is all there (`sound`): it appears in the folder when tar
begins, and a tar, a check or a machine that fails leaves it there torn. The stamp is
taken at the start of a backup, the copy to the latest pointer is begun and ended near
its end, and the retention comes last, each a step of its own. Two observers say when
backups got into each other's way: `together` that the ones under way, or the last ones,
overlapped, `astray` that since the last backup that ran alone to its copy one has
overlapped another or has not been copied. `live` marks a restore that could not stop
Mattermost and went on (`bogo_restore.sh:116`).

**Startup** is the start pipeline of one PC on Linux, from detection to the checks of
the services, with `infra_up.sh` twice in every start (once by itself, once through
`bogo_ctl.sh`) around the restore. `pc` is the script's step, `part` which of the two
calls is under way, `todo` the roles a loop has not come to. The PC's network is one
of three kinds, an address is "lan", the loopback or all of them; a token or a room's
id is a number, valid when the database has it; a restore replaces the database, or
leaves it half replaced (`db`) when it fails or is killed on its way, with its marker or
without. On half a database Mattermost and its provisioning may come up or not. A command
fails before its effect (`Killed`) or after it (an action of its own where
the code goes on, or where half of the effect stays). Between starts somebody may
move the PC, touch its containers, reboot it or stop the services. `MM_HOST` is not
set, as `.env.example` advises for one PC.

**VaultIndex** is the search index. `disk` is the vault's folder, `db` the committed
database, `tx` the open transaction of the process `writer`: SQLite in WAL mode has one
writer, and a read outside the transaction sees what is committed. `pc[p]` follows `index`
("walk", "write", "purge": vault_rag.py:247-318) and `search` ("rank", "version", "load",
"mask", "fetch": :344-514), cut wherever another process may come in between: a note is
read and its row looked up in one step, and written in another. The first write of a run
opens the transaction and the commit at the end closes it; a process that waits for the
lock may give up, which raises out of the run. Words and vectors are what they are of, a
content; a content has the form of its file besides its fields, as one that is not UTF-8,
or has a list where a column takes a text, ends every run; the query is the set of
contents that share a word with it; scores, and the limit to the best ones, are left out.
The rules of vault_schema.py say which level a note is indexed with
(`normalize_visibility`) and which a search lets through (`_meta_where`), and `Readers` is
their documentation.

**VaultNotes** is what works on the notes themselves. A tool is at one of its phases
(`pc`), and what it has in a temporary file and not yet moved to its place is `out`; a
killed one leaves the file in `temps`, where `_existing_keys` finds it. `notes` is in the
order of appearance, a digest is a set of links, the map a set of digests. The walks of
the tools find what was there when they began and any of what came since. `twice` notes
that two tools of a kind have overlapped, which nothing prevents and which the code does
not survive (section 6).

**Dashboard** is the server with the page it serves. `req[t]` is what a thread handles,
split at every call to Mattermost; what it does to the shared dictionaries between two
calls is one step. Ages take the place of times: `Tick` lets calls and cache entries grow
older, `Hours` sessions. `page[b]` is what a browser shows: a page that has been loaded
anew ignores the answers to the requests of the one before (`awaited`). `login` is an
observer: the login the user of a browser is in by right, kept apart from the cookie's
session, so that `Entitled` compares the two.

`MC...` modules give the instances' sets and symmetries. `..._proofs` modules hold the theorems.
`Startup_proofs` also has those about `Dashboard`, and `Decide_proofs` those about
`LearnNote`: the definitions of these two carry the names `Dash...` and `Learn...`
(`DashInit`, `LearnSpec`), so that one module can extend both.

## 3. Runs

| Run | Instance | Shows |
|---|---|---|
| `chat` | two agents that may name each other, two rooms, 3 posts, frozen clock | `Contract`: no uncalled, second, disordered or forbidden answer; `ImplementsChatter` |
| `recover` | one agent, 3 posts, clock to 3, window 2, limit 2, one death, fairness | `CreditsPerWindow` over a restart; `HandlerReturns`, `ComesBack` |
| `talk` | two agents, posts without a bound, 3 frames per socket, sockets that break, deaths, fairness | `HumansHeard`: a human's post is read, however long the agents go on |
| `memory` | two roles share a room, one has another; 4 memos, 2 lines kept, 2 deaths | `InOrder` in every file, `ImplementsLog` for a role's own file |
| `decide` | 3 messages, 3 iterations, one death, one cleared list, any call failing; beside it a learning note, 7 lines, limits 4 and 2, one death | `StaysInSession`, `AskedTwiceAtMost`, `CallsBounded`, `ReturnsValid`, `Decides`; `LastSaidKept`, `ForgetsOldestFirst` |
| `admin` | two rooms, Linux and macOS, three texts of which one is broken, 6 messages, one death | `ApprovedOnly`, `DoneMeansCommitted` |
| `start` | two roles, three kinds of network, 3 starts, 2 failures, one event between starts | `CompleteMeansUp`, `RerunCompletes`, `ValidTokensKept` |
| `move` | any command failing, one power failure, 1 archive kept, 2 starts: two PCs with 2 posts (1 when something fails) and 2 backups in turn, or one PC with 4 backups, two at a time | `NothingDangles`, `NothingVanishesLive`, `PointsAtNewest`, `RetentionKeepsGood` |
| `vault` | two paths, five contents, an agent with the model and a rebuild without it; 2 writes, one rebuild, one death, fairness | `TablesAgree`, `CacheFresh`, `SearchExact`, `RowidsNameOneNote`, `CatchesUp` |
| `notes` | two memory files of a role, with a line in common and one twice; two tools, two runs, one death, a new note, a new line, two days, a day and its week to digest | `MigratedOnce`, `LinesArrive`, `DigestsTrue`, `DigestsGrow`, `MapLinksExist` |
| `dashboard` | one browser, two requests at once, an administrator and an employee, restarts and outages without a bound, fairness | `Entitled`, `StatusFresh`, `StatusSettles`, `NamesSettle` |
| `start_lan` | the smallest instance that shows it | a disagreement of the code and its comments, see section 6 |

Each module has one type invariant, which is proved (section 4). The runs `vault` and
`dashboard` check theirs too, as these say more than types: which process has the open
transaction, and that a login form shows nothing of the page before it.

Bounds. Three posts are a cause, an answer to it and an answer to the answer, so that
agents answer each other while a human's post waits; a window of two ticks with three
posts and a clock that reaches 3 lets credits enter, fill and leave the window. Four memos
with two kept roll each file and overlap two saves in every order. Seven lines over four
make each limit push the other, and let a forgotten line be said again; in `decide` the
note and the brain, which share nothing, are explored one without the other (`MCDecide`).
Six messages are two updates and two applies in two rooms with two retries. In `talk` a
socket holds three frames, so that a human's post waits behind another and one comes after
it; frames beyond are lost, as if they came to a broken socket. Two backups with one kept
prune each other, before or after a copy of the folder; four, two at a time, are an
overlap, before it a backup for it to spoil, and after it one that mends, or fails to
mend, what it left (`Explored` in `MCMigration` keeps the two kinds of behaviour apart,
and those with a failure to one post). Three turns are the first, one that finds the
session and one after a restart or a cleared list; three iterations have a first, a middle
and a forced last one. Three starts with two failures and an event are a start that
breaks, one that meets what the first left on another network or after a reboot, and one
after that; both call `infra_up.sh` twice. The two roles are interchangeable, so the run
takes them as a symmetry set, as the runs of `Migration` do with PCs and backups. In
`vault` two writes are a note and a change or removal of it, or two notes; the contents
are one of each level: given, missing, not a text, of which one shares a word with the
query, and one of each form that cannot be indexed; one rebuild by a process without the
model gives the rows an agent has vectors for new rowids and none, and one death comes at
any step. In `notes` two runs are a tool and the same again after it was killed, or beside
it, or another one, and the map has room for one digest, so that a second pushes the first
out. In `dashboard` two threads are a slow request and whatever comes in between; an age
of one is the limit of a session and of an entry, so that "young" and "expired" are the
only two ages; logins, outages and restarts are not counted. What is proved (section 4)
needs none of these bounds.

Where a run says `CHECK_DEADLOCK FALSE` the instance really ends: when its posts,
messages, memos, turns, starts, runs or notes are used up, nothing is left to happen. The
index and the dashboard never end, and their runs check for deadlock.

Fairness. Only the program's own steps are fair, and weakly unless said otherwise. In
`AgentRuntime` these are the handler, the end of a dead socket and the reconnect: every
call of a handler has a timeout, keepalive notices a dead socket (:794), and `run_forever`
retries without a limit (:923); in `Chatter` they are the same. Humans, the clock, breaks
of sockets and deaths are not fair. (`ImplementsChatter` is about steps only, so that each
of the two modules states its own fairness.) In `Decide` it is `decide` itself, whose CLI
and LLM calls all have timeouts. In `VaultIndex` a process goes on with an index run or a
search that it has begun, and an agent begins an index run again and again (strongly,
since the lock may be taken whenever it looks): the chat goes on, and a retrieval indexes
first whenever the throttle of 60 s has run out (`vault_integration.py:92`). Notes,
rebuilds and deaths are not fair. In `Dashboard` threads go on and time passes; a page
asks for its channels every 15 s (`ceo_dashboard.py:2408`) and its user opens the view of
the agents now and then (strongly: an expired session or busy threads may be in the way at
the moment), while logins, hours, restarts and Mattermost are not fair. That the dashboard
is not restarted for ever is a premise of its two liveness properties (`RestartsEnd`), and
that Mattermost stays as it is one of each part. The other runs check no liveness.

## 4. Proofs

Each theorem holds for all values of the constants that satisfy the module's
`ASSUME` (a positive window, limit and number of lines kept, sets of roles and
rooms that do not overlap, and so on), and for unbounded numbers of roles, posts,
messages, backups and failures. Two of these assumptions carry weight. `KeysOK` says that
no two memory files are of one role and one kind, which their names give
(`vault_migrate.py:98-130`): the key of a line is made of role, kind and text, and two
such files would take each other's lines for migrated. `LearnNoteOK` has a limit for
corrections of at least 1 (25 in `bogo_runtime.py:237`): with 0 a correction would be
dropped as it is said.

- *Types*: `TypeCorrect` of AgentRuntime, RoomMemory, AdminPipeline, Migration, Decide,
  Startup, VaultIndex and VaultNotes, `DashTypeCorrect` and `LearnTypeCorrect`. `Decide`'s
  is also that of `OfficialBrain`.
- *The backstop* (`AgentRuntime_proofs!Backstop`). `CreditsPerWindow` is not inductive, as
  it says nothing of the list the runtime keeps. `BackstopInv` adds that no credit is of
  the future or of a later process, that every credit of the present process younger than
  a window is still in `sent`, that all these sets are finite, and that any window holds
  at most `BACKSTOP_MAX`. When a credit is granted, those of any window that could hold it
  are among the ones counted.
- *The contract* (`AgentRuntime_proofs!Refinement`). `ContractInv` adds to the types: ids
  are unique and below `nextId`, unread frames are ahead of the post being handled, the
  answers of a role are to posts it has read, the post in hand called for an answer, and
  at each point of the handler it has the answers the point allows. Every action maps to a
  step of `AgentContract` or to a stutter.
- *Memory files* (`RoomMemory_proofs!MemosInOrder`). `OrderInv` adds that the text a
  process is about to write is ordered, that memo numbers grow, and that the memos of a
  role's own file do not pass the memo in hand.
- *A role's own memory* (`RoomMemory_proofs!OwnMemoryIsALog`). Its file implements
  `RollingLog`, whatever the others do to the files of the rooms. A memo counts from the
  moment the file is opened, so opening is a step of the log and writing a stutter, and a
  death in between is the log's loss. `OwnLog` adds that nobody else has the file open, so
  that it always parses, and that until it is opened the text to come is what the file
  holds and the memo, rolled.
- *Definitions* (`AdminPipeline_proofs!OnlyApproved`, `SuccessIsCommitted`). The invariant
  adds what the handler holds at each step: an approved text in the file before it is
  added, the index that holds it before a commit, HEAD before success.
- *Archives* (`Migration_proofs!LatestIsNewest`, `RetentionIsSafe`), for any number of
  backups that overlap, fail and die. `Folder` says of each PC that a backup that overlaps
  no other is the only one under way, has the newest stamp of the folder (`Own`), and from
  its copy on has its archive there and whole, so that pruning older stamps cannot take
  it; and that an overlap counts as astray until a backup that ran alone has been copied.
- *Live servers* (`Migration_proofs!NoLiveLoss`). The invariant (`StoppedInRestore`) adds
  that at the steps of a restore that touch the database Mattermost is stopped, or the
  stop has failed.
- *Whole backups* (`Migration_proofs!MovesComplete`). `NothingDangles` is about moves
  without failures, where `FlawlessInv` holds of every PC: one that never finished a start
  makes no backups (`FirstStart`); each backup under way, alone or not, holds posts whose
  attachments are on the PC (`GoodDraft`), and one that is made is complete
  (`GoodBackups`); the posts of the database have their attachments, on the PC or, during
  a first start, in the backup that it restores (`GoodPosts`). The hard part is
  `GoodRestore`: a PC whose timer runs has all the attachments of its newest backup, or a
  marker that keeps a start from restoring it.
- *Decisions* (`Decide_proofs!Bounded`, `Validated`, `OneSession`). The invariant adds
  that calls equal iterations while the loop runs, that what waits for its review is
  valid, and that a new session is made only when there is none with the title or a call
  has failed.
- *Turns* (`Decide_proofs!AskedTwice`). `AskedInv` says that no message to come has a turn
  yet, that none has more than two, and that the place in `call_official_brain` says how
  many the present one has: none before the first attempt, at most one before a new
  session is asked.
- *The learning note* (`Decide_proofs!LessonsKept`, `OldestGoesFirst`). Pruning is a fold
  over the lines, so the proofs are about every sequence of lines: `FilterSpec` says what
  a fold that filters keeps, in which order, `UniqueLength` how many, and `PruneIs` that
  pruning loses at most one line when the note was within its limits before the new one,
  the oldest of the sort that has too many, never the last. The induction is over a *set*
  of sequences (`SeqInG`), as the induction theorems of the library, which take an
  operator, cannot be used. `LearnInv` then says that the note and the text in hand are
  within the limits, without a line twice, and that one of them has the line said last.
- *The start* (`Startup_proofs!NoFalseCompletion`, `StartsAgain`, `KeepsTokens`). The
  invariant follows the script: after each step what it has made holds until the end
  (`Containers`, `Secrets`, `Running`), and as long as no command has failed `.env` is
  what detection says of the present network, the database is reachable under its alias,
  and every service handled runs with its token (`Smooth`). A half-replaced database is
  part of these states: it is exempted in `RerunCompletes` only, and a start that reports
  success on it has its bots' tokens in it all the same.
- *The index* (`VaultIndex_proofs!TablesAlwaysAgree`, `CachesFresh`, `RowidsKept`). The
  first part is about the operators on a database: `Inserted`, `Updated`, `_purge_deleted`
  and `_bump_version` keep it `Good` (typed, its tables in agreement, no rowid above the
  largest ever given) also when the row they look for has gone. The invariant `IndexInv`
  adds that the open transaction has the committed version, no fewer rowids, and names no
  other note by a rowid (`Tables`); that the row in a run's hand was once given (`Hands`);
  that no process has read a version ahead of the present one (`Versions`); and that
  ranked rowids keep their notes in the open transaction too (`Ranks`). Without the last a
  commit could break it, without `Versions` a new version could be one under which some
  process keeps other vectors.
- *Searches* (`VaultIndex_proofs!SearchesExact`). On top of `IndexInv`, `Exact` says what
  a search holds at each of its steps as long as the version is that of its beginning: the
  allowed rows with a matching word, then the vectors of the index, then both. Any commit
  raises the version and so ends the claim. It also needs that a rowid is that of one row,
  so that fetching by rowid adds none, and that `_meta_where` lets through what `Readers`
  says (`FilterIsReaders`).
- *The notes* (`VaultNotes_proofs!OneNotePerLine`, `NoLineLost`, `RollUpsTrue`, `MapTrue`,
  `NoNoteForgotten`), for any number of tools that overlap and are killed anywhere. The
  invariant is one of the vault and one of each tool. A temporary file holds what the code
  was just writing (`OutOK`); a digest links notes of its own group and period under the
  id of the two (`DigestsOK`). A migration that runs alone (`Solo`) knows the key of every
  line that is in a note and of none that has not arrived, and what it has read has
  arrived or is still in its hand; a roll-up that runs alone holds, of the notes there
  were when it began, all that belong to its period. `twice` lifts these two claims.
- *The dashboard* (`Startup_proofs!NothingUnentitled`, `StatusYoung`), for any number of
  browsers and threads. `Entitled` needs that the session under a browser's cookie is the
  login its user is in by right, with the same age (`SessionsTrue`), and that a session
  that has not expired is behind a loaded page, and only a loaded page awaits an answer
  (`Pages`). `StatusFresh` needs `Ages`: a cache entry's age and the time it has left
  never exceed the limit together, and no answer is older than the call it is the answer
  to, wherever it is on its way.

Only model-checked: the liveness of `recover`, `talk`, `decide`, `vault` and `dashboard`
(`HandlerReturns`, `ComesBack`, `HumansHeard`, `Decides`, `CatchesUp`, `StatusSettles`,
`NamesSettle`), which rests on fairness and ENABLED and so is out of the prover's reach;
the refinement `ImplementsChatter`, whose mapping puts sets of posts into sequences; and
the counterexample of `start_lan`. Every invariant and every action property that a
passing run checks is a theorem. No module declares a RECURSIVE operator.

## 5. What is not modelled

PROJECT.json gives the reason per component. In short: the delays of the reconnect
back-off and the update of `.env` are planned below; network probing, parsing of
definitions, wrappers and page rendering hold no state whose order could go wrong.

Of the vault: scores, the limit of the best hits and the throttle of `ensure_indexed`;
`backfill_visibility`, which reads, changes and rewrites notes, so that an edit made in
between is lost; automatic back-links; telemetry, evaluation and the note template; dry
runs; people who move notes (a move is a removal and a new note in `VaultIndex`) or edit
the notes the tools of `VaultNotes` read. Of the dashboard: its views of the vault
(`ceo_dashboard.py:377-531`, `673-729`), which keep no state between requests; the chats
that the page keeps in the browser; sessions whose cookie is lost, which stay in memory
until a restart but which nobody can name.

Of the start pipeline: macOS, where launchd and the mirror take the place of systemd
and Colima forwards the ports; the virtual environment; network keys written into
`.env` by hand; a Postgres container without a health check; the administrator's
password of a restored database, which is the old PC's; team memberships.

Left out inside the modelled parts: other writers of the worktree (an editor, git
pull) and a second copy of the same bot; a child process of the CLI that outlives
its parent; clocks that run backwards, or two backups begun within one
second, whose stamps would be equal; two starts of one PC at once; `stop --all`, which
unregisters the backup timer; what Mattermost keeps in memory when its database is
restored under it; a note that cannot be opened (`vault_rag.py:210`), which is passed
over; the files `SOUL.md` and
`config.yaml` of a role's home; brains whose settings turn the persistent learning
off. `AgentRuntime` checks `can_send` where the code does, in the send steps; the
second line of defence that `_validate` offers is never used by its callers (no call
passes `sendable`: :418, :605, :631, :680), and the model has none.

## 6. Where the code and its comments disagree

One disagreement has a run that ends in a counterexample, listed in PROJECT.json under
"findings" with the lines it contradicts:

- `start_lan` (`BotsReach`): with one private network, the usual case, `.env` gets its
  address as `MM_BIND_HOST` but no `MM_HOST` (`net_autodetect.py:246`), so Docker
  publishes Mattermost at that address only, and on Linux the bots, `_token_valid` and
  the dashboard's login (`ceo_auth.py:32`) find nothing at 127.0.0.1, where
  `.env.example:52` and `bogo_oneclick.sh:637` say they always do. The start ends as
  complete: its check asks systemd whether the bots run (`:472`), not whether they
  connect. Since no token can be checked, every start issues two more per bot.

Others came up while the modules were written and have no run:

- Backups by the timer, by hand and before a stop take no lock. The stamp is of the start
  (`bogo_backup.sh:104`), the copy to the latest pointer of the end (`:176`), so of two
  that overlap the older may be the last to copy itself, or find its archive pruned by the
  other's retention. Then the pointer is not the newest archive, against `:179-180`, "it
  always keeps pointing at the latest", until a backup has run alone: the observer
  `astray` in `PointsAtNewest`.
- A `pg_restore` that fails after its DROPs is a warning (`bogo_restore.sh:134`) and the
  marker is written (`:174`), with "Data restore complete" (`:180`): no later start
  restores what is missing.
- A memo of one room is also put in the role's own memory (`bogo_runtime.py:910`), which
  goes into the prompts of every room, although `:353` and `:904` speak of memory that is
  kept apart by room.
- What a failed apply left in the git index is committed by the next apply, of whichever
  room (`ceo_admin_runtime.py:291` commits the index), although `:122` keeps rooms apart.
- On a PC that has made a backup of its own, the next start restores it over what was
  written since (`bogo_restore.sh:89` compares with the marker only), although
  `bogo_oneclick.sh:344` says that a re-run does not overwrite existing data.
- Two processes that save a memo of one room at once lose one of them: the file is
  read, truncated and rewritten without a lock (`bogo_runtime.py:376`), although `:352`
  says that all agents share it and `:377` that the last six lines are kept.
- The first message of every new process empties the memory files of the role's home
  (`bogo_brain.py:204`), although `:168` calls the preparation idempotent.
- A start whose first installation was cut short is followed by a restart
  (`bogo_oneclick.sh:452`), which starts the missing services but never enables them
  (`install_service.sh:353`), so that they are gone after a reboot; and a service that
  fails to restart does not end the script (`:358`), as `restart && say` hides it.
- `ensure_container` starts a stopped Mattermost (`infra_up.sh:438`) before
  `ensure_compose_config_current` would make it anew. When the PC has lost the address
  the container is published at, no start succeeds until somebody removes it: the
  exception in `RerunCompletes`.
- A failed network detection "does not block bot startup" (`bogo_oneclick.sh:201`), but
  the host check then probes 127.0.0.1 while `.env` still has the last address
  (`:321`), and ends the start.
- When the rooms cannot be listed, `ensure_channels` keeps what `channels.json` holds,
  a placeholder of the example or the id of another server's room included
  (`provision_mm.py:378`), against `:23` "파일만 보고 skip 하지 않는다". The flag `blind` of
  `CompleteMeansUp` is this case. A token whose check timed out is replaced (`:471`).
- One credit of the "60초 송신 상한" (`bogo_runtime.py:8`, `:872`) pays for an
  acknowledgement and a reply, and error notices are free: the limit is one of
  decisions (`CreditsPerWindow`), not of posts.
- A correction is filed with `_last_response` of the moment it is handled (`:841`),
  which may be an answer to something later than what the human corrected.
- The learning note is pruned (`:266`), although `:225` says that N lines given are N
  lines kept; and it is rewritten in place (`:262`), so that a death between
  truncation and write leaves none of it.
- On macOS the bot's own commit runs the hook, which restarts the bot
  (`post-commit:54`) before it has reported, with the waiting changes of all rooms.
  On Linux nothing is reloaded (`ceo_admin_runtime.py:335` is launchctl only, and
  `launchd/sync_app.sh` is not in the repository).
- "apply" takes whatever waits (`ceo_admin_runtime.py:362`): a preview may have been
  replaced after the one its approver read, or its post may have failed, against "diff
  승인 게이트" (`:17`). A failed commit leaves the new text in the worktree, which every
  process on Linux loads when it next starts. A death while the file is truncated
  leaves a definition without which no process of the PC starts.
- The restore marker travels with the copied folder (`bogo_restore.sh:89`): the new
  PC takes a backup the old PC has restored as restored here. A restore that gives up
  after Mattermost was stopped leaves it stopped (`:126`, `:152`) until `step_bots` calls
  `infra_up.sh` again, which starts it.
- A stop of Mattermost that fails is ignored (`bogo_restore.sh:116`, `|| true`), although
  `:114` is there to prevent conflicts with the injection: the database is then replaced
  under a live server. `NothingVanishesLive` exempts this case and no other. Likewise the
  start of Mattermost at the end (`:171`) may fail and the marker is written.
- "A restore failure does not block bot startup" (`bogo_oneclick.sh:354`), but Mattermost
  has to come up on whatever a restore that failed or was killed has left, in this
  start and, before the restore is tried again, in the next: the second exception in
  `RerunCompletes`. `:358` speaks of a partial restore.
- The retention counts archives that a failed tar left torn (`bogo_backup.sh:194`). A
  backup that ran alone is whole before it prunes, so a newer whole archive stays
  (`RetentionKeepsGood`); of two that overlap, one may prune the other's archive, and a
  third that is torn by then may be what stays.
- The tests of `LLM_CALL_HARD_CAP` look at the length of a list that is always 1
  (`bogo_runtime.py:549`, `:589`). The loop is bounded all the same (`Bounded`).
- "1메시지=1호출" (`:651`) does not hold when `--continue` fails after its turn: the
  message is asked again of a new session (`AskedTwiceAtMost`). What is counted are the
  sessions that took a message: a second `--continue` to the same one would not be seen, but
  `call_official_brain` has none.
- `docs/README.md:17` of `app/` speaks of a back-off of at most 30 s and of stopping
  when the token is bad; `run_forever` waits up to 60 s and never stops.
- A search connects first, which needs the write lock for the schema
  (`vault_rag.py:63`); while an index run holds it longer than 5 s the search fails with
  "database is locked", and `retrieve_context` returns no context at all.
- One note makes every index run raise when its visibility is `true` or a list
  (`vault_rag.py:221`), when it is not UTF-8 (`:209`; only OSError is caught), or when its
  id, type, role, team or date is a list (`:224-235`); a rebuild has by then emptied the
  index: the exceptions in `CatchesUp`.
- `search` fetches rows by rowid without the filter (`vault_rag.py:475`), so that a note
  that has become private since it was ranked is shown once: `SearchExact` is about
  searches during which nobody commits.
- `vault_schema.py:38-39` says that notes without a level are indexed as "team"; indexing gives
  them the default of their type, which for decisions, policies and digests is "org".
- A temporary file that a killed migration left has a key and so counts as migrated ever
  after (`vault_migrate.py:45`), although `:10-11` speak of a note that exists: the line
  is in none. `LinesArrive` names the case. Two migrations at once
  write a line twice, and of two roll-ups at once the one that collected first may write
  last and drop links (`twice`).
- `vault_rollup.py:14` gives an id of a digest without the hash of group and team that the
  code adds; with it, two groups of one role cannot take each other's place. A note whose
  date is not a text, or whose team is a list, raises out of every roll-up.
- A success of one thread that ends after the failure of another puts an answer back that
  the failure dropped (`ceo_dashboard.py:352`). It is as young as `StatusFresh` says.
- The dashboard logs in at 127.0.0.1:8065 whatever `.env` says (`ceo_auth.py:32`). An
  account of the file whose password there is wrong and right in Mattermost is let in with
  the role that Mattermost gives (`:111-114`). A name, once known, never expires, so that
  a renamed author keeps the old one until a restart.
- The page's `doSend` (`ceo_dashboard.py:2227-2262`) uses the global session after it has
  waited, and so adds an answer to whichever chat is open by then. A post whose answer
  is lost is reported as failed although it may be stored, and a second try posts it twice.

## 7. Plan

Written, in this order: the runtime and its contract; the memory files and the
note; the definition pipeline; the migration; the decision engine; the start pipeline on
Linux; the index of the vault with its proofs; its notes and tools; the dashboard; and the
proofs of section 4, the memory of a role, the notes, the dashboard and the learning note last.

To come, the most important first:

1. Refinements of abstract specifications by the vault and the dashboard: the index as a set
   of rows that a commit replaces at once, the dashboard's cache as the last answer and its age.
   Until then their theorems are invariants and action properties.
2. Composition: `Decide` below `AgentRuntime`, whose brain is any decision, by a
   refinement mapping; `RoomMemory` below the same module's memory of one writer.
3. **Startup** on macOS (the mirror, launchd, `infra_up.sh` without `.env`), and
   **EnvUpsert**: the update of `.env` as a pure operator against a reference: other
   lines survive, a second update changes nothing.
4. **Backoff**: the delays of `run_forever` (2 to 60 s), and the token that is bad.
5. The browser's side of the dashboard's chats, and the rules of agent_schema.py as
   operators.
