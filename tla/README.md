# claude-memory-graph: models, checks and proofs

claude-memory-graph keeps a bi-temporal knowledge graph for coding sessions: tools write nodes
and edges into an in-memory quad store, every mutating call dumps the store to `graph.nq`, several
sessions may share that file, the sessions' context logs are promoted into the graph without a
model, and hooks put what the graph knows into every prompt. Around it are a server that sessions
start and share, its owner's sign-in, a browser chat and a question planner. This directory holds
TLA+ modules translated from that code, the TLC runs that check them on small instances, and
theorems TLAPS checks for every value of the constants.

`PROJECT.json` maps each definition to the lines it models and lists the runs, the mutants that
show each property can fail, the finding and the hazards.

## 1. The system: an inventory

Paths without a directory are under `claude_memory_graph/`.

| Component | State it keeps | Operations | Met by |
|---|---|---|---|
| **In-memory graph** (`store.py`, `tools/*.py`, `capture_rules.py`) | nodes with a name and a live flag; edges with a valid time, a recording time and an invalidation; the declared relations | `memory_store_resource`, `memory_store_concept`, `memory_link`, `memory_unlink` (three modes), `memory_rename`, `memory_forget` | every session; Distill |
| **Persistence** (`store.py` open/refresh/save, `tools/__init__.py`, `__main__.py`, `http_server.py`) | `graph.nq`, `graph.nq.tmp`; per process the graph and `_synced`, the file's time when it last looked | open, refresh before each call, save after each mutating one, save on exit, `/api/distill` | several processes, through two file names |
| **Distill** (`distill.py`, `context_entries.py`, `remote.py`, `hookrun.py`) | the active logs, their frontmatter and age; `archive/` | list, restore a header, parse, fold, apply, mark, archive, split, save; the same with the graph on a server | sessions append to the same files |
| **Relation lexicon** (`store.py`, `ontology.py`, `base.ttl`) | the phrasings and flags of each relation, the version of `base.ttl` loaded | add, amend, load `base.ttl` again on open | tools, planner |
| **Hooks** (`hooks/register.ts`, `hookrun.py`, `hookcore/`, `gate/nudge.py`, `gate/review.py`) | per-session state (counters, stamps), one global state | one Python call per editor event; nags, cadences | reads state, awaits, writes it back whole |
| **Gate** (`gate/recall.py`, `gate/semantic.py`, `gate/session_corpus.py`, `http_server.py`) | an index keyed by the stored file, in memory and pickled; what a session was given | index, score, decide, inject; a warming thread | built from the live graph |
| **Local server** (`localserver.py`) | pid file, lock file, port | ensure, start, replace, stop | several sessions at once |
| **Sign-in** (`auth.py`) | clients, codes, access and refresh tokens, a JSON file | register, authorize, exchange, refresh, revoke, change a secret | web clients |
| **Browser chat** (`chat.py`) | conversations (bounded), a daily budget | turns that await a model | web clients |
| **Remote mode** (`remote.py`) | a replica file and its ETag | fetch when changed, throttled; proxy calls | the server |
| **Share** (`share.py`) | none | walk one project's subgraph, export | the owner |
| **Reads** (`tools/recall.py`, `search.py`, `chain.py`, `gaps.py`, `store.py recall`) | none | walks, ranking, the hub rule | sessions |
| **Query planner** (`planner.py`, `packages/ceist`) | a vocabulary from the schema | ground words, match, join, plan, answer; dates to ranges and back | gate, `memory_ask` |
| **Reports, adapters, documentation site, deployment** | none | rendering, I/O | people |

What is hard in each, and what makes it correct:

- *Graph.* Calls are sequential inside a process, but a call that raises has changed the graph half
  way, and later saves persist it. A long sequence of renames, re-links, backdated and already
  ended edges must keep names unique, edges resolvable, a single-valued relation single, the two
  clocks consistent, and history bounded but never lost.
- *Persistence.* No lock anywhere; a file's modification time stands for its content. A call that
  was acknowledged must stay on disk; no kill may leave half a file; a server must see what
  another one saved.
- *Distill.* It moves user data between files while sessions write them, saves the graph after
  the files have moved, and can be killed, fail or lose its answer at each step. An entry must
  stay on disk somewhere, and leave the active logs only for the graph.
- *Lexicon.* Loading `base.ttl` again only adds. What was taken away must stay away.
- *Hooks.* Read-await-write of a whole state; two programs that count the same things; counters
  reset by other sessions' files. A session that does not log must be held, at every turn.
- *Gate.* A key computed from a file, a value computed from memory, a copy that may be older than
  either. What was forgotten must not be shown, and nothing twice.
- *Local server.* Start races, a start slower than the time-out, exits that save. One server, whose
  exit loses nothing; a hook that ends; an update that takes effect.
- *Sign-in.* One use of a code or refresh token; expiry, rotation and revocation of pairs; saves
  that fail half way through a change of secrets.
- *Chat.* Limits tested before an await and counted after it; conversations evicted in mid turn.
- *Replica.* Two files that should agree, written one after the other.
- *Planner.* A question is rewritten in a dozen steps, and an answer is injected unasked: it must
  mean what was said, or not be given.
- *Reads.* Bounds met too early hide neighbours; one expansion too far shares somebody else's.

`PROJECT.json` lists each such place as a hazard, at its line, with the properties for it or the
reason there is none.

## 2. Structure

| Modules | Composes | What it is held against |
|---|---|---|
| `GraphOps`, `MemoryGraph`, `CurrentFacts` | operators; the tools over them | `CurrentFacts`, a register file of current and past facts, which `MemoryGraph` implements |
| `SharedStore` | server processes over `graph.nq` | what any process acknowledged |
| `Promotion` | sessions, logs, archive, graph, server | what the sessions wrote |
| `HookSession` | sessions, the mod, its Python calls, logs | observers that count alike without being stored |
| `LocalServer` | sessions' hooks, server processes, lock, pid file, graph | one server, the newest graph |
| `GateScore`, `GateIndex`, `AmbientRecall` | scores; file, index, copy and lookups; a session over both | what a session was given and could see |
| `OwnerAuth` | connectors, browsers, book, file | what was granted under which secrets |
| `Chat` | pages, turns, table | what each page saw answered |
| `Matching`, `Grounding`, `QueryPlan`, `Dates` | each over the one before; dates on their own | `Meant`, the rows a grounding describes; a range read back |
| `GraphReads`, `OneRead`, `Lexicon`, `Reading` | walks over `GateScore`; one walk or date put to one graph; phrasings; every read of a graph | neighbourhoods defined from the links alone |

The invariants of each module live with it; `MC*` modules give the constants values where a cfg
cannot; `*Proofs` modules hold the theorems. No module declares a RECURSIVE operator: walks are recursive
functions, repeated steps are folds, and a plan is built level by level.

What could still be added, in this order: two lookups that fetch the replica at once (`GateIndex`);
two distills at once on one directory of logs (`Promotion`); the migrations of old node types in
`_ensure_base_ontology`; ceist's learned vocabulary.

## 3. Modules and how they correspond to the code

Each module's head says which files it models and what is abstracted; `PROJECT.json` maps every
definition to its lines.

### GraphOps, MemoryGraph, CurrentFacts

`GraphOps` holds the operators: lookups (`FindResource`, `FindConcept` with its folded spelling,
`FindAny` in the order of `tools/link.py`), upserts, renames, and the edge operations of `store.py`
— `CreateLink` with its closure of contradicting edges, `CloseLink`, `HalfLinks` for an edge whose
creation raised after some of its quads were written. `MemoryGraph` has the state (`nodes`, `links`,
`known` relations, the clock `now`) and one action per tool call. A call that raises half way is an
action too (`InterruptedCreate`, `InterruptedLink`, `LinkUnresolved`): the code keeps no undo.
A node is an IRI, a name and a live flag; an edge is its ends, its relation, the four stamps of the
store, and beside them `said`, what the caller's metadata says under the same keys. `create_link`
writes any key a caller passes under the link's own namespace (`store.py:603`) without looking what
it is, so `Metadata` may hold a start, an end, a recording time, an invalidation and its kind, each
next to the store's own value. Of the keys that control reads, only `linkSource`, `linkTarget` and
`linkRelation` are left out as metadata: they would give an edge a second end or relation. Other
properties never influence control. The clock has the resolution of the code's timestamps (seconds);
`create_link` reads it three times, for the closure, the recording time and the start, and a second
may pass between any two (`ClockReads`). It does not run backwards, and stops at `MaxTime`.

`CurrentFacts` is what the single-valued edges promise: a register per subject and relation, with a
set of past facts. `MemoryGraph` implements it under the mapping `Facts` (`FactsImplemented`).

### SharedStore

One `pc` per server process goes through a call as the code does: enter (compare times), reload,
look at the time again, dispatch, open the temporary file, dump it in two pieces, rename, return.
`fd` says which file a dump goes to, because a rename by another process moves the file under an
open descriptor. A graph is the set of writes it reflects; a file is two pieces and parses when they
belong to one dump. `fresh` is the set of servers whose `_synced` equals the file's time. Kills
happen at any step. The automatic distill of a starting server, `/api/distill` (which does not
refresh) and the save on exit (neither) are there; `acked` is an observer's.

Assumptions: two saves never get the same modification time; a dump cut short never parses; an
empty file parses as the empty graph; the rename is atomic and survives a kill (a power failure is
outside the model).

### Promotion

One distilling process, the sessions that write the logs, and, when `remote` holds, the server. A log is
the sequence of its entries, its header (`open`, `headless`, `distilled`, or the path is absent or
gone) and its age (`live` within `LIVE_SECONDS`, `rested`, `stale` past `DISTILL_AFTER_DAYS`). The steps
are those of `distill`: list and restore headers, promote one log, decide, mark (read, truncate,
write), archive, trim, and one save at the end. Which entries the graph takes, refuses or takes with
some links refused is left open, as `MemoryGraph` allows each. `fold` merges the statements
of a name in one log, and the residue keeps a refused name's last statement. In remote mode all logs
are read and uploaded, the server promotes and saves in one step, and the outcomes are applied to
the logs as they are by then; request and answer may be lost.

What may go wrong is a set of `troubles`, chosen at first: `crash`, `failing file`, `lost exchange`,
`race` (a session that resumes an old log in mid run), `restated` (one log states a name twice), `call`
(the graph is changed by tools as well). A property that some trouble breaks in the code says so in
its condition, and section 5 lists what happens then.

Merged steps: the hard link into the archive and the unlink (an append in between is in both, so in
the archive); the write of a trimmed log (the whole log is archived already); reading all logs when
listing. A run takes less than the hour of `LIVE_SECONDS`, so a log does not age in mid run. One
distill runs at a time; two at once are `SharedStore`'s concern on the graph side and not modelled on
the side of the files. The distill *skill*, in which a model works off the residue, is not modelled.

### HookSession

The mod (`Prompt`, `Dig`, `Lookup`, `Compact`, `Stop`) copies the session's and the global state into
a call; `Return` is what Python's `run` and its extensions make of the copy (`Advanced`,
`Remembered`), stored back whole. So a call that overlaps another one of the same session, or
of another session as far as the global day goes, overwrites what the other stored. `Failed` is a
process that dies or times out: the event passes unseen, but for a log file it may have made. Logs
are the modification time of the latest one, `mtime`; `Write` is the model logging, `Retire` a distill
that takes the log away or rewrites it. `behind`, `alone`, `dug` and `reviews` are observers.

### LocalServer

`pc` of a session goes through `ensure_running` as `_ensure` does inside the lock: probe, stop an older
one, start, write the pid file, poll until the deadline. A server process loads the graph, enters its
lifespan, binds, serves, and saves as it exits, also when the port was taken. `faults` are what a
machine may do beyond the code's time limits: `slow start` and `slow stop` (slower than a hook waits),
`slow answer` (a server that serves, but not within a probe's second, so that nobody seems to be there; or
that answers the first of a probe's two requests and not the one that tells its version), `hook killed`,
`stopped by hand`, `leftover` (a pid file of the past beside the owner's own server).
A process may die at any moment under any set, without saving. `InPlace` says whether an update
rewrites the files a running server came from. There are no clocks: a deadline is a choice that the
faults permit.

### GateIndex, GateScore, AmbientRecall

`GateIndex` is who holds which version of the graph: the writer's memory (`live`), its `file`, the
`copy` of a remote one, the `memo` a server keeps and the `pickle` in the state home, each index under
the stamp of the file whose content it stands for; and one `lookup` at a time, step by step (etag and
copy, key, build, done), which may be killed between any two, or fall back from the server to the
disk. `world` says where lookups go (see the module's head). `GateScore` is the arithmetic: terms,
bigrams, proximity, rarity, segments, the margin that decides, the neighbourhood of the project, the
second channel by meaning. `AmbientRecall` composes the two with one session: what it was primed with
and given, its logs and their writers, compaction, the planner's answers. `Key` and `given` make
repetitions visible; `conversation` is what the model can still see. Its constants are assumed to be a
graph for every version, texts and entries in an order (`RecallAssumption`), and the scores that they
give rise to to be whole numbers (`ScoreAssumption`), which is said of the constants, and TLC evaluates it.

### OwnerAuth

`book` is what `_save` writes and `_load` reads back; pending approvals, codes, failures and browser
sessions die with the process. One action per handler of the SDK's provider and of the pages; the
settings page is two, because it awaits its body between the test of its cookie and the change. Every
handler that saves may end in one of `Outcomes`: answered, `unsaved` (the save raises and the
memory is changed already), `lost` (done, but the client does not know and tries again). Secrets are
numbers from a counter, so a token is never minted twice. `family` names the approval a token descends
from and `era` the sign-outs before it: both are observers' fields, read by no guard.

### Chat

A conversation is an object, and a turn keeps the one it found however the table changes. `Ask` is the
route's test of the limits, the table's eviction and the append; `Answer`, `Continue` (tool rounds and
pauses) and `Fail` are what the API may reply; `Lose` is a page whose connection breaks unnoticed by
the server (only when `lossy`). `NewDay` and `Restart` reset what they reset in the code: a restart
forgets the table and the day's count. The observer `called` counts the turns of a day whatever server
ran them, and `lives` the servers of that day.

### Matching, Grounding, QueryPlan, Dates

A question is a sequence of words. `Grounding` follows `ground.py` step by step: the opening, the
spans and their longest match, types, anchors, relations and their direction, negation, dates,
leftovers given to `Matching`, implied types, joins. `QueryPlan` follows `plan.py` and the memory side of
`planner.py`: a plan and its sub-plans, conditions, the strict answer, relaxations one condition at a time,
fallbacks, and what the gate asks of a prompt. The code builds plans of plans; with at most `MAX_VARS` = 2
types in a question, and no two relations between these (`Endless`, on which the code does not return), the
second level is the last. The SPARQL text is modelled by the rows it selects. Of these an answer has the first
`MaxRows` (the gate) or `AskRows` (`memory_ask`) and the total, as `_answer` cuts them and the text then says
how many more there are; which rows come first is left open.
`Meant`, the reference, reads the grounding's nodes and edges directly, without plans: an assignment of records
to the types near the subject under which every relation, value, date and text filter is as said, and which none
of the assignments to what a negated relation adds extends.

Left out: nouns of several words, relations qualified by a word, hyphens and apostrophes, lengths in
characters (a phrase's length is in words), morphology (words of the language are given by their
roots), the learned vocabulary. `Dates` is the calendar, the range of a phrase and the label made of a
range alone; which characters spell a point is modelled by which numbers it can carry.

### GraphReads, OneRead, Lexicon, Reading

`GraphReads` is `memory_recall` (hops, hubs, the beam, the focus), the primed links, chains, the copy of
one project and the gaps. The drift flags read from git, character limits and display caps are left
out. `Lexicon` is the phrasings of relations with the calls that add and amend them, and the reload of
`base.ttl`. `OneRead` puts one date or walk to one graph; `ShareAssumption` says that a copy is asked of a live
project of a graph whose nodes differ in their ids, to one of the depths the command line knows (1 and 2);
`WalkAssumption` that a recall starts at a node of a graph whose nodes have dates, and that rarities are numbers.
`Reading` adds questions, prompts and `memory_ask`; in the behaviours that ask nothing the lexicon changes.
`QuestionAssumption` says that the limits on rows are at least one, and of every question asked that grounding
refuses it or ends `WellGrounded`: its relations join two different things it names, it has at most two types, its
subject is one of them, and what is not a type is an anchor. TLC evaluates it for all the questions of the run.

## 4. Runs

`CHECK_DEADLOCK FALSE` is set throughout: the programs react to requests, clients may stop asking,
and the instances run out of names, seconds, statements or writes.

| Run | Instance | What it shows |
|---|---|---|
| `names` | 3 node IRIs, 2 similar resource names, 3 labels (2 of them one in two spellings), 1 edge, 1 relation beyond the base | `NamesIdentify`, `EdgesResolve` under all mixes of upserts, renames, forgets, half-made nodes |
| `edges` | 2 nodes, 2 edges, 2 relations (one single-valued), 2 seconds, the clock read three times in a call; no metadata, an edge recorded as already over, or one the caller wrote as invalidated | `OneCurrentTarget`, `NoTwinEdges`, `ClocksAgree`, `OneAnswerAtEveryInstant`, `OnlyBounded`, the refinement `FactsImplemented`, and `TypeOK` |
| `turns` | 2 servers that take turns, 3 writes, one of them promoted at start, kills | `CallsSeeEverySave`, `NeverForgets` |
| `readers` | 1 writing and 1 reading server, interleaved at every step; 3 writes, uploads, kills, the writer's save on exit | `AlwaysLoads`, `Durable` |
| `exit_save` | 2 servers that take turns, 2 writes, both closed at last | the finding of section 5 |
| `logs` | 2 logs, 1 fact and 1 note, the graph here or on a server; undisturbed but for lost exchanges (3 statements), or with kills, failing files, restatements and calls (2) | `NothingVanishes`, `RetiredIsStored`, `NotesStay`, `LiveLogsOnlyGrow` |
| `hooks` | 2 sessions, every interval 1, 2 prompts, 1 dig a turn, 1 write, 2 days; undisturbed, or with one failed call | `HeldUntilWritten`, `DigsAgree`, `ReviewsApartInTurn` |
| `servers` | 2 sessions, 2 plugin versions, 3 starts (2 with faults), 1 write; six sets of faults | `OneServer`, `ExitsLoseNothing`, and under fairness `EnsureEnds`, `UpdateTakesEffect` |
| `gate` | 1 session, 3 prompts, a graph of 3 versions of which the last forgets a memory, 3 log entries in 2 files, 3 saves; five worlds | `NoEcho`, `ForgottenIsNotShown`, `IndexesKeepUp`, `NeverTwice` |
| `owner` | 1 connector, 3 words (the token doubles as the password), 3 seconds, 4 secrets, 1 sign-out | `ChangesHold`, `OneHeir`, `KeepsSignedIn`, `FewGuesses` |
| `chat` | 2 pages, 3 questions, 2 turns a conversation, 2 rounds, 1 conversation held, 2 turns a day, 2 servers a day; connections that break or not | `KeptWhole`, `CapsHold`, and under fairness `TurnsEnd` |
| `reading` | 27 questions, answers cut to 1 row, and a prompt of four over every choice of six links (and a dead node) of one graph; 10 walks, of depths 1 to 3, over every choice of seven links of another; 853 date phrases on three days; 3 amendments of the lexicon, with a version of `base.ttl` that adopts an added relation | `AnswersAreMeant`, `DatesReadBack`, `RecallReaches`, `ShareIsTheProject`, `RemovedStaysRemoved` |

Bounds, and why they are enough.

- *Graph.* Two nodes and two edges are what a conflict in a single-valued relation needs; a third edge
  and a third second (tried with one relation, default stamps and a clock read once, 202,901 states)
  change nothing. What metadata may say is cut to one value that moves the valid time and one that the
  store would otherwise own; the proofs are for all of `Metadata`. In `names`, the
  third node gives a name freed and taken again.
- *Store.* Two processes are what every race on one file needs; three writes let each have one and one
  be shared.
- *Logs.* Two logs show that one run's logs do not disturb each other and that a log recreated after
  its archiving is archived beside the first; one statement more than there are names makes a
  statement after a retirement.
- *Hooks.* With intervals of one, the second prompt is the one a session must be held for and the second
  day the one a review may be asked on again; two sessions are one that logs and one that disturbs it.
- *Servers.* Two sessions race for the lock and for the port; two versions are an update; three starts
  are a server, its replacement, and one after a death. Each fault set is a cause the code has a branch
  or a deadline for; their combinations multiply the states and add no branch.
- *Gate.* Three versions are a graph, one that gains and one that loses a memory; an index, a file and a
  copy can then stand at three different places. Of the log, one entry is the session's own.
- *Sign-in.* Lifetimes of one and two seconds over three let every pair of expiries fall in either
  order; four secrets are an approval, its tokens, a rotation and one more sign-in.
- *Chat.* Each limit is one or two and can be met and passed; three questions evict a conversation, come
  back to it and meet its limit.
- *Reading.* Questions are one for each form the planner knows (relation, its inverse, chain, negated
  part, value, date, superlative of time, count, implied subject, leftover that is matched by
  meaning, search by word), alone and where two of them meet; the graphs are all that these links allow. Dates stand at the ends of
  months, leap days, years, decades and centuries.

The proofs of section 6 remove the bounds for the properties they cover.

Fairness is stated where something must end, and only for what the system runs. In `LocalServer` a
session's hook takes its next step and so does a server process (weak fairness of `Ensure` and `Live`:
processes that are scheduled), and a hook that waits for the lock gets it in the end (strong fairness
of `Lock`: `flock` serves its waiters). Nothing is said of sessions starting, updates, calls or deaths. In
`Chat` the API replies in the end, or its client's time-out raises (weak fairness of `Replies`); users
need not ask, and days need not pass. The other modules' properties are safety properties.

## 5. Findings

One run ends in a counterexample: `exit_save`. A session that opened the store, made no call since, and
ends after another session stored something saves its old graph over it; no two calls overlap. The
docstring of `refresh` names that very loss as the thing it prevents (`store.py:112`).

The passing runs exclude each other cause of a loss through a constant, or through a condition of the
property that names it, so they say under which use of the program a promise does hold. The modules also
state, without a run, some sentences of the documentation that the code does not keep. Make the change
below, and TLC shows how:

| Module | Change or definition | Violated | How |
|---|---|---|---|
| `MemoryGraph` | check `RemoveEnds` | itself | `memory_unlink` mode remove takes any edge of the pair (`store.py:660`): it may delete the closed one and leave the open one |
| `SharedStore` | `turns`, `Uploads = TRUE` | `Durable` | `/api/distill` mutates and saves without a refresh (`http_server.py:139`) |
| | `turns`, `Overlap = TRUE` | `FreshMeansCurrent` | a save between a server's load and its second look at the file's time (`store.py:120`) is never loaded; one writer is enough |
| | | `AlwaysLoads` | two saves at once use one temporary file (`store.py:97`), and `graph.nq` is torn |
| | | `NeverForgets` | a starting server's promotion (`distill.py:283`) saves over a call completed meanwhile |
| `Promotion` | check `RestatedIsStored` with `restated` | itself | a split keeps only a refused fact's last statement |
| | check `LatestWins` with `call` | itself | the next start puts an old log's value over one stored since (`distill.py:223`) |
| | `NothingVanishes` without `Undisturbed`, `crash` | itself | killed while marking (`distill.py:151`): the log was truncated and the archive has no copy |
| | `NothingVanishes` without `Undisturbed`, `race` | itself | a session that resumes an old log while it is retired loses what it appended |
| | `RestatedIsStored` without `Undisturbed`, `crash` | itself | killed between archiving (`distill.py:275`) and the one save: the facts are in no graph and no active log |
| | `RestatedIsStored` without `Undisturbed`, `race`, remote | itself | what was appended between upload and outcome (`remote.py:175`) is archived unpromoted |
| `HookSession` | check `ReviewsApart` with `overlap` | itself | two sessions' calls at once each store the global day they were given (`register.ts:98`) |
| `LocalServer` | check `OnlyOlderReplaced` | itself | versions are compared for equality, so a session opened before an update, cleared after it, replaces the newer server (`localserver.py:11`) |
| | check `ReportsAreTrue` | itself | whatever answers ends the wait (`localserver.py:145`): with a pid file of the past beside the owner's server the hook reports a restart for its own version while the owner's goes on (`leftover`); so it does after an update in place, for a version that does not answer (`InPlace`) |
| | `OneServer`, `ExitsLoseNothing` without `faults = {}`, `slow start` or `slow answer` | themselves | a server that serves, or is about to, but misses the probe's second is taken for none (`localserver.py:131`); a second one is started, overwrites its pid file (`localserver.py:141`), finds the port taken, and saves the graph it loaded over what the first has written since |
| `MemoryGraph` | `ClocksAgree` without `StoreKeysUnsaid` | itself | metadata may say `linkInvalidatedAt`, `invalidationKind` or `linkCreatedAt` (`store.py:603`): an edge invalidated without a kind, or with two of a stamp, against the two-clock model of `docs/GLOSSARY.md:69` |
| `Lexicon` | `RemovedStaysRemoved` without its exception | itself | a relation that `base.ttl` adopts after a call added it keeps its `definedAt`, so it can lose phrasings (`store.py:481`) and the next version brings them back, though reloads "never touch LLM-added relations" (`store.py:126`) |
| `GateIndex` | `IndexesKeepUp`, `ForgottenIsNotShown` without the world `shared` excepted | themselves | another process saves before the server looks at the file: the index of the older live graph gets the newer file's key, against `planner.entity_index`'s docstring |
| `Chat` | `CapsHold` with `called <= DailyLimit` | itself | the day's count lives in the process (`chat.py:15`, "A daily cap bounds what a shared link can spend"): each restart on the same day starts it again |
| | `CapsHold` without `~lossy` | itself | a page that lost its connection asks again, and both turns pass the test before either is counted |

Further places where the code, as modelled, does something a reader may not expect; no property forbids
them:

- `_split_file` (`distill.py:193`) copies an entry once per reason it was refused (`Residue`). After a lost
  answer `hookrun.py:133` reports "Nothing was promoted" though the server may have promoted everything.
- An index built between a call and a save that fails may outlive the graph it was built from. After a
  compaction, entries the session wrote later are given back to it (`session_corpus.py:7`). The log's
  layer may add up to `TOP_N + 1` lines. A bigram may span the end of a label and the start of the text.
- In `plan.py` two relations that join the same two types make `_build` and `_plans` recurse without end
  (`Endless`; no question of the `reading` run is grounded so). A strict answer silently drops a relation
  between two records ("which decisions affect quartz within zola" is answered as if it ended at quartz), an anchor
  or a type that is not connected to the subject, although `planner.py:416` promises that all of the
  question was understood: `AnswersAreMeant` asks only for groundings that are `Connected`.
- Dates: the first decade of a century is labelled as the century; "before the 1st century", a thirteenth
  month and very many months back raise; "since 1000" and "before 2100-01" give labels that cannot be
  read back (`DateAssumption` excludes them).
- `amend_relation` may remove every phrasing of an added relation, though `add_relation` calls them
  mandatory (`store.py:447`).
- Metadata that says `linkSource`, `linkTarget` or `linkRelation` gives an edge a second end or relation;
  nothing refuses it. This is not modelled: `OneCurrentTarget`, `NoTwinEdges` and `EdgesResolve` speak of the
  ends and the relation that `create_link` was asked for.
- Memories that score alike by meaning come in any order (`np.argsort`, `semantic.py:105`); `Ranked` keeps the
  corpus's. No property reads the order of equals.

What some properties do not say. `UpdateTakesEffect` is met also by an instant at which no server that a hook
started serves. `NeverTwice` is about what earlier prompts were given; that one reply says nothing twice is not
checked. `ShareIsTheProject` is about nodes and links; the metadata of links and which fields of a person are kept
are not checked. `ForgottenIsNotShown` leaves out the world `shared` and versions that a crash took off the disk.
`AnswersAreMeant` takes grounding as given: `Meant` is computed from what `Ground` took each word for, so a word
grounded wrongly is not noticed, only a plan that does not say what was grounded. In `owner` one wrong
guess locks the pages (`MaxFailures = 1`), so that a right one must not reset the count does not show there; the
theorem `FewGuessesHolds` covers it.

## 6. Proofs

Every theorem holds for all values of the constants that satisfy the module's named assumptions, which
TLC evaluates in the runs. Each invariant was checked by TLC before it was proved.

`MemoryGraphProofs` (any names, IRIs, relations, folding, and any `MaxTime`):

- `TypeCorrect`. Every action is reduced to a few shapes of change to the edge set (`EdgeSteps`), so
  each invariant is proved against those shapes, not against each tool.
- `OneCurrentTargetHolds`, `NoTwinEdgesHolds`. Neither is inductive alone: creating an edge closes the
  conflicting ones, but relies on there being no twin of the new edge, and the other way round;
  `OpenEdgesUnique` is their conjunction.
- `ClocksAgreeHolds`, for any metadata and any three reads of the clock. A rule per edge, kept when time passes and
  when an edge is bounded: what the store stamped agrees for every edge; what a reader finds, for those of which
  the caller said none of the store's own keys; and an edge the caller wrote as over is never revised.
- `OneAnswerHolds`. Uses all of the above: of two rivals at most one is open, and a successor is
  stamped at the second its predecessor is bounded.
- `OnlyBoundedHolds`. A step leaves an edge as it is, bounds an open one now, or is the hard delete.
- `FactsImplementedHolds`, the refinement. Each shape of change to the edges is one of the register file's
  steps or a stutter; `OpenEdgesUnique` is needed because a present fact must be said by one edge, so
  that bounding or deleting that edge ends the fact.
- `NamesIdentifyHolds`, `EdgesResolveHolds`. `NodesInv` adds that IRIs are unique and that concepts are
  never forgotten, and rests on a name being looked up, under any spelling, before a store or a rename
  gives it; `LinksInv` says that edges name declared relations and nodes that have a name.
- `RemovedStaysRemovedHolds`, of `Lexicon`, whatever the versions of `base.ttl` hold. `OnlyOwnLose` says that only
  relations some call defined lose phrasings; so what comes back without a call is of such a relation, in a version
  of `base.ttl` that names it (`BackByAdoption`).

`SharedStoreProofs` (any number of servers and writes):

- `StoreTypeCorrect`, with no assumption; needs that a dump never goes to a file that is not there.
- `SavesInOrder`, assuming `Sole \/ Turns`: one process, or processes whose calls do not overlap, that
  get no uploads and are killed rather than closed (`Closed = {}`). `Durable` is not inductive: a later
  save could carry less. `SaveInv` adds that at most one server is inside a call, that every server past
  its refresh (or idle and fresh) holds what is on disk, how far the dump of the saving one has come,
  and that a call past its mutation carries its write.
- From it `DurableHolds`, `AlwaysLoadsHolds`, `CallsSeeEverySaveHolds`, `FreshMeansCurrentHolds`,
  `NeverForgetsHolds`.

`PromotionProofs` (any logs, names and statements): `NothingVanishesHolds`, `NotesStayHolds`,
`RetiredIsStoredHolds`, each under the conditions its property names, and `LiveLogsOnlyGrowHolds`, assuming that
no behaviour meets a `race`. Three layers:

- what the residue is: it is of the log, and has every note and, where names are stated once, every
  fact that was not taken. It is sorted by line, so these rest on the lines being counted (`NthFinds`, `NthBelongs`).
- `TurnInv`, while no rested log is written in mid run: what was read when listing or uploading is still in
  the file; the log being retired is out of the sessions' reach; those that a server decided to retire
  are not live. A log that is written is therefore never the one that is emptied, archived or trimmed.
- `SavedInv`, in an undisturbed run: every entry is in a log, in the archive or, while a log is rewritten, in
  hand; every entry that is owed (a note, or a fact the graph did not take) is pending or in the
  residue about to be written; a log is only marked when nothing of it is owed.

Where a proof needs a least element of a set of numbers it takes it from the well-foundedness of the
naturals (`LeastExists`).

`OwnerAuthProofs` (any connectors, words, lifetimes and outcomes): `TypeOKHolds`, `ChangesHoldHolds`, `OneHeirHolds`,
`KeepsSignedInHolds`, `FewGuessesHolds`. Each of the first is inductive given the types (`Typed`) once it speaks of memory and file alike, since
a restart makes the one the other: `Current` that every credential in either is of the present era and
that a replaced token opens neither; `HeirInv` that in either a family has one refresh token and one access
token, minted with it and expiring no later, that numbers below the counter are all there are, so a new
pair is new, and that a code's family has nobody yet. `FewGuessesHolds` needs
`GuessInv`: of the guesses that can still lock anyone out, the process counts exactly those it answered, and
no two bear the same mark, so the test before a guess bounds the answers after it.

`ChatProofs` (any pages, caps and number of questions): `KeptWholeHolds`, `CapsHoldHolds`. In `ChatInv` an object of the
table belongs to one name; so unless a connection is lost unnoticed, one turn at a time works on it,
and what that turn carries is what the object holds with one exchange begun. That the answers are the
questions' own, in order, is said by counting them (`AnswersTo`), which a proof can follow message by
message. The cap on a conversation is compared when a question comes and counted when it is answered:
it holds because no other turn of the conversation comes between. What a day costs is bounded by the daily cap for
each server that ran in it: `Spent` says that the present server has let through what it counts, and the earlier ones
of the day a full cap each at most.

`LocalServerProofs` (any sessions, versions and starts): `OneServerHolds`, `ExitsLoseNothingHolds`, on a machine
within the time limits (`faults = {}`: a server that serves answers every probe, and section 5 says what happens
else). `ServerInv` is the types (`Shapes`) and `OnTime`: one session past the
lock; the process it waits for is the youngest; a live server started by a hook serves under the pid file,
or is some session's child, or is being stopped; a server that has loaded holds what is on disk.

`RecallProofs` (any graphs, versions, prompts and logs), on the gate, the reads that walk and the answers to questions:

- `IndexesKeepUpHolds`. `GateInv` says that an index kept
  under the stamp of the file as it is has at least the file's version, in memory, pickled or in the making;
  that versions are in order (file, live, made); and that an etag ahead of its copy names a graph that
  will not come back.
- `NeverTwiceHolds`, `NoEchoHolds`. `InRange` says that every index names versions there are, and `Remembered`
  that what a session was given is among what it stores as injected and answered, and that what it wrote and
  can still see is in files touched since it began.
- `ForgottenIsNotShownHolds`. `NothingOld` adds that the older of the two graphs a lookup noted when it
  began (the saved one and the writer's) is never newer than the file, nor than the index it has in hand.
- `DatesReadBackHolds`, from the calendar: years and months are as long as they should be (`YearLength`, `MonthStep`), so a
  day's number gives the day back (`DateOfOrdinal`) and the day after and the day before undo each other (`DayAfterIs`,
  `DayBeforeIs`). The range may be any: that a phrase gives calendar days, and that the years its words would name can be
  written (1000 to 2099 for a bare year), is `DateAssumption`, which TLC evaluates.
- `ShareIsTheProjectHolds`, from the walk of `ShareHop` unfolded twice; that a copy of a copy is the same rests on
  nothing left in it being stripped or out of reach in it.
- `RecallReachesHolds`, by induction over the hops. `Walked` says what the first hops have found: nothing twice, all
  of it live, all that is one link away, and who a hub holds back. That a hop finds what is new and live beyond its
  frontier is `HopIs`; what ranking by shared words keeps is `RelevantIs`, which needs the sums of rarities to be
  numbers (`SumIs`). The walk, the sums and the flattening of sequences are recursive functions (`CHOOSE`):
  that there is such a function is proved first, by induction over the naturals.
- `AnswersAreMeantHolds` (any graph, any vocabulary, any limits on rows, any question that is `WellGrounded`): given
  the grounding, the rows shown are meant, they are all of them where so many may be shown, and the total is their
  number. `Questioned` says only that
  an answer is one of `Get`; the work is `PlanMeans`, that the rows a plan selects are those the question means. A
  plan asks of a record exactly what leaves its node (`PlanAtIs`), a relation asks the same from either end
  (`RelatedIs`, where `WayOutward`, the mutant, fails), and there is one type, or two and one relation between
  them (`FewTypes`). With one type both sides say the same of each record (`OneTypeIs`); with two, a relation
  that is not negated gives a record of the sub-plan to the assignment, and a negated one none
  (`TwoTypesIs`). Trying to prove it showed three faults of the reference as it stood, each with a question
  that is now in the run: a relation between two records was counted as connected, a negated relation among
  what is out of reach of the subject was asked for, and a negated text filter was forgotten.

They rest on lemmas about the operators: a subsequence has exactly the elements at its places, once
and in order (`PickedIs`), a ranking is a permutation (`RankedIs`), and so a corpus is the live memories (`CorpusIs`), a
decision some of the ranking (`DecideIs`), and a recall some of those not seen (`RecallIs`). From the scores they
need nothing but that they are numbers.

`HookSessionProofs` (any sessions, intervals and bounds): `ReviewsApartInTurnHolds` (`ReviewInv`: without overlap, a
call carries the day of the last review that is stored), `DigsAgreeHolds` and `HeldUntilWrittenHolds` (`QuietInv`: a
call under way carries its session's state; the two counts of digs are one; the log's time a session
remembers is older than what it wrote since; and what it owes is at least what `behind` counts, less the
turn in which a write is first seen).

Only model-checked: liveness (`EnsureEnds`, `UpdateTakesEffect`, `TurnsEnd`), which is out of the prover's reach;
the faulty configurations of `LocalServer`, the overlapping ones of `SharedStore`. That `Ground` ends
`WellGrounded` is an assumption of `AnswersAreMeantHolds` that TLC evaluates for the run's questions, not a theorem.

## 7. Not modelled

- SPARQL text, RDF serialisation, wording of messages, hashing, HTML, the HTTP, MCP and model clients,
  embeddings (an oracle `Close`): data the properties do not tell apart, or libraries.
- ceist's adapters (Arches, ONNX, command line), morphology, the learned vocabulary, bundles and
  configuration: I/O or word-level data without control.
- Reports other than the gaps: they render counts and logs. The documentation site and deployment files
  have no logic of the system.
- `_ensure_base_ontology`'s migrations of old node types; reading `share.json`; the session-end hook, the logs
  of captures and errors; the detection of pointers after a tool call; the proxy, which keeps no state.
- Two concurrent fetches of the replica, and two distills on one directory at once.
- A power failure, a clock that runs backwards, and equal modification times of two saves are outside
  the models.
