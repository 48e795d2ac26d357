----------------------------- MODULE GateIndex -----------------------------
(***************************************************************************)
(* Which graph the gate answers from: the index of it that hooks and the   *)
(* memory server keep under the identity of the graph file (gate/recall.py *)
(* gate_index, http_server.py warm_gate and run_client_hook, hookrun.py),  *)
(* and the local copy of a remote server's graph (remote.py fetch_replica).*)
(*                                                                         *)
(* The graph has versions 1, 2, ...; a version is a whole content.  A file *)
(* has a stamp, what stat tells, and a version.  World says where lookups  *)
(* go: "disk" (each hook is a process that opens the store others write),  *)
(* "server" (hooks run on the server's live store, one at a time, and fall *)
(* back to the disk), "copy" (each hook first brings its copy up to date), *)
(* "shared" (as server, but other processes write the file too), or        *)
(* "still": as disk, with a graph that nobody changes.                     *)
(***************************************************************************)
EXTENDS Integers

CONSTANTS
    Worlds,
    MaxVersion, MaxSaves    \* bounds of the checked instance

VARIABLES
    world,
    made,       \* the last version there was: a change lost in a crash is not made again
    live,       \* the version in the writer's memory: the server's, or a stdio server's
    file,       \* its graph.nq
    copy,       \* the replica: graph.nq, and the version replica.json's etag names
    memo,       \* the index the server keeps in memory
    pickle,     \* the index in the state home
    lookup      \* the hook, or the server's warm-up, at work

graphs == <<world, made, live, file, copy>>
indexes == <<memo, pickle>>

NoIndex == [stamp |-> 0, version |-> 0, near |-> 0]
NoLookup == [step |-> "none", by |-> "none", from |-> "none", stamp |-> 0,
             index |-> NoIndex, kept |-> {}]

IndexInit ==
    /\ world \in Worlds
    /\ made \in IF world = "still" THEN 1..MaxVersion ELSE {1}
    /\ live = made /\ file = [stamp |-> 1, version |-> made]
    /\ copy = [stamp |-> 0, version |-> 0, etag |-> 0]
    /\ memo = NoIndex /\ pickle = NoIndex
    /\ lookup = NoLookup

OnServer == world \in {"server", "shared"}

-----------------------------------------------------------------------------
\* The writer

\* A tool call changes the graph in memory; the save follows, or fails.
Mutate ==
    /\ made < MaxVersion /\ world # "still"
    /\ made' = made + 1 /\ live' = made'
    /\ UNCHANGED <<world, file, copy, indexes, lookup>>

Save ==
    /\ file.version # live /\ file.stamp < MaxSaves
    /\ world = "shared" => file.version < live
    /\ file' = [stamp |-> file.stamp + 1, version |-> live]
    /\ UNCHANGED <<world, made, live, copy, indexes, lookup>>

\* A writer that is not the server; the server reads its file at its next call only.
OtherSave ==
    /\ world = "shared"
    /\ made < MaxVersion /\ file.stamp < MaxSaves
    /\ made' = made + 1
    /\ file' = [stamp |-> file.stamp + 1, version |-> made']
    /\ UNCHANGED <<world, live, copy, indexes, lookup>>

Refresh ==
    /\ world = "shared" /\ live < file.version
    /\ live' = file.version
    /\ UNCHANGED <<world, made, file, copy, indexes, lookup>>

\* The writer ends and starts again; a lookup on it dies with it.
WriterRestarts ==
    /\ live' = file.version
    /\ memo' = NoIndex
    /\ lookup' = IF lookup.from = "live" THEN NoLookup ELSE lookup
    /\ UNCHANGED <<world, made, file, copy, pickle>>

-----------------------------------------------------------------------------
\* A lookup

\* What the gate stats: the file of the store it reads.
Nq == IF world = "copy" THEN copy.stamp ELSE file.stamp

\* The versions a memory may be in when the lookup begins.
Kept == {live, file.version}

Begin(by) ==
    /\ lookup.step = "none"
    /\ lookup' = [NoLookup EXCEPT
                    !.step = IF world = "copy" THEN "fetch" ELSE "key", !.by = by,
                    !.from = IF OnServer THEN "live" ELSE "disk", !.kept = Kept]
    /\ UNCHANGED <<graphs, indexes>>

\* _keep_gate_warm: the lock is the lookup's.
Warm ==
    /\ OnServer /\ memo.stamp # Nq
    /\ Begin("warm")

\* fetch_replica: not asked within REPLICA_MIN_INTERVAL, not modified, or no answer.
KeepCopy ==
    /\ lookup.step = "fetch"
    /\ lookup' = IF copy.stamp = 0 THEN NoLookup ELSE [lookup EXCEPT !.step = "key"]
    /\ UNCHANGED <<graphs, indexes>>

\* graph.nq is replaced, and then replica.json with the etag that came with the body.
BodyAfterEtag == copy' = [copy EXCEPT !.stamp = @ + 1, !.version = copy.etag, !.etag = live]
BodyKept == copy' = [copy EXCEPT !.stamp = @ + 1, !.version = live]
EtagKept == copy' = [copy EXCEPT !.etag = copy.version]

ReplaceCopy ==
    /\ lookup.step = "fetch"
    /\ copy.stamp = 0 \/ copy.etag # live
    /\ copy.stamp < MaxSaves
    /\ BodyKept
    /\ lookup' = [lookup EXCEPT !.step = "tag"]
    /\ UNCHANGED <<world, made, live, file, indexes>>

TagCopy ==
    /\ lookup.step = "tag"
    /\ EtagKept
    /\ lookup' = [lookup EXCEPT !.step = "key"]
    /\ UNCHANGED <<world, made, live, file, indexes>>


\* _index_key, then the memo of this process or the pickle of all, if under that key.
Found(stamp) ==
    IF lookup.from = "live" /\ memo.stamp = stamp THEN memo
    ELSE IF pickle.stamp = stamp THEN pickle
    ELSE NoIndex

TakeKeyUnread == lookup' = [lookup EXCEPT !.step = "near", !.stamp = Nq, !.index =
                    IF pickle # NoIndex THEN pickle ELSE Found(Nq)]
KeyTaken == lookup' = [lookup EXCEPT !.step = "near", !.stamp = Nq, !.index = Found(Nq)]

TakeKey ==
    /\ lookup.step = "key"
    /\ KeyTaken
    /\ UNCHANGED <<graphs, indexes>>

\* The store the gate opens.
Opened ==
    CASE lookup.from = "live" -> live
      [] lookup.from = "disk" /\ world = "copy" -> copy.version
      [] OTHER -> file.version

\* A miss builds the index, and either way the project's neighbourhood is added if it
\* lacks: both of the graph as it is now.  The pickle may fail to be written.
Built ==
    LET i == IF lookup.index = NoIndex
             THEN [stamp |-> lookup.stamp, version |-> Opened, near |-> 0] ELSE lookup.index
    IN IF i.near = 0 /\ lookup.by # "warm" THEN [i EXCEPT !.near = Opened] ELSE i

Build ==
    /\ lookup.step = "near"
    /\ pickle' \in IF Built = lookup.index THEN {pickle} ELSE {pickle, Built}
    /\ memo' = IF lookup.from = "live" THEN Built ELSE memo
    /\ lookup' = IF lookup.by = "warm" THEN NoLookup
                 ELSE [lookup EXCEPT !.step = "answer", !.index = Built]
    /\ UNCHANGED graphs

\* The hook is killed, or its request is lost: the client reads the disk instead.
Killed ==
    /\ lookup.step # "none"
    /\ lookup' = NoLookup
    /\ UNCHANGED <<graphs, indexes>>

FallBack ==
    /\ lookup.from = "live" /\ lookup.by # "warm"
    /\ lookup' = [NoLookup EXCEPT !.step = "key", !.by = lookup.by, !.from = "disk",
                                  !.kept = lookup.kept]
    /\ UNCHANGED <<graphs, indexes>>

Writer == Mutate \/ Save \/ OtherSave \/ Refresh \/ WriterRestarts
Lookup == KeepCopy \/ ReplaceCopy \/ TagCopy \/ TakeKey \/ Build \/ Killed \/ FallBack

-----------------------------------------------------------------------------
\* Properties

\* An index is at least as new as the file whose key it bears: a hook or the server that
\* finds one under the key of the file as it is never misses what was saved, whether it
\* was built from the file or from the live graph, between a call and its save or after
\* a restart (gate_index, warm_gate).
KeyIsNotAhead ==
    \A i \in {memo, pickle} :
        (i # NoIndex /\ world # "copy" /\ i.stamp = file.stamp) => i.version >= file.version

\* A copy that the server would answer 304 for is no older than the server's graph,
\* whatever was interrupted between graph.nq and replica.json (fetch_replica).
TaggedCopyIsCurrent ==
    copy.etag = live => copy.version >= live

=============================================================================
