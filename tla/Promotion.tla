----------------------------- MODULE Promotion -----------------------------
(***************************************************************************)
(* The context logs and their way into the graph: distill and auto_distill *)
(* (claude_memory_graph/distill.py), the parsing they rest on              *)
(* (context_entries.py), and the same distill with the graph on a server   *)
(* (remote.remote_distill, http_server.distill_upload).                    *)
(*                                                                         *)
(* A log is the sequence of its entries.  An entry is a name and the       *)
(* moment it was stated; a structured one is a Fact, a narrative one a     *)
(* Note.  The graph keeps the entries it took in and, of each fact, the    *)
(* moment of the value it now holds.  Whether the graph takes an entry, or *)
(* only some of its links, or refuses it is MemoryGraph's business and is  *)
(* left open here.  Sessions append while a distill runs.                  *)
(***************************************************************************)
EXTENDS Naturals, Sequences, FiniteSets, SequencesExt

CONSTANTS
    Files,          \* number of logs; their names sort in this order
    Fact,           \* names of structured entries
    Note,           \* names of narrative entries
    MaxSaid, MaxDisturbedSaid,  \* bounds on statements, in the logs and by calls
    Remote,         \* the places of the graph: TRUE on a server, FALSE with the session
    TroubleSets     \* which of Trouble a behaviour may meet, one set each

\* The distilling process may be killed; file operations may raise; an exchange with
\* the server may fail; a log that rested may be written during a run, or state a name
\* it has already; sessions may store facts by memory_store_resource.
Trouble == {"crash", "failing file", "lost exchange", "race", "restated", "call"}

ASSUME PromotionAssumption ==
    /\ Files \in Nat /\ MaxSaid \in Nat /\ MaxDisturbedSaid \in 0..MaxSaid
    /\ Fact \cap Note = {}
    /\ Remote \subseteq BOOLEAN
    /\ TroubleSets \subseteq SUBSET Trouble

File == 1..Files
Moment == 0..MaxSaid
Entry == [name : Fact \cup Note, at : Moment]
Log == [head : {"absent", "open", "headless", "distilled", "gone"},
        entries : Seq(Entry),
        age : {"live", "rested", "stale"}]

VARIABLES
    file,           \* the active logs
    archive,        \* entries in archived files
    said,           \* the observer's: every entry a session wrote
    now,            \* number of statements so far
    graph,          \* in memory
    disk,           \* graph.nq
    remote,         \* where the graph is, by the environment of the process
    troubles,       \* chosen at first, never changed
    pc,             \* where the distilling process is
    run             \* what the distill under way knows

vars == <<file, archive, said, now, graph, disk, remote, troubles, pc, run>>

NoLog == [head |-> "absent", entries |-> <<>>, age |-> "live"]
(* lane: "auto" at a start, "manual" when asked for; todo: the logs still to go
   through; seen: each log as it was last read; left: what the residue keeps of
   it; verdict: the server's; stored: whether anything was. *)
NoRun == [lane |-> "auto", todo |-> {},
          seen |-> [f \in File |-> NoLog],
          left |-> [f \in File |-> <<>>],
          verdict |-> [f \in File |-> "kept"],
          stored |-> FALSE]

NoGraph == [taken |-> {}, value |-> [n \in Fact |-> 0]]

Init ==
    /\ file = [f \in File |-> NoLog]
    /\ archive = {} /\ said = {} /\ now = 0
    /\ graph = NoGraph /\ disk = NoGraph
    /\ remote \in Remote /\ troubles \in TroubleSets
    /\ pc = "down" /\ run = NoRun

Resting == pc \in {"down", "idle"}

\* Nobody kills a run, writes under its hands or takes its file system away.
Undisturbed == troubles \cap {"crash", "failing file", "race"} = {}

MoreToSay == now < IF Undisturbed THEN MaxSaid ELSE MaxDisturbedSaid
Entries(f) == Range(file[f].entries)
Named(n, entries) == {e \in entries : e.name = n}

-----------------------------------------------------------------------------
(* The sessions, and time *)

\* An append to a path that was archived makes the file again, headless.
Appended(log, e) ==
    [head |-> CASE log.head = "absent" -> "open"
                [] log.head = "gone" -> "headless"
                [] OTHER -> log.head,
     entries |-> Append(log.entries, e),
     age |-> "live"]

Write(f, n) ==
    /\ MoreToSay
    /\ \/ Resting \/ "race" \in troubles
       \/ file[f].age = "live" /\ file[f].head \in {"open", "absent"}
    /\ "restated" \in troubles \/ Named(n, Entries(f)) = {}
    /\ LET e == [name |-> n, at |-> now + 1] IN
        /\ file' = [file EXCEPT ![f] = Appended(@, e)]
        /\ said' = said \cup {e}
    /\ now' = now + 1
    /\ UNCHANGED <<archive, graph, disk, pc, run, remote, troubles>>

\* memory_store_resource: stored and saved, without the log.
Store(n) ==
    /\ "call" \in troubles /\ pc = "idle" /\ MoreToSay
    /\ now' = now + 1
    /\ graph' = [graph EXCEPT !.value[n] = now + 1]
    /\ disk' = graph'
    /\ UNCHANGED <<file, archive, said, pc, run, remote, troubles>>

\* LIVE_SECONDS and then DISTILL_AFTER_DAYS pass over a log nobody writes.
Rest(f) ==
    /\ Resting /\ file[f].head \in {"open", "headless", "distilled"}
    /\ file[f].age # "stale"
    /\ file' = [file EXCEPT ![f].age = IF @ = "live" THEN "rested" ELSE "stale"]
    /\ UNCHANGED <<archive, said, now, graph, disk, pc, run, remote, troubles>>

-----------------------------------------------------------------------------
(* undistilled_files: every log is read, then the headless ones are restored *)

Undistilled == {f \in File : file[f].head \in {"open", "headless"}}

List(lane) ==
    /\ run' = [NoRun EXCEPT !.lane = lane, !.todo = Undistilled, !.seen = file]
    /\ pc' = "restore"
    /\ UNCHANGED <<file, archive, said, now, remote, troubles>>

\* A server starts, and its automatic distill.
Start ==
    /\ pc = "down" /\ List("auto")
    /\ graph' = IF remote THEN graph ELSE disk
    /\ UNCHANGED disk

\* memory_distill
Distill ==
    /\ pc = "idle" /\ List("manual")
    /\ UNCHANGED <<graph, disk>>

\* The logs are gone through by name.
Current == CHOOSE f \in run.todo : \A g \in run.todo : f <= g

\* The next log; after the last one the outcomes of a server are dealt with, and
\* a run of one's own comes to its save.
NextLog(rest) ==
    IF rest = {} /\ remote THEN pc' = "idle" /\ run' = NoRun
    ELSE /\ run' = [run EXCEPT !.todo = rest]
         /\ pc' = IF rest = {} THEN "save" ELSE IF remote THEN "decide" ELSE "promote"

\* _restore_frontmatter writes what it read, and keeps the age.
Restore ==
    /\ pc = "restore"
    /\ file' = [f \in File |->
                    IF run.seen[f].head = "headless"
                    THEN [run.seen[f] EXCEPT !.head = "open"] ELSE file[f]]
    /\ IF remote /\ run.todo # {} THEN pc' = "upload" /\ UNCHANGED run
       ELSE NextLog(run.todo)
    /\ UNCHANGED <<archive, said, now, graph, disk, remote, troubles>>

-----------------------------------------------------------------------------
(* Promotion *)

Facts(entries) == {e \in Range(entries) : e.name \in Fact}

\* fold: the statements of a fact are one entry, with the latest one's values.
Promoted(g, log, took) ==
    [taken |-> g.taken \cup took,
     value |-> [n \in Fact |->
        IF Named(n, took) = {} THEN g.value[n]
        ELSE log[SelectLastInSeq(log, LAMBDA e : e.name = n)].at]]

\* Mutant: only narrative entries are left for a model.
ResidueNotes(log, took, twice) == SelectSeq(log, LAMBDA e : e.name \in Note)

\* The lines of the residue: notes, and of a fact that was not taken whole its latest
\* statement, once for each of the reasons (at most two; line l is of entry l \div 2).
Lines(log, took, twice) ==
    LET refused(n) == Named(n, Facts(log)) \ took # {}
        latest(i) == \A j \in i + 1..Len(log) : log[j].name # log[i].name
        kept(i) == log[i].name \in Note \/ (refused(log[i].name) /\ latest(i))
    IN {l \in 2..2 * Len(log) + 1 :
            kept(l \div 2) /\ (l % 2 = 0 \/ log[l \div 2].name \in twice)}

Nth(S, k) == CHOOSE l \in S : Cardinality({m \in S : m <= l}) = k

\* sorted(residue_entries, key=line)
Residue(log, took, twice) ==
    LET lines == Lines(log, took, twice)
    IN [k \in 1..Cardinality(lines) |-> log[Nth(lines, k) \div 2]]

Promote ==
    /\ pc = "promote"
    /\ \E took \in SUBSET Facts(file[Current].entries), twice \in SUBSET Fact :
        /\ graph' = Promoted(graph, file[Current].entries, took)
        /\ run' = [run EXCEPT
                !.left[Current] = Residue(file[Current].entries, took, twice),
                !.stored = @ \/ took # {}]
    /\ pc' = "decide"
    /\ UNCHANGED <<file, archive, said, now, disk, remote, troubles>>

\* Mutant: a log that is being written is as good as any.
VerdictOnLive(log, residue) ==
    CASE residue = <<>> /\ (run.lane = "manual" \/ log.age = "stale") -> "archived"
      [] residue # <<>> /\ run.lane = "auto" /\ log.age = "stale" -> "split"
      [] OTHER -> "kept"

Verdict(log, residue) ==
    CASE log.age # "live" /\ residue = <<>> /\ (run.lane = "manual" \/ log.age = "stale")
            -> "archived"
      [] residue # <<>> /\ run.lane = "auto" /\ log.age = "stale" -> "split"
      [] OTHER -> "kept"

\* Every log is read and sent, with its age.
Upload ==
    /\ pc = "upload"
    /\ run' = [run EXCEPT !.seen = file]
    /\ pc' = "sent"
    /\ UNCHANGED <<file, archive, said, now, graph, disk, remote, troubles>>

\* One log after the other: a fact has the value of the last one it was taken from.
PromotedAll(took) ==
    LET of(f, n) == Named(n, took \cap Facts(run.seen[f].entries))
        last(n) == CHOOSE f \in run.todo :
                        of(f, n) # {} /\ \A g \in run.todo : g > f => of(g, n) = {}
        log(n) == run.seen[last(n)].entries
    IN [taken |-> graph.taken \cup took,
        value |-> [n \in Fact |->
            IF Named(n, took) = {} THEN graph.value[n]
            ELSE log(n)[SelectLastInSeq(log(n), LAMBDA e : e.name = n)].at]]

\* distill_upload promotes, saves and answers; the answer may be lost.
Serve ==
    /\ pc = "sent"
    /\ \E took \in SUBSET UNION {Facts(run.seen[f].entries) : f \in run.todo} :
        LET residue(f) == Residue(run.seen[f].entries, took, {}) IN
        /\ graph' = PromotedAll(took)
        /\ disk' = IF took # {} THEN graph' ELSE disk
        /\ \/ /\ pc' = "decide"
              /\ run' = [run EXCEPT
                    !.left = [f \in File |-> residue(f)],
                    !.verdict = [f \in File |-> Verdict(run.seen[f], residue(f))],
                    !.stored = took # {}]
           \/ /\ "lost exchange" \in troubles /\ pc' = "idle" /\ run' = NoRun
    /\ UNCHANGED <<file, archive, said, now, remote, troubles>>

\* The request did not reach the server.
Unreached ==
    /\ "lost exchange" \in troubles /\ pc = "sent"
    /\ pc' = "idle" /\ run' = NoRun
    /\ UNCHANGED <<file, archive, said, now, graph, disk, remote, troubles>>

-----------------------------------------------------------------------------
(* What becomes of the log *)

Decide ==
    /\ pc = "decide"
    /\ LET v == IF remote THEN run.verdict[Current]
                ELSE Verdict(file[Current], run.left[Current])
       IN CASE v = "archived" -> pc' = "mark" /\ UNCHANGED run
            [] v = "split" -> pc' = "archive" /\ UNCHANGED run
            [] OTHER -> NextLog(run.todo \ {Current})
    /\ UNCHANGED <<file, archive, said, now, graph, disk, remote, troubles>>

\* _mark_distilled reads the log, empties it and writes it back.
Mark ==
    /\ pc = "mark"
    /\ run' = [run EXCEPT !.seen[Current] = file[Current]]
    /\ pc' = "empty"
    /\ UNCHANGED <<file, archive, said, now, graph, disk, remote, troubles>>

EmptyLog ==
    /\ pc = "empty"
    /\ file' = [file EXCEPT ![Current] = [head |-> "headless", entries |-> <<>>, age |-> "live"]]
    /\ pc' = "rewrite"
    /\ UNCHANGED <<archive, said, now, graph, disk, run, remote, troubles>>

Rewrite ==
    /\ pc = "rewrite"
    /\ file' = [file EXCEPT ![Current] =
                    [head |-> "distilled", entries |-> run.seen[Current].entries, age |-> "live"]]
    /\ pc' = "archive"
    /\ UNCHANGED <<archive, said, now, graph, disk, run, remote, troubles>>

\* Mutant: a rename, over the file of that name that is there.
ArchiveOver ==
    /\ pc = "archive"
    /\ LET f == Current IN
        /\ archive' = Entries(f) \cup {e \in archive : \E g \in File \ {f} : e \in Entries(g)}
        /\ file' = [file EXCEPT ![f] = [NoLog EXCEPT !.head = "gone"]]
        /\ IF run.left[f] # <<>> THEN pc' = "trim" /\ UNCHANGED run
           ELSE NextLog(run.todo \ {Current})
    /\ UNCHANGED <<said, now, graph, disk, remote, troubles>>

\* The path is linked into archive/ under a name of its own and unlinked.
Archive ==
    /\ pc = "archive"
    /\ LET f == Current IN
        /\ archive' = archive \cup Entries(f)
        /\ file' = [file EXCEPT ![f] = [NoLog EXCEPT !.head = "gone"]]
        /\ IF run.left[f] # <<>> THEN pc' = "trim" /\ UNCHANGED run
           ELSE NextLog(run.todo \ {Current})
    /\ UNCHANGED <<said, now, graph, disk, remote, troubles>>

\* Mutant: only the first line of the residue is written back.
TrimToOne ==
    /\ pc = "trim"
    /\ file' = [file EXCEPT ![Current] =
                    [head |-> "open", entries |-> <<run.left[Current][1]>>, age |-> "live"]]
    /\ NextLog(run.todo \ {Current})
    /\ UNCHANGED <<archive, said, now, graph, disk, remote, troubles>>

\* A split writes the residue to the path, over what is there by now; one step,
\* because the whole log is in the archive already.
Trim ==
    /\ pc = "trim"
    /\ file' = [file EXCEPT ![Current] =
                    [head |-> "open", entries |-> run.left[Current], age |-> "live"]]
    /\ NextLog(run.todo \ {Current})
    /\ UNCHANGED <<archive, said, now, graph, disk, remote, troubles>>

\* One save at the end; on_call_tool saves after memory_distill anyway.
Save ==
    /\ pc = "save"
    /\ disk' = IF run.stored \/ run.lane = "manual" THEN graph ELSE disk
    /\ pc' = "idle" /\ run' = NoRun
    /\ UNCHANGED <<file, archive, said, now, graph, remote, troubles>>

-----------------------------------------------------------------------------

\* A file operation raises: the run ends, and what it promoted stays in memory.
Raise ==
    /\ "failing file" \in troubles /\ pc \in {"mark", "empty", "rewrite", "archive", "trim", "save"}
    /\ pc' = "idle" /\ run' = NoRun
    /\ UNCHANGED <<file, archive, said, now, graph, disk, remote, troubles>>

\* The session ends: the server saves once more.
Exit ==
    /\ pc = "idle"
    /\ pc' = "down" /\ run' = NoRun
    /\ disk' = IF remote THEN disk ELSE graph
    /\ UNCHANGED <<file, archive, said, now, graph, remote, troubles>>

Crash ==
    /\ "crash" \in troubles /\ pc # "down"
    /\ pc' = "down" /\ run' = NoRun
    /\ graph' = IF remote THEN graph ELSE disk
    /\ UNCHANGED <<file, archive, said, now, disk, remote, troubles>>

Session ==
    \/ \E f \in File : Rest(f) \/ \E n \in Fact \cup Note : Write(f, n)
    \/ \E n \in Fact : Store(n)
Process == Start \/ Distill \/ Exit
Promoting == Restore \/ Promote \/ Upload \/ Serve
Disposal == Decide \/ Mark \/ EmptyLog \/ Rewrite \/ Archive \/ Trim \/ Save
Fault == Unreached \/ Raise \/ Crash

Next == Session \/ Process \/ Promoting \/ Disposal \/ Fault

Spec == Init /\ [][Next]_vars

-----------------------------------------------------------------------------
(* Type correctness: what the variables range over. *)
TypeOK ==
    /\ file \in [File -> Log]
    /\ said \subseteq Entry /\ archive \subseteq said
    /\ now \in Moment
    /\ {graph.taken, disk.taken} \subseteq SUBSET said
    /\ {graph.value, disk.value} \subseteq [Fact -> Moment]
    /\ run \in [lane : {"auto", "manual"},
                todo : SUBSET File,
                seen : [File -> Log],
                left : [File -> Seq(Entry)],
                verdict : [File -> {"kept", "archived", "split"}],
                stored : BOOLEAN]

\* distill never deletes: between runs, whatever a session wrote is in an active
\* log or in the archive.
NothingVanishes ==
    Resting /\ Undisturbed => said \subseteq archive \cup UNION {Entries(f) : f \in File}

\* What the next distill will read.
Pending == UNION {Entries(f) : f \in {g \in File : file[g].head \in {"open", "headless"}}}

\* _mark_distilled, _archive and _split_file retire what is in the graph: between
\* runs an entry that no distill will read again is one the graph took in.
RestatedIsStored ==
    Resting /\ Undisturbed => {e \in said : e.name \in Fact} \subseteq Pending \cup graph.taken

\* The same of logs that state each fact once.
RetiredIsStored == "restated" \in troubles \/ RestatedIsStored

\* A narrative entry waits for the distill skill: no run takes it off the logs.
NotesStay ==
    Resting /\ Undisturbed => {e \in said : e.name \in Note} \subseteq Pending

\* LIVE_SECONDS: a log a session is writing is out of reach of every run; it only
\* gets longer, whatever fails or is killed.
LiveLogsOnlyGrow ==
    [][ \A f \in File :
            file[f].head = "open" /\ file[f].age = "live"
            => IsPrefix(file[f].entries, file'[f].entries) ]_vars

\* Promotion is repeatable: no run puts a value back that a later one replaced.
LatestWins == [][\A n \in Fact : disk.value[n] <= disk'.value[n]]_vars
=============================================================================
