---------------------------- MODULE SharedStore ----------------------------
(***************************************************************************)
(* graph.nq and the server processes that hold the graph in memory         *)
(* (claude_memory_graph/store.py: open_or_create, refresh, save), with the *)
(* calls that reach them: on_call_tool (tools/__init__.py), the automatic  *)
(* distill of a starting server and its save on shutdown (__main__._run,   *)
(* http_server.build_app), and /api/distill (http_server.distill_upload).  *)
(*                                                                         *)
(* A graph is abstracted to the set of writes it reflects.  A file holds a *)
(* dump in two pieces, because a dump reaches the disk in several writes:  *)
(* the pieces of two dumps never make one graph, and a dump that lacks its *)
(* end is cut inside a line, so neither parses; an empty file parses, as   *)
(* the empty graph.  Modification times are unique, so refresh's           *)
(* comparison of two of them says whether the file changed since a server  *)
(* last looked: fresh is the set of servers for which it has not.          *)
(***************************************************************************)
CONSTANTS
    Server,         \* processes that open the store
    Writer,         \* those whose clients make mutating calls
    Write,          \* the mutations of the calls, one each
    Logged,         \* what an automatic distill promotes from the context logs
    Overlap,        \* whether two processes are ever inside a call at once
    Uploads,        \* whether clients send context logs to /api/distill
    Closed,         \* servers whose sessions end by closing their input
    Hole,           \* a piece of a file nothing was written to
    NoFile,
    NoWrite         \* the mutation of a call that makes none

ASSUME StoreAssumption ==
    /\ Writer \subseteq Server /\ Closed \subseteq Server
    /\ Logged \subseteq Write
    /\ NoWrite \notin Write
    /\ \A X \in SUBSET Write : X # Hole
    /\ Overlap \in BOOLEAN
    /\ Uploads \in BOOLEAN

Piece == {Hole} \cup SUBSET Write
File == [head : Piece, rest : Piece]

ASSUME NoFileAssumption == NoFile \notin File

VARIABLES
    main,           \* graph.nq
    tmp,            \* graph.nq.tmp, one name for every process
    mem,            \* the graph each server holds
    fresh,          \* servers whose _synced is the file's modification time
    pc,             \* where each server is in a call
    job,            \* what the call is
    fd,             \* the file each server's dump goes to
    acked           \* the observer's: writes whose call returned success

vars == <<main, tmp, mem, fresh, pc, job, fd, acked>>

Empty == [head |-> Hole, rest |-> Hole]
Parses(f) == f.head = f.rest
Parsed(f) == IF f.head = Hole THEN {} ELSE f.head

\* What a process that opened the store now would read.
OnDisk == IF main # NoFile /\ Parses(main) THEN Parsed(main) ELSE {}

NoJob == [kind |-> "none", write |-> NoWrite]
Kinds == {"none", "call", "upload", "promote", "exit"}

Phases == {"down", "idle", "stale", "loaded", "dispatch",
           "save", "head", "rest", "rename", "renamed"}

Init ==
    /\ main = NoFile
    /\ tmp = NoFile
    /\ mem = [s \in Server |-> {}]
    /\ fresh = {}
    /\ pc = [s \in Server |-> "down"]
    /\ job = [s \in Server |-> NoJob]
    /\ fd = [s \in Server |-> "none"]
    /\ acked = {}

-----------------------------------------------------------------------------

Goto(s, phase) == pc' = [pc EXCEPT ![s] = phase]

\* The call raised: what it did to the graph in memory stays.
Fail(s) ==
    /\ pc' = [pc EXCEPT ![s] = IF job[s].kind = "exit" THEN "down" ELSE "idle"]
    /\ job' = [job EXCEPT ![s] = NoJob]

MayEnter(s) == Overlap \/ \A t \in Server \ {s} : pc[t] \in {"down", "idle"}

(* Opening the store and refreshing it *)

\* open_or_create; a file that does not parse keeps the server down.
Open(s) ==
    /\ pc[s] = "down" /\ MayEnter(s)
    /\ main # NoFile => Parses(main)
    /\ mem' = [mem EXCEPT ![s] = OnDisk]
    /\ job' = [job EXCEPT ![s] = [kind |-> "promote", write |-> NoWrite]]
    /\ Goto(s, "loaded")
    /\ UNCHANGED <<main, tmp, fresh, fd, acked>>

\* Mutant: no refresh.
EnterUnrefreshed(s, w) ==
    /\ pc[s] = "idle" /\ MayEnter(s)
    /\ w # NoWrite => s \in Writer
    /\ job' = [job EXCEPT ![s] = [kind |-> "call", write |-> w]]
    /\ Goto(s, "dispatch")
    /\ UNCHANGED <<main, tmp, mem, fresh, fd, acked>>

\* on_call_tool begins: refresh compares the file's time with _synced.
Enter(s, w) ==
    /\ pc[s] = "idle" /\ MayEnter(s)
    /\ w # NoWrite => s \in Writer
    /\ job' = [job EXCEPT ![s] = [kind |-> "call", write |-> w]]
    /\ Goto(s, IF s \in fresh THEN "dispatch" ELSE "stale")
    /\ UNCHANGED <<main, tmp, mem, fresh, fd, acked>>

\* The graph is cleared first, so a file that does not parse leaves it empty.
Reload(s) ==
    /\ pc[s] = "stale"
    /\ mem' = [mem EXCEPT ![s] = OnDisk]
    /\ IF main # NoFile /\ Parses(main)
       THEN Goto(s, "loaded") /\ UNCHANGED job
       ELSE Fail(s)
    /\ UNCHANGED <<main, tmp, fresh, fd, acked>>

\* A second look at the file's time: it need not be the one that was loaded.
Stamp(s) ==
    /\ pc[s] = "loaded"
    /\ fresh' = fresh \cup {s}
    /\ Goto(s, "dispatch")
    /\ UNCHANGED <<main, tmp, mem, job, fd, acked>>

-----------------------------------------------------------------------------
(* What the call does to the graph in memory *)

Mutate(s) ==
    /\ pc[s] = "dispatch" /\ job[s].kind = "call" /\ job[s].write # NoWrite
    /\ mem' = [mem EXCEPT ![s] = @ \cup {job[s].write}]
    /\ Goto(s, "save")
    /\ UNCHANGED <<main, tmp, fresh, job, fd, acked>>

\* A read, a refusal, or a failure half way: nothing is saved.
NoSave(s) ==
    /\ pc[s] = "dispatch" /\ job[s].kind = "call"
    /\ \E X \in SUBSET ({job[s].write} \ {NoWrite}) :
        mem' = [mem EXCEPT ![s] = @ \cup X]
    /\ Fail(s)
    /\ UNCHANGED <<main, tmp, fresh, fd, acked>>

\* auto_distill saves when it stored anything, an update included, and
\* swallows whatever it raises half way.
Promote(s) ==
    /\ pc[s] = "dispatch" /\ job[s].kind = "promote"
    /\ \/ /\ Logged # {}
          /\ mem' = [mem EXCEPT ![s] = @ \cup Logged]
          /\ Goto(s, "save")
          /\ UNCHANGED job
       \/ /\ \E X \in SUBSET Logged : mem' = [mem EXCEPT ![s] = @ \cup X]
          /\ Fail(s)
    /\ UNCHANGED <<main, tmp, fresh, fd, acked>>

\* /api/distill promotes what a client uploaded without a refresh.
Upload(s, w) ==
    /\ pc[s] = "idle" /\ MayEnter(s) /\ Uploads /\ s \in Writer
    /\ mem' = [mem EXCEPT ![s] = @ \cup {w}]
    /\ job' = [job EXCEPT ![s] = [kind |-> "upload", write |-> w]]
    /\ Goto(s, "save")
    /\ UNCHANGED <<main, tmp, fresh, fd, acked>>

\* The client closed the server's input: it saves once more, also unrefreshed.
Exit(s) ==
    /\ pc[s] = "idle" /\ MayEnter(s) /\ s \in Closed
    /\ job' = [job EXCEPT ![s] = [kind |-> "exit", write |-> NoWrite]]
    /\ Goto(s, "save")
    /\ UNCHANGED <<main, tmp, mem, fresh, fd, acked>>

-----------------------------------------------------------------------------
(* save *)

\* Mutant: the dump goes to graph.nq itself.
OpenInPlace(s) ==
    /\ pc[s] = "save"
    /\ main' = Empty
    /\ tmp' = Empty
    /\ fd' = [fd EXCEPT ![s] = "main"]
    /\ Goto(s, "head")
    /\ UNCHANGED <<mem, fresh, job, acked>>

\* open(tmp, "wb"): creates the file or truncates the one that is there.
OpenTmp(s) ==
    /\ pc[s] = "save"
    /\ tmp' = Empty
    /\ fd' = [fd EXCEPT ![s] = "tmp"]
    /\ Goto(s, "head")
    /\ UNCHANGED <<main, mem, fresh, job, acked>>

\* A piece goes to the file s opened, under whatever name it has by now.
Put(s, piece) ==
    /\ tmp' = IF fd[s] = "tmp" THEN [tmp EXCEPT ![piece] = mem[s]] ELSE tmp
    /\ main' = IF fd[s] = "main" THEN [main EXCEPT ![piece] = mem[s]] ELSE main
    /\ fresh' = IF fd[s] = "main" THEN {} ELSE fresh

DumpHead(s) ==
    /\ pc[s] = "head"
    /\ Put(s, "head")
    /\ Goto(s, "rest")
    /\ UNCHANGED <<mem, job, fd, acked>>

DumpRest(s) ==
    /\ pc[s] = "rest"
    /\ Put(s, "rest")
    /\ fd' = [fd EXCEPT ![s] = "none"]
    /\ Goto(s, "rename")
    /\ UNCHANGED <<mem, job, acked>>

\* Mutant: the rename does not wait for the end of the dump.
RenameEarly(s) ==
    /\ pc[s] \in {"rest", "rename"} /\ tmp # NoFile
    /\ main' = tmp
    /\ tmp' = NoFile
    /\ fd' = [fd EXCEPT ![s] = "none"]
    /\ fresh' = {}
    /\ Goto(s, "renamed")
    /\ UNCHANGED <<mem, job, acked>>

\* What becomes of a file a dump goes to when graph.nq.tmp is renamed.
Renamed(name) ==
    IF name = "tmp" THEN "main" ELSE IF name = "main" THEN "unlinked" ELSE name

\* tmp.replace(graph.nq); another save may have taken the file away.
Rename(s) ==
    /\ pc[s] = "rename"
    /\ IF tmp = NoFile
       THEN Fail(s) /\ UNCHANGED <<main, tmp, fd, fresh>>
       ELSE /\ main' = tmp
            /\ tmp' = NoFile
            /\ fd' = [t \in Server |-> Renamed(fd[t])]
            /\ fresh' = {}
            /\ Goto(s, "renamed")
            /\ UNCHANGED job
    /\ UNCHANGED <<mem, acked>>

\* save stamps _synced and the call returns.
Return(s) ==
    /\ pc[s] = "renamed"
    /\ fresh' = fresh \cup {s}
    /\ acked' = acked \cup ({job[s].write} \ {NoWrite})
    /\ pc' = [pc EXCEPT ![s] = IF job[s].kind = "exit" THEN "down" ELSE "idle"]
    /\ job' = [job EXCEPT ![s] = NoJob]
    /\ UNCHANGED <<main, tmp, mem, fd>>

-----------------------------------------------------------------------------

\* The process is killed, at any point.
Crash(s) ==
    /\ pc[s] # "down"
    /\ mem' = [mem EXCEPT ![s] = {}]
    /\ fresh' = fresh \ {s}
    /\ fd' = [fd EXCEPT ![s] = "none"]
    /\ job' = [job EXCEPT ![s] = NoJob]
    /\ Goto(s, "down")
    /\ UNCHANGED <<main, tmp, acked>>

Refresh(s) == Reload(s) \/ Stamp(s)
Dispatch(s) == Mutate(s) \/ NoSave(s) \/ Promote(s)
Save(s) == OpenTmp(s) \/ DumpHead(s) \/ DumpRest(s) \/ Rename(s) \/ Return(s)

Next ==
    \E s \in Server :
        \/ Open(s) \/ Exit(s) \/ Crash(s)
        \/ Refresh(s) \/ Dispatch(s) \/ Save(s)
        \/ \E w \in Write \ acked : Enter(s, w) \/ Upload(s, w)
        \/ Enter(s, NoWrite)

Spec == Init /\ [][Next]_vars

-----------------------------------------------------------------------------
(* Type correctness: what the variables range over. *)
TypeOK ==
    /\ main \in {NoFile} \cup File
    /\ tmp \in {NoFile} \cup File
    /\ mem \in [Server -> SUBSET Write]
    /\ fresh \subseteq Server
    /\ pc \in [Server -> Phases]
    /\ job \in [Server -> [kind : Kinds, write : Write \cup {NoWrite}]]
    /\ fd \in [Server -> {"none", "tmp", "main", "unlinked"}]
    /\ acked \subseteq Write

\* save is a full dump and an atomic rename: at every instant, a process killed
\* in mid dump included, graph.nq is absent or one whole dump.
AlwaysLoads == main # NoFile => Parses(main)

\* A call that returned success is on disk from then on: later saves of this or
\* of another server carry it.
Durable == acked \subseteq OnDisk

\* refresh has done its work when the tool runs: the graph it reads and changes
\* holds everything any session was told is stored.
CallsSeeEverySave ==
    \A s \in Server : pc[s] = "dispatch" => acked \subseteq mem[s]

\* A server that will skip the next reload has nothing to reload.
FreshMeansCurrent ==
    \A s \in Server : pc[s] = "idle" /\ s \in fresh => OnDisk \subseteq mem[s]

\* No step takes a write off the disk, acknowledged or not.
NeverForgets == [][OnDisk \subseteq OnDisk']_vars
=============================================================================
