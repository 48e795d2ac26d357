---------------------------- MODULE LocalServer ----------------------------
(***************************************************************************)
(* This machine's own memory server, which every starting session checks,  *)
(* starts or replaces (claude_memory_graph/localserver.py, called by       *)
(* hookrun.run at SessionStart), and the part of the server's life those   *)
(* sessions see: it loads the graph, binds the port and saves the graph    *)
(* as it exits, also when the port was taken (http_server.serve and        *)
(* build_app's lifespan; uvicorn opens the lifespan before it binds).      *)
(*                                                                         *)
(* A graph is the number of writes it reflects.  A session runs the plugin *)
(* version it was opened with, at every start (clear and compact fire the  *)
(* hook again).  What a machine may do beyond the code's time limits is    *)
(* a Fault; clocks are not modelled.  A process may die at any time.        *)
(***************************************************************************)
EXTENDS Integers, FiniteSets

CONSTANTS
    Session,
    FaultSets,      \* which faults a behaviour may meet, one set each
    InPlace,        \* whether an update rewrites the files a running server came from
    Nobody,
    MaxVersion, MaxWrites,      \* bounds of the checked instance
    MaxStarts, MaxFaultyStarts  \* the same, without and with faults

\* A server that takes longer to come up, to answer a probe, or to exit, than a hook
\* waits; a hook that is killed; a server stopped by its owner; server.json left by a server of the past
\* while the owner's own is serving.
Fault == {"slow start", "slow answer", "slow stop", "hook killed", "stopped by hand", "leftover"}

ASSUME LocalAssumption ==
    /\ FaultSets \subseteq SUBSET Fault
    /\ InPlace \in BOOLEAN
    /\ Nobody \notin Session
    /\ MaxVersion \in Nat \ {0} /\ MaxWrites \in Nat
    /\ MaxStarts \in Nat /\ MaxFaultyStarts \in 0 .. MaxStarts

NoFile == -2
Bygone == -1        \* the pid of a process that died with an earlier session
Pid == 0 .. MaxStarts
Version == 1 .. MaxVersion

VARIABLES
    faults,         \* those this machine may meet: chosen at first, never changed
    installed,      \* the plugin version a session opened now gets
    ver,            \* the one each session was opened with, 0 before
    pc, child,      \* where each session's hook is, and the process it waits for
    report,         \* what its _ensure returned last
    lock,           \* who holds the flock
    pidfile,        \* the pid in server.json
    spawned,        \* how many processes sessions started: the last one's pid
    server,         \* every process: its version, who started it, what it does
    mem, disk       \* the graph each process loaded, and graph.nq

hooks == <<ver, pc, child, report, lock, pidfile, spawned>>
graph == <<mem, disk>>
vars == <<faults, installed, hooks, server, graph>>

Modes == {"gone", "loading", "loaded", "serving", "closing"}
Absent == [version |-> 1, by |-> "hook", mode |-> "gone"]

Init ==
    /\ faults \in FaultSets
    /\ installed = 1
    /\ ver = [s \in Session |-> 0]
    /\ pc = [s \in Session |-> "idle"]
    /\ child = [s \in Session |-> Bygone]
    /\ report = [s \in Session |-> "none"]
    /\ lock = Nobody /\ spawned = 0
    /\ pidfile \in {NoFile, Bygone}
    /\ \E owned \in BOOLEAN :
        /\ owned /\ pidfile = Bygone => "leftover" \in faults
        /\ server = [p \in Pid |->
                        IF p = 0 /\ owned
                        THEN [version |-> 1, by |-> "owner", mode |-> "serving"]
                        ELSE Absent]
    /\ mem = [p \in Pid |-> 0] /\ disk = 0

Serving(p) == server[p].mode = "serving"
Answers == \E p \in Pid : Serving(p)
Alive(p) == server[p].mode # "gone"

-----------------------------------------------------------------------------
\* The session-start hook

At(s, from, to) == pc[s] = from /\ pc' = [pc EXCEPT ![s] = to]

Update ==
    /\ installed < MaxVersion
    /\ installed' = installed + 1
    /\ UNCHANGED <<faults, hooks, server, graph>>

Open(s) ==
    /\ ver[s] = 0
    /\ ver' = [ver EXCEPT ![s] = installed]
    /\ UNCHANGED <<faults, installed, pc, child, report, lock, pidfile, spawned, server, graph>>

\* Every session that is started, or started over, by then.
Started == Cardinality({s \in Session : pc[s] # "idle"})

StartSession(s) ==
    /\ ver[s] # 0
    /\ spawned + Started < IF faults = {} THEN MaxStarts ELSE MaxFaultyStarts
    /\ At(s, "idle", "lock")
    /\ report' = [report EXCEPT ![s] = "none"]
    /\ UNCHANGED <<faults, installed, ver, child, lock, pidfile, spawned, server, graph>>

LockAnyway(s) ==
    /\ At(s, "lock", "probe")
    /\ lock' = s
    /\ UNCHANGED <<faults, installed, ver, child, report, pidfile, spawned, server, graph>>
Lock(s) ==
    /\ At(s, "lock", "probe")
    /\ lock = Nobody /\ lock' = s
    /\ UNCHANGED <<faults, installed, ver, child, report, pidfile, spawned, server, graph>>

\* What /api/ping says: the version of the files the process came from.
Reported(p) == IF InPlace THEN installed ELSE server[p].version
Mine == pidfile # NoFile

LeaveMine(s, p) == Reported(p) = ver[s] \/ Mine
Leave(s, p) == Reported(p) = ver[s] \/ ~Mine

Return(s, what) ==
    /\ pc' = [pc EXCEPT ![s] = "idle"]
    /\ report' = [report EXCEPT ![s] = what]
    /\ lock' = Nobody

Running(s) ==
    /\ pc[s] = "probe"
    /\ \E p \in Pid : Serving(p) /\ Leave(s, p)
    /\ Return(s, "running")
    /\ UNCHANGED <<faults, installed, ver, child, pidfile, spawned, server, graph>>

\* One that answers /healthz in time, but not /api/ping, says no version.
Older(s, p) == ~Leave(s, p) \/ (Mine /\ "slow answer" \in faults)

\* _stop's SIGTERM: a server in uvicorn's hands saves and exits, one that has not
\* come so far just dies, and a pid of the past is nobody's.
Stopping(s) ==
    /\ \E p \in Pid : Serving(p) /\ Older(s, p)
    /\ At(s, "probe", "stop")
    /\ server' =
        IF pidfile \notin Pid THEN server
        ELSE [server EXCEPT ![pidfile].mode = IF @ \in {"serving", "closing"} THEN "closing"
                                              ELSE "gone"]
    /\ UNCHANGED <<faults, installed, ver, child, report, lock, pidfile, spawned, graph>>

\* _stop waits for the pid to go, but no longer than its limit.
StopSent == TRUE
StopWaited == pidfile \in Pid /\ Alive(pidfile) => "slow stop" \in faults

\* _start, after _stop or when nothing answers within the second a probe waits.
Unheard == ~Answers \/ "slow answer" \in faults

Spawn(s) ==
    /\ \/ pc[s] = "probe" /\ Unheard
       \/ pc[s] = "stop" /\ StopWaited
    /\ report' = [report EXCEPT ![s] = IF pc[s] = "stop" THEN "restarted" ELSE "started"]
    /\ pc' = [pc EXCEPT ![s] = "spawned"]
    /\ spawned' = spawned + 1
    /\ child' = [child EXCEPT ![s] = spawned']
    /\ server' = [server EXCEPT ![spawned'] = [version |-> ver[s], by |-> "hook",
                                               mode |-> "loading"]]
    /\ UNCHANGED <<faults, installed, ver, lock, pidfile, graph>>

WritePid(s) ==
    /\ At(s, "spawned", "poll")
    /\ pidfile' = child[s]
    /\ UNCHANGED <<faults, installed, ver, child, report, lock, spawned, server, graph>>

Answered(s) ==
    /\ pc[s] = "poll" /\ Answers
    /\ Return(s, report[s])
    /\ UNCHANGED <<faults, installed, ver, child, pidfile, spawned, server, graph>>

TimedOutOnceGone(s) ==
    /\ pc[s] = "poll"
    /\ Alive(child[s]) /\ "slow start" \in faults
    /\ Return(s, "not answering")
    /\ UNCHANGED <<faults, installed, ver, child, pidfile, spawned, server, graph>>
TimedOut(s) ==
    /\ pc[s] = "poll"
    /\ Alive(child[s]) => faults \cap {"slow start", "slow answer"} # {}
    /\ Return(s, "not answering")
    /\ UNCHANGED <<faults, installed, ver, child, pidfile, spawned, server, graph>>

\* Killed with its process, which releases the lock.
HookKilled(s) ==
    /\ "hook killed" \in faults
    /\ pc[s] # "idle"
    /\ pc' = [pc EXCEPT ![s] = "idle"]
    /\ report' = [report EXCEPT ![s] = "none"]
    /\ lock' = IF lock = s THEN Nobody ELSE lock
    /\ UNCHANGED <<faults, installed, ver, child, pidfile, spawned, server, graph>>

-----------------------------------------------------------------------------
\* The server

Turn(p, from, to) ==
    /\ server[p].mode = from
    /\ server' = [server EXCEPT ![p].mode = to]

Load(p) ==
    /\ Turn(p, "loading", "loaded")
    /\ mem' = [mem EXCEPT ![p] = disk]
    /\ UNCHANGED <<faults, installed, hooks, disk>>

Bind(p) ==
    /\ ~Answers /\ Turn(p, "loaded", "serving")
    /\ UNCHANGED <<faults, installed, hooks, graph>>

\* The port is taken: the lifespan ends as if it had served.
BindFails(p) ==
    /\ Answers /\ Turn(p, "loaded", "closing")
    /\ UNCHANGED <<faults, installed, hooks, graph>>

\* A mutating call: it reads what is on the disk first (store.refresh).
Call(p) ==
    /\ Serving(p) /\ disk < MaxWrites
    /\ disk' = disk + 1
    /\ mem' = [mem EXCEPT ![p] = disk']
    /\ UNCHANGED <<faults, installed, hooks, server>>

Exit(p) ==
    /\ Turn(p, "closing", "gone")
    /\ disk' = mem[p]
    /\ UNCHANGED <<faults, installed, hooks, mem>>

Terminated(p) ==
    /\ "stopped by hand" \in faults
    /\ Turn(p, "serving", "closing")
    /\ UNCHANGED <<faults, installed, hooks, graph>>

Die(p) ==
    /\ Alive(p)
    /\ server' = [server EXCEPT ![p].mode = "gone"]
    /\ UNCHANGED <<faults, installed, hooks, graph>>

Ensure(s) ==
    \/ Running(s) \/ Stopping(s) \/ Spawn(s) \/ WritePid(s)
    \/ Answered(s) \/ TimedOut(s)

Live(p) == Load(p) \/ Bind(p) \/ BindFails(p) \/ Exit(p)

Next ==
    \/ Update
    \/ \E s \in Session : Open(s) \/ StartSession(s) \/ Lock(s) \/ Ensure(s) \/ HookKilled(s)
    \/ \E p \in Pid : Live(p) \/ Call(p) \/ Terminated(p) \/ Die(p)

\* A process the system runs takes its next step; flock's waiters are served in turn.
Fairness ==
    /\ \A s \in Session : SF_vars(Lock(s)) /\ WF_vars(Ensure(s))
    /\ \A p \in Pid : WF_vars(Live(p))

Spec == Init /\ [][Next]_vars /\ Fairness

-----------------------------------------------------------------------------
\* Properties

\* Every part of the state has its type.
TypeOK ==
    /\ faults \in FaultSets /\ installed \in Version
    /\ ver \in [Session -> Version \cup {0}]
    /\ pc \in [Session -> {"idle", "lock", "probe", "stop", "spawned", "poll"}]
    /\ child \in [Session -> Pid \cup {Bygone}]
    /\ report \in [Session -> {"none", "running", "started", "restarted", "not answering"}]
    /\ lock \in Session \cup {Nobody}
    /\ pidfile \in Pid \cup {NoFile, Bygone}
    /\ spawned \in 0 .. MaxStarts
    /\ server \in [Pid -> [version : Version, by : {"hook", "owner"}, mode : Modes]]
    /\ mem \in [Pid -> Nat] /\ disk \in Nat

\* "One process holds the graph, instead of a server per chat each loading it and
\* racing the others to save it" (localserver.py:5-6): of the servers sessions
\* started at most one is alive, and server.json names it once its starter went on,
\* so that the next update can replace it.
OneServer ==
    faults = {} =>
    /\ \A p, q \in Pid : Alive(p) /\ Alive(q) /\ server[p].by = server[q].by => p = q
    /\ \A p \in Pid : Alive(p) /\ server[p].by = "hook" =>
        pidfile = p \/ \E s \in Session : pc[s] = "spawned" /\ child[s] = p

\* A server that is stopped, or replaced, never puts an older graph over a newer one as
\* it exits, while servers come up, answer and exit within the hook's limits.  (Beyond
\* them a second server is started beside the first, fails to bind, and does.)
ExitsLoseNothing == [][faults = {} => disk' >= disk]_vars

\* The session-start hook always ends, whatever became of the server it waits for:
\* "Never raises", and a deadline on every wait.
EnsureEnds == \A s \in Session : pc[s] = "lock" ~> pc[s] = "idle"

\* "A server this module started from an older plugin version is replaced, so an
\* update takes effect at the next session" (localserver.py:11-12).
UpdateTakesEffect ==
    \A s \in Session :
        faults = {} /\ pc[s] = "lock" ~>
            \A p \in Pid : Serving(p) /\ server[p].by = "hook" => server[p].version >= ver[s]

\* The same sentence: what a session replaces is of an older version than its own.
OnlyOlderReplaced ==
    [][\A s \in Session, p \in Pid :
        Stopping(s) /\ Serving(p) /\ ~Serving(p)' => server[p].version < ver[s]]_vars

\* "restarted for v..." is said by a session whose version answers (localserver.py:113).
ReportsAreTrue ==
    [][\A s \in Session :
        pc[s] = "poll" /\ report'[s] = "restarted" /\ pc'[s] = "idle" =>
            \E p \in Pid : Serving(p) /\ server[p].version = ver[s]]_vars

=============================================================================
