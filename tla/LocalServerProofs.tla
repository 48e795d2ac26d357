------------------------- MODULE LocalServerProofs -------------------------
(***************************************************************************)
(* Theorems about LocalServer on a machine that keeps the code's time      *)
(* limits, for any sessions, versions and number of starts, though hooks   *)
(* interleave and servers may die at any moment: sessions keep one server, *)
(* and a server's exit never takes a write back.  The invariant says where *)
(* the one live server can be: serving under server.json's pid, awaited by *)
(* the session inside the lock that started it, or being stopped by it.    *)
(***************************************************************************)
EXTENDS LocalServer, TLAPS

Process == [version : Nat, by : {"hook", "owner"}, mode : Modes]

\* The types the theorems rest on, without the bounds.
Shapes ==
    /\ installed \in Nat /\ ver \in [Session -> Nat]
    /\ pc \in [Session -> {"idle", "lock", "probe", "stop", "spawned", "poll"}]
    /\ child \in [Session -> Int]
    /\ pidfile \in Int /\ spawned \in Nat
    /\ server \in [Pid -> Process]
    /\ mem \in [Pid -> Nat] /\ disk \in Nat

Hooked(p) == Alive(p) /\ server[p].by = "hook"

Exclusive == \A s \in Session : pc[s] \in {"probe", "stop", "spawned", "poll"} => lock = s

\* The owner's server was there first, and goes for good.
OwnerAlone ==
    \A p \in Pid : Alive(p) /\ server[p].by = "owner" =>
        p = 0 /\ Serving(p) /\ spawned = 0 /\ pidfile = NoFile

Numbered == \A p \in Pid : Hooked(p) => 0 < p /\ p <= spawned

Awaited ==
    \A s \in Session :
        /\ pc[s] \in {"spawned", "poll"} => child[s] = spawned /\ 0 < spawned
        /\ pc[s] = "poll" => pidfile = child[s]
        /\ pc[s] = "spawned" => \A p \in Pid : Hooked(p) => p = child[s]
        /\ pc[s] = "stop" => pidfile # NoFile

Placed ==
    \A p \in Pid : Hooked(p) =>
        \/ Serving(p) /\ pidfile = p
        \/ \E s \in Session : pc[s] \in {"spawned", "poll"} /\ child[s] = p
        \/ \E s \in Session : pc[s] = "stop" /\ pidfile = p

UpToDate == \A p \in Pid : Alive(p) /\ server[p].mode # "loading" => mem[p] = disk

OnTime == Exclusive /\ OwnerAlone /\ Numbered /\ Awaited /\ Placed /\ UpToDate

ServerInv == Shapes /\ (faults = {} => OnTime)

-----------------------------------------------------------------------------
\* Process numbers are numbers.
LEMMA PidIsNumber == \A p \in Pid : p \in Nat
  BY LocalAssumption DEF Pid

\* At most one process is alive, the owner's or one a session started.
LEMMA Alone ==
    ASSUME Shapes, OnTime, NEW p \in Pid, NEW q \in Pid, Alive(p), Alive(q)
    PROVE  p = q
<1> USE PidIsNumber
<1>1. server[p].by \in {"hook", "owner"} /\ server[q].by \in {"hook", "owner"}
  BY DEF Shapes, Process
<1>2. CASE server[p].by = "owner" \/ server[q].by = "owner"
  BY <1>1, <1>2 DEF OnTime, OwnerAlone, Numbered, Hooked, Shapes
<1>3. CASE server[p].by = "hook" /\ server[q].by = "hook"
  <2>1. Hooked(p) /\ Hooked(q)
    BY <1>3 DEF Hooked
  <2>2. CASE \E s \in Session : pc[s] = "spawned"
    BY <2>1, <2>2 DEF OnTime, Awaited
  <2>3. CASE \A s \in Session : pc[s] # "spawned"
    BY <2>1, <2>3 DEF OnTime, Awaited, Placed
  <2> QED  BY <2>2, <2>3
<1> QED  BY <1>1, <1>2, <1>3

\* What the server's own steps change.
LEMMA Turns ==
    ASSUME Shapes, NEW p \in Pid, NEW from, NEW to \in Modes, Turn(p, from, to)
    PROVE  /\ server' \in [Pid -> Process]
           /\ server[p].mode = from /\ server'[p].mode = to
           /\ \A q \in Pid : server'[q].by = server[q].by
                             /\ (q # p => server'[q] = server[q])
  BY DEF Turn, Shapes, Process

\* The sessions and the server of another's start are left alone.
LEMMA SameServers ==
    ASSUME Shapes, OnTime, server' = server, mem' = mem, disk' = disk, spawned' = spawned,
           pidfile' = pidfile, Exclusive', Awaited', Placed'
    PROVE  OnTime'
  BY DEF OnTime, OwnerAlone, Numbered, UpToDate, Alive, Serving, Hooked

\* The shapes are kept by every step.
LEMMA ShapesStay == Shapes /\ [Next]_vars => Shapes'
<1> SUFFICES ASSUME Shapes, [Next]_vars PROVE Shapes'
  OBVIOUS
<1> USE LocalAssumption DEF Shapes, hooks, graph
<1>1. CASE Update \/ UNCHANGED vars
  BY <1>1 DEF Update, vars
<1>2. ASSUME NEW s \in Session, Open(s) \/ StartSession(s) \/ Lock(s) PROVE Shapes'
  BY <1>2 DEF Open, StartSession, Lock, At
<1>3. ASSUME NEW s \in Session, Running(s) \/ WritePid(s) \/ Answered(s) \/ TimedOut(s)
                                \/ HookKilled(s) PROVE Shapes'
  <2>1. CASE Running(s)
    BY <2>1 DEF Running, Return
  <2>2. CASE WritePid(s)
    BY <2>2 DEF WritePid, At
  <2>3. CASE Answered(s) \/ TimedOut(s)
    BY <2>3 DEF Answered, TimedOut, Return
  <2>4. CASE HookKilled(s)
    BY <2>4 DEF HookKilled
  <2> QED  BY <1>3, <2>1, <2>2, <2>3, <2>4
<1>4. ASSUME NEW s \in Session, Stopping(s) PROVE Shapes'
  <2>1. server' \in [Pid -> Process]
    BY <1>4 DEF Stopping, Process, Modes
  <2> QED  BY <1>4, <2>1 DEF Stopping, At
<1>5. ASSUME NEW s \in Session, Spawn(s) PROVE Shapes'
  <2>1. server' \in [Pid -> Process]
    BY <1>5 DEF Spawn, Process, Modes
  <2> QED  BY <1>5, <2>1 DEF Spawn
<1>6. ASSUME NEW p \in Pid, Load(p) \/ Bind(p) \/ BindFails(p) \/ Exit(p) \/ Terminated(p)
      PROVE  Shapes'
  <2>1. server' \in [Pid -> Process]
    BY <1>6, Turns DEF Load, Bind, BindFails, Exit, Terminated, Modes
  <2>2. CASE Load(p)
    BY <2>1, <2>2 DEF Load
  <2>3. CASE Bind(p) \/ BindFails(p) \/ Terminated(p)
    BY <2>1, <2>3 DEF Bind, BindFails, Terminated
  <2>4. CASE Exit(p)
    BY <2>1, <2>4 DEF Exit
  <2> QED  BY <1>6, <2>2, <2>3, <2>4
<1>7. ASSUME NEW p \in Pid, Call(p) \/ Die(p) PROVE Shapes'
  <2>1. CASE Call(p)
    BY <2>1 DEF Call
  <2>2. CASE Die(p)
    <3>1. server' \in [Pid -> Process]
      BY <2>2 DEF Die, Process, Modes
    <3> QED  BY <2>2, <3>1 DEF Die
  <2> QED  BY <1>7, <2>1, <2>2
<1> QED
  BY <1>1, <1>2, <1>3, <1>4, <1>5, <1>6, <1>7 DEF Next, Ensure, Live

-----------------------------------------------------------------------------
(* The session-start hook's steps *)

\* A session inside the lock is the only one.
LEMMA Sole ==
    ASSUME OnTime, NEW s \in Session, NEW t \in Session,
           pc[s] \in {"probe", "stop", "spawned", "poll"},
           pc[t] \in {"probe", "stop", "spawned", "poll"}
    PROVE  s = t
  BY DEF OnTime, Exclusive

\* Coming and going outside the lock, and entering it, move no server.
LEMMA EnterKeeps ==
    ASSUME Shapes, OnTime, NEW s \in Session, StartSession(s) \/ Lock(s)
    PROVE  OnTime'
<1>1. /\ pc[s] \in {"idle", "lock"} /\ pc' = [pc EXCEPT ![s] = pc'[s]]
      /\ pc'[s] \in {"lock", "probe"} /\ (pc'[s] = "probe" => lock = Nobody /\ lock' = s)
      /\ (pc'[s] = "lock" => lock' = lock)
      /\ UNCHANGED <<child, spawned, pidfile, server, mem, disk>>
  BY DEF StartSession, Lock, At, Shapes, graph
<1>2. \A t \in Session \ {s} : pc'[t] = pc[t]
  BY <1>1 DEF Shapes
<1>3. Exclusive'
  BY <1>1, <1>2, LocalAssumption DEF OnTime, Exclusive
<1>4. Awaited'
  BY <1>1, <1>2 DEF OnTime, Awaited, Hooked, Alive
<1>5. Placed'
  <2> SUFFICES ASSUME NEW p \in Pid, Hooked(p)'
               PROVE  \/ (Serving(p) /\ pidfile = p)'
                      \/ \E t \in Session : pc'[t] \in {"spawned", "poll"} /\ child'[t] = p
                      \/ \E t \in Session : pc'[t] = "stop" /\ pidfile' = p
    BY DEF Placed
  <2>1. Hooked(p)
    BY <1>1 DEF Hooked, Alive
  <2> QED  BY <1>1, <1>2, <2>1 DEF OnTime, Placed, Serving
<1> QED  BY <1>1, <1>3, <1>4, <1>5, SameServers

\* A session goes when the one live server serves, or there is none.
LEMMA ReturnKeeps ==
    ASSUME Shapes, OnTime, faults = {}, NEW s \in Session,
           Running(s) \/ Answered(s) \/ TimedOut(s)
    PROVE  OnTime'
<1>1. /\ pc[s] \in {"probe", "poll"} /\ pc' = [pc EXCEPT ![s] = "idle"] /\ lock' = Nobody
      /\ UNCHANGED <<child, spawned, pidfile, server, mem, disk>>
  BY DEF Running, Answered, TimedOut, Return, graph
<1>2. pc'[s] = "idle" /\ \A t \in Session \ {s} : pc'[t] = pc[t]
  BY <1>1 DEF Shapes
<1>3. \A t \in Session : pc'[t] \notin {"probe", "stop", "spawned", "poll"}
  BY <1>1, <1>2, Sole
<1>4. \A p \in Pid : Hooked(p) => Serving(p) /\ pidfile = p
  <2> SUFFICES ASSUME NEW p \in Pid, Hooked(p), ~(Serving(p) /\ pidfile = p) PROVE FALSE
    OBVIOUS
  <2>1. pc[s] = "poll" /\ child[s] = p
    BY <1>1, Sole DEF OnTime, Placed
  <2>2. pidfile = p
    BY <2>1 DEF OnTime, Awaited
  <2>3. CASE Answered(s)
    <3>1. PICK q \in Pid : Serving(q)
      BY <2>3 DEF Answered, Answers
    <3>2. Alive(p) /\ Alive(q)
      BY <3>1 DEF Hooked, Alive, Serving
    <3> QED  BY <2>2, <3>1, <3>2, Alone
  <2>4. CASE TimedOut(s)
    BY <2>1, <2>4 DEF TimedOut, Hooked
  <2>5. CASE Running(s)
    BY <2>1, <2>5 DEF Running
  <2> QED  BY <2>3, <2>4, <2>5
<1>5. Exclusive' /\ Awaited'
  BY <1>3 DEF Exclusive, Awaited
<1>6. Placed'
  BY <1>1, <1>4 DEF Placed, Hooked, Alive, Serving
<1> QED  BY <1>1, <1>5, <1>6, SameServers

\* server.json names the process that was started.
LEMMA WritePidKeeps ==
    ASSUME Shapes, OnTime, NEW s \in Session, WritePid(s)
    PROVE  OnTime'
<1>1. /\ pc[s] = "spawned" /\ pc' = [pc EXCEPT ![s] = "poll"] /\ pidfile' = child[s]
      /\ UNCHANGED <<lock, child, spawned, server, mem, disk>>
  BY DEF WritePid, At, graph
<1>2. pc'[s] = "poll" /\ \A t \in Session \ {s} : pc'[t] = pc[t]
  BY <1>1 DEF Shapes
<1>3. \A t \in Session \ {s} : pc'[t] \notin {"probe", "stop", "spawned", "poll"}
  BY <1>1, <1>2, Sole
<1>4. child[s] = spawned /\ 0 < spawned /\ \A p \in Pid : Hooked(p) => p = child[s]
  BY <1>1 DEF OnTime, Awaited
<1>5. Exclusive'
  BY <1>1, <1>3 DEF OnTime, Exclusive
<1>6. Awaited'
  BY <1>1, <1>2, <1>3, <1>4 DEF Awaited
<1>7. Placed'
  BY <1>1, <1>2, <1>4 DEF Placed, Hooked, Alive
<1>8. OwnerAlone'
  BY <1>1, <1>4 DEF OnTime, OwnerAlone, Alive, Shapes
<1>9. Numbered' /\ UpToDate'
  BY <1>1 DEF OnTime, Numbered, UpToDate, Hooked, Alive
<1> QED  BY <1>5, <1>6, <1>7, <1>8, <1>9 DEF OnTime

\* What is stopped is the server that server.json names.
LEMMA StoppingKeeps ==
    ASSUME Shapes, OnTime, NEW s \in Session, Stopping(s)
    PROVE  OnTime'
<1>1. PICK p \in Pid : Serving(p) /\ Older(s, p)
  BY DEF Stopping
<1>2. /\ pc[s] = "probe" /\ pc' = [pc EXCEPT ![s] = "stop"] /\ pidfile # NoFile
      /\ UNCHANGED <<lock, child, spawned, pidfile, mem, disk>>
  BY <1>1 DEF Stopping, At, Older, Leave, Mine, graph
<1>3. pc'[s] = "stop" /\ \A t \in Session \ {s} : pc'[t] = pc[t]
  BY <1>2 DEF Shapes
<1>4. \A t \in Session \ {s} : pc'[t] \notin {"probe", "stop", "spawned", "poll"}
  BY <1>2, <1>3, Sole
<1>5. Alive(p) /\ server[p].by = "hook"
  BY <1>1, <1>2 DEF OnTime, OwnerAlone, Alive, Serving, Shapes, Process
<1>6. pidfile = p
  BY <1>2, <1>5, Sole DEF OnTime, Placed, Hooked
<1>7. /\ server'[p].mode = "closing" /\ server'[p].by = "hook"
      /\ \A q \in Pid \ {p} : server'[q] = server[q]
  BY <1>1, <1>5, <1>6 DEF Stopping, Shapes, Process, Serving
<1>8. \A q \in Pid : Alive(q)' => q = p
  BY <1>5, <1>7, Alone DEF Alive
<1>9. Exclusive' /\ Awaited'
  BY <1>2, <1>3, <1>4 DEF OnTime, Exclusive, Awaited
<1>10. Placed'
  BY <1>2, <1>3, <1>6, <1>8 DEF Placed, Hooked
<1>11. OwnerAlone' /\ Numbered'
  BY <1>2, <1>5, <1>7, <1>8 DEF OnTime, OwnerAlone, Numbered, Hooked
<1>12. UpToDate'
  BY <1>1, <1>2, <1>5, <1>8 DEF OnTime, UpToDate, Serving
<1> QED  BY <1>9, <1>10, <1>11, <1>12 DEF OnTime

\* A session starts a server only when none is alive.
LEMMA SpawnKeeps ==
    ASSUME Shapes, OnTime, faults = {}, NEW s \in Session, Spawn(s)
    PROVE  OnTime'
<1>1. /\ pc[s] \in {"probe", "stop"} /\ pc' = [pc EXCEPT ![s] = "spawned"]
      /\ spawned' = spawned + 1 /\ child' = [child EXCEPT ![s] = spawned + 1]
      /\ server' = [server EXCEPT ![spawned + 1] =
                        [version |-> ver[s], by |-> "hook", mode |-> "loading"]]
      /\ UNCHANGED <<lock, pidfile, mem, disk>>
  BY DEF Spawn, graph
<1>2. \A p \in Pid : ~Alive(p)
  <2> SUFFICES ASSUME NEW p \in Pid, Alive(p) PROVE FALSE
    OBVIOUS
  <2>1. CASE pc[s] = "probe"
    <3>1. ~Serving(p)
      BY <2>1 DEF Spawn, Unheard, Answers
    <3>2. Hooked(p)
      BY <3>1 DEF OnTime, OwnerAlone, Hooked, Shapes, Process
    <3> QED  BY <2>1, <3>1, <3>2, Sole DEF OnTime, Placed
  <2>2. CASE pc[s] = "stop"
    <3>1. StopWaited /\ pidfile # NoFile
      BY <2>2 DEF Spawn, OnTime, Awaited
    <3>2. Hooked(p)
      BY <3>1 DEF OnTime, OwnerAlone, Hooked, Shapes, Process
    <3>3. pidfile = p
      BY <2>2, <3>2, Sole DEF OnTime, Placed
    <3> QED  BY <3>1, <3>3 DEF StopWaited
  <2> QED  BY <1>1, <2>1, <2>2
<1>3. pc'[s] = "spawned" /\ child'[s] = spawned + 1 /\ \A t \in Session \ {s} : pc'[t] = pc[t]
  BY <1>1 DEF Shapes
<1>4. \A t \in Session \ {s} : pc'[t] \notin {"probe", "stop", "spawned", "poll"}
  BY <1>1, <1>3, Sole
<1>5. \A p \in Pid : Alive(p)' => p = spawned + 1 /\ server'[p].by = "hook"
                                 /\ server'[p].mode = "loading"
  BY <1>1, <1>2 DEF Alive, Shapes
<1>6. Exclusive'
  BY <1>1, <1>4 DEF OnTime, Exclusive
<1>7. Awaited'
  BY <1>1, <1>3, <1>4, <1>5 DEF Awaited, Hooked, Shapes
<1>8. Placed'
  BY <1>3, <1>5 DEF Placed, Hooked
<1>9. OwnerAlone' /\ UpToDate'
  BY <1>5 DEF OwnerAlone, UpToDate
<1>10. Numbered'
  BY <1>1, <1>5 DEF Numbered, Hooked, Shapes
<1> QED  BY <1>6, <1>7, <1>8, <1>9, <1>10 DEF OnTime

-----------------------------------------------------------------------------
(* The server's steps *)

\* A process that goes leaves nothing to be placed.
LEMMA GoneKeeps ==
    ASSUME Shapes, OnTime, NEW p \in Pid, server' = [server EXCEPT ![p].mode = "gone"],
           UNCHANGED <<pc, child, lock, pidfile, spawned, mem, disk>>
    PROVE  OnTime'
<1>1. \A q \in Pid : Alive(q)' => q # p /\ server'[q] = server[q]
  BY DEF Alive, Shapes, Process
<1>2. \A q \in Pid : Alive(q)' => Alive(q)
  BY <1>1 DEF Alive
<1>3. Exclusive'
  BY DEF OnTime, Exclusive
<1>4. Awaited' /\ Numbered'
  BY <1>1, <1>2 DEF OnTime, Awaited, Numbered, Hooked
<1>5. Placed' /\ OwnerAlone' /\ UpToDate'
  BY <1>1, <1>2 DEF OnTime, Placed, OwnerAlone, UpToDate, Hooked, Serving
<1> QED  BY <1>3, <1>4, <1>5 DEF OnTime

\* A server on its way up is the one its session awaits, and reads what is on the disk.
LEMMA UpKeeps ==
    ASSUME Shapes, OnTime, NEW p \in Pid, Load(p) \/ Bind(p)
    PROVE  OnTime'
<1>1. /\ UNCHANGED <<pc, child, lock, pidfile, spawned, disk>>
      /\ server[p].mode \in {"loading", "loaded"} /\ server'[p].mode # "gone"
      /\ server'[p].by = server[p].by /\ \A q \in Pid \ {p} : server'[q] = server[q]
      /\ mem' = [mem EXCEPT ![p] = mem'[p]]
      /\ mem'[p] = IF server[p].mode = "loading" THEN disk ELSE mem[p]
  <2>1. CASE Load(p)
    BY <2>1, Turns DEF Load, Turn, Modes, Shapes, hooks
  <2>2. CASE Bind(p)
    BY <2>2, Turns DEF Bind, Turn, Modes, Shapes, hooks, graph
  <2> QED  BY <2>1, <2>2
<1>2. Alive(p) /\ ~Serving(p) /\ server[p].by = "hook"
  BY <1>1 DEF Alive, Serving, OnTime, OwnerAlone, Shapes, Process
<1>3. \A q \in Pid : Alive(q)' => q = p
  BY <1>1, <1>2, Alone DEF Alive
<1>4. Exclusive'
  BY <1>1 DEF OnTime, Exclusive
<1>5. Awaited' /\ Numbered'
  BY <1>1, <1>2, <1>3 DEF OnTime, Awaited, Numbered, Hooked
<1>6. Placed'
  BY <1>1, <1>2, <1>3 DEF OnTime, Placed, Hooked
<1>7. OwnerAlone'
  BY <1>1, <1>2, <1>3 DEF OwnerAlone
<1>8. mem'[p] = disk'
  BY <1>1, <1>2 DEF OnTime, UpToDate
<1>9. UpToDate'
  BY <1>3, <1>8 DEF UpToDate
<1> QED  BY <1>4, <1>5, <1>6, <1>7, <1>9 DEF OnTime

\* A call saves what the one server then holds.
LEMMA CallKeeps ==
    ASSUME Shapes, OnTime, NEW p \in Pid, Call(p)
    PROVE  OnTime'
<1>1. UNCHANGED <<pc, child, lock, pidfile, spawned, server>> /\ mem'[p] = disk'
  BY DEF Call, hooks, Shapes
<1>2. \A q \in Pid : Alive(q) => q = p
  BY Alone DEF Call, Serving, Alive
<1>3. UpToDate'
  BY <1>1, <1>2 DEF UpToDate, Alive
<1>4. Exclusive' /\ Awaited' /\ Numbered'
  BY <1>1 DEF OnTime, Exclusive, Awaited, Numbered, Hooked, Alive
<1>5. Placed' /\ OwnerAlone'
  BY <1>1 DEF OnTime, Placed, OwnerAlone, Hooked, Alive, Serving
<1> QED  BY <1>3, <1>4, <1>5 DEF OnTime

\* The port is never taken: the server that has it would be a second one.
LEMMA PortIsFree ==
    ASSUME Shapes, OnTime, NEW p \in Pid, BindFails(p)
    PROVE  FALSE
<1>1. PICK q \in Pid : Serving(q)
  BY DEF BindFails, Answers
<1>2. server[p].mode = "loaded"
  BY DEF BindFails, Turn
<1> QED  BY <1>1, <1>2, Alone DEF Alive, Serving

\* An exit writes back what is there.
LEMMA ExitChangesNothing ==
    ASSUME Shapes, OnTime, NEW p \in Pid, Exit(p)
    PROVE  disk' = disk
<1>1. server[p].mode = "closing" /\ disk' = mem[p]
  BY DEF Exit, Turn
<1> QED  BY <1>1 DEF OnTime, UpToDate, Alive

\* On time is inductive.
LEMMA OnTimeStays == Shapes /\ faults = {} /\ OnTime /\ [Next]_vars => OnTime'
<1> SUFFICES ASSUME Shapes, faults = {}, OnTime, [Next]_vars PROVE OnTime'
  OBVIOUS
<1>1. ASSUME UNCHANGED <<pc, child, lock, pidfile, spawned, server, mem, disk>> PROVE OnTime'
  <2>1. Exclusive' /\ Awaited' /\ Numbered'
    BY <1>1 DEF OnTime, Exclusive, Awaited, Numbered, Hooked, Alive
  <2>2. Placed' /\ OwnerAlone' /\ UpToDate'
    BY <1>1 DEF OnTime, Placed, OwnerAlone, UpToDate, Hooked, Alive, Serving
  <2> QED  BY <2>1, <2>2 DEF OnTime
<1>2. CASE Update \/ UNCHANGED vars
  BY <1>1, <1>2 DEF Update, vars, hooks, graph
<1>3. ASSUME NEW s \in Session, Open(s) PROVE OnTime'
  BY <1>1, <1>3 DEF Open, graph
<1>4. ASSUME NEW s \in Session, StartSession(s) \/ Lock(s) \/ Ensure(s) \/ HookKilled(s)
      PROVE  OnTime'
  BY <1>4, EnterKeeps, ReturnKeeps, WritePidKeeps, StoppingKeeps, SpawnKeeps
     DEF Ensure, HookKilled
<1>5. ASSUME NEW p \in Pid, Exit(p) \/ Die(p) PROVE OnTime'
  <2>1. server' = [server EXCEPT ![p].mode = "gone"]
        /\ UNCHANGED <<pc, child, lock, pidfile, spawned, mem, disk>>
    BY <1>5, ExitChangesNothing DEF Exit, Die, Turn, hooks, graph
  <2> QED  BY <2>1, GoneKeeps
<1>6. ASSUME NEW p \in Pid, Load(p) \/ Bind(p) \/ BindFails(p) \/ Call(p) \/ Terminated(p)
      PROVE  OnTime'
  BY <1>6, UpKeeps, PortIsFree, CallKeeps DEF Terminated
<1> QED  BY <1>2, <1>3, <1>4, <1>5, <1>6 DEF Next, Live

-----------------------------------------------------------------------------

\* faults was chosen at first.
LEMMA FaultsStay == [Next]_vars => faults' = faults
  BY DEF Next, Ensure, Live, Update, Open, StartSession, Lock, Running, Stopping, Spawn,
         WritePid, Answered, TimedOut, HookKilled, Load, Bind, BindFails, Call, Exit,
         Terminated, Die, vars

LEMMA InvHolds == Init /\ [][Next]_vars => []ServerInv
<1>1. Init => Shapes
  BY LocalAssumption DEF Init, Shapes, Process, Modes, Absent, NoFile, Bygone
<1>2. Init /\ faults = {} => OnTime
  BY LocalAssumption
     DEF Init, OnTime, Exclusive, OwnerAlone, Numbered, Awaited, Placed, UpToDate, Hooked,
         Alive, Serving, Absent, NoFile, Bygone, Pid
<1>3. ServerInv /\ [Next]_vars => ServerInv'
  BY ShapesStay, OnTimeStays, FaultsStay DEF ServerInv
<1>4. Init => ServerInv
  BY <1>1, <1>2 DEF ServerInv
<1> QED  BY <1>3, <1>4, PTL

\* However hooks interleave, sessions are updated and servers die, at most one server
\* that sessions started is alive, and server.json names it once its starter went on
\* (localserver.py _ensure, _stop, _start).
THEOREM OneServerHolds == Spec => []OneServer
<1>1. ServerInv => OneServer
  <2> SUFFICES ASSUME Shapes, OnTime PROVE OneServer
    BY DEF ServerInv, OneServer
  <2>1. \A p, q \in Pid : Alive(p) /\ Alive(q) => p = q
    BY Alone
  <2>2. \A p \in Pid : Hooked(p) =>
            pidfile = p \/ \E s \in Session : pc[s] = "spawned" /\ child[s] = p
    BY DEF OnTime, Placed, Awaited
  <2> QED  BY <2>1, <2>2 DEF OneServer, Hooked
<1> QED  BY <1>1, InvHolds, PTL DEF Spec

\* On a machine within the hook's limits no server that is stopped or replaced puts an
\* older graph over a newer one as it exits (http_server.build_app's lifespan).
THEOREM ExitsLoseNothingHolds == Spec => ExitsLoseNothing
<1>1. ServerInv /\ [Next]_vars => [faults = {} => disk' >= disk]_vars
  <2> SUFFICES ASSUME Shapes, OnTime, [Next]_vars PROVE disk' >= disk
    BY DEF ServerInv
  <2>1. disk \in Nat
    BY DEF Shapes
  <2>2. ASSUME NEW p \in Pid, Exit(p) PROVE disk' >= disk
    BY <2>1, <2>2, ExitChangesNothing
  <2>3. ASSUME NEW p \in Pid, Call(p) PROVE disk' >= disk
    BY <2>1, <2>3 DEF Call
  <2>4. disk' = disk \/ \E p \in Pid : Exit(p) \/ Call(p)
    BY DEF Next, Ensure, Live, Update, Open, StartSession, Lock, Running, Stopping, Spawn,
           WritePid, Answered, TimedOut, HookKilled, Load, Bind, BindFails, Terminated, Die,
           vars, graph
  <2> QED  BY <2>1, <2>2, <2>3, <2>4
<1> QED  BY <1>1, InvHolds, PTL DEF Spec, ExitsLoseNothing

=============================================================================
