------------------------- MODULE SharedStoreProofs -------------------------
(***************************************************************************)
(* No acknowledged write is ever lost, for any number of servers and of    *)
(* writes, as long as one process owns the store or the processes take     *)
(* turns and are never closed.  The invariant says of every server past    *)
(* its refresh that its graph holds what is on the disk, and of the one    *)
(* that is saving how far its dump has come.                               *)
(***************************************************************************)
EXTENDS SharedStore, TLAPS

Sole == \A s, t \in Server : s = t
Turns == ~Overlap /\ ~Uploads /\ Closed = {}

Busy(s) == pc[s] \notin {"down", "idle"}

OneAtATime == \A s, t \in Server : Busy(s) /\ Busy(t) => s = t

DumpGoesToTmp(s) ==
    fd[s] = IF pc[s] \in {"head", "rest"} THEN "tmp" ELSE "none"

DumpSoFar(s) ==
    /\ pc[s] \in {"head", "rest", "rename"} => tmp # NoFile
    /\ pc[s] \in {"rest", "rename"} => tmp.head = mem[s]
    /\ pc[s] = "rename" => tmp.rest = mem[s]

HoldsTheDisk(s) ==
    \/ pc[s] \in {"loaded", "dispatch", "save", "head", "rest", "rename", "renamed"}
    \/ pc[s] = "idle" /\ (s \in fresh \/ Sole)

Current(s) == HoldsTheDisk(s) => OnDisk \subseteq mem[s]

CarriesItsWrite(s) ==
    /\ job[s].kind = "promote" => job[s].write = NoWrite
    /\ pc[s] \in {"save", "head", "rest", "rename"} =>
        job[s].write \in mem[s] \cup {NoWrite}
    /\ pc[s] = "renamed" => job[s].write \in OnDisk \cup {NoWrite}

InOrder(s) == DumpGoesToTmp(s) /\ DumpSoFar(s) /\ Current(s) /\ CarriesItsWrite(s)

SaveInv ==
    /\ OneAtATime
    /\ \A s \in Server : InOrder(s)
    /\ AlwaysLoads
    /\ Durable

\* A dump never goes to a file that is not there.
DumpHasAFile ==
    \A s \in Server :
        /\ fd[s] = "tmp" => tmp # NoFile
        /\ fd[s] = "main" => main # NoFile

-----------------------------------------------------------------------------

\* What is on the disk is a set of writes.
LEMMA OnDiskTyped == TypeOK => OnDisk \subseteq Write
  BY StoreAssumption DEF TypeOK, OnDisk, Parsed, File, Piece

\* Only a change of graph.nq changes what is on the disk.
LEMMA DiskSame == main' = main => OnDisk' = OnDisk
  BY DEF OnDisk, Parses, Parsed

\* A piece written to a file leaves a file.
LEMMA PieceWritten ==
  ASSUME NEW f \in File, NEW x \in Piece, NEW piece \in {"head", "rest"}
  PROVE  [f EXCEPT ![piece] = x] \in File
  <1>1. CASE piece = "head"
    BY <1>1 DEF File
  <1>2. CASE piece = "rest"
    BY <1>2 DEF File
  <1> QED
    BY <1>1, <1>2

\* A dump writes to files that are there, and they stay files.
LEMMA PutTyped ==
  ASSUME TypeOK, DumpHasAFile, NEW s \in Server, NEW piece \in {"head", "rest"},
         Put(s, piece)
  PROVE  /\ IF tmp = NoFile THEN tmp' = NoFile ELSE tmp' \in File
         /\ IF main = NoFile THEN main' = NoFile ELSE main' \in File
         /\ fresh' \subseteq Server
  <1>1. mem[s] \in Piece
    BY DEF TypeOK, Piece
  <1>2. ASSUME NEW f \in File PROVE [f EXCEPT ![piece] = mem[s]] \in File
    BY <1>1, PieceWritten
  <1> QED
    BY <1>2 DEF TypeOK, DumpHasAFile, Put

\* Every call, save and kill keeps the variables in their types.
LEMMA StoreTypeInductive == TypeOK /\ DumpHasAFile /\ [Next]_vars => TypeOK'
  <1> SUFFICES ASSUME TypeOK, DumpHasAFile, [Next]_vars PROVE TypeOK'
    OBVIOUS
  <1>0. OnDisk \in SUBSET Write
    BY OnDiskTyped
  <1>1. CASE UNCHANGED vars
    BY <1>1 DEF TypeOK, vars
  <1>2. ASSUME NEW s \in Server, Open(s) PROVE TypeOK'
    BY <1>0, <1>2 DEF TypeOK, Open, Goto, Kinds, Phases
  <1>3. ASSUME NEW s \in Server, NEW w \in Write \cup {NoWrite}, Enter(s, w) PROVE TypeOK'
    BY <1>3 DEF TypeOK, Enter, Goto, Kinds, Phases
  <1>4. ASSUME NEW s \in Server, Reload(s) PROVE TypeOK'
    BY <1>0, <1>4 DEF TypeOK, Reload, Goto, Fail, NoJob, Kinds, Phases
  <1>5. ASSUME NEW s \in Server, Stamp(s) PROVE TypeOK'
    BY <1>5 DEF TypeOK, Stamp, Goto, Phases
  <1>6. ASSUME NEW s \in Server, Mutate(s) PROVE TypeOK'
    <2>1. job[s].write \in Write
      BY <1>6 DEF TypeOK, Mutate
    <2> QED
      BY <1>6, <2>1 DEF TypeOK, Mutate, Goto, Phases
  <1>7. ASSUME NEW s \in Server, NoSave(s) PROVE TypeOK'
    <2>1. PICK X \in SUBSET ({job[s].write} \ {NoWrite}) :
            mem' = [mem EXCEPT ![s] = @ \cup X]
      BY <1>7 DEF NoSave
    <2>2. X \subseteq Write
      BY <2>1 DEF TypeOK
    <2>3. mem' \in [Server -> SUBSET Write]
      BY <2>1, <2>2 DEF TypeOK
    <2> QED
      BY <1>7, <2>3 DEF TypeOK, NoSave, Fail, NoJob, Kinds, Phases
  <1>8. ASSUME NEW s \in Server, Promote(s) PROVE TypeOK'
    <2>1. CASE mem' = [mem EXCEPT ![s] = @ \cup Logged] /\ Goto(s, "save") /\ UNCHANGED job
      BY <1>8, <2>1, StoreAssumption DEF TypeOK, Promote, Goto, Phases
    <2>2. CASE (\E X \in SUBSET Logged : mem' = [mem EXCEPT ![s] = @ \cup X]) /\ Fail(s)
      <3>1. mem' \in [Server -> SUBSET Write]
        BY <2>2, StoreAssumption DEF TypeOK
      <3> QED
        BY <1>8, <2>2, <3>1 DEF TypeOK, Promote, Fail, NoJob, Kinds, Phases
    <2> QED
      BY <1>8, <2>1, <2>2 DEF Promote
  <1>9. ASSUME NEW s \in Server, NEW w \in Write, Upload(s, w) PROVE TypeOK'
    BY <1>9 DEF TypeOK, Upload, Goto, Kinds, Phases
  <1>10. ASSUME NEW s \in Server, Exit(s) PROVE TypeOK'
    BY <1>10 DEF TypeOK, Exit, Goto, Kinds, Phases
  <1>11. ASSUME NEW s \in Server, OpenTmp(s) PROVE TypeOK'
    BY <1>11 DEF TypeOK, OpenTmp, Goto, Phases, File, Piece, Empty
  <1>12. ASSUME NEW s \in Server, DumpHead(s) PROVE TypeOK'
    BY PutTyped, <1>12 DEF TypeOK, DumpHead, Goto, Phases
  <1>13. ASSUME NEW s \in Server, DumpRest(s) PROVE TypeOK'
    BY PutTyped, <1>13 DEF TypeOK, DumpRest, Goto, Phases
  <1>14. ASSUME NEW s \in Server, Rename(s) PROVE TypeOK'
    <2>1. CASE tmp = NoFile
      BY <1>14, <2>1 DEF TypeOK, Rename, Fail, NoJob, Kinds, Phases
    <2>2. CASE tmp # NoFile
      <3>1. \A t \in Server : Renamed(fd[t]) \in {"none", "tmp", "main", "unlinked"}
        BY DEF TypeOK, Renamed
      <3>2. fd' \in [Server -> {"none", "tmp", "main", "unlinked"}]
        BY <1>14, <2>2, <3>1 DEF Rename
      <3> QED
        BY <1>14, <2>2, <3>2 DEF TypeOK, Rename, Goto, Phases
    <2> QED
      BY <2>1, <2>2
  <1>15. ASSUME NEW s \in Server, Return(s) PROVE TypeOK'
    BY <1>15 DEF TypeOK, Return, NoJob, Kinds, Phases
  <1>16. ASSUME NEW s \in Server, Crash(s) PROVE TypeOK'
    BY <1>16 DEF TypeOK, Crash, Goto, NoJob, Kinds, Phases
  <1>17. ASSUME NEW s \in Server, Refresh(s) \/ Dispatch(s) \/ Save(s) PROVE TypeOK'
    BY <1>17, <1>4, <1>5, <1>6, <1>7, <1>8, <1>11, <1>12, <1>13, <1>14, <1>15
    DEF Refresh, Dispatch, Save
  <1>18. ASSUME NEW s \in Server,
                \/ \E w \in Write \ acked : Enter(s, w) \/ Upload(s, w)
                \/ Enter(s, NoWrite)
         PROVE TypeOK'
    BY <1>18, <1>3, <1>9
  <1> QED
    BY <1>1, <1>2, <1>10, <1>16, <1>17, <1>18 DEF Next

\* Opening, renaming and closing the temporary file keep it so.
LEMMA DumpHasAFileInductive == TypeOK /\ DumpHasAFile /\ [Next]_vars => DumpHasAFile'
  <1> SUFFICES ASSUME TypeOK, DumpHasAFile, [Next]_vars PROVE DumpHasAFile'
    OBVIOUS
  <1>1. CASE UNCHANGED <<main, tmp, fd>>
    BY <1>1 DEF DumpHasAFile
  <1>2. ASSUME NEW s \in Server, OpenTmp(s) PROVE DumpHasAFile'
    <2>1. Empty \in File
      BY DEF Empty, File, Piece
    <2> QED
      BY <1>2, <2>1, NoFileAssumption DEF DumpHasAFile, OpenTmp, TypeOK
  <1>3. ASSUME NEW s \in Server, DumpHead(s) \/ DumpRest(s) PROVE DumpHasAFile'
    <2>1. (tmp # NoFile => tmp' # NoFile) /\ (main # NoFile => main' # NoFile)
      BY <1>3, PutTyped, NoFileAssumption DEF DumpHead, DumpRest
    <2>2. \A t \in Server : fd'[t] \in {fd[t], "none"}
      BY <1>3 DEF DumpHead, DumpRest, TypeOK
    <2> QED
      BY <2>1, <2>2 DEF DumpHasAFile
  <1>4. ASSUME NEW s \in Server, Rename(s) PROVE DumpHasAFile'
    BY <1>4 DEF DumpHasAFile, Rename, Renamed, TypeOK
  <1>5. ASSUME NEW s \in Server, Crash(s) PROVE DumpHasAFile'
    BY <1>5 DEF DumpHasAFile, Crash, TypeOK
  <1> QED
    BY <1>1, <1>2, <1>3, <1>4, <1>5
    DEF Next, vars, Refresh, Dispatch, Save, Open, Enter, Reload, Stamp, Mutate,
        NoSave, Promote, Upload, Exit, Return

\* Type correctness of the store's files and of every server's memory and
\* place in a call, however many processes save at once.
THEOREM StoreTypeCorrect == Spec => []TypeOK
  <1>1. Init => TypeOK /\ DumpHasAFile
    BY DEF Init, TypeOK, DumpHasAFile, Phases, Kinds, NoJob
  <1> QED
    BY <1>1, StoreTypeInductive, DumpHasAFileInductive, PTL DEF Spec

-----------------------------------------------------------------------------

\* What a step by another server leaves alone.
Untouched(t) ==
    /\ pc'[t] = pc[t] /\ job'[t] = job[t] /\ fd'[t] = fd[t]
    /\ mem'[t] = mem[t]
    /\ t \in fresh' <=> t \in fresh

\* A server that does not step stays in order while the files are the same.
LEMMA UntouchedInOrder ==
  ASSUME NEW t \in Server, InOrder(t), Untouched(t), main' = main, tmp' = tmp
  PROVE  InOrder(t)'
  BY DiskSame
  DEF InOrder, Untouched, DumpGoesToTmp, DumpSoFar, Current, HoldsTheDisk, CarriesItsWrite

\* A server outside every call does not care for the temporary file, and for
\* graph.nq only as long as it takes it for the one it loaded.
LEMMA WaitingInOrder ==
  ASSUME NEW t \in Server, InOrder(t), ~Busy(t), ~Sole,
         pc'[t] = pc[t], job'[t] = job[t], fd'[t] = fd[t], mem'[t] = mem[t],
         t \notin fresh' \/ (main' = main /\ t \in fresh)
  PROVE  InOrder(t)'
  BY DiskSame
  DEF InOrder, Busy, DumpGoesToTmp, DumpSoFar, Current, HoldsTheDisk, CarriesItsWrite

\* Calls overlap in no two servers: whoever steps inside a call is alone.
LEMMA OneAtATimeInductive ==
  ASSUME Sole \/ Turns, TypeOK, OneAtATime, [Next]_vars
  PROVE  OneAtATime'
  <1>1. CASE pc' = pc
    BY <1>1 DEF OneAtATime, Busy
  <1>2. ASSUME NEW s \in Server,
               \A t \in Server \ {s} : ~Busy(t) /\ pc'[t] = pc[t]
        PROVE  OneAtATime'
    BY <1>2 DEF OneAtATime, Busy
  <1>3. ASSUME NEW s \in Server, \A t \in Server \ {s} : pc'[t] = pc[t],
               Busy(s) \/ MayEnter(s)
        PROVE  OneAtATime'
    BY <1>2, <1>3 DEF OneAtATime, Busy, MayEnter, Sole, Turns
  <1>4. ASSUME NEW s \in Server, Open(s) \/ Exit(s) \/ Refresh(s) \/ Dispatch(s)
        PROVE  OneAtATime'
    BY <1>3, <1>4
    DEF Open, Exit, Refresh, Reload, Stamp, Dispatch, Mutate, NoSave, Promote, Goto,
        Fail, Busy, TypeOK
  <1>5. ASSUME NEW s \in Server, Save(s)
        PROVE  OneAtATime'
    BY <1>3, <1>5
    DEF Save, OpenTmp, DumpHead, DumpRest, Rename, Return, Goto, Fail, Busy, TypeOK
  <1>6. ASSUME NEW s \in Server, Crash(s)
        PROVE  OneAtATime'
    BY <1>6 DEF Crash, Goto, OneAtATime, Busy, TypeOK
  <1>7. ASSUME NEW s \in Server, NEW w \in Write \cup {NoWrite}, Enter(s, w)
        PROVE  OneAtATime'
    BY <1>3, <1>7 DEF Enter, Goto, TypeOK
  <1>8. ASSUME NEW s \in Server, NEW w \in Write, Upload(s, w)
        PROVE  OneAtATime'
    BY <1>3, <1>8 DEF Upload, Goto, TypeOK
  <1> QED
    BY <1>1, <1>4, <1>5, <1>6, <1>7, <1>8 DEF Next, vars

\* Every step keeps the one who steps in order, and so everyone.
LEMMA InOrderInductive ==
  ASSUME Sole \/ Turns, TypeOK, SaveInv, [Next]_vars
  PROVE  \A s \in Server : InOrder(s)'
  <1> USE DEF SaveInv
  <1>1. ASSUME NEW s \in Server, InOrder(s)', main' = main, tmp' = tmp,
               \A t \in Server \ {s} : Untouched(t)
        PROVE  \A t \in Server : InOrder(t)'
    BY <1>1, UntouchedInOrder
  <1>2. ASSUME NEW s \in Server, Busy(s), InOrder(s)',
               pc' = [pc EXCEPT ![s] = pc'[s]], job' = [job EXCEPT ![s] = job'[s]],
               mem' = mem, \A t \in Server \ {s} : fd'[t] = fd[t],
               fresh' = {} \/ (main' = main /\ fresh' = fresh)
        PROVE  \A t \in Server : InOrder(t)'
    <2>1. ASSUME NEW t \in Server \ {s} PROVE InOrder(t)'
      <3>1. ~Busy(t) /\ ~Sole
        BY <1>2 DEF OneAtATime, Sole
      <3>2. pc'[t] = pc[t] /\ job'[t] = job[t] /\ mem'[t] = mem[t] /\ fd'[t] = fd[t]
        BY <1>2 DEF TypeOK
      <3>3. CASE t \notin fresh' \/ (main' = main /\ t \in fresh)
        BY <3>1, <3>2, <3>3, WaitingInOrder
      <3> QED
        BY <1>2, <3>3
    <2> QED
      BY <1>2, <2>1
  <1>3. CASE UNCHANGED vars
    BY <1>3, UntouchedInOrder DEF vars, Untouched
  <1>4. ASSUME NEW s \in Server, Open(s) PROVE \A t \in Server : InOrder(t)'
    <2>1. main' = main /\ tmp' = tmp /\ OnDisk' = OnDisk
      BY <1>4, DiskSame DEF Open
    <2>2. \A t \in Server \ {s} : Untouched(t)
      BY <1>4 DEF Open, Goto, Untouched, TypeOK
    <2>3. InOrder(s)'
      BY <1>4, <2>1 DEF Open, Goto, TypeOK,
        InOrder, DumpGoesToTmp, DumpSoFar, Current, HoldsTheDisk, CarriesItsWrite
    <2> QED
      BY <1>1, <2>1, <2>2, <2>3
  <1>5. ASSUME NEW s \in Server, Reload(s) PROVE \A t \in Server : InOrder(t)'
    <2>1. main' = main /\ tmp' = tmp /\ OnDisk' = OnDisk
      BY <1>5, DiskSame DEF Reload
    <2>2. \A t \in Server \ {s} : Untouched(t)
      BY <1>5 DEF Reload, Goto, Fail, NoJob, AlwaysLoads, Untouched, TypeOK
    <2>3. InOrder(s)'
      BY <1>5, <2>1 DEF Reload, Goto, Fail, NoJob, AlwaysLoads, TypeOK,
        InOrder, DumpGoesToTmp, DumpSoFar, Current, HoldsTheDisk, CarriesItsWrite
    <2> QED
      BY <1>1, <2>1, <2>2, <2>3
  <1>6. ASSUME NEW s \in Server, Stamp(s) PROVE \A t \in Server : InOrder(t)'
    <2>1. main' = main /\ tmp' = tmp /\ OnDisk' = OnDisk
      BY <1>6, DiskSame DEF Stamp
    <2>2. \A t \in Server \ {s} : Untouched(t)
      BY <1>6 DEF Stamp, Goto, Untouched, TypeOK
    <2>3. InOrder(s)'
      BY <1>6, <2>1 DEF Stamp, Goto, TypeOK,
        InOrder, DumpGoesToTmp, DumpSoFar, Current, HoldsTheDisk, CarriesItsWrite
    <2> QED
      BY <1>1, <2>1, <2>2, <2>3
  <1>7. ASSUME NEW s \in Server, Mutate(s) PROVE \A t \in Server : InOrder(t)'
    <2>1. main' = main /\ tmp' = tmp /\ OnDisk' = OnDisk
      BY <1>7, DiskSame DEF Mutate
    <2>2. \A t \in Server \ {s} : Untouched(t)
      BY <1>7 DEF Mutate, Goto, Untouched, TypeOK
    <2>3. InOrder(s)'
      BY <1>7, <2>1 DEF Mutate, Goto, TypeOK,
        InOrder, DumpGoesToTmp, DumpSoFar, Current, HoldsTheDisk, CarriesItsWrite
    <2> QED
      BY <1>1, <2>1, <2>2, <2>3
  <1>8. ASSUME NEW s \in Server, NoSave(s) PROVE \A t \in Server : InOrder(t)'
    <2>1. main' = main /\ tmp' = tmp /\ OnDisk' = OnDisk
      BY <1>8, DiskSame DEF NoSave
    <2>2. \A t \in Server \ {s} : Untouched(t)
      BY <1>8 DEF NoSave, Fail, NoJob, Untouched, TypeOK
    <2>3. InOrder(s)'
      BY <1>8, <2>1 DEF NoSave, Fail, NoJob, TypeOK,
        InOrder, DumpGoesToTmp, DumpSoFar, Current, HoldsTheDisk, CarriesItsWrite
    <2> QED
      BY <1>1, <2>1, <2>2, <2>3
  <1>9. ASSUME NEW s \in Server, Promote(s) PROVE \A t \in Server : InOrder(t)'
    <2>1. main' = main /\ tmp' = tmp /\ OnDisk' = OnDisk
      BY <1>9, DiskSame DEF Promote
    <2>2. \A t \in Server \ {s} : Untouched(t)
      BY <1>9 DEF Promote, Goto, Fail, NoJob, Untouched, TypeOK
    <2>3. InOrder(s)'
      BY <1>9, <2>1 DEF Promote, Goto, Fail, NoJob, TypeOK,
        InOrder, DumpGoesToTmp, DumpSoFar, Current, HoldsTheDisk, CarriesItsWrite
    <2> QED
      BY <1>1, <2>1, <2>2, <2>3
  <1>10. ASSUME NEW s \in Server, Exit(s) PROVE \A t \in Server : InOrder(t)'
    <2>1. main' = main /\ tmp' = tmp /\ OnDisk' = OnDisk
      BY <1>10, DiskSame DEF Exit
    <2>2. \A t \in Server \ {s} : Untouched(t)
      BY <1>10 DEF Exit, Goto, Turns, Untouched, TypeOK
    <2>3. InOrder(s)'
      BY <1>10, <2>1 DEF Exit, Goto, Turns, TypeOK,
        InOrder, DumpGoesToTmp, DumpSoFar, Current, HoldsTheDisk, CarriesItsWrite
    <2> QED
      BY <1>1, <2>1, <2>2, <2>3
  <1>11. ASSUME NEW s \in Server, Return(s) PROVE \A t \in Server : InOrder(t)'
    <2>1. main' = main /\ tmp' = tmp /\ OnDisk' = OnDisk
      BY <1>11, DiskSame DEF Return
    <2>2. \A t \in Server \ {s} : Untouched(t)
      BY <1>11 DEF Return, NoJob, Untouched, TypeOK
    <2>3. InOrder(s)'
      BY <1>11, <2>1 DEF Return, NoJob, TypeOK,
        InOrder, DumpGoesToTmp, DumpSoFar, Current, HoldsTheDisk, CarriesItsWrite
    <2> QED
      BY <1>1, <2>1, <2>2, <2>3
  <1>12. ASSUME NEW s \in Server, Crash(s) PROVE \A t \in Server : InOrder(t)'
    <2>1. main' = main /\ tmp' = tmp /\ OnDisk' = OnDisk
      BY <1>12, DiskSame DEF Crash
    <2>2. \A t \in Server \ {s} : Untouched(t)
      BY <1>12 DEF Crash, Goto, NoJob, Untouched, TypeOK
    <2>3. InOrder(s)'
      BY <1>12, <2>1 DEF Crash, Goto, NoJob, TypeOK,
        InOrder, DumpGoesToTmp, DumpSoFar, Current, HoldsTheDisk, CarriesItsWrite
    <2> QED
      BY <1>1, <2>1, <2>2, <2>3
  <1>13. ASSUME NEW s \in Server, NEW w \in Write \cup {NoWrite}, Enter(s, w)
         PROVE  \A t \in Server : InOrder(t)'
    <2>1. main' = main /\ tmp' = tmp /\ OnDisk' = OnDisk
      BY <1>13, DiskSame DEF Enter
    <2>2. \A t \in Server \ {s} : Untouched(t)
      BY <1>13 DEF Enter, Goto, Untouched, TypeOK
    <2>3. InOrder(s)'
      BY <1>13, <2>1 DEF Enter, Goto, TypeOK,
        InOrder, DumpGoesToTmp, DumpSoFar, Current, HoldsTheDisk, CarriesItsWrite
    <2> QED
      BY <1>1, <2>1, <2>2, <2>3
  <1>14. ASSUME NEW s \in Server, NEW w \in Write, Upload(s, w) PROVE \A t \in Server : InOrder(t)'
    <2>1. main' = main /\ tmp' = tmp /\ OnDisk' = OnDisk
      BY <1>14, DiskSame DEF Upload
    <2>2. \A t \in Server \ {s} : Untouched(t)
      BY <1>14 DEF Upload, Goto, Turns, Untouched, TypeOK
    <2>3. InOrder(s)'
      BY <1>14, <2>1 DEF Upload, Goto, Turns, TypeOK,
        InOrder, DumpGoesToTmp, DumpSoFar, Current, HoldsTheDisk, CarriesItsWrite
    <2> QED
      BY <1>1, <2>1, <2>2, <2>3
  <1>15. ASSUME NEW s \in Server, OpenTmp(s) PROVE \A t \in Server : InOrder(t)'
    <2>1. Busy(s)
      BY <1>15 DEF OpenTmp, Busy
    <2>2. tmp' # NoFile /\ OnDisk' = OnDisk
      BY <1>15, DiskSame, NoFileAssumption DEF OpenTmp, Empty, File, Piece
    <2>3. InOrder(s)'
      BY <1>15, <2>2 DEF OpenTmp, Goto, TypeOK,
        InOrder, DumpGoesToTmp, DumpSoFar, Current, HoldsTheDisk, CarriesItsWrite
    <2> QED
      BY <1>15, <2>1, <2>2, <2>3, <1>2 DEF OpenTmp, Goto, TypeOK
  <1>16. ASSUME NEW s \in Server, DumpHead(s) PROVE \A t \in Server : InOrder(t)'
    <2>1. Busy(s)
      BY <1>16 DEF DumpHead, Busy
    <2>2. /\ main' = main /\ fresh' = fresh /\ OnDisk' = OnDisk
          /\ tmp' # NoFile /\ tmp'.head = mem[s]
      <3>1. fd[s] = "tmp" /\ tmp \in File
        BY <1>16 DEF DumpHead, InOrder, DumpGoesToTmp, DumpSoFar, TypeOK
      <3>2. tmp' = [tmp EXCEPT !.head = mem[s]] /\ main' = main /\ fresh' = fresh
        BY <1>16, <3>1 DEF DumpHead, Put
      <3>3. tmp' \in File
        BY <1>16, <3>2, <3>1, PieceWritten DEF TypeOK, Piece
      <3> QED
        BY <3>1, <3>2, <3>3, DiskSame, NoFileAssumption DEF File
    <2>3. InOrder(s)'
      BY <1>16, <2>2 DEF DumpHead, Goto, TypeOK,
        InOrder, DumpGoesToTmp, DumpSoFar, Current, HoldsTheDisk, CarriesItsWrite
    <2> QED
      BY <1>16, <2>1, <2>2, <2>3, <1>2 DEF DumpHead, Goto, TypeOK
  <1>17. ASSUME NEW s \in Server, DumpRest(s) PROVE \A t \in Server : InOrder(t)'
    <2>1. Busy(s)
      BY <1>17 DEF DumpRest, Busy
    <2>2. /\ main' = main /\ fresh' = fresh /\ OnDisk' = OnDisk
          /\ tmp' # NoFile /\ tmp'.head = tmp.head /\ tmp'.rest = mem[s]
      <3>1. fd[s] = "tmp" /\ tmp \in File
        BY <1>17 DEF DumpRest, InOrder, DumpGoesToTmp, DumpSoFar, TypeOK
      <3>2. tmp' = [tmp EXCEPT !.rest = mem[s]] /\ main' = main /\ fresh' = fresh
        BY <1>17, <3>1 DEF DumpRest, Put
      <3>3. tmp' \in File
        BY <1>17, <3>2, <3>1, PieceWritten DEF TypeOK, Piece
      <3> QED
        BY <3>1, <3>2, <3>3, DiskSame, NoFileAssumption DEF File
    <2>3. InOrder(s)'
      BY <1>17, <2>2 DEF DumpRest, Goto, TypeOK,
        InOrder, DumpGoesToTmp, DumpSoFar, Current, HoldsTheDisk, CarriesItsWrite
    <2> QED
      BY <1>17, <2>1, <2>2, <2>3, <1>2 DEF DumpRest, Goto, TypeOK
  <1>18. ASSUME NEW s \in Server, Rename(s) PROVE \A t \in Server : InOrder(t)'
    <2>1. Busy(s)
      BY <1>18 DEF Rename, Busy
    <2>2. tmp # NoFile /\ tmp.head = mem[s] /\ tmp.rest = mem[s]
      BY <1>18 DEF Rename, InOrder, DumpSoFar
    <2>3. OnDisk' = mem[s] /\ mem' = mem /\ fresh' = {}
      BY <1>18, <2>2, StoreAssumption, NoFileAssumption
      DEF Rename, OnDisk, Parses, Parsed, TypeOK
    <2>4. \A t \in Server : fd[t] = "none" /\ fd'[t] = "none"
      <3>1. \A t \in Server : fd[t] = "none"
        BY <1>18 DEF InOrder, DumpGoesToTmp, OneAtATime, Busy, Rename
      <3> QED
        BY <1>18, <2>2, <3>1 DEF Rename, Renamed
    <2>5. InOrder(s)'
      BY <1>18, <2>2, <2>3, <2>4 DEF Rename, Goto, TypeOK,
        InOrder, DumpGoesToTmp, DumpSoFar, Current, HoldsTheDisk, CarriesItsWrite
    <2> QED
      BY <1>18, <2>1, <2>2, <2>3, <2>4, <2>5, <1>2 DEF Rename, Goto, TypeOK
  <1>19. ASSUME NEW s \in Server, Refresh(s) \/ Dispatch(s) \/ Save(s)
        PROVE  \A t \in Server : InOrder(t)'
    BY <1>19, <1>5, <1>6, <1>7, <1>8, <1>9, <1>15, <1>16, <1>17, <1>18, <1>11
    DEF Refresh, Dispatch, Save
  <1>20. ASSUME NEW s \in Server,
                \/ \E w \in Write \ acked : Enter(s, w) \/ Upload(s, w)
                \/ Enter(s, NoWrite)
         PROVE  \A t \in Server : InOrder(t)'
    BY <1>20, <1>13, <1>14
  <1> QED
    BY <1>3, <1>4, <1>10, <1>12, <1>19, <1>20 DEF Next

\* The disk changes at a rename alone, and then to a graph that held it.
LEMMA OnDiskGrows ==
  ASSUME TypeOK, SaveInv, [Next]_vars
  PROVE  /\ main' = main \/ \E s \in Server : Rename(s) /\ pc'[s] = "renamed"
         /\ AlwaysLoads'
         /\ OnDisk \subseteq OnDisk'
  <1>1. CASE main' = main
    BY <1>1, DiskSame DEF SaveInv, AlwaysLoads, Parses
  <1>2. ASSUME NEW s \in Server, DumpHead(s) \/ DumpRest(s) PROVE main' = main
    BY <1>2 DEF SaveInv, InOrder, DumpGoesToTmp, DumpHead, DumpRest, Put
  <1>3. ASSUME NEW s \in Server, Rename(s), main' # main
        PROVE  pc'[s] = "renamed" /\ AlwaysLoads' /\ OnDisk \subseteq OnDisk'
    <2>1. /\ tmp # NoFile /\ tmp.head = mem[s] /\ tmp.rest = mem[s]
          /\ OnDisk \subseteq mem[s]
      BY <1>3 DEF SaveInv, InOrder, DumpSoFar, Current, HoldsTheDisk, Rename
    <2>2. main' = tmp /\ pc'[s] = "renamed"
      BY <1>3, <2>1 DEF Rename, Goto, TypeOK
    <2>3. OnDisk' = mem[s]
      BY <2>1, <2>2, StoreAssumption, NoFileAssumption DEF OnDisk, Parses, Parsed, TypeOK
    <2> QED
      BY <2>1, <2>2, <2>3 DEF AlwaysLoads, Parses
  <1>4. main' = main \/ \E s \in Server : Rename(s) /\ main' # main
    BY <1>2 DEF Next, vars, Refresh, Dispatch, Save, Open, Enter, Reload, Stamp, Mutate,
      NoSave, Promote, Upload, Exit, OpenTmp, Return, Crash
  <1> QED
    BY <1>1, <1>3, <1>4

\* A call acknowledges its write when the write is on the disk, where it stays.
LEMMA SaveInductive ==
  ASSUME Sole \/ Turns, TypeOK, SaveInv, [Next]_vars
  PROVE  SaveInv'
  <1>1. ASSUME NEW s \in Server, Return(s) PROVE Durable'
    BY <1>1, DiskSame DEF SaveInv, Durable, Return, InOrder, CarriesItsWrite
  <1>2. ASSUME acked' = acked PROVE Durable'
    BY <1>2, OnDiskGrows DEF SaveInv, Durable
  <1>3. acked' = acked \/ \E s \in Server : Return(s)
    BY DEF Next, vars, Refresh, Dispatch, Save, Open, Enter, Reload, Stamp, Mutate,
      NoSave, Promote, Upload, Exit, OpenTmp, DumpHead, DumpRest, Rename, Crash
  <1> QED
    BY <1>1, <1>2, <1>3, OneAtATimeInductive, InOrderInductive, OnDiskGrows DEF SaveInv

\* A process that owns the store, or processes that take turns at it and are
\* killed rather than closed, keep every save in order.
THEOREM SavesInOrder ==
  ASSUME Sole \/ Turns
  PROVE  Spec => [](TypeOK /\ SaveInv)
  <1>1. Init => TypeOK /\ SaveInv
    BY DEF Init, TypeOK, SaveInv, OneAtATime, Busy, InOrder, DumpGoesToTmp, DumpSoFar,
      Current, HoldsTheDisk, CarriesItsWrite, AlwaysLoads, Durable, OnDisk, NoJob,
      Kinds, Phases
  <1>2. TypeOK /\ SaveInv /\ [Next]_vars => SaveInv'
    BY SaveInductive
  <1> QED
    BY <1>1, <1>2, StoreTypeCorrect, PTL DEF Spec

\* save and refresh: a call that returned success is on the disk ever after.
THEOREM DurableHolds ==
  ASSUME Sole \/ Turns
  PROVE  Spec => []Durable
  <1>1. SaveInv => Durable
    BY DEF SaveInv
  <1> QED
    BY <1>1, SavesInOrder, PTL

\* The dump and the rename: graph.nq is absent or one whole dump at every instant.
THEOREM AlwaysLoadsHolds ==
  ASSUME Sole \/ Turns
  PROVE  Spec => []AlwaysLoads
  <1>1. SaveInv => AlwaysLoads
    BY DEF SaveInv
  <1> QED
    BY <1>1, SavesInOrder, PTL

\* refresh in on_call_tool: a tool runs on a graph that has every acknowledged write.
THEOREM CallsSeeEverySaveHolds ==
  ASSUME Sole \/ Turns
  PROVE  Spec => []CallsSeeEverySave
  <1>1. SaveInv => CallsSeeEverySave
    BY DEF SaveInv, CallsSeeEverySave, InOrder, Current, HoldsTheDisk, Durable
  <1> QED
    BY <1>1, SavesInOrder, PTL

\* refresh's test: a server that skips the reload misses nothing on the disk.
THEOREM FreshMeansCurrentHolds ==
  ASSUME Sole \/ Turns
  PROVE  Spec => []FreshMeansCurrent
  <1>1. SaveInv => FreshMeansCurrent
    BY DEF SaveInv, FreshMeansCurrent, InOrder, Current, HoldsTheDisk
  <1> QED
    BY <1>1, SavesInOrder, PTL

\* save: no step takes a write off the disk, acknowledged or not.
THEOREM NeverForgetsHolds ==
  ASSUME Sole \/ Turns
  PROVE  Spec => NeverForgets
  <1>1. TypeOK /\ SaveInv /\ [Next]_vars => [OnDisk \subseteq OnDisk']_vars
    BY OnDiskGrows
  <1> QED
    BY <1>1, SavesInOrder, PTL DEF Spec, NeverForgets
=============================================================================
