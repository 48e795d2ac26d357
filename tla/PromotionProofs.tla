-------------------------- MODULE PromotionProofs --------------------------
(***************************************************************************)
(* Distill loses nothing, for any number of logs, names and statements,    *)
(* with the graph in the process or on a server: a log a session is        *)
(* writing is out of its reach, every entry stays on the disk, and what    *)
(* leaves the active logs is in the graph.  The invariant follows the log  *)
(* that is being retired, step by step, and what is owed to the sessions   *)
(* meanwhile.                                                              *)
(***************************************************************************)
EXTENDS Promotion, FiniteSetTheorems, NaturalsInduction, SequenceTheorems, TLAPS

-----------------------------------------------------------------------------
(* Numbers in order *)

LEMMA LeastExists ==
  ASSUME NEW T \in SUBSET Nat, T # {}
  PROVE  \E x \in T : \A y \in T : x <= y
  <1> DEFINE less == {p \in Nat \X Nat : p[1] < p[2]}
  <1>1. IsWellFoundedOn(less, Nat)
    <2>1. less = OpToRel(<, Nat)
      BY Zenon DEF OpToRel
    <2> QED
      BY <2>1, NatLessThanWellFounded, Zenon
  <1>2. PICK x \in T : \A y \in T : <<y, x>> \notin less
    BY <1>1, WFMin
  <1>3. ASSUME NEW y \in T PROVE ~(y < x)
    <2>1. <<y, x>> \in Nat \X Nat /\ <<y, x>>[1] = y /\ <<y, x>>[2] = x
      OBVIOUS
    <2> QED
      BY <1>2, <2>1, Zenon
  <1>4. ASSUME NEW y \in T PROVE x <= y
    BY <1>3
  <1> QED
    BY <1>4

LEMMA GreatestExists ==
  ASSUME NEW n \in Nat, NEW T \in SUBSET (0..n), T # {}
  PROVE  \E x \in T : \A y \in T : y <= x
  <1> DEFINE D == {n - t : t \in T}
  <1>1. D # {}
    OBVIOUS
  <1>2. D \in SUBSET Nat
    <2>1. ASSUME NEW t \in T PROVE n - t \in Nat
      OBVIOUS
    <2> QED
      BY <2>1
  <1>3. PICK d \in D : \A e \in D : d <= e
    BY <1>1, <1>2, LeastExists
  <1>4. PICK x \in T : d = n - x
    OBVIOUS
  <1>5. ASSUME NEW y \in T PROVE y <= x
    <2>1. n - y \in D
      OBVIOUS
    <2>2. n - x <= n - y
      BY <1>3, <1>4, <2>1
    <2> QED
      BY <2>2
  <1> QED
    BY <1>5

\* How many of S there are up to l.
Rank(S, l) == Cardinality({m \in S : m <= l})

LEMMA RankCounts ==
  ASSUME NEW S \in SUBSET Nat, IsFiniteSet(S), NEW l \in S
  PROVE  Rank(S, l) \in 1..Cardinality(S)
  <1> DEFINE below == {m \in S : m <= l}
  <1>1. IsFiniteSet(below) /\ Cardinality(below) <= Cardinality(S)
    BY FS_Subset, below \in SUBSET S
  <1>2. Cardinality(below) \in Nat /\ Cardinality(S) \in Nat
    BY <1>1, FS_CardinalityType
  <1>3. Cardinality(below) # 0
    BY <1>1, FS_EmptySet, l \in below
  <1> QED
    BY <1>1, <1>2, <1>3 DEF Rank

LEMMA RanksDiffer ==
  ASSUME NEW S \in SUBSET Nat, IsFiniteSet(S), NEW l \in S, NEW m \in S,
         Rank(S, l) = Rank(S, m)
  PROVE  l = m
  <1> SUFFICES ASSUME NEW a \in S, NEW b \in S, Rank(S, a) = Rank(S, b), a < b PROVE FALSE
    <2>1. l \in Nat /\ m \in Nat
      OBVIOUS
    <2> QED
      BY <2>1
  <1> DEFINE A == {x \in S : x <= a}
             B == {x \in S : x <= b}
  <1>1. IsFiniteSet(B)
    <2>1. B \in SUBSET S
      OBVIOUS
    <2> QED
      BY <2>1, FS_Subset
  <1>2. A = B
    <2>1. ASSUME NEW x \in S, x <= a PROVE x <= b
      <3>1. x \in Nat /\ a \in Nat /\ b \in Nat
        OBVIOUS
      <3> QED
        BY <2>1, <3>1
    <2>2. Cardinality(A) = Cardinality(B)
      BY DEF Rank
    <2>3. A \in SUBSET B
      BY <2>1
    <2> QED
      BY <1>1, <2>2, <2>3, FS_Subset
  <1>3. b \in B /\ b \notin A
    OBVIOUS
  <1> QED
    BY <1>2, <1>3

\* Every element is the one of its rank.
LEMMA NthFinds ==
  ASSUME NEW S \in SUBSET Nat, IsFiniteSet(S), NEW l \in S
  PROVE  Nth(S, Rank(S, l)) = l
  <1> DEFINE m == Nth(S, Rank(S, l))
  <1>1. Rank(S, m) = Rank(S, l) /\ m \in S
    BY DEF Nth, Rank
  <1>2. ASSUME NEW x \in S, Rank(S, x) = Rank(S, l) PROVE x = l
    BY <1>2, RanksDiffer
  <1> QED
    BY <1>1, <1>2

\* Every rank has its element.
LEMMA NthBelongs ==
  ASSUME NEW S \in SUBSET Nat, IsFiniteSet(S), NEW k \in 1..Cardinality(S)
  PROVE  Nth(S, k) \in S
  <1> DEFINE n == Cardinality(S)
             rank == [l \in S |-> Rank(S, l)]
  <1>1. n \in Nat
    BY FS_CardinalityType
  <1>2. IsFiniteSet(1..n) /\ Cardinality(1..n) = n
    BY <1>1, FS_Interval
  <1>3. rank \in [S -> 1..n]
    BY RankCounts
  <1>4. rank \in Injection(S, 1..n)
    BY <1>3, RanksDiffer DEF Injection, IsInjective
  <1>5. rank \in Surjection(S, 1..n)
    BY <1>2, <1>4, FS_Injection
  <1>6. PICK l \in S : rank[l] = k
    BY <1>5 DEF Surjection
  <1>7. Nth(S, k) = l
    BY <1>6, NthFinds
  <1> QED
    BY <1>7

-----------------------------------------------------------------------------
(* The residue *)

IsSeq(s) == s \in Seq(Range(s))

\* Each name is stated once, however often its line is there.
OneEach(s) == \A d, e \in Range(s) : d.name = e.name => d = e

LEMMA LinesAreOfTheLog ==
  ASSUME NEW log, IsSeq(log), NEW took, NEW twice
  PROVE  /\ Lines(log, took, twice) \in SUBSET Nat
         /\ IsFiniteSet(Lines(log, took, twice))
         /\ Cardinality(Lines(log, took, twice)) \in Nat
         /\ \A l \in Lines(log, took, twice) : l \div 2 \in 1..Len(log)
         /\ DOMAIN log = 1..Len(log) /\ Len(log) \in Nat
  <1> DEFINE L == Lines(log, took, twice)
             top == 2 * Len(log) + 1
  <1>1. DOMAIN log = 1..Len(log) /\ Len(log) \in Nat
    BY DEF IsSeq
  <1>2. top \in Nat
    BY <1>1
  <1>3. L \in SUBSET (2..top)
    BY DEF Lines
  <1>4. IsFiniteSet(2..top)
    BY <1>2, FS_Interval
  <1>5. IsFiniteSet(L)
    BY <1>3, <1>4, FS_Subset
  <1>6. Cardinality(L) \in Nat
    BY <1>5, FS_CardinalityType
  <1>7. L \in SUBSET Nat
    BY <1>3, <1>2
  <1>8. ASSUME NEW l \in L PROVE l \div 2 \in 1..Len(log)
    <2>1. l \in 2..top
      BY <1>3
    <2> QED
      BY <2>1, <1>1
  <1> QED
    BY <1>1, <1>5, <1>6, <1>7, <1>8

\* What a line of the residue says is in the log.
LEMMA ResidueIsOfTheLog ==
  ASSUME NEW log, IsSeq(log), NEW took, NEW twice
  PROVE  /\ IsSeq(Residue(log, took, twice))
         /\ Range(Residue(log, took, twice)) \subseteq Range(log)
  <1> DEFINE L == Lines(log, took, twice)
             n == Cardinality(L)
             r == Residue(log, took, twice)
  <1>1. n \in Nat
    BY LinesAreOfTheLog
  <1>2. r = [k \in 1..n |-> log[Nth(L, k) \div 2]]
    BY DEF Residue
  <1>3. ASSUME NEW k \in 1..n PROVE r[k] \in Range(log)
    <2>1. Nth(L, k) \in L
      BY LinesAreOfTheLog, NthBelongs
    <2>2. Nth(L, k) \div 2 \in DOMAIN log
      BY <2>1, LinesAreOfTheLog
    <2> QED
      BY <1>2, <2>2 DEF Range
  <1> HIDE DEF n, r
  <1>4. DOMAIN r = 1..n
    BY <1>2
  <1>5. r \in [1..n -> Range(r)]
    BY <1>2, <1>4 DEF Range
  <1>6. IsSeq(r)
    BY <1>1, <1>5, SeqDef DEF IsSeq
  <1>7. Range(r) \subseteq Range(log)
    BY <1>3, <1>4 DEF Range
  <1> QED
    BY <1>6, <1>7 DEF r

LEMMA LineIsInTheResidue ==
  ASSUME NEW log, IsSeq(log), NEW took, NEW twice,
         NEW i \in 1..Len(log), 2 * i \in Lines(log, took, twice)
  PROVE  log[i] \in Range(Residue(log, took, twice))
  <1> DEFINE L == Lines(log, took, twice)
             k == Rank(L, 2 * i)
             r == Residue(log, took, twice)
  <1>1. k \in 1..Cardinality(L) /\ Nth(L, k) = 2 * i
    BY LinesAreOfTheLog, RankCounts, NthFinds
  <1>2. (2 * i) \div 2 = i
    BY LinesAreOfTheLog
  <1>3. k \in DOMAIN r /\ r[k] = log[Nth(L, k) \div 2]
    BY <1>1 DEF Residue
  <1>4. r[k] = log[i]
    BY <1>1, <1>2, <1>3
  <1> QED
    BY <1>3, <1>4 DEF Range

\* Every note is in the residue.
LEMMA NotesAreLeft ==
  ASSUME NEW log, IsSeq(log), NEW took, NEW twice,
         NEW e \in Range(log), e.name \in Note
  PROVE  e \in Range(Residue(log, took, twice))
  <1>1. PICK i \in 1..Len(log) : e = log[i]
    BY LinesAreOfTheLog DEF Range
  <1>2. (2 * i) \div 2 = i /\ (2 * i) % 2 = 0 /\ 2 * i \in 2..2 * Len(log) + 1
    BY LinesAreOfTheLog
  <1>3. 2 * i \in Lines(log, took, twice)
    BY <1>1, <1>2 DEF Lines
  <1> QED
    BY <1>1, <1>3, LineIsInTheResidue

\* So is every fact that was not taken, in a log that states each name once.
LEMMA RefusedFactsAreLeft ==
  ASSUME NEW log, IsSeq(log), OneEach(log), NEW took, NEW twice,
         NEW e \in Facts(log), e \notin took
  PROVE  e \in Range(Residue(log, took, twice))
  <1> DEFINE stated == {i \in 1..Len(log) : log[i].name = e.name}
  <1>1. e \in Range(log) /\ e.name \in Fact
    BY DEF Facts
  <1>2. PICK i \in stated : \A j \in stated : j <= i
    <2>1. stated \in SUBSET (0..Len(log)) /\ Len(log) \in Nat
      BY LinesAreOfTheLog
    <2>2. stated # {}
      BY <1>1, LinesAreOfTheLog DEF Range
    <2> QED
      BY <2>1, <2>2, GreatestExists
  <1>3. log[i] = e
    <2>1. log[i] \in Range(log)
      BY LinesAreOfTheLog DEF Range
    <2> QED
      BY <1>1, <2>1 DEF OneEach
  <1>4. ASSUME NEW j \in i + 1..Len(log) PROVE log[j].name # log[i].name
    <2>1. i \in Nat /\ j \in 1..Len(log) /\ ~(j <= i)
      BY LinesAreOfTheLog
    <2> QED
      BY <1>2, <1>3, <2>1
  <1>5. Named(log[i].name, Facts(log)) \ took # {}
    BY <1>3 DEF Named
  <1>6. (2 * i) \div 2 = i /\ (2 * i) % 2 = 0 /\ 2 * i \in 2..2 * Len(log) + 1
    BY LinesAreOfTheLog
  <1>7. 2 * i \in Lines(log, took, twice)
    BY <1>4, <1>5, <1>6 DEF Lines
  <1> QED
    BY <1>3, <1>7, LineIsInTheResidue

-----------------------------------------------------------------------------
(* Shapes: the little of the types that the proof needs *)

IsLog(log) ==
    /\ DOMAIN log = {"head", "entries", "age"}
    /\ log.head \in {"absent", "open", "headless", "distilled", "gone"}
    /\ IsSeq(log.entries)
IsGraph(g) == DOMAIN g = {"taken", "value"}

RunShape(r) ==
    /\ DOMAIN r = {"lane", "todo", "seen", "left", "verdict", "stored"}
    /\ r.todo \subseteq File
    /\ DOMAIN r.seen = File /\ \A f \in File : IsLog(r.seen[f])
    /\ DOMAIN r.left = File /\ \A f \in File : IsSeq(r.left[f])

Shape ==
    /\ remote \in BOOLEAN
    /\ DOMAIN file = File /\ \A f \in File : IsLog(file[f])
    /\ IsGraph(graph) /\ IsGraph(disk)
    /\ RunShape(run)

LEMMA AppendSays ==
  ASSUME NEW s, IsSeq(s), NEW e
  PROVE  /\ IsSeq(Append(s, e))
         /\ Range(Append(s, e)) = Range(s) \cup {e}
         /\ IsPrefix(s, Append(s, e))
  <1> DEFINE S == Range(s) \cup {e}
             t == Append(s, e)
  <1>1. s \in Seq(S)
    BY SeqMonotonic DEF IsSeq
  <1>2. /\ t \in Seq(S) /\ Len(t) = Len(s) + 1
        /\ \A i \in 1..Len(s) : t[i] = s[i]
        /\ t[Len(s) + 1] = e
    BY <1>1, AppendProperties
  <1>3. Len(s) \in Nat /\ DOMAIN s = 1..Len(s) /\ DOMAIN t = 1..Len(s) + 1
    BY <1>1, <1>2, LenProperties
  <1>4. IsSeq(t)
    BY <1>2, SeqOfRange DEF IsSeq
  <1>5. Range(t) = S
    <2>1. \A x \in S : x \in Range(t)
      BY <1>2, <1>3 DEF Range
    <2>2. Range(t) \subseteq S
      BY <1>2, RangeOfSeq
    <2> QED
      BY <2>1, <2>2
  <1>6. IsPrefix(s, t)
    <2>1. SubSeq(t, 1, Len(s)) = SubSeq(s, 1, Len(s))
      BY <1>1, <1>2, <1>3
    <2> QED
      BY <1>2, <1>3, <2>1 DEF IsPrefix
  <1> QED
    BY <1>4, <1>5, <1>6

LEMMA EmptyIsSeq == IsSeq(<<>>) /\ Range(<<>>) = {}
  BY DEF IsSeq, Range

LEMMA PrefixOfItself == ASSUME NEW s, IsSeq(s) PROVE IsPrefix(s, s)
  BY DEF IsSeq, IsPrefix

LEMMA NoRunShape == RunShape(NoRun)
  BY EmptyIsSeq DEF RunShape, NoRun, NoLog, IsLog

LEMMA NextLogShape ==
  ASSUME RunShape(run), NEW rest \in SUBSET File, NextLog(rest)
  PROVE  RunShape(run')
  BY NoRunShape DEF NextLog, RunShape

LEMMA ShapeAtFirst == Init => Shape
  BY EmptyIsSeq, NoRunShape, PromotionAssumption
  DEF Init, Shape, IsGraph, NoGraph, IsLog, NoLog

LEMMA AppendedIsLog ==
  ASSUME NEW log, IsLog(log), NEW e
  PROVE  IsLog(Appended(log, e))
  BY AppendSays DEF IsLog, Appended

LEMMA ShapeInSessions == Shape /\ Session => Shape'
  <1> SUFFICES ASSUME Shape, Session PROVE Shape'
    OBVIOUS
  <1>1. ASSUME NEW f \in File, Rest(f) PROVE Shape'
    BY <1>1 DEF Rest, Shape, IsLog
  <1>2. ASSUME NEW f \in File, NEW n, Write(f, n) PROVE Shape'
    <2>1. \A g \in File : IsLog(file'[g])
      BY <1>2, AppendedIsLog DEF Write, Shape
    <2> QED
      BY <1>2, <2>1 DEF Write, Shape
  <1>3. ASSUME NEW n, Store(n) PROVE Shape'
    BY <1>3 DEF Store, Shape, IsGraph
  <1> QED
    BY <1>1, <1>2, <1>3 DEF Session

LEMMA ShapeOfProcess == Shape /\ (Process \/ Fault) => Shape'
  <1> SUFFICES ASSUME Shape, Process \/ Fault PROVE Shape'
    OBVIOUS
  <1>1. ASSUME NEW lane, List(lane) PROVE RunShape(run')
    BY <1>1, NoRunShape DEF List, RunShape, Undistilled, Shape
  <1>2. CASE Start
    BY <1>1, <1>2 DEF Start, List, Shape
  <1>3. CASE Distill
    BY <1>1, <1>3 DEF Distill, List, Shape
  <1>4. CASE Exit
    BY <1>4, NoRunShape DEF Exit, Shape
  <1>5. CASE Fault
    BY <1>5, NoRunShape DEF Fault, Unreached, Raise, Crash, Shape
  <1> QED
    BY <1>2, <1>3, <1>4, <1>5 DEF Process

\* What the server did with what it took.
Served(took) ==
    /\ graph' = PromotedAll(took)
    /\ disk' = IF took # {} THEN graph' ELSE disk
    /\ \/ /\ pc' = "decide"
          /\ run' = [run EXCEPT
                !.left = [f \in File |-> Residue(run.seen[f].entries, took, {})],
                !.verdict = [f \in File |->
                    Verdict(run.seen[f], Residue(run.seen[f].entries, took, {}))],
                !.stored = took # {}]
       \/ pc' = "idle" /\ run' = NoRun

LEMMA ServeServes == Serve => \E took : Served(took)
  BY Zenon DEF Serve, Served

LEMMA ServedGoes ==
  ASSUME Shape, NEW took, Served(took)
  PROVE  \/ pc' = "idle" /\ run' = NoRun
         \/ /\ pc' = "decide" /\ run'.todo = run.todo /\ run'.seen = run.seen
            /\ \A f \in File :
                /\ run'.left[f] = Residue(run.seen[f].entries, took, {})
                /\ run'.verdict[f] = Verdict(run.seen[f], run'.left[f])
  <1>1. CASE /\ pc' = "decide"
             /\ run' = [run EXCEPT
                !.left = [f \in File |-> Residue(run.seen[f].entries, took, {})],
                !.verdict = [f \in File |->
                    Verdict(run.seen[f], Residue(run.seen[f].entries, took, {}))],
                !.stored = took # {}]
    BY <1>1 DEF Shape, RunShape
  <1> QED
    BY <1>1 DEF Served

LEMMA AllIsGraph == ASSUME NEW took PROVE IsGraph(PromotedAll(took))
  BY DEF PromotedAll, IsGraph

LEMMA ShapeInPromoting == Shape /\ Promoting => Shape'
  <1> SUFFICES ASSUME Shape, Promoting PROVE Shape'
    OBVIOUS
  <1>1. CASE Restore
    <2>1. DOMAIN file' = File /\ \A f \in File : IsLog(file'[f])
      BY <1>1 DEF Restore, Shape, RunShape, IsLog
    <2>2. RunShape(run')
      BY <1>1, NextLogShape DEF Restore, Shape, RunShape
    <2> QED
      BY <1>1, <2>1, <2>2 DEF Restore, Shape
  <1>2. CASE Promote
    <2>1. PICK took \in SUBSET Facts(file[Current].entries), twice \in SUBSET Fact :
            /\ graph' = Promoted(graph, file[Current].entries, took)
            /\ run' = [run EXCEPT
                    !.left[Current] = Residue(file[Current].entries, took, twice),
                    !.stored = @ \/ took # {}]
      BY <1>2 DEF Promote
    <2>2. IsGraph(graph')
      BY <2>1 DEF Promoted, IsGraph
    <2>3. ASSUME Current \in File PROVE IsSeq(Residue(file[Current].entries, took, twice))
      BY <2>3, ResidueIsOfTheLog DEF Shape, IsLog
    <2>4. RunShape(run')
      BY <2>1, <2>3 DEF Shape, RunShape
    <2> QED
      BY <1>2, <2>2, <2>4 DEF Promote, Shape
  <1>3. CASE Upload
    BY <1>3 DEF Upload, Shape, RunShape
  <1>4. CASE Serve
    <2>1. PICK took : Served(took)
      BY <1>4, ServeServes
    <2>2. IsGraph(graph') /\ IsGraph(disk')
      BY <2>1, AllIsGraph DEF Served, Shape
    <2>3. ASSUME NEW f \in File PROVE IsSeq(Residue(run.seen[f].entries, took, {}))
      BY ResidueIsOfTheLog DEF Shape, RunShape, IsLog
    <2>4. RunShape(run')
      <3>1. CASE pc' = "idle" /\ run' = NoRun
        BY <3>1, NoRunShape
      <3>2. CASE run' = [run EXCEPT
                !.left = [f \in File |-> Residue(run.seen[f].entries, took, {})],
                !.verdict = [f \in File |->
                    Verdict(run.seen[f], Residue(run.seen[f].entries, took, {}))],
                !.stored = took # {}]
        BY <3>2, <2>3 DEF Shape, RunShape
      <3> QED
        BY <2>1, <3>1, <3>2 DEF Served
    <2> QED
      BY <1>4, <2>2, <2>4 DEF Serve, Shape
  <1> QED
    BY <1>1, <1>2, <1>3, <1>4 DEF Promoting

LEMMA ShapeInDisposal == Shape /\ Disposal => Shape'
  <1> SUFFICES ASSUME Shape, Disposal PROVE Shape'
    OBVIOUS
  <1>1. ASSUME NextLog(run.todo \ {Current}) PROVE RunShape(run')
    BY <1>1, NextLogShape DEF Shape, RunShape
  <1>2. CASE Decide
    BY <1>1, <1>2 DEF Decide, Shape
  <1>3. CASE Mark
    BY <1>3 DEF Mark, Shape, RunShape
  <1>4. CASE EmptyLog
    BY <1>4, EmptyIsSeq DEF EmptyLog, Shape, IsLog
  <1>5. CASE Rewrite
    BY <1>5 DEF Rewrite, Shape, RunShape, IsLog
  <1>6. CASE Archive
    BY <1>1, <1>6, EmptyIsSeq DEF Archive, Shape, IsLog, NoLog
  <1>7. CASE Trim
    BY <1>1, <1>7 DEF Trim, Shape, RunShape, IsLog
  <1>8. CASE Save
    BY <1>8, NoRunShape DEF Save, Shape
  <1> QED
    BY <1>2, <1>3, <1>4, <1>5, <1>6, <1>7, <1>8 DEF Disposal

LEMMA ShapeKept == Shape /\ [Next]_vars => Shape'
  <1>1. Shape /\ UNCHANGED vars => Shape'
    BY DEF vars, Shape
  <1> QED
    BY <1>1, ShapeInSessions, ShapeOfProcess, ShapeInPromoting, ShapeInDisposal DEF Next

-----------------------------------------------------------------------------
(* Whose turn it is.  Unless sessions write under the hands of a run, the log *)
(* that is being retired, and those that wait for it, stay as they were read. *)

Calm == "race" \notin troubles

Retiring == {"mark", "empty", "rewrite", "archive", "trim"}
Working == Retiring \cup {"decide"}

OutOfReach(f) == ~(file[f].age = "live" /\ file[f].head \in {"open", "absent"})

\* Logs that a server decided to retire and that are still to be retired.
Waiting(f) ==
    /\ f \in run.todo /\ run.verdict[f] # "kept"
    /\ f = Current => pc = "decide"

HasALog == pc \in Working \cup {"promote", "upload", "sent"} => run.todo # {}
InPlace == (pc = "promote" => ~remote) /\ (pc \in {"upload", "sent"} => remote)
AsRestored == pc = "restore" =>
    \A f \in File : run.seen[f].head = "headless" => file[f] = run.seen[f]
AsSent == pc = "sent" =>
    \A f \in File : run.seen[f].age # "live" => file[f] = run.seen[f]
RetiresItsOwn == pc \in Retiring => OutOfReach(Current)
Emptied ==
    /\ pc = "rewrite" => file[Current].head = "headless" /\ file[Current].entries = <<>>
    /\ pc = "trim" => file[Current].head = "gone" /\ file[Current].entries = <<>>
TheyWait == remote /\ pc \in Working =>
    \A f \in File : Waiting(f) => file[f].age # "live"

TurnInv == HasALog /\ InPlace /\ AsRestored /\ AsSent /\ RetiresItsOwn /\ Emptied /\ TheyWait

LEMMA CurrentIsALog ==
  ASSUME Shape, run.todo # {}
  PROVE  Current \in run.todo /\ Current \in File
  <1>1. run.todo \in SUBSET Nat
    BY PromotionAssumption DEF Shape, RunShape, File
  <1>2. \E f \in run.todo : \A g \in run.todo : f <= g
    BY <1>1, LeastExists
  <1>3. Current \in run.todo
    BY <1>2 DEF Current
  <1> QED
    BY <1>3 DEF Shape, RunShape

LEMMA TurnBetweenRuns == /\ pc \in {"down", "idle", "save"} => TurnInv
                         /\ pc' \in {"down", "idle", "save"} => TurnInv'
  BY DEF TurnInv, HasALog, InPlace, AsRestored, AsSent, RetiresItsOwn, Emptied, TheyWait, Working, Retiring

\* Only a log that somebody writes changes while a run is under way.
LEMMA OthersAreLeft ==
  ASSUME Shape, Calm, NEW f \in File, NEW n, Write(f, n), ~Resting
  PROVE  /\ ~OutOfReach(f) /\ \A g \in File \ {f} : file'[g] = file[g]
         /\ UNCHANGED <<run, pc, remote>>
  BY DEF Write, Calm, OutOfReach, Shape

\* Where a run goes from one log.
LEMMA NextLogGoes ==
  ASSUME NEW rest, NextLog(rest)
  PROVE  \/ pc' = "idle" /\ run' = NoRun
         \/ pc' = "save"
         \/ /\ rest # {} /\ run' = [run EXCEPT !.todo = rest]
            /\ pc' = IF remote THEN "decide" ELSE "promote"
  BY DEF NextLog

LEMMA TurnPassesOn ==
  ASSUME Shape, TurnInv, pc \in Working, NextLog(run.todo \ {Current}), remote' = remote,
         \A f \in File : f # Current => file'[f] = file[f]
  PROVE  TurnInv'
  <1>1. CASE pc' \in {"idle", "save"}
    BY <1>1, TurnBetweenRuns
  <1>2. CASE /\ run.todo \ {Current} # {} /\ run' = [run EXCEPT !.todo = run.todo \ {Current}]
             /\ pc' = IF remote THEN "decide" ELSE "promote"
    <2>1. run'.todo = run.todo \ {Current} /\ run'.verdict = run.verdict
      BY <1>2 DEF Shape, RunShape
    <2>2. HasALog' /\ InPlace' /\ AsRestored' /\ AsSent' /\ RetiresItsOwn' /\ Emptied'
      BY <1>2, <2>1 DEF Shape, HasALog, InPlace, AsRestored, AsSent, RetiresItsOwn, Emptied, Retiring
    <2>3. ASSUME remote, NEW f \in File, Waiting(f)' PROVE file'[f].age # "live"
      <3>1. f # Current /\ Waiting(f)
        BY <2>1, <2>3 DEF Waiting
      <3> QED
        BY <2>3, <3>1 DEF TurnInv, TheyWait
    <2> QED
      BY <2>2, <2>3 DEF TurnInv, TheyWait
  <1> QED
    BY <1>1, <1>2, NextLogGoes

LEMMA TurnInSessions ==
  ASSUME Shape, Calm, TurnInv, Session PROVE TurnInv'
  <1>1. CASE Resting /\ pc' = pc
    BY <1>1, TurnBetweenRuns DEF Resting
  <1>2. ASSUME NEW f \in File, NEW n, Write(f, n), ~Resting PROVE TurnInv'
    <2>1. /\ UNCHANGED <<run, pc, remote>> /\ UNCHANGED Current
          /\ \A g \in File : OutOfReach(g) => file'[g] = file[g]
      BY <1>2, OthersAreLeft DEF Current
    <2>2. HasALog' /\ InPlace' /\ RetiresItsOwn' /\ Emptied'
      BY <2>1, CurrentIsALog DEF TurnInv, HasALog, InPlace, RetiresItsOwn, Emptied, OutOfReach, Retiring, Working
    <2>3. AsRestored' /\ AsSent'
      BY <2>1 DEF TurnInv, AsRestored, AsSent, OutOfReach
    <2>4. TheyWait'
      BY <2>1 DEF TurnInv, TheyWait, Waiting, OutOfReach
    <2> QED
      BY <2>2, <2>3, <2>4 DEF TurnInv
  <1>3. ASSUME NEW f \in File, Rest(f) PROVE TurnInv'
    BY <1>1, <1>3 DEF Rest
  <1>4. ASSUME NEW n, Store(n) PROVE TurnInv'
    BY <1>1, <1>4 DEF Store, Resting
  <1>5. ASSUME NEW f \in File, NEW n, Write(f, n) PROVE TurnInv'
    BY <1>1, <1>2, <1>5 DEF Write
  <1> QED
    BY <1>3, <1>4, <1>5 DEF Session

LEMMA TurnOfProcess ==
  ASSUME Shape, TurnInv, Process \/ Fault PROVE TurnInv'
  <1>1. CASE Start \/ Distill
    <2>1. pc' = "restore" /\ run'.seen = file /\ file' = file
      BY <1>1 DEF Start, Distill, List, NoRun
    <2> QED
      BY <2>1 DEF TurnInv, HasALog, InPlace, AsRestored, AsSent, RetiresItsOwn, Emptied, TheyWait, Working, Retiring
  <1>2. CASE Exit \/ Fault
    BY <1>2, TurnBetweenRuns DEF Exit, Fault, Unreached, Raise, Crash
  <1> QED
    BY <1>1, <1>2 DEF Process

LEMMA TurnInPromoting ==
  ASSUME Shape, TurnInv, Promoting PROVE TurnInv'
  <1>1. CASE Restore
    <2>1. CASE NextLog(run.todo) /\ ~(remote /\ run.todo # {})
      <3>1. \/ pc' \in {"idle", "save"}
            \/ pc' = "promote" /\ run'.todo # {} /\ ~remote'
        BY <1>1, <2>1, NextLogGoes DEF Restore, Shape, RunShape
      <3> QED
        BY <3>1, TurnBetweenRuns DEF TurnInv, HasALog, InPlace, AsRestored, AsSent, RetiresItsOwn,
           Emptied, TheyWait, Working, Retiring
    <2>2. CASE remote' /\ run.todo # {} /\ pc' = "upload" /\ run' = run
      BY <2>2 DEF TurnInv, HasALog, InPlace, AsRestored, AsSent, RetiresItsOwn,
         Emptied, TheyWait, Working, Retiring
    <2> QED
      BY <1>1, <2>1, <2>2 DEF Restore
  <1>2. CASE Promote
    <2>1. pc' = "decide" /\ run'.todo = run.todo /\ run.todo # {} /\ run'.verdict = run.verdict
      BY <1>2 DEF Promote, TurnInv, HasALog, Shape, RunShape
    <2> QED
      BY <1>2, <2>1 DEF TurnInv, HasALog, InPlace, AsRestored, AsSent, RetiresItsOwn,
         Emptied, TheyWait, Working, Retiring, Promote
  <1>3. CASE Upload
    <2>1. /\ pc' = "sent" /\ remote' /\ run'.todo = run.todo /\ run.todo # {}
          /\ run'.seen = file /\ file' = file
      BY <1>3 DEF Upload, TurnInv, HasALog, InPlace, Shape, RunShape
    <2> QED
      BY <2>1 DEF TurnInv, HasALog, InPlace, AsRestored, AsSent, RetiresItsOwn,
         Emptied, TheyWait, Working, Retiring
  <1>4. CASE Serve
    <2>1. PICK took : Served(took)
      BY <1>4, ServeServes
    <2>2. CASE pc' = "idle"
      BY <2>2, TurnBetweenRuns
    <2>3. CASE /\ pc' = "decide" /\ run'.todo = run.todo
               /\ \A f \in File : run'.verdict[f] = Verdict(run.seen[f], run'.left[f])
      <3>1. ASSUME NEW f \in File, run'.verdict[f] # "kept" PROVE file'[f].age # "live"
        <4>1. run.seen[f].age # "live"
          BY <2>3, <3>1 DEF Verdict
        <4> QED
          BY <1>4, <4>1 DEF Serve, TurnInv, AsSent
      <3> QED
        BY <1>4, <2>3, <3>1 DEF Serve, TurnInv, HasALog, InPlace, AsRestored, AsSent, RetiresItsOwn,
           Emptied, TheyWait, Waiting, Working, Retiring
    <2> QED
      BY <2>1, <2>2, <2>3, ServedGoes
  <1> QED
    BY <1>1, <1>2, <1>3, <1>4 DEF Promoting

LEMMA TurnInDisposal ==
  ASSUME Shape, Calm, TurnInv, Disposal PROVE TurnInv'
  <1>1. CASE Decide
    <2>1. Current \in run.todo /\ Current \in File
      BY <1>1, CurrentIsALog DEF Decide, TurnInv, HasALog, Working
    <2>2. CASE NextLog(run.todo \ {Current})
      BY <1>1, <2>2, TurnPassesOn DEF Decide, Working
    <2>3. CASE /\ pc' \in {"mark", "archive"} /\ run' = run
               /\ file[Current].age # "live"
      <3>1. Current' = Current
        BY <2>3 DEF Current
      <3>2. RetiresItsOwn'
        BY <1>1, <2>3, <3>1 DEF Decide, RetiresItsOwn, OutOfReach
      <3>3. TheyWait'
        BY <1>1, <2>3, <3>1 DEF Decide, TurnInv, TheyWait, Waiting, Working
      <3> QED
        BY <1>1, <2>3, <3>2, <3>3 DEF Decide, TurnInv, HasALog, InPlace, AsRestored, AsSent,
           Emptied, Working, Retiring
    <2>4. ASSUME ~NextLog(run.todo \ {Current})
          PROVE  pc' \in {"mark", "archive"} /\ run' = run /\ file[Current].age # "live"
      <3>1. CASE remote
        <4>1. pc' \in {"mark", "archive"} /\ run' = run /\ run.verdict[Current] # "kept"
          BY <1>1, <2>4, <3>1 DEF Decide
        <4> QED
          BY <1>1, <2>1, <3>1, <4>1 DEF Decide, TurnInv, TheyWait, Waiting, Working
      <3>2. CASE ~remote
        BY <1>1, <2>4, <3>2 DEF Decide, Verdict
      <3> QED
        BY <3>1, <3>2
    <2> QED
      BY <2>2, <2>3, <2>4
  <1>2. CASE Mark \/ EmptyLog \/ Rewrite \/ (Archive /\ pc' = "trim")
    <2>1. Current \in run.todo /\ Current \in File
      BY <1>2, CurrentIsALog DEF Mark, EmptyLog, Rewrite, Archive, TurnInv, HasALog, Working, Retiring
    <2>2. run'.todo = run.todo /\ run'.verdict = run.verdict /\ Current' = Current /\ remote' = remote
      BY <1>2 DEF Mark, EmptyLog, Rewrite, Archive, Current, Shape, RunShape, NextLog
    <2>3. HasALog' /\ InPlace' /\ AsRestored' /\ AsSent'
      BY <1>2, <2>1, <2>2 DEF Mark, EmptyLog, Rewrite, Archive, HasALog, InPlace, AsRestored, AsSent
    <2>4. RetiresItsOwn' /\ Emptied'
      BY <1>2, <2>1, <2>2 DEF Mark, EmptyLog, Rewrite, Archive, TurnInv, RetiresItsOwn, Emptied,
         OutOfReach, Retiring, Shape, NoLog
    <2>5. TheyWait'
      BY <1>2, <2>1, <2>2 DEF Mark, EmptyLog, Rewrite, Archive, TurnInv, TheyWait, Waiting,
         Working, Retiring, Shape
    <2> QED
      BY <2>3, <2>4, <2>5 DEF TurnInv
  <1>3. CASE (Archive \/ Trim) /\ NextLog(run.todo \ {Current})
    <2>1. \A f \in File : f # Current => file'[f] = file[f]
      BY <1>3 DEF Archive, Trim, Shape
    <2> QED
      BY <1>3, <2>1, TurnPassesOn DEF Archive, Trim, Working, Retiring
  <1>4. CASE Save
    BY <1>4, TurnBetweenRuns DEF Save
  <1>5. Archive => (pc' = "trim" \/ NextLog(run.todo \ {Current}))
    BY DEF Archive
  <1>6. Trim => NextLog(run.todo \ {Current})
    BY DEF Trim
  <1> QED
    BY <1>1, <1>2, <1>3, <1>4, <1>5, <1>6 DEF Disposal

LEMMA TurnKept ==
  ASSUME Shape, Calm => TurnInv, [Next]_vars PROVE Calm' => TurnInv'
  <1>1. Calm' = Calm
    BY DEF Calm, vars, Next, Session, Rest, Write, Store, Process, Start, Distill, List, Exit,
       Promoting, Restore, Promote, Upload, Serve, Disposal, Decide, Mark, EmptyLog, Rewrite,
       Archive, Trim, Save, Fault, Unreached, Raise, Crash
  <1>2. ASSUME Calm, UNCHANGED vars PROVE TurnInv'
    BY <1>2 DEF vars, TurnInv, HasALog, InPlace, AsRestored, AsSent, RetiresItsOwn, Emptied,
       TheyWait, Waiting, OutOfReach, Current
  <1> QED
    BY <1>1, <1>2, TurnInSessions, TurnOfProcess, TurnInPromoting, TurnInDisposal DEF Next

-----------------------------------------------------------------------------
(* Logs that are being written *)

Grown(f) == file[f].head = "open" /\ file[f].age = "live"
            => IsPrefix(file[f].entries, file'[f].entries)

LEMMA SameIsGrown ==
  ASSUME Shape, NEW f \in File, file'[f].entries = file[f].entries PROVE Grown(f)
  BY PrefixOfItself DEF Grown, Shape, IsLog

LEMMA LogsGrow ==
  ASSUME Shape, TurnInv, Next, NEW f \in File PROVE Grown(f)
  <1>1. CASE Session
    <2>1. ASSUME NEW g \in File, NEW n, Write(g, n) PROVE Grown(f)
      <3>1. CASE f = g
        BY <2>1, <3>1, AppendSays DEF Write, Appended, Shape, IsLog, Grown
      <3>2. CASE f # g
        BY <2>1, <3>2, SameIsGrown DEF Write, Shape
      <3> QED
        BY <3>1, <3>2
    <2>2. ASSUME NEW g \in File, Rest(g) PROVE Grown(f)
      BY <2>2, SameIsGrown DEF Rest, Shape, IsLog
    <2>3. ASSUME NEW n, Store(n) PROVE Grown(f)
      BY <2>3, SameIsGrown DEF Store
    <2> QED
      BY <1>1, <2>1, <2>2, <2>3 DEF Session
  <1>2. CASE Restore
    <2>1. CASE run.seen[f].head = "headless"
      BY <1>2, <2>1 DEF Restore, TurnInv, AsRestored, Grown
    <2>2. CASE run.seen[f].head # "headless"
      BY <1>2, <2>2, SameIsGrown DEF Restore
    <2> QED
      BY <2>1, <2>2
  <1>3. CASE EmptyLog \/ Rewrite \/ Archive \/ Trim
    <2>1. CASE f = Current
      BY <1>3, <2>1 DEF EmptyLog, Rewrite, Archive, Trim, TurnInv, RetiresItsOwn, Retiring,
         OutOfReach, Grown
    <2>2. CASE f # Current
      BY <1>3, <2>2, SameIsGrown DEF EmptyLog, Rewrite, Archive, Trim, Shape
    <2> QED
      BY <2>1, <2>2
  <1>4. CASE Process \/ Promote \/ Upload \/ Serve \/ Decide \/ Mark \/ Save \/ Fault
    <2>1. file' = file
      BY <1>4 DEF Process, Start, Distill, List, Exit, Promote, Upload, Serve, Decide, Mark, Save,
         Fault, Unreached, Raise, Crash
    <2> QED
      BY <2>1, SameIsGrown
  <1> QED
    BY <1>1, <1>2, <1>3, <1>4 DEF Next, Promoting, Disposal

LEMMA Shapes == Spec => []Shape
  BY ShapeAtFirst, ShapeKept, PTL DEF Spec

LEMMA Turns == Spec => [](Calm => TurnInv)
  <1>1. Init => (Calm => TurnInv)
    BY TurnBetweenRuns DEF Init
  <1>2. Shape /\ (Calm => TurnInv) /\ [Next]_vars => (Calm => TurnInv)'
    BY TurnKept
  <1> QED
    BY <1>1, <1>2, Shapes, PTL DEF Spec

\* A log a session is writing only gets longer, whatever fails, is killed or is stated
\* again, as long as logs that rested are not written while a distill runs (LIVE_SECONDS).
THEOREM LiveLogsOnlyGrowHolds ==
  ASSUME \A t \in TroubleSets : "race" \notin t
  PROVE  Spec => LiveLogsOnlyGrow
  <1>1. Init => Calm
    BY DEF Init, Calm
  <1>2. Calm /\ [Next]_vars => Calm'
    BY DEF Calm, vars, Next, Session, Rest, Write, Store, Process, Start, Distill, List, Exit,
       Promoting, Restore, Promote, Upload, Serve, Disposal, Decide, Mark, EmptyLog, Rewrite,
       Archive, Trim, Save, Fault, Unreached, Raise, Crash
  <1>3. Shape /\ TurnInv /\ [Next]_vars => [\A f \in File :
            file[f].head = "open" /\ file[f].age = "live"
            => IsPrefix(file[f].entries, file'[f].entries)]_vars
    BY LogsGrow DEF Grown
  <1> QED
    BY <1>1, <1>2, <1>3, Shapes, Turns, PTL DEF Spec, LiveLogsOnlyGrow

-----------------------------------------------------------------------------
(* What is owed to the sessions, in an undisturbed run: notes, and facts the graph *)
(* did not take.                                                                   *)

Owed(e) ==
    \/ e.name \in Note
    \/ "restated" \notin troubles /\ e.name \in Fact /\ e \notin graph.taken

\* What leaves the log with it is not owed, or is left for the residue.
IsLeft(entries, f) == \A e \in entries : Owed(e) => e \in Range(run.left[f])

InHand == IF pc = "rewrite" THEN Range(run.seen[Current].entries) ELSE {}

OnDisk == said \subseteq archive \cup InHand \cup UNION {Entries(f) : f \in File}
StillPending == \A e \in said :
    Owed(e) => e \in Pending \/ (pc = "trim" /\ e \in Range(run.left[Current]))
AsSaved == pc = "down" /\ ~remote => disk.taken = graph.taken
OnlyCurrentIsDistilled == \A f \in File :
    file[f].head = "distilled" => pc = "archive" /\ f = Current
StatedOnce == "restated" \notin troubles => \A f \in File :
    OneEach(file[f].entries) /\ OneEach(run.seen[f].entries) /\ OneEach(run.left[f])

\* Of the log that is being retired.
MarkedAsRead == pc = "empty" => run.seen[Current].entries = file[Current].entries
CurrentIsLeft ==
    /\ pc \in {"mark", "empty", "archive"} => IsLeft(Entries(Current), Current)
    /\ pc = "rewrite" => IsLeft(Range(run.seen[Current].entries), Current)
    /\ pc = "decide" /\ ~remote /\ file[Current].age # "live" => IsLeft(Entries(Current), Current)
NothingToLeave == pc \in {"mark", "empty", "rewrite"} => run.left[Current] = <<>>
TheyAreLeft == remote /\ pc \in Working => \A f \in File : Waiting(f) =>
    IsLeft(Entries(f), f) /\ (run.verdict[f] = "archived" => run.left[f] = <<>>)

SavedInv ==
    /\ OnDisk /\ StillPending /\ AsSaved /\ OnlyCurrentIsDistilled /\ StatedOnce
    /\ MarkedAsRead /\ CurrentIsLeft /\ NothingToLeave /\ TheyAreLeft

LEMMA SavedAtFirst == Init => SavedInv
  BY EmptyIsSeq DEF Init, SavedInv, OnDisk, StillPending, AsSaved, OnlyCurrentIsDistilled, StatedOnce,
     MarkedAsRead, CurrentIsLeft, NothingToLeave, TheyAreLeft, Working, Retiring, OneEach, NoLog, NoRun

\* Between runs only the first five say something.
LEMMA SavedBetweenRuns ==
  ASSUME pc' \in {"down", "idle", "save", "restore", "promote", "upload", "sent"},
         OnDisk', StillPending', AsSaved', OnlyCurrentIsDistilled', StatedOnce'
  PROVE  SavedInv'
  BY DEF SavedInv, MarkedAsRead, CurrentIsLeft, NothingToLeave, TheyAreLeft, Working, Retiring

LEMMA NoRunStatedOnce == \A f \in File : OneEach(NoRun.seen[f].entries) /\ OneEach(NoRun.left[f])
  BY EmptyIsSeq DEF OneEach, NoRun, NoLog

LEMMA AppendedStatesOnce ==
  ASSUME NEW s, IsSeq(s), OneEach(s), NEW e, Named(e.name, Range(s)) = {}
  PROVE  OneEach(Append(s, e))
  BY AppendSays DEF OneEach, Named

LEMMA SavedInWrite ==
  ASSUME Shape, Undisturbed, TurnInv, SavedInv, NEW f \in File, NEW n \in Fact \cup Note, Write(f, n)
  PROVE  SavedInv'
  <1> DEFINE e == [name |-> n, at |-> now + 1]
  <1>1. /\ UNCHANGED <<archive, graph, disk, pc, run, remote, troubles>> /\ UNCHANGED Current
        /\ said' = said \cup {e} /\ e.name = n
        /\ \A g \in File \ {f} : file'[g] = file[g]
        /\ file'[f] = Appended(file[f], e)
    BY DEF Write, Current, Shape
  <1>2. /\ file'[f].entries = Append(file[f].entries, e)
        /\ Range(file'[f].entries) = Entries(f) \cup {e}
    BY <1>1, AppendSays DEF Appended, Shape, IsLog, Entries
  <1>3. ~Resting => ~OutOfReach(f)
    BY DEF Write, Undisturbed, OutOfReach
  <1>4. file[f].head # "distilled" /\ file'[f].head \in {"open", "headless"}
    BY <1>1, <1>3 DEF SavedInv, OnlyCurrentIsDistilled, Resting, OutOfReach, Appended, Shape, IsLog
  <1>5. \A x : Owed(x)' = Owed(x)
    BY <1>1 DEF Owed
  <1>6. Pending' = Pending \cup Entries(f) \cup {e}
    <2>1. \A g \in File \ {f} : Entries(g)' = Entries(g)
      BY <1>1 DEF Entries
    <2>2. Entries(f)' = Entries(f) \cup {e}
      BY <1>2 DEF Entries
    <2>3. Pending' = UNION {Entries(g)' : g \in {h \in File : file'[h].head \in {"open", "headless"}}}
      BY DEF Pending
    <2>4. \A x : x \in Pending' <=> x \in Pending \cup Entries(f) \cup {e}
      BY <1>1, <1>4, <2>1, <2>2, <2>3 DEF Pending
    <2> QED
      BY <2>4
  <1>7. OnDisk'
    <2>1. \A g \in File : Entries(g) \subseteq Entries(g)'
      BY <1>1, <1>2 DEF Entries
    <2>2. InHand' = InHand
      BY <1>1 DEF InHand
    <2>3. e \in Entries(f)'
      BY <1>2 DEF Entries
    <2> QED
      BY <1>1, <2>1, <2>2, <2>3 DEF SavedInv, OnDisk
  <1>8. StillPending' /\ AsSaved' /\ OnlyCurrentIsDistilled'
    BY <1>1, <1>4, <1>5, <1>6 DEF SavedInv, StillPending, AsSaved, OnlyCurrentIsDistilled
  <1>9. StatedOnce'
    <2>1. ASSUME "restated" \notin troubles PROVE OneEach(file'[f].entries)
      <3>1. Named(e.name, Range(file[f].entries)) = {}
        BY <1>1, <2>1 DEF Write, Entries
      <3> QED
        BY <1>2, <2>1, <3>1, AppendedStatesOnce DEF SavedInv, StatedOnce, Shape, IsLog
    <2> QED
      BY <1>1, <2>1 DEF SavedInv, StatedOnce
  <1>10. CASE Resting
    BY <1>1, <1>7, <1>8, <1>9, <1>10, SavedBetweenRuns DEF Resting
  <1>11. CASE ~Resting
    <2>1. \A g \in File : (OutOfReach(g) \/ file[g].age # "live") =>
            file'[g] = file[g] /\ Entries(g)' = Entries(g)
      BY <1>1, <1>3, <1>11 DEF OutOfReach, Entries
    <2>2. \A entries, g : IsLeft(entries, g)' = IsLeft(entries, g)
      BY <1>1, <1>5 DEF IsLeft
    <2>3. file'[f].age = "live"
      BY <1>1 DEF Appended
    <2>4. pc \in Working => Current \in File
      BY CurrentIsALog DEF TurnInv, HasALog
    <2>5. MarkedAsRead' /\ NothingToLeave'
      BY <1>1, <2>1, <2>4 DEF SavedInv, MarkedAsRead, NothingToLeave, TurnInv, RetiresItsOwn,
         Working, Retiring
    <2>6. CurrentIsLeft'
      BY <1>1, <2>1, <2>2, <2>3, <2>4 DEF SavedInv, CurrentIsLeft, TurnInv, RetiresItsOwn,
         Working, Retiring
    <2>7. TheyAreLeft'
      BY <1>1, <2>1, <2>2, <2>4 DEF SavedInv, TheyAreLeft, TurnInv, TheyWait, Waiting
    <2> QED
      BY <1>7, <1>8, <1>9, <2>5, <2>6, <2>7 DEF SavedInv
  <1> QED
    BY <1>10, <1>11

\* What the graph took is owed no longer.
LEMMA OwedLess ==
  ASSUME UNCHANGED troubles, graph.taken \subseteq graph'.taken, NEW e, Owed(e)'
  PROVE  Owed(e)
  BY DEF Owed

\* A step that leaves the logs alone, before one of them is being retired.
LEMMA LogsAsTheyAre ==
  ASSUME SavedInv, UNCHANGED <<file, archive, said, troubles>>, graph.taken \subseteq graph'.taken,
         pc \notin Retiring
  PROVE  OnDisk' /\ StillPending' /\ OnlyCurrentIsDistilled'
  <1>1. \A f \in File : Entries(f)' = Entries(f)
    BY DEF Entries
  <1>2. Pending' = Pending
    BY <1>1 DEF Pending
  <1>3. OnDisk'
    BY <1>1 DEF SavedInv, OnDisk, InHand, Retiring
  <1>4. StillPending'
    BY <1>2, OwedLess DEF SavedInv, StillPending, Retiring
  <1>5. OnlyCurrentIsDistilled'
    BY DEF SavedInv, OnlyCurrentIsDistilled, Retiring
  <1> QED
    BY <1>3, <1>4, <1>5

LEMMA SavedInSessions ==
  ASSUME Shape, Undisturbed, TurnInv, SavedInv, Session PROVE SavedInv'
  <1>1. ASSUME NEW f \in File, Rest(f) PROVE SavedInv'
    <2>1. /\ UNCHANGED <<archive, said, graph, disk, pc, run, remote, troubles>>
          /\ pc \in {"down", "idle"}
          /\ \A g \in File : file'[g].entries = file[g].entries /\ file'[g].head = file[g].head
      BY <1>1 DEF Rest, Resting, Shape, IsLog
    <2>2. \A g \in File : Entries(g)' = Entries(g)
      BY <2>1 DEF Entries
    <2>3. Pending' = Pending
      BY <2>1, <2>2 DEF Pending
    <2>4. OnDisk'
      BY <2>1, <2>2 DEF SavedInv, OnDisk, InHand
    <2>5. StillPending'
      BY <2>1, <2>3 DEF SavedInv, StillPending, Owed
    <2>6. AsSaved' /\ OnlyCurrentIsDistilled' /\ StatedOnce'
      BY <2>1 DEF SavedInv, AsSaved, OnlyCurrentIsDistilled, StatedOnce
    <2> QED
      BY <2>1, <2>4, <2>5, <2>6, SavedBetweenRuns
  <1>2. ASSUME NEW n, Store(n) PROVE SavedInv'
    <2>1. /\ UNCHANGED <<file, archive, said, pc, run, remote, troubles>> /\ pc = "idle"
          /\ graph'.taken = graph.taken
      BY <1>2 DEF Store, Shape, IsGraph
    <2>2. AsSaved' /\ StatedOnce'
      BY <2>1 DEF SavedInv, AsSaved, StatedOnce
    <2> QED
      BY <2>1, <2>2, LogsAsTheyAre, SavedBetweenRuns DEF Retiring
  <1> QED
    BY <1>1, <1>2, SavedInWrite DEF Session

LEMMA SavedOfProcess ==
  ASSUME Shape, Undisturbed, TurnInv, SavedInv, Process \/ Fault PROVE SavedInv'
  <1>1. CASE Start \/ Distill
    <2>1. /\ UNCHANGED <<file, archive, said, remote, troubles>> /\ graph'.taken = graph.taken
          /\ pc' = "restore" /\ pc \in {"down", "idle"} /\ run'.seen = file /\ run'.left = NoRun.left
      BY <1>1 DEF Start, Distill, List, NoRun, SavedInv, AsSaved
    <2>2. AsSaved' /\ StatedOnce'
      BY <2>1, NoRunStatedOnce DEF SavedInv, AsSaved, StatedOnce
    <2> QED
      BY <2>1, <2>2, LogsAsTheyAre, SavedBetweenRuns DEF Retiring
  <1>2. CASE Exit \/ Unreached
    <2>1. /\ UNCHANGED <<file, archive, said, graph, remote, troubles>> /\ run' = NoRun
          /\ pc' \in {"down", "idle"} /\ pc \in {"idle", "sent"}
      BY <1>2 DEF Exit, Unreached
    <2>2. AsSaved'
      BY <1>2 DEF Exit, Unreached, AsSaved
    <2>3. StatedOnce'
      BY <2>1, NoRunStatedOnce DEF SavedInv, StatedOnce
    <2> QED
      BY <2>1, <2>2, <2>3, LogsAsTheyAre, SavedBetweenRuns DEF Retiring
  <1>3. CASE Raise \/ Crash
    BY <1>3 DEF Raise, Crash, Undisturbed
  <1> QED
    BY <1>1, <1>2, <1>3 DEF Process, Fault

\* The residue has what is owed after the rest was taken.
LEMMA OwedIsInTheResidue ==
  ASSUME NEW log, IsSeq(log), "restated" \notin troubles => OneEach(log),
         NEW took, NEW twice, UNCHANGED troubles, took \subseteq graph'.taken,
         NEW e \in Range(log), Owed(e)'
  PROVE  e \in Range(Residue(log, took, twice))
  <1>1. CASE e.name \in Note
    BY <1>1, NotesAreLeft
  <1>2. CASE "restated" \notin troubles /\ e.name \in Fact /\ e \notin took
    <2>1. e \in Facts(log)
      BY <1>2 DEF Facts
    <2> QED
      BY <1>2, <2>1, RefusedFactsAreLeft
  <1> QED
    BY <1>1, <1>2 DEF Owed

LEMMA ResidueStatesOnce ==
  ASSUME NEW log, IsSeq(log), OneEach(log), NEW took, NEW twice
  PROVE  OneEach(Residue(log, took, twice))
  BY ResidueIsOfTheLog DEF OneEach

LEMMA SavedInRestore ==
  ASSUME Shape, Undisturbed, TurnInv, SavedInv, Restore PROVE SavedInv'
  <1>1. ASSUME NEW f \in File
        PROVE  /\ file'[f].entries = file[f].entries
               /\ file'[f].head # "distilled"
               /\ file'[f].head \in {"open", "headless"} <=> file[f].head \in {"open", "headless"}
    <2>1. file[f].head # "distilled"
      BY DEF Restore, SavedInv, OnlyCurrentIsDistilled
    <2>2. CASE run.seen[f].head = "headless"
      BY <2>2 DEF Restore, TurnInv, AsRestored, Shape, IsLog
    <2>3. CASE run.seen[f].head # "headless"
      BY <2>1, <2>3 DEF Restore
    <2> QED
      BY <2>2, <2>3
  <1>2. \A f \in File : Entries(f)' = Entries(f)
    BY <1>1 DEF Entries
  <1>3. Pending' = Pending
    BY <1>1, <1>2 DEF Pending
  <1>4. OnDisk'
    BY <1>2 DEF Restore, NextLog, SavedInv, OnDisk, InHand
  <1>5. StillPending'
    BY <1>3 DEF Restore, SavedInv, StillPending, Owed
  <1>6. pc' \in {"upload", "idle", "save", "promote"}
    BY DEF Restore, NextLog
  <1>7. StatedOnce'
    <2>1. \/ run' = NoRun
          \/ run'.seen = run.seen /\ run'.left = run.left
      BY DEF Restore, NextLog, Shape, RunShape
    <2> QED
      BY <1>1, <2>1, NoRunStatedOnce DEF Restore, SavedInv, StatedOnce
  <1>8. AsSaved' /\ OnlyCurrentIsDistilled'
    BY <1>1, <1>6 DEF AsSaved, OnlyCurrentIsDistilled
  <1> QED
    BY <1>4, <1>5, <1>6, <1>7, <1>8, SavedBetweenRuns

LEMMA SavedInPromote ==
  ASSUME Shape, Undisturbed, TurnInv, SavedInv, Promote PROVE SavedInv'
  <1> DEFINE log == file[Current].entries
  <1>1. PICK took \in SUBSET Facts(log), twice \in SUBSET Fact :
            /\ graph' = Promoted(graph, log, took)
            /\ run' = [run EXCEPT !.left[Current] = Residue(log, took, twice),
                                  !.stored = @ \/ took # {}]
    BY DEF Promote
  <1>2. Current \in File /\ ~remote
    BY CurrentIsALog DEF Promote, TurnInv, HasALog, InPlace
  <1>3. /\ graph'.taken = graph.taken \cup took
        /\ UNCHANGED <<file, archive, said, remote, troubles>> /\ pc = "promote" /\ pc' = "decide"
        /\ run'.seen = run.seen /\ run'.todo = run.todo /\ UNCHANGED Current
        /\ run'.left[Current] = Residue(log, took, twice)
        /\ \A f \in File \ {Current} : run'.left[f] = run.left[f]
    BY <1>1, <1>2 DEF Promoted, Promote, Shape, RunShape, Current
  <1>4. IsSeq(log) /\ ("restated" \notin troubles => OneEach(log))
    BY <1>2 DEF Shape, IsLog, SavedInv, StatedOnce
  <1>5. StatedOnce'
    BY <1>3, <1>4, ResidueStatesOnce DEF SavedInv, StatedOnce
  <1>6. OnDisk' /\ StillPending' /\ OnlyCurrentIsDistilled'
    BY <1>3, LogsAsTheyAre DEF Retiring
  <1>7. CurrentIsLeft'
    <2>1. ASSUME NEW e \in Range(log), Owed(e)' PROVE e \in Range(run'.left[Current])
      BY <1>3, <1>4, <2>1, OwedIsInTheResidue
    <2> QED
      BY <1>3, <2>1 DEF CurrentIsLeft, IsLeft, Entries
  <1> QED
    BY <1>2, <1>3, <1>5, <1>6, <1>7 DEF SavedInv, AsSaved, MarkedAsRead, NothingToLeave, TheyAreLeft

LEMMA SavedInServe ==
  ASSUME Shape, Undisturbed, TurnInv, SavedInv, Serve PROVE SavedInv'
  <1>1. PICK took : Served(took)
    BY ServeServes
  <1>2. graph'.taken = graph.taken \cup took
    BY <1>1 DEF Served, PromotedAll
  <1>3. UNCHANGED <<file, archive, said, remote, troubles>> /\ pc = "sent"
    BY DEF Serve
  <1>4. OnDisk' /\ StillPending' /\ OnlyCurrentIsDistilled'
    BY <1>2, <1>3, LogsAsTheyAre DEF Retiring
  <1>5. CASE pc' = "idle" /\ run' = NoRun
    <2>1. AsSaved' /\ StatedOnce'
      BY <1>3, <1>5, NoRunStatedOnce DEF AsSaved, SavedInv, StatedOnce
    <2> QED
      BY <1>4, <1>5, <2>1, SavedBetweenRuns
  <1>6. CASE /\ pc' = "decide" /\ run'.todo = run.todo /\ run'.seen = run.seen
             /\ \A f \in File :
                 /\ run'.left[f] = Residue(run.seen[f].entries, took, {})
                 /\ run'.verdict[f] = Verdict(run.seen[f], run'.left[f])
    <2>1. ASSUME NEW f \in File
          PROVE  /\ IsSeq(run.seen[f].entries)
                 /\ "restated" \notin troubles => OneEach(run.seen[f].entries)
      BY DEF Shape, RunShape, IsLog, SavedInv, StatedOnce
    <2>2. StatedOnce'
      BY <1>3, <1>6, <2>1, ResidueStatesOnce DEF SavedInv, StatedOnce
    <2>3. ASSUME NEW f \in File, run'.verdict[f] # "kept"
          PROVE  IsLeft(Entries(f), f)' /\ (run'.verdict[f] = "archived" => run'.left[f] = <<>>)
      <3>1. run.seen[f].age # "live" /\ (run'.verdict[f] = "archived" => run'.left[f] = <<>>)
        BY <1>6, <2>3 DEF Verdict
      <3>2. Entries(f)' = Range(run.seen[f].entries)
        BY <1>3, <3>1 DEF TurnInv, AsSent, Entries
      <3>3. ASSUME NEW e \in Range(run.seen[f].entries), Owed(e)' PROVE e \in Range(run'.left[f])
        BY <1>2, <1>3, <1>6, <2>1, <3>3, OwedIsInTheResidue
      <3> QED
        BY <3>1, <3>2, <3>3 DEF IsLeft
    <2>4. TheyAreLeft'
      BY <2>3 DEF TheyAreLeft, Waiting
    <2>5. CurrentIsLeft'
      BY <1>3, <1>6 DEF CurrentIsLeft, TurnInv, InPlace
    <2> QED
      BY <1>3, <1>4, <1>6, <2>2, <2>4, <2>5 DEF SavedInv, AsSaved, MarkedAsRead, NothingToLeave
  <1> QED
    BY <1>1, <1>5, <1>6, ServedGoes

LEMMA SavedInPromoting ==
  ASSUME Shape, Undisturbed, TurnInv, SavedInv, Promoting PROVE SavedInv'
  <1>1. CASE Upload
    <2>1. /\ UNCHANGED <<file, archive, said, graph, remote, troubles>>
          /\ pc = "upload" /\ pc' = "sent" /\ run'.seen = file /\ run'.left = run.left
      BY <1>1 DEF Upload, Shape, RunShape
    <2>2. AsSaved' /\ StatedOnce'
      BY <2>1 DEF AsSaved, SavedInv, StatedOnce
    <2> QED
      BY <2>1, <2>2, LogsAsTheyAre, SavedBetweenRuns DEF Retiring
  <1> QED
    BY <1>1, SavedInRestore, SavedInPromote, SavedInServe DEF Promoting

LEMMA SavedPassesOn ==
  ASSUME Shape, SavedInv, pc \in Working, NextLog(run.todo \ {Current}),
         UNCHANGED <<graph, remote, troubles>>,
         \A f \in File : f # Current => file'[f] = file[f],
         "restated" \notin troubles => \A f \in File : OneEach(file'[f].entries),
         \A f \in File : file'[f].head # "distilled",
         OnDisk', StillPending'
  PROVE  SavedInv'
  <1>1. OnlyCurrentIsDistilled'
    BY DEF OnlyCurrentIsDistilled
  <1>2. \/ pc' = "idle" /\ run' = NoRun
        \/ /\ run'.seen = run.seen /\ run'.left = run.left /\ run'.verdict = run.verdict
           /\ run'.todo = run.todo \ {Current}
           /\ pc' \in {"save", IF remote THEN "decide" ELSE "promote"}
    BY DEF NextLog, Shape, RunShape
  <1>3. StatedOnce'
    BY <1>2, NoRunStatedOnce DEF SavedInv, StatedOnce
  <1>4. AsSaved'
    BY <1>2 DEF AsSaved, Shape
  <1>5. CASE pc' \in {"idle", "save", "promote"}
    BY <1>1, <1>3, <1>4, <1>5, SavedBetweenRuns
  <1>6. CASE pc' = "decide" /\ remote
    <2>1. ASSUME NEW f \in File, Waiting(f)'
          PROVE  IsLeft(Entries(f), f)' /\ (run'.verdict[f] = "archived" => run'.left[f] = <<>>)
      <3>1. f # Current /\ Waiting(f) /\ run'.verdict = run.verdict /\ run'.left = run.left
        BY <1>2, <1>6, <2>1 DEF Waiting
      <3>2. Entries(f)' = Entries(f)
        BY <3>1 DEF Entries
      <3> QED
        BY <1>6, <3>1, <3>2 DEF SavedInv, TheyAreLeft, IsLeft, Owed
    <2>2. TheyAreLeft'
      BY <2>1 DEF TheyAreLeft
    <2> QED
      BY <1>1, <1>3, <1>4, <1>6, <2>2 DEF SavedInv, MarkedAsRead, CurrentIsLeft, NothingToLeave
  <1> QED
    BY <1>2, <1>5, <1>6 DEF Shape

LEMMA SavedInDecide ==
  ASSUME Shape, Undisturbed, TurnInv, SavedInv, Decide PROVE SavedInv'
  <1>1. Current \in run.todo /\ Current \in File
    BY CurrentIsALog DEF Decide, TurnInv, HasALog, Working
  <1>2. UNCHANGED <<file, archive, said, graph, remote, troubles>> /\ pc = "decide"
    BY DEF Decide
  <1>3. OnDisk' /\ StillPending' /\ OnlyCurrentIsDistilled'
    BY <1>2, LogsAsTheyAre DEF Retiring
  <1>4. CASE NextLog(run.todo \ {Current})
    <2>1. \A f \in File : file'[f].head # "distilled"
      BY <1>2 DEF SavedInv, OnlyCurrentIsDistilled
    <2> QED
      BY <1>2, <1>3, <1>4, <2>1, SavedPassesOn DEF Working, SavedInv, StatedOnce
  <1>5. CASE ~NextLog(run.todo \ {Current})
    <2>1. /\ run' = run /\ UNCHANGED Current
          /\ pc' \in {"mark", "archive"}
          /\ IsLeft(Entries(Current), Current)
          /\ pc' = "mark" => run.left[Current] = <<>>
      <3>1. CASE remote
        <4>1. Waiting(Current) /\ (pc' = "mark" => run.verdict[Current] = "archived")
          BY <1>1, <1>2, <1>5, <3>1 DEF Decide, Waiting
        <4> QED
          BY <1>1, <1>2, <1>5, <3>1, <4>1 DEF Decide, SavedInv, TheyAreLeft, Working, Current
      <3>2. CASE ~remote
        <4>1. /\ file[Current].age # "live"
              /\ pc' = "mark" => run.left[Current] = <<>>
          BY <1>5, <3>2 DEF Decide, Verdict
        <4> QED
          BY <1>2, <1>5, <3>2, <4>1 DEF Decide, SavedInv, CurrentIsLeft, Current
      <3> QED
        BY <3>1, <3>2
    <2>2. CurrentIsLeft' /\ NothingToLeave' /\ MarkedAsRead'
      BY <1>2, <2>1 DEF CurrentIsLeft, NothingToLeave, MarkedAsRead, IsLeft, Entries, Owed
    <2>3. TheyAreLeft'
      BY <1>2, <2>1 DEF SavedInv, TheyAreLeft, Waiting, Working, IsLeft, Entries, Owed
    <2>4. AsSaved' /\ StatedOnce'
      BY <1>2, <2>1 DEF SavedInv, AsSaved, StatedOnce
    <2> QED
      BY <1>3, <2>2, <2>3, <2>4 DEF SavedInv
  <1> QED
    BY <1>4, <1>5

\* The steps that empty a log and write it back say the same of those that wait.
LEMMA TheyStayLeft ==
  ASSUME Shape, SavedInv, pc \in Retiring, pc' \in Retiring,
         UNCHANGED <<graph, remote, troubles>>, run'.todo = run.todo, run'.left = run.left,
         run'.verdict = run.verdict,
         \A f \in File : f # Current => file'[f] = file[f]
  PROVE  TheyAreLeft' /\ UNCHANGED Current /\ AsSaved'
         /\ \A entries, f : IsLeft(entries, f)' = IsLeft(entries, f)
  <1>1. UNCHANGED Current
    BY DEF Current
  <1>2. \A entries, f : IsLeft(entries, f)' = IsLeft(entries, f)
    BY DEF IsLeft, Owed
  <1>3. ASSUME remote, NEW f \in File, Waiting(f)'
        PROVE  IsLeft(Entries(f), f)' /\ (run'.verdict[f] = "archived" => run'.left[f] = <<>>)
    <2>1. f # Current /\ Waiting(f)
      BY <1>1, <1>3 DEF Waiting, Retiring
    <2>2. Entries(f)' = Entries(f)
      BY <2>1 DEF Entries
    <2> QED
      BY <1>2, <1>3, <2>1, <2>2 DEF SavedInv, TheyAreLeft, Working
  <1>4. TheyAreLeft'
    BY <1>3 DEF TheyAreLeft
  <1> QED
    BY <1>1, <1>2, <1>4 DEF AsSaved, Retiring

LEMMA SavedInMark ==
  ASSUME Shape, Undisturbed, TurnInv, SavedInv, Mark PROVE SavedInv'
  <1>1. Current \in File
    BY CurrentIsALog DEF Mark, TurnInv, HasALog, Working, Retiring
  <1>2. /\ UNCHANGED <<file, archive, said, graph, disk, remote, troubles>>
        /\ pc = "mark" /\ pc' = "empty"
        /\ run'.todo = run.todo /\ run'.left = run.left /\ run'.verdict = run.verdict
        /\ run'.seen[Current] = file[Current]
        /\ \A f \in File \ {Current} : run'.seen[f] = run.seen[f]
    BY <1>1 DEF Mark, Shape, RunShape
  <1>3. TheyAreLeft' /\ UNCHANGED Current /\ AsSaved'
        /\ \A entries, f : IsLeft(entries, f)' = IsLeft(entries, f)
    BY <1>2, TheyStayLeft DEF Retiring
  <1>4. \A f \in File : Entries(f)' = Entries(f)
    BY <1>2 DEF Entries
  <1>5. OnDisk'
    BY <1>2, <1>4 DEF SavedInv, OnDisk, InHand
  <1>6. StillPending' /\ OnlyCurrentIsDistilled'
    BY <1>2 DEF SavedInv, StillPending, OnlyCurrentIsDistilled, Pending, Entries, Owed
  <1>7. StatedOnce'
    BY <1>1, <1>2 DEF SavedInv, StatedOnce
  <1>8. MarkedAsRead' /\ CurrentIsLeft' /\ NothingToLeave'
    BY <1>1, <1>2, <1>3, <1>4 DEF SavedInv, MarkedAsRead, CurrentIsLeft, NothingToLeave
  <1> QED
    BY <1>3, <1>5, <1>6, <1>7, <1>8 DEF SavedInv

\* What is taken out of the log for a moment is in hand, and nothing of it is owed.
LEMMA SavedInEmptyLog ==
  ASSUME Shape, Undisturbed, TurnInv, SavedInv, EmptyLog PROVE SavedInv'
  <1>1. Current \in File
    BY CurrentIsALog DEF EmptyLog, TurnInv, HasALog, Working, Retiring
  <1>2. /\ UNCHANGED <<archive, said, graph, disk, run, remote, troubles>>
        /\ pc = "empty" /\ pc' = "rewrite"
        /\ file'[Current].entries = <<>> /\ file'[Current].head = "headless"
        /\ \A f \in File : f # Current => file'[f] = file[f]
    BY <1>1 DEF EmptyLog, Shape
  <1>3. TheyAreLeft' /\ UNCHANGED Current /\ AsSaved'
        /\ \A entries, f : IsLeft(entries, f)' = IsLeft(entries, f)
    BY <1>2, TheyStayLeft DEF Retiring
  <1>4. \A f \in File : f # Current => Entries(f)' = Entries(f)
    BY <1>2 DEF Entries
  <1>5. InHand' = Entries(Current)
    BY <1>2, <1>3 DEF InHand, SavedInv, MarkedAsRead, Entries
  <1>6. OnDisk'
    BY <1>2, <1>4, <1>5 DEF SavedInv, OnDisk, InHand
  <1>7. StillPending'
    <2>1. ASSUME NEW e \in said, Owed(e) PROVE e \in Pending'
      <3>1. e \notin Entries(Current)
        BY <1>2, <2>1, EmptyIsSeq DEF SavedInv, CurrentIsLeft, NothingToLeave, IsLeft
      <3>2. e \in Pending
        BY <1>2, <2>1 DEF SavedInv, StillPending
      <3> QED
        BY <1>2, <1>4, <3>1, <3>2 DEF Pending
    <2> QED
      BY <1>2, <2>1 DEF StillPending, Owed
  <1>8. OnlyCurrentIsDistilled' /\ StatedOnce'
    BY <1>1, <1>2, EmptyIsSeq DEF SavedInv, OnlyCurrentIsDistilled, StatedOnce, OneEach
  <1>9. MarkedAsRead' /\ CurrentIsLeft' /\ NothingToLeave'
    BY <1>2, <1>3 DEF SavedInv, MarkedAsRead, CurrentIsLeft, NothingToLeave, Entries
  <1> QED
    BY <1>3, <1>6, <1>7, <1>8, <1>9 DEF SavedInv

LEMMA SavedInRewrite ==
  ASSUME Shape, Undisturbed, TurnInv, SavedInv, Rewrite PROVE SavedInv'
  <1>1. Current \in File
    BY CurrentIsALog DEF Rewrite, TurnInv, HasALog, Working, Retiring
  <1>2. /\ UNCHANGED <<archive, said, graph, disk, run, remote, troubles>>
        /\ pc = "rewrite" /\ pc' = "archive"
        /\ file'[Current].entries = run.seen[Current].entries /\ file'[Current].head = "distilled"
        /\ \A f \in File : f # Current => file'[f] = file[f]
    BY <1>1 DEF Rewrite, Shape
  <1>3. TheyAreLeft' /\ UNCHANGED Current /\ AsSaved'
        /\ \A entries, f : IsLeft(entries, f)' = IsLeft(entries, f)
    BY <1>2, TheyStayLeft DEF Retiring
  <1>4. \A f \in File : f # Current => Entries(f)' = Entries(f)
    BY <1>2 DEF Entries
  <1>5. /\ Entries(Current) = {}
        /\ \A f \in File : f = Current => Entries(f)' = InHand
    BY <1>2, EmptyIsSeq DEF TurnInv, Emptied, Entries, InHand
  <1>6. OnDisk'
    BY <1>1, <1>2, <1>4, <1>5 DEF SavedInv, OnDisk
  <1>7. StillPending'
    <2>1. ASSUME NEW e \in Pending PROVE e \in Pending'
      BY <1>2, <1>4, <1>5, <2>1 DEF Pending
    <2> QED
      BY <1>2, <2>1 DEF SavedInv, StillPending, Owed
  <1>8. OnlyCurrentIsDistilled' /\ StatedOnce'
    BY <1>1, <1>2, <1>3 DEF SavedInv, OnlyCurrentIsDistilled, StatedOnce
  <1>9. MarkedAsRead' /\ CurrentIsLeft' /\ NothingToLeave'
    BY <1>2, <1>3 DEF SavedInv, MarkedAsRead, CurrentIsLeft, NothingToLeave, Entries
  <1> QED
    BY <1>3, <1>6, <1>7, <1>8, <1>9 DEF SavedInv

LEMMA SavedInArchive ==
  ASSUME Shape, Undisturbed, TurnInv, SavedInv, Archive PROVE SavedInv'
  <1>1. Current \in File
    BY CurrentIsALog DEF Archive, TurnInv, HasALog, Working, Retiring
  <1>2. /\ UNCHANGED <<said, graph, disk, remote, troubles>> /\ pc = "archive"
        /\ archive' = archive \cup Entries(Current)
        /\ file'[Current].entries = <<>> /\ file'[Current].head = "gone"
        /\ \A f \in File : f # Current => file'[f] = file[f]
    BY <1>1 DEF Archive, Shape, NoLog
  <1>3. \A f \in File : f # Current => Entries(f)' = Entries(f)
    BY <1>2 DEF Entries
  <1>4. \/ run.left[Current] # <<>> /\ pc' = "trim" /\ run' = run
        \/ run.left[Current] = <<>> /\ NextLog(run.todo \ {Current})
    BY DEF Archive
  <1>5. pc' # "rewrite"
    BY <1>4 DEF NextLog
  <1>6. OnDisk'
    BY <1>2, <1>3, <1>5 DEF SavedInv, OnDisk, InHand
  <1>7. ASSUME NEW e \in said, Owed(e), e \notin Range(run.left[Current]) PROVE e \in Pending'
    <2>1. e \in Pending /\ e \notin Entries(Current)
      BY <1>2, <1>7 DEF SavedInv, StillPending, CurrentIsLeft, IsLeft
    <2> QED
      BY <1>2, <1>3, <2>1 DEF Pending
  <1>8. \A f \in File : file'[f].head # "distilled"
    BY <1>2 DEF SavedInv, OnlyCurrentIsDistilled
  <1>9. "restated" \notin troubles => \A f \in File : OneEach(file'[f].entries)
    BY <1>2, EmptyIsSeq DEF SavedInv, StatedOnce, OneEach
  <1>10. CASE pc' = "trim" /\ run' = run
    <2>1. TheyAreLeft' /\ UNCHANGED Current /\ AsSaved'
      BY <1>2, <1>10, TheyStayLeft DEF Retiring
    <2>2. StillPending'
      BY <1>2, <1>7, <1>10, <2>1 DEF StillPending, Owed
    <2>3. OnlyCurrentIsDistilled' /\ StatedOnce'
      BY <1>2, <1>8, <1>9, <1>10 DEF SavedInv, OnlyCurrentIsDistilled, StatedOnce
    <2> QED
      BY <1>6, <1>10, <2>1, <2>2, <2>3 DEF SavedInv, MarkedAsRead, CurrentIsLeft, NothingToLeave
  <1>11. CASE run.left[Current] = <<>> /\ NextLog(run.todo \ {Current})
    <2>1. StillPending'
      BY <1>2, <1>7, <1>11, EmptyIsSeq DEF StillPending, Owed
    <2> QED
      BY <1>2, <1>6, <1>8, <1>9, <1>11, <2>1, SavedPassesOn DEF Working, Retiring
  <1> QED
    BY <1>4, <1>10, <1>11

LEMMA SavedInTrim ==
  ASSUME Shape, Undisturbed, TurnInv, SavedInv, Trim PROVE SavedInv'
  <1>1. Current \in File
    BY CurrentIsALog DEF Trim, TurnInv, HasALog, Working, Retiring
  <1>2. /\ UNCHANGED <<archive, said, graph, disk, remote, troubles>> /\ pc = "trim"
        /\ file'[Current].entries = run.left[Current] /\ file'[Current].head = "open"
        /\ \A f \in File : f # Current => file'[f] = file[f]
        /\ NextLog(run.todo \ {Current}) /\ pc' \notin {"rewrite", "trim"}
    BY <1>1 DEF Trim, Shape, NextLog
  <1>3. \A f \in File : f # Current => Entries(f)' = Entries(f)
    BY <1>2 DEF Entries
  <1>4. /\ Entries(Current) = {}
        /\ \A f \in File : f = Current => Entries(f)' = Range(run.left[Current])
    BY <1>2, EmptyIsSeq DEF TurnInv, Emptied, Entries
  <1>5. OnDisk'
    BY <1>2, <1>3, <1>4 DEF SavedInv, OnDisk, InHand
  <1>6. StillPending'
    <2>1. ASSUME NEW e \in said, Owed(e) PROVE e \in Pending'
      <3>1. CASE e \in Range(run.left[Current])
        BY <1>1, <1>2, <1>4, <3>1 DEF Pending
      <3>2. CASE e \in Pending
        BY <1>2, <1>3, <1>4, <3>2 DEF Pending
      <3> QED
        BY <2>1, <3>1, <3>2 DEF SavedInv, StillPending
    <2> QED
      BY <1>2, <2>1 DEF StillPending, Owed
  <1>7. \A f \in File : file'[f].head # "distilled"
    BY <1>2 DEF SavedInv, OnlyCurrentIsDistilled
  <1>8. "restated" \notin troubles => \A f \in File : OneEach(file'[f].entries)
    BY <1>1, <1>2 DEF SavedInv, StatedOnce
  <1> QED
    BY <1>2, <1>5, <1>6, <1>7, <1>8, SavedPassesOn DEF Working, Retiring

LEMMA SavedInDisposal ==
  ASSUME Shape, Undisturbed, TurnInv, SavedInv, Disposal PROVE SavedInv'
  <1>1. CASE Save
    <2>1. /\ UNCHANGED <<file, archive, said, graph, remote, troubles>>
          /\ pc = "save" /\ pc' = "idle" /\ run' = NoRun
      BY <1>1 DEF Save
    <2>2. AsSaved' /\ StatedOnce'
      BY <2>1, NoRunStatedOnce DEF AsSaved, SavedInv, StatedOnce
    <2> QED
      BY <2>1, <2>2, LogsAsTheyAre, SavedBetweenRuns DEF Retiring
  <1> QED
    BY <1>1, SavedInDecide, SavedInMark, SavedInEmptyLog, SavedInRewrite, SavedInArchive, SavedInTrim
    DEF Disposal

LEMMA SavedKept ==
  ASSUME Shape, Undisturbed => TurnInv /\ SavedInv, [Next]_vars
  PROVE  Undisturbed' => SavedInv'
  <1>1. Undisturbed' = Undisturbed
    BY DEF Undisturbed, vars, Next, Session, Rest, Write, Store, Process, Start, Distill, List, Exit,
       Promoting, Restore, Promote, Upload, Serve, Disposal, Decide, Mark, EmptyLog, Rewrite,
       Archive, Trim, Save, Fault, Unreached, Raise, Crash
  <1>2. ASSUME Undisturbed, UNCHANGED vars PROVE SavedInv'
    <2>1. /\ UNCHANGED vars /\ UNCHANGED Current /\ UNCHANGED InHand
          /\ \A f : Entries(f)' = Entries(f) /\ Waiting(f)' = Waiting(f)
          /\ \A entries, f : IsLeft(entries, f)' = IsLeft(entries, f)
          /\ \A e : Owed(e)' = Owed(e)
      BY <1>2 DEF vars, Current, InHand, Entries, Waiting, IsLeft, Owed
    <2>2. UNCHANGED Pending
      BY <2>1 DEF vars, Pending
    <2>3. OnDisk' /\ StillPending' /\ AsSaved' /\ OnlyCurrentIsDistilled' /\ StatedOnce'
      BY <1>2, <2>1, <2>2 DEF vars, SavedInv, OnDisk, StillPending, AsSaved,
         OnlyCurrentIsDistilled, StatedOnce
    <2>4. MarkedAsRead' /\ CurrentIsLeft' /\ NothingToLeave' /\ TheyAreLeft'
      BY <1>2, <2>1 DEF vars, SavedInv, MarkedAsRead, CurrentIsLeft, NothingToLeave, TheyAreLeft
    <2> QED
      BY <2>3, <2>4 DEF SavedInv
  <1> QED
    BY <1>1, <1>2, SavedInSessions, SavedOfProcess, SavedInPromoting, SavedInDisposal DEF Next

LEMMA Saves == Spec => [](Undisturbed => SavedInv)
  <1>1. Init => (Undisturbed => SavedInv)
    BY SavedAtFirst
  <1>2. Undisturbed => Calm
    BY DEF Undisturbed, Calm
  <1>3. /\ Shape /\ (Undisturbed => TurnInv) /\ (Undisturbed => SavedInv) /\ [Next]_vars
        => (Undisturbed => SavedInv)'
    BY SavedKept
  <1> QED
    BY <1>1, <1>2, <1>3, Shapes, Turns, PTL DEF Spec

\* Whatever a session wrote is between runs in an active log or in the archive: distill
\* never deletes (distill.py _archive, _mark_distilled, _split_file).
THEOREM NothingVanishesHolds == Spec => []NothingVanishes
  <1>1. (Undisturbed => SavedInv) => NothingVanishes
    BY DEF NothingVanishes, SavedInv, OnDisk, InHand, Resting
  <1> QED
    BY <1>1, Saves, PTL

\* Between runs every note is in a log the next run, or the distill skill, will read.
THEOREM NotesStayHolds == Spec => []NotesStay
  <1>1. (Undisturbed => SavedInv) => NotesStay
    BY DEF NotesStay, SavedInv, StillPending, Owed, Resting
  <1> QED
    BY <1>1, Saves, PTL

\* Between runs a fact that no run will read again is in the graph, if the logs state
\* each fact once.
THEOREM RetiredIsStoredHolds == Spec => []RetiredIsStored
  <1>1. (Undisturbed => SavedInv) => RetiredIsStored
    BY DEF RetiredIsStored, RestatedIsStored, SavedInv, StillPending, Owed, Resting
  <1> QED
    BY <1>1, Saves, PTL
=============================================================================
