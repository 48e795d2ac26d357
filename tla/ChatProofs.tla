----------------------------- MODULE ChatProofs -----------------------------
(***************************************************************************)
(* Theorems about Chat for any pages, caps and number of questions: what a *)
(* conversation holds are whole exchanges, the ones its page saw, and the  *)
(* caps hold.  The invariant says why: an object belongs to one name, so   *)
(* unless a connection is lost unnoticed only one turn at a time works on  *)
(* it, whether the table still knows it or not, and what that turn carries *)
(* is what the object holds with one exchange begun.                       *)
(***************************************************************************)
EXTENDS Chat, FiniteSetTheorems, SequenceTheorems, TLAPS

-----------------------------------------------------------------------------
(* The invariant *)

What == {"question", "lookup", "results", "paused", "answer"}
Message == [q : Question, what : What]
Talk == [messages : Seq(Message), count : Nat]
TableEntry == [name : Name, object : Question]
Turn == [q : Question, name : Name, object : Question, round : Nat, heard : BOOLEAN,
         messages : Seq(Message)]

Typed ==
    /\ asked \in Nat /\ asked <= MaxAsks
    /\ chats \in Seq(TableEntry) /\ turns \subseteq Turn
    /\ talk \in [Question -> Talk] /\ done \in [Question -> Seq(Question)]

\* The servers before this one have used their allowance at most, this one its count.
Spent ==
    /\ usage \in Nat /\ called \in Nat /\ lives \in Nat \ {0}
    /\ usage <= DailyLimit /\ called <= DailyLimit * (lives - 1) + usage

\* What earlier servers of the day may have used.
LEMMA AllowanceIsNat ==
    ASSUME NEW n \in Nat \ {0}
    PROVE  DailyLimit * (n - 1) \in Nat
  BY ChatAssumption

\* One server more, one allowance more.
LEMMA Allowances ==
    ASSUME NEW n \in Nat \ {0}
    PROVE  DailyLimit * (n - 1) + DailyLimit = DailyLimit * n
  BY ChatAssumption

\* The first server of a day has none before it.
LEMMA NothingBefore == DailyLimit * (1 - 1) = 0
  BY ChatAssumption

\* A table of as many names as it may hold.
TableInv ==
    /\ Len(chats) <= MaxChats
    /\ \A i, j \in DOMAIN chats : chats[i].name = chats[j].name => i = j

\* Who refers to an object: entries of the table and turns.
Entries(table) == {table[i] : i \in DOMAIN table}
Users == Entries(chats) \cup turns

\* An object has one name, and those to come are nobody's.
OwnObjects ==
    /\ \A x \in Users : x.object <= asked
    /\ \A x, y \in Users : x.object = y.object => x.name = y.name

\* The messages are exchanges; of the last one, the answer to q may be missing.
Sound(m) ==
    \A i \in DOMAIN m :
        /\ m[i].what = "question" <=> i = 1 \/ m[i - 1].what = "answer"
        /\ m[i].what # "question" => m[i].q = m[i - 1].q
        /\ m[i].what = "results" <=> i > 1 /\ m[i - 1].what = "lookup"
Open(m, q) ==
    /\ Sound(m)
    /\ m # <<>> /\ Last(m).what \notin {"answer", "lookup"} /\ Last(m).q = q

Exchanges ==
    /\ \A o \in Question : Whole(talk[o].messages)
    /\ \A t \in turns : Open(t.messages, t.q)

\* Unless a connection is lost unnoticed: a page waits for each turn, and for one at most.
Attended ==
    /\ \A t \in turns : t.heard /\ t.name \in busy
    /\ \A t, u \in turns : t.name = u.name => t = u

Seen(o) == AnswersTo(talk[o].messages, done[o]) /\ talk[o].count = Len(done[o])
InStep ==
    /\ \A o \in Question : Seen(o) /\ talk[o].count <= MaxTurns
    /\ \A t \in turns :
        AnswersTo(t.messages, done[t.object]) /\ talk[t.object].count < MaxTurns

ChatInv ==
    /\ Typed /\ Spent /\ TableInv /\ OwnObjects /\ Exchanges
    /\ ~lossy => Attended /\ InStep

-----------------------------------------------------------------------------
(* Messages *)

\* Appending keeps the exchanges sound when what comes next may come next.
LEMMA AppendSound ==
    ASSUME NEW m \in Seq(Message), Sound(m), NEW x \in Message,
           x.what = "question" <=> m = <<>> \/ Last(m).what = "answer",
           x.what # "question" => x.q = Last(m).q,
           x.what = "results" <=> m # <<>> /\ Last(m).what = "lookup"
    PROVE  /\ Append(m, x) \in Seq(Message) /\ Append(m, x) # <<>>
           /\ Last(Append(m, x)) = x /\ Sound(Append(m, x))
<1> DEFINE n == Append(m, x)
<1>1. /\ n \in Seq(Message) /\ Len(n) = Len(m) + 1 /\ n[Len(m) + 1] = x
      /\ \A i \in 1..Len(m) : n[i] = m[i]
  BY AppendProperties
<1>2. DOMAIN n = 1..(Len(m) + 1) /\ DOMAIN m = 1..Len(m) /\ Len(m) \in Nat
  BY <1>1
<1>3. m = <<>> <=> Len(m) = 0
  OBVIOUS
<1> HIDE DEF n
<1>4. ASSUME NEW i \in 1..Len(m)
      PROVE  /\ n[i].what = "question" <=> i = 1 \/ n[i - 1].what = "answer"
             /\ n[i].what # "question" => n[i].q = n[i - 1].q
             /\ n[i].what = "results" <=> i > 1 /\ n[i - 1].what = "lookup"
  <2>1. i # 1 => n[i - 1] = m[i - 1]
    BY <1>1, <1>2
  <2>2. n[i] = m[i] /\ i \in DOMAIN m
    BY <1>1, <1>2
  <2>3. m[1].what = "question"
    <3>1. 1 \in DOMAIN m
      BY <1>2
    <3> QED  BY <3>1 DEF Sound
  <2> QED  BY <2>1, <2>2, <2>3 DEF Sound
<1>5. ASSUME NEW i, i = Len(m) + 1
      PROVE  /\ n[i].what = "question" <=> i = 1 \/ n[i - 1].what = "answer"
             /\ n[i].what # "question" => n[i].q = n[i - 1].q
             /\ n[i].what = "results" <=> i > 1 /\ n[i - 1].what = "lookup"
  <2>1. m # <<>> => n[i - 1] = Last(m) /\ i > 1
    BY <1>1, <1>2, <1>3, <1>5 DEF Last
  <2>2. m = <<>> => i = 1
    BY <1>3, <1>5
  <2>3. n[i] = x
    BY <1>1, <1>5
  <2> QED  BY <2>1, <2>2, <2>3
<1>6. Sound(n)
  BY <1>2, <1>4, <1>5 DEF Sound
<1>7. n # <<>> /\ Last(n) = x
  BY <1>1, <1>2 DEF Last
<1> QED  BY <1>1, <1>6, <1>7 DEF n

\* The answers of a longer sequence are those of the shorter one, and its last if it is one.
LEMMA AppendedAnswers ==
    ASSUME NEW m \in Seq(Message), NEW x \in Message
    PROVE  /\ Answers(Append(m, x)) =
                  Answers(m) \cup (IF x.what = "answer" THEN {Len(m) + 1} ELSE {})
           /\ Answers(m) \subseteq 1..Len(m) /\ IsFiniteSet(Answers(m))
           /\ \A i \in Answers(m) : Append(m, x)[i] = m[i]
           /\ Append(m, x)[Len(m) + 1] = x
<1>1. /\ Len(Append(m, x)) = Len(m) + 1 /\ Append(m, x)[Len(m) + 1] = x
      /\ \A i \in 1..Len(m) : Append(m, x)[i] = m[i]
      /\ DOMAIN Append(m, x) = 1..(Len(m) + 1) /\ DOMAIN m = 1..Len(m) /\ Len(m) \in Nat
  BY AppendProperties
<1>2. 1..(Len(m) + 1) = (1..Len(m)) \cup {Len(m) + 1}
  BY <1>1
<1>3. Answers(m) \subseteq 1..Len(m)
  BY <1>1 DEF Answers
<1>4. IsFiniteSet(Answers(m))
  <2>1. IsFiniteSet(1..Len(m))
    BY <1>1, FS_Interval
  <2> QED  BY <1>3, <2>1, FS_Subset
<1>5. Answers(Append(m, x)) = Answers(m) \cup (IF x.what = "answer" THEN {Len(m) + 1} ELSE {})
  BY <1>1, <1>2 DEF Answers
<1> QED  BY <1>1, <1>3, <1>4, <1>5

\* What is no answer answers nothing.
LEMMA NoAnswerMore ==
    ASSUME NEW m \in Seq(Message), NEW x \in Message, x.what # "answer", NEW qs, AnswersTo(m, qs)
    PROVE  AnswersTo(Append(m, x), qs)
<1>1. Answers(Append(m, x)) = Answers(m) \cup (IF x.what = "answer" THEN {Len(m) + 1} ELSE {})
  BY AppendedAnswers
<1>2. \A i \in Answers(m) : Append(m, x)[i] = m[i]
  BY AppendedAnswers
<1>3. Answers(Append(m, x)) = Answers(m)
  BY <1>1
<1> QED  BY <1>2, <1>3 DEF AnswersTo

\* An answer is to the last question.
LEMMA AnswerMore ==
    ASSUME NEW m \in Seq(Message), NEW x \in Message, x.what = "answer",
           NEW qs \in Seq(Question), AnswersTo(m, qs)
    PROVE  AnswersTo(Append(m, x), Append(qs, x.q))
<1> DEFINE n == Append(m, x)
           A == Answers(m)
           B == Answers(n)
           k == Len(m) + 1
           Upto(S, i) == Cardinality({j \in S : j <= i})
<1>1. /\ B = A \cup {k} /\ A \subseteq 1..Len(m) /\ IsFiniteSet(A)
      /\ \A i \in A : n[i] = m[i]
      /\ n[k] = x
  BY AppendedAnswers
<1>2. Len(m) \in Nat /\ x.q \in Question
  BY DEF Message
<1>3. k \notin A
  BY <1>1, <1>2
<1> HIDE DEF n, A, B
<1>4. Len(qs) = Cardinality(A) /\ \A i \in A : m[i].q = qs[Upto(A, i)]
  BY DEF AnswersTo, A
<1>5. Cardinality(B) = Cardinality(A) + 1 /\ Cardinality(A) \in Nat
  BY <1>1, <1>3, FS_AddElement, FS_CardinalityType
<1>6. Len(Append(qs, x.q)) = Cardinality(B)
  BY <1>2, <1>4, <1>5, AppendProperties
<1>7. ASSUME NEW i \in A PROVE n[i].q = Append(qs, x.q)[Upto(B, i)]
  <2>1. {j \in B : j <= i} = {j \in A : j <= i}
    BY <1>1, <1>2
  <2>2. Upto(A, i) \in 1..Len(qs)
    <3>1. {j \in A : j <= i} \subseteq A /\ i \in {j \in A : j <= i}
      BY <1>1
    <3>2. Upto(A, i) \in Nat /\ Upto(A, i) <= Cardinality(A)
      BY <1>1, <3>1, FS_Subset, FS_CardinalityType
    <3>3. Upto(A, i) # 0
      BY <1>1, <3>1, FS_Subset, FS_EmptySet
    <3> QED  BY <1>4, <3>2, <3>3
  <2>3. Append(qs, x.q)[Upto(A, i)] = qs[Upto(A, i)]
    BY <1>2, <2>2, AppendProperties
  <2> QED  BY <1>1, <1>4, <2>1, <2>3
<1>8. n[k].q = Append(qs, x.q)[Upto(B, k)]
  <2>1. {j \in B : j <= k} = B
    <3>1. \A j \in B : j <= k
      BY <1>1, <1>2
    <3> QED  BY <3>1
  <2>2. Append(qs, x.q)[Len(qs) + 1] = x.q
    BY <1>2, AppendProperties
  <2> QED  BY <1>1, <1>4, <1>5, <2>1, <2>2
<1>9. \A i \in B : n[i].q = Append(qs, x.q)[Upto(B, i)]
  BY <1>1, <1>7, <1>8
<1> QED  BY <1>6, <1>9 DEF AnswersTo, B, n

\* A message more, and two.
LEMMA SaidAppends ==
    ASSUME NEW m \in Seq(Message), NEW q \in Question, NEW w \in What
    PROVE  /\ [q |-> q, what |-> w] \in Message
           /\ m \o Said(q, w) = Append(m, [q |-> q, what |-> w])
           /\ \A v \in What :
                m \o (Said(q, w) \o Said(q, v))
                    = Append(Append(m, [q |-> q, what |-> w]), [q |-> q, what |-> v])
<1>1. \A v \in What : [q |-> q, what |-> v] \in Message
  BY DEF Message
<1>2. \A n \in Seq(Message), v \in What :
        n \o Said(q, v) = Append(n, [q |-> q, what |-> v]) /\ n \o Said(q, v) \in Seq(Message)
  BY <1>1, AppendIsConcat, AppendProperties DEF Said
<1>3. ASSUME NEW v \in What
      PROVE  m \o (Said(q, w) \o Said(q, v))
               = Append(Append(m, [q |-> q, what |-> w]), [q |-> q, what |-> v])
  <2>1. Said(q, w) \in Seq(Message) /\ Said(q, v) \in Seq(Message)
    BY <1>1 DEF Said
  <2>2. m \o (Said(q, w) \o Said(q, v)) = (m \o Said(q, w)) \o Said(q, v)
    BY <2>1, ConcatAssociative
  <2> QED  BY <1>2, <2>2
<1> QED  BY <1>1, <1>2, <1>3

-----------------------------------------------------------------------------
(* The table *)

Named(table) == \A i, j \in DOMAIN table : table[i].name = table[j].name => i = j

\* A sequence without one of its places keeps the others, in order.
LEMMA Removed ==
    ASSUME NEW S, NEW s \in Seq(S), NEW i \in DOMAIN s
    PROVE  /\ RemoveAt(s, i) \in Seq(S) /\ Len(RemoveAt(s, i)) = Len(s) - 1
           /\ \A l \in DOMAIN RemoveAt(s, i) :
                /\ l < i => RemoveAt(s, i)[l] = s[l] /\ l \in DOMAIN s
                /\ l >= i => RemoveAt(s, i)[l] = s[l + 1] /\ l + 1 \in DOMAIN s
<1> DEFINE a == SubSeq(s, 1, i - 1)
           b == SubSeq(s, i + 1, Len(s))
<1>1. Len(s) \in Nat /\ DOMAIN s = 1..Len(s) /\ i \in 1..Len(s)
  OBVIOUS
<1>2. a \in Seq(S) /\ Len(a) = i - 1 /\ \A l \in 1..(i - 1) : a[l] = s[l]
  BY <1>1
<1>3. /\ b \in Seq(S) /\ Len(b) = Len(s) - i
      /\ \A l \in 1..(Len(s) - i) : b[l] = s[i + l]
  BY <1>1
<1> HIDE DEF a, b
<1> DEFINE c == a \o b
<1>4. /\ c \in Seq(S) /\ Len(c) = Len(s) - 1
      /\ \A l \in 1..(Len(s) - 1) : c[l] = IF l <= i - 1 THEN a[l] ELSE b[l - (i - 1)]
  <2>1. /\ c \in Seq(S) /\ Len(c) = Len(a) + Len(b)
        /\ \A l \in 1..(Len(a) + Len(b)) : c[l] = IF l <= Len(a) THEN a[l] ELSE b[l - Len(a)]
    BY <1>2, <1>3, ConcatProperties
  <2> HIDE DEF c
  <2> QED  BY <1>1, <1>2, <1>3, <2>1
<1> HIDE DEF c
<1>5. DOMAIN c = 1..(Len(s) - 1)
  BY <1>1, <1>4
<1>6. ASSUME NEW l \in 1..(Len(s) - 1)
      PROVE  /\ l < i => c[l] = s[l] /\ l \in DOMAIN s
             /\ l >= i => c[l] = s[l + 1] /\ l + 1 \in DOMAIN s
  <2>1. CASE l < i
    BY <1>1, <1>2, <1>4, <2>1
  <2>2. CASE l >= i
    <3>1. l - (i - 1) \in 1..(Len(s) - i) /\ i + (l - (i - 1)) = l + 1 /\ ~(l <= i - 1)
      BY <1>1, <2>2
    <3>2. c[l] = b[l - (i - 1)] /\ b[l - (i - 1)] = s[i + (l - (i - 1))]
      BY <1>3, <1>4, <3>1
    <3> QED  BY <1>1, <2>2, <3>1, <3>2
  <2> QED  BY <1>1, <2>1, <2>2
<1>7. RemoveAt(s, i) = c
  BY DEF RemoveAt, a, b, c
<1> QED  BY <1>4, <1>5, <1>6, <1>7

\* What expiry and a full table leave is a part of it, with room for a new name.
LEMMA RoomLeft ==
    ASSUME Typed, TableInv, NEW name \in Name, NEW k \in 0..Len(chats)
    PROVE  LET table == Room(Fresh(k), name) IN
           /\ table \in Seq(TableEntry) /\ Entries(table) \subseteq Entries(chats)
           /\ Named(table) /\ Len(table) <= MaxChats
           /\ Places(table, name) = {} => Len(table) < MaxChats
<1> DEFINE f == Fresh(k)
           table == Room(f, name)
<1>0. MaxChats \in Nat \ {0}
  BY ChatAssumption
<1>1. /\ chats \in Seq(TableEntry) /\ Len(chats) \in Nat /\ DOMAIN chats = 1..Len(chats)
      /\ Named(chats) /\ Len(chats) <= MaxChats
  BY DEF Typed, TableInv, Named
<1>2. /\ f \in Seq(TableEntry) /\ Len(f) = Len(chats) - k
      /\ \A i \in 1..Len(f) : f[i] = chats[i + k]
  BY <1>1 DEF Fresh
<1> HIDE DEF f
<1>3. Entries(f) \subseteq Entries(chats) /\ Named(f) /\ Len(f) <= MaxChats
  <2>1. \A i \in DOMAIN f : f[i] = chats[i + k] /\ i + k \in DOMAIN chats
    BY <1>1, <1>2
  <2>2. Named(f)
    <3>1. ASSUME NEW i \in DOMAIN f, NEW j \in DOMAIN f, f[i].name = f[j].name PROVE i = j
      <4>1. i + k = j + k
        BY <1>1, <2>1, <3>1 DEF Named
      <4> QED  BY <1>2, <4>1
    <3> QED  BY <3>1 DEF Named
  <2>3. Entries(f) \subseteq Entries(chats)
    BY <2>1 DEF Entries
  <2>4. Len(f) <= MaxChats
    BY <1>0, <1>1, <1>2
  <2> QED  BY <2>2, <2>3, <2>4
<1>4. CASE Places(f, name) = {} /\ Len(f) >= MaxChats
  <2>1. table = Tail(f) /\ f # <<>>
    BY <1>0, <1>2, <1>4 DEF Room
  <2>2. /\ table \in Seq(TableEntry) /\ Len(table) = Len(f) - 1
        /\ \A i \in DOMAIN table : table[i] = f[i + 1] /\ i + 1 \in DOMAIN f
    BY <1>2, <2>1, HeadTailProperties
  <2>3. Entries(table) \subseteq Entries(f)
    BY <2>2 DEF Entries
  <2>4. Named(table)
    <3>1. ASSUME NEW i \in DOMAIN table, NEW j \in DOMAIN table, table[i].name = table[j].name
          PROVE  i = j
      <4>1. i + 1 = j + 1
        BY <1>3, <2>2, <3>1 DEF Named
      <4> QED  BY <2>2, <4>1
    <3> QED  BY <3>1 DEF Named
  <2>5. Len(table) < MaxChats /\ Len(table) <= MaxChats
    BY <1>0, <1>2, <1>3, <2>2
  <2> QED  BY <1>3, <2>2, <2>3, <2>4, <2>5 DEF f
<1>5. CASE ~(Places(f, name) = {} /\ Len(f) >= MaxChats)
  <2>1. table = f
    BY <1>5 DEF Room
  <2>2. Places(table, name) = {} => Len(table) < MaxChats
    BY <1>0, <1>2, <1>5, <2>1
  <2> QED  BY <1>2, <1>3, <2>1, <2>2 DEF f
<1> QED  BY <1>4, <1>5

\* The entry of a name in a table, or a new one, ends up last.
LEMMA TouchedLast ==
    ASSUME asked \in Nat, asked < MaxAsks, NEW name \in Name, NEW table \in Seq(TableEntry),
           Named(table), Len(table) <= MaxChats, Places(table, name) = {} => Len(table) < MaxChats
    PROVE  /\ Entry(table, name) \in TableEntry /\ Entry(table, name).name = name
           /\ Entry(table, name) \in Entries(table) \/ Entry(table, name).object = asked + 1
           /\ Touched(table, name) \in Seq(TableEntry) /\ Len(Touched(table, name)) <= MaxChats
           /\ Named(Touched(table, name))
           /\ Entries(Touched(table, name)) \subseteq Entries(table) \cup {Entry(table, name)}
<1> DEFINE i == CHOOSE i \in Places(table, name) : TRUE
           e == Entry(table, name)
           rest == IF Places(table, name) = {} THEN table ELSE RemoveAt(table, i)
<1>0. MaxChats \in Nat /\ MaxAsks \in Nat /\ asked + 1 \in Question
  BY ChatAssumption DEF Question
<1>1. Places(table, name) # {} => i \in DOMAIN table /\ table[i].name = name
  BY DEF Places
<1>2. Places(table, name) # {} => e = table[i]
  BY DEF Entry
<1>3. Places(table, name) = {} => e = [name |-> name, object |-> asked + 1]
  BY DEF Entry
<1>4. /\ e \in TableEntry /\ e.name = name
      /\ e \in Entries(table) \/ e.object = asked + 1
  <2>1. CASE Places(table, name) = {}
    BY <1>0, <1>3, <2>1 DEF TableEntry
  <2>2. CASE Places(table, name) # {}
    <3>1. e = table[i] /\ i \in DOMAIN table
      BY <1>1, <1>2, <2>2
    <3>2. table[i] \in TableEntry
      BY <3>1, ElementOfSeq
    <3> QED  BY <1>1, <2>2, <3>1, <3>2 DEF Entries
  <2> QED  BY <2>1, <2>2
<1>5. Touched(table, name) = Append(rest, e)
  BY DEF Touched
<1> HIDE DEF i, e
<1>6. /\ rest \in Seq(TableEntry) /\ Len(rest) < MaxChats
      /\ Named(rest) /\ Entries(rest) \subseteq Entries(table)
      /\ \A l \in DOMAIN rest : rest[l].name # name
  <2>1. CASE Places(table, name) = {}
    BY <2>1 DEF Places
  <2>2. CASE Places(table, name) # {}
    <3>1. /\ rest \in Seq(TableEntry) /\ Len(rest) = Len(table) - 1
          /\ \A l \in DOMAIN rest :
               /\ l < i => rest[l] = table[l] /\ l \in DOMAIN table
               /\ l >= i => rest[l] = table[l + 1] /\ l + 1 \in DOMAIN table
      BY <1>1, <2>2, Removed
    <3>2. i \in Nat /\ DOMAIN rest \subseteq Nat /\ Len(table) \in Nat
      BY <1>1, <2>2, <3>1
    <3> HIDE DEF rest
    <3>3. ASSUME NEW l \in DOMAIN rest
          PROVE  \E j \in DOMAIN table : j = (IF l < i THEN l ELSE l + 1) /\ rest[l] = table[j]
      BY <3>1, <3>2
    <3>4. Entries(rest) \subseteq Entries(table)
      BY <3>3 DEF Entries
    <3>5. \A l \in DOMAIN rest : rest[l].name # name
      <4>1. ASSUME NEW l \in DOMAIN rest, rest[l].name = name PROVE FALSE
        <5>1. PICK j \in DOMAIN table : j = (IF l < i THEN l ELSE l + 1) /\ rest[l] = table[j]
          BY <3>3
        <5>2. j = i
          BY <1>1, <2>2, <4>1, <5>1 DEF Named
        <5> QED  BY <3>2, <5>1, <5>2
      <4> QED  BY <4>1
    <3>6. Named(rest)
      <4>1. ASSUME NEW l \in DOMAIN rest, NEW n \in DOMAIN rest, rest[l].name = rest[n].name
            PROVE  l = n
        <5>1. PICK j \in DOMAIN table : j = (IF l < i THEN l ELSE l + 1) /\ rest[l] = table[j]
          BY <3>3
        <5>2. PICK o \in DOMAIN table : o = (IF n < i THEN n ELSE n + 1) /\ rest[n] = table[o]
          BY <3>3
        <5>3. j = o
          BY <4>1, <5>1, <5>2 DEF Named
        <5> QED  BY <3>2, <5>1, <5>2, <5>3
      <4> QED  BY <4>1 DEF Named
    <3>7. Len(rest) < MaxChats
      BY <1>0, <3>1, <3>2
    <3> QED  BY <3>1, <3>4, <3>5, <3>6, <3>7
  <2> QED  BY <2>1, <2>2
<1> HIDE DEF rest
<1> DEFINE n == Append(rest, e)
<1>7. /\ n \in Seq(TableEntry) /\ Len(n) = Len(rest) + 1 /\ n[Len(rest) + 1] = e
      /\ \A l \in 1..Len(rest) : n[l] = rest[l]
      /\ DOMAIN n = 1..(Len(rest) + 1) /\ DOMAIN rest = 1..Len(rest) /\ Len(rest) \in Nat
  BY <1>4, <1>6, AppendProperties
<1> HIDE DEF n
<1>8. \A l \in DOMAIN n : l = Len(rest) + 1 \/ (l \in DOMAIN rest /\ n[l] = rest[l])
  BY <1>7
<1>9. Entries(n) \subseteq Entries(table) \cup {e}
  BY <1>6, <1>7, <1>8 DEF Entries
<1>10. Named(n)
  BY <1>4, <1>6, <1>7, <1>8 DEF Named
<1>11. Len(n) <= MaxChats
  BY <1>0, <1>6, <1>7
<1> QED  BY <1>4, <1>5, <1>7, <1>9, <1>10, <1>11 DEF e, n

-----------------------------------------------------------------------------
(* Steps *)

\* A question's first message continues whole exchanges.
LEMMA QuestionOpens ==
    ASSUME NEW m \in Seq(Message), Whole(m), NEW q \in Question
    PROVE  /\ m \o Said(q, "question") \in Seq(Message)
           /\ Open(m \o Said(q, "question"), q)
           /\ \A qs : AnswersTo(m, qs) => AnswersTo(m \o Said(q, "question"), qs)
<1> DEFINE x == [q |-> q, what |-> "question"]
<1>1. x \in Message /\ m \o Said(q, "question") = Append(m, x)
  BY SaidAppends DEF What
<1>2. Sound(m)
  BY DEF Whole, Sound
<1>3. m = <<>> \/ Last(m).what = "answer"
  BY DEF Whole
<1>4. /\ Append(m, x) \in Seq(Message) /\ Append(m, x) # <<>>
      /\ Last(Append(m, x)) = x /\ Sound(Append(m, x))
  BY <1>1, <1>2, <1>3, AppendSound
<1>5. \A qs : AnswersTo(m, qs) => AnswersTo(Append(m, x), qs)
  BY <1>1, NoAnswerMore
<1>6. Last(Append(m, x)).what = "question" /\ Last(Append(m, x)).q = q
  BY <1>4
<1>7. Open(Append(m, x), q)
  BY <1>4, <1>6 DEF Open
<1> QED  BY <1>1, <1>4, <1>5, <1>7

\* A lookup and its results, and a pause, go on with an exchange begun.
LEMMA RoundsStayOpen ==
    ASSUME NEW m \in Seq(Message), NEW q \in Question, Open(m, q),
           NEW more \in {Said(q, "lookup") \o Said(q, "results"), Said(q, "paused")}
    PROVE  /\ m \o more \in Seq(Message) /\ Open(m \o more, q)
           /\ \A qs : AnswersTo(m, qs) => AnswersTo(m \o more, qs)
<1> DEFINE x(w) == [q |-> q, what |-> w]
<1>1. /\ Sound(m) /\ m # <<>> /\ Last(m).what \notin {"answer", "lookup"} /\ Last(m).q = q
  BY DEF Open
<1>2. CASE more = Said(q, "paused")
  <2>1. x("paused") \in Message /\ m \o more = Append(m, x("paused"))
    BY <1>2, SaidAppends DEF What
  <2>2. /\ Append(m, x("paused")) \in Seq(Message) /\ Append(m, x("paused")) # <<>>
        /\ Last(Append(m, x("paused"))) = x("paused") /\ Sound(Append(m, x("paused")))
    BY <1>1, <2>1, AppendSound
  <2>3. \A qs : AnswersTo(m, qs) => AnswersTo(Append(m, x("paused")), qs)
    BY <2>1, NoAnswerMore
  <2> QED  BY <2>1, <2>2, <2>3 DEF Open
<1>3. CASE more = Said(q, "lookup") \o Said(q, "results")
  <2> DEFINE n == Append(m, x("lookup"))
  <2>1. /\ x("lookup") \in Message /\ x("results") \in Message
        /\ m \o more = Append(n, x("results"))
    BY <1>3, SaidAppends DEF What
  <2>2. n \in Seq(Message) /\ n # <<>> /\ Last(n) = x("lookup") /\ Sound(n)
    BY <1>1, <2>1, AppendSound
  <2>3. \A qs : AnswersTo(m, qs) => AnswersTo(n, qs)
    BY <2>1, NoAnswerMore
  <2> HIDE DEF n
  <2>4. /\ Append(n, x("results")) \in Seq(Message) /\ Append(n, x("results")) # <<>>
        /\ Last(Append(n, x("results"))) = x("results") /\ Sound(Append(n, x("results")))
    BY <2>1, <2>2, AppendSound
  <2>5. \A qs : AnswersTo(n, qs) => AnswersTo(Append(n, x("results")), qs)
    BY <2>1, <2>2, NoAnswerMore
  <2> QED  BY <2>1, <2>3, <2>4, <2>5 DEF Open
<1> QED  BY <1>2, <1>3

\* An answer makes it whole.
LEMMA AnswerCloses ==
    ASSUME NEW m \in Seq(Message), NEW q \in Question, Open(m, q)
    PROVE  /\ m \o Said(q, "answer") \in Seq(Message)
           /\ Whole(m \o Said(q, "answer"))
           /\ \A qs \in Seq(Question) :
                AnswersTo(m, qs) => AnswersTo(m \o Said(q, "answer"), Append(qs, q))
<1> DEFINE x == [q |-> q, what |-> "answer"]
<1>1. x \in Message /\ m \o Said(q, "answer") = Append(m, x)
  BY SaidAppends DEF What
<1>2. /\ Append(m, x) \in Seq(Message) /\ Last(Append(m, x)) = x /\ Sound(Append(m, x))
  BY <1>1, AppendSound DEF Open
<1>3. \A qs \in Seq(Question) : AnswersTo(m, qs) => AnswersTo(Append(m, x), Append(qs, q))
  BY <1>1, AnswerMore
<1>4. Whole(Append(m, x))
  BY <1>2 DEF Whole, Sound
<1> QED  BY <1>1, <1>2, <1>3, <1>4

\* A question: a turn on the name's object, unless a cap says no.
LEMMA AskKeeps ==
    ASSUME ChatInv, NEW name \in Name, NEW k \in 0..Len(chats), Ask(name, k)
    PROVE  ChatInv'
<1> DEFINE table == Room(Fresh(k), name)
           chat == Entry(table, name)
           o == chat.object
           q == asked + 1
           m == talk[o].messages \o Said(q, "question")
           t == [q |-> q, name |-> name, object |-> o, round |-> 1, heard |-> TRUE,
                 messages |-> m]
           goes == talk[o].count < MaxTurns /\ Spend
<1>0. /\ Typed /\ Spent /\ TableInv /\ OwnObjects /\ Exchanges
      /\ ~lossy => Attended /\ InStep
  BY DEF ChatInv
<1>1. /\ asked \in Nat /\ asked < MaxAsks /\ name \notin busy
      /\ asked' = q /\ chats' = Touched(table, name)
      /\ UNCHANGED <<lossy, talk, lives, done>>
      /\ goes => /\ usage' = usage + 1 /\ called' = called + 1
                 /\ busy' = busy \cup {name} /\ turns' = turns \cup {t}
      /\ ~goes => UNCHANGED <<usage, called, busy, turns>>
  BY <1>0 DEF Ask, Typed
<1>2. q \in Question /\ q <= MaxAsks /\ q \in Nat
  BY <1>1, ChatAssumption DEF Question
<1>3. /\ table \in Seq(TableEntry) /\ Entries(table) \subseteq Entries(chats)
      /\ Named(table) /\ Len(table) <= MaxChats
      /\ Places(table, name) = {} => Len(table) < MaxChats
  BY <1>0, RoomLeft
<1> HIDE DEF table
<1>4. /\ chat \in TableEntry /\ chat.name = name
      /\ chat \in Entries(table) \/ chat.object = q
      /\ chats' \in Seq(TableEntry) /\ Len(chats') <= MaxChats /\ Named(chats')
      /\ Entries(chats') \subseteq Entries(table) \cup {chat}
  BY <1>1, <1>3, TouchedLast
<1> HIDE DEF chat
<1>5. o \in Question /\ talk[o].messages \in Seq(Message) /\ Whole(talk[o].messages)
  BY <1>0, <1>4 DEF TableEntry, Typed, Talk, Exchanges
<1>6. /\ m \in Seq(Message) /\ Open(m, q)
      /\ \A qs : AnswersTo(talk[o].messages, qs) => AnswersTo(m, qs)
  BY <1>2, <1>5, QuestionOpens
<1> HIDE DEF m
<1>7. t \in Turn /\ t.object = o /\ t.name = name /\ t.q = q /\ t.messages = m /\ t.heard
  BY <1>2, <1>5, <1>6 DEF Turn
<1> HIDE DEF t
<1>8. Typed'
  BY <1>0, <1>1, <1>2, <1>4, <1>7 DEF Typed
<1>9. Spent'
  <2>1. CASE goes
    <3>1. usage < DailyLimit /\ usage' = usage + 1 /\ called' = called + 1 /\ lives' = lives
      BY <1>1, <2>1 DEF Spend
    <3>2. DailyLimit * (lives - 1) \in Nat
      BY <1>0, AllowanceIsNat DEF Spent
    <3>3. usage \in Nat /\ called \in Nat /\ lives \in Nat \ {0} /\ DailyLimit \in Nat
      BY <1>0, ChatAssumption DEF Spent
    <3> DEFINE earlier == DailyLimit * (lives - 1)
    <3>4. called <= earlier + usage /\ earlier \in Nat
      BY <1>0, <3>2 DEF Spent
    <3> HIDE DEF earlier
    <3>5. usage + 1 <= DailyLimit /\ called + 1 <= earlier + (usage + 1)
      BY <3>1, <3>3, <3>4
    <3>6. called' <= DailyLimit * (lives' - 1) + usage'
      BY <3>1, <3>5 DEF earlier
    <3> QED  BY <3>1, <3>3, <3>5, <3>6 DEF Spent
  <2>2. CASE ~goes
    BY <1>0, <1>1, <2>2 DEF Spent
  <2> QED  BY <2>1, <2>2
<1>10. TableInv'
  BY <1>4 DEF TableInv, Named
<1>11. OwnObjects'
  <2>1. Users' \subseteq Users \cup {chat, t}
    BY <1>1, <1>3, <1>4 DEF Users, Entries
  <2>2. chat \in Users \/ chat.object = q
    BY <1>3, <1>4 DEF Users
  <2>3. \A x \in Users : x.object \in Nat /\ x.object <= asked
    <3>1. ASSUME NEW x \in Users PROVE x.object \in Question
      <4>1. CASE x \in turns
        BY <1>0, <4>1 DEF Typed, Turn
      <4>2. ASSUME NEW i \in DOMAIN chats, x = chats[i] PROVE x \in TableEntry
        BY <1>0, <4>2, ElementOfSeq DEF Typed
      <4> QED  BY <4>1, <4>2 DEF Users, Entries, TableEntry
    <3> QED  BY <1>0, <3>1 DEF OwnObjects, Question
  <2>4. \A x \in Users \cup {chat, t} : x.object <= q
    BY <1>1, <1>2, <1>7, <2>2, <2>3
  <2>5. ASSUME NEW x \in Users \cup {chat, t}, NEW y \in Users \cup {chat, t},
               x.object = y.object
        PROVE  x.name = y.name
    <3>1. ASSUME NEW z \in Users, z.object = o PROVE z.name = name
      <4>1. chat \in Users
        BY <1>1, <2>2, <2>3, <3>1
      <4> QED  BY <1>0, <1>4, <3>1, <4>1 DEF OwnObjects
    <3> QED  BY <1>0, <1>4, <1>7, <2>5, <3>1 DEF OwnObjects
  <2> QED  BY <1>1, <2>1, <2>4, <2>5 DEF OwnObjects
<1>12. Exchanges'
  BY <1>0, <1>1, <1>6, <1>7 DEF Exchanges
<1>13. ASSUME ~lossy PROVE Attended' /\ InStep'
  <2>1. Attended /\ InStep
    BY <1>0, <1>13
  <2>2. Attended'
    BY <1>1, <1>7, <2>1 DEF Attended
  <2>3. AnswersTo(m, done[o])
    BY <1>5, <1>6, <2>1 DEF InStep, Seen
  <2>4. InStep'
    BY <1>1, <1>7, <2>1, <2>3 DEF InStep, Seen
  <2> QED  BY <2>2, <2>4
<1> QED  BY <1>1, <1>8, <1>9, <1>10, <1>11, <1>12, <1>13 DEF ChatInv

\* A turn whose messages go on with its exchange.
LEMMA RoundKeeps ==
    ASSUME ChatInv, NEW t \in turns, NEW u \in Turn,
           u.q = t.q, u.name = t.name, u.object = t.object, u.heard = t.heard,
           Open(u.messages, t.q), \A qs : AnswersTo(t.messages, qs) => AnswersTo(u.messages, qs),
           turns' = (turns \ {t}) \cup {u},
           UNCHANGED <<lossy, asked, chats, talk, usage, busy, called, lives, done>>
    PROVE  ChatInv'
<1>0. /\ Typed /\ Spent /\ TableInv /\ OwnObjects /\ Exchanges
      /\ ~lossy => Attended /\ InStep
  BY DEF ChatInv
<1>1. Typed'
  BY <1>0 DEF Typed
<1>2. Spent' /\ TableInv'
  BY <1>0 DEF Spent, TableInv
<1>3. OwnObjects'
  <2>1. Users' \subseteq Users \cup {u} /\ t \in Users
    BY DEF Users
  <2> QED  BY <1>0, <2>1 DEF OwnObjects
<1>4. Exchanges'
  BY <1>0 DEF Exchanges
<1>5. ASSUME ~lossy PROVE Attended' /\ InStep'
  <2>1. Attended /\ InStep
    BY <1>0, <1>5
  <2>2. Attended'
    BY <2>1 DEF Attended
  <2>3. InStep'
    BY <2>1 DEF InStep, Seen
  <2> QED  BY <2>2, <2>3
<1> QED  BY <1>1, <1>2, <1>3, <1>4, <1>5 DEF ChatInv

\* A turn that ends without an answer leaves no trace in the conversation.
LEMMA EndKeeps ==
    ASSUME ChatInv, NEW t \in turns, End(t),
           UNCHANGED <<lossy, asked, chats, talk, usage, called, lives, done>>
    PROVE  ChatInv'
<1>0. /\ Typed /\ Spent /\ TableInv /\ OwnObjects /\ Exchanges
      /\ ~lossy => Attended /\ InStep
  BY DEF ChatInv
<1>1. turns' \subseteq turns /\ t \notin turns' /\ busy \ {t.name} \subseteq busy'
  BY DEF End
<1>2. Typed' /\ Spent' /\ TableInv'
  BY <1>0, <1>1 DEF Typed, Spent, TableInv
<1>3. OwnObjects'
  BY <1>0, <1>1 DEF OwnObjects, Users
<1>4. Exchanges'
  BY <1>0, <1>1 DEF Exchanges
<1>5. ASSUME ~lossy PROVE Attended' /\ InStep'
  <2>1. Attended /\ InStep
    BY <1>0, <1>5
  <2>2. \A u \in turns' : u \in turns /\ u.name # t.name
    BY <1>1, <2>1 DEF Attended
  <2>3. Attended'
    BY <1>1, <2>1, <2>2 DEF Attended
  <2>4. InStep'
    BY <1>1, <2>1 DEF InStep, Seen
  <2> QED  BY <2>3, <2>4
<1> QED  BY <1>2, <1>3, <1>4, <1>5 DEF ChatInv

\* An answer puts the turn's whole exchange in the conversation.
LEMMA AnswerKeeps ==
    ASSUME ChatInv, NEW t \in turns, Answer(t)
    PROVE  ChatInv'
<1> DEFINE o == t.object
           m == t.messages \o Said(t.q, "answer")
<1>0. /\ Typed /\ Spent /\ TableInv /\ OwnObjects /\ Exchanges
      /\ ~lossy => Attended /\ InStep
  BY DEF ChatInv
<1>1. /\ t.q \in Question /\ o \in Question /\ t.messages \in Seq(Message) /\ Open(t.messages, t.q)
      /\ talk[o] \in Talk /\ done[o] \in Seq(Question)
  BY <1>0 DEF Typed, Turn, Exchanges
<1>2. /\ m \in Seq(Message) /\ Whole(m)
      /\ \A qs \in Seq(Question) : AnswersTo(t.messages, qs) => AnswersTo(m, Append(qs, t.q))
  BY <1>1, AnswerCloses
<1>3. /\ talk' = [talk EXCEPT ![o] = [messages |-> m, count |-> talk[o].count + 1]]
      /\ done' = IF t.heard THEN [done EXCEPT ![o] = Append(done[o], t.q)] ELSE done
      /\ UNCHANGED <<lossy, asked, chats, usage, called, lives>>
  BY DEF Answer
<1>4. turns' = turns \ {t} /\ busy \ {t.name} \subseteq busy'
  BY DEF Answer, End
<1> HIDE DEF m, o
<1>5. /\ [messages |-> m, count |-> talk[o].count + 1] \in Talk
      /\ Append(done[o], t.q) \in Seq(Question) /\ Len(Append(done[o], t.q)) = Len(done[o]) + 1
  BY <1>1, <1>2, AppendProperties DEF Talk
<1>6. Typed'
  <2>1. talk' \in [Question -> Talk]
    BY <1>0, <1>3, <1>5 DEF Typed
  <2>2. done' \in [Question -> Seq(Question)]
    BY <1>0, <1>3, <1>5 DEF Typed
  <2> QED  BY <1>0, <1>3, <1>4, <2>1, <2>2 DEF Typed
<1>7. Spent' /\ TableInv'
  BY <1>0, <1>3 DEF Spent, TableInv
<1>8. OwnObjects'
  BY <1>0, <1>3, <1>4 DEF OwnObjects, Users
<1>9. \A p \in Question : talk'[p] = IF p = o THEN [messages |-> m, count |-> talk[o].count + 1]
                                    ELSE talk[p]
  BY <1>0, <1>3 DEF Typed
<1>10. Exchanges'
  BY <1>0, <1>2, <1>4, <1>9 DEF Exchanges
<1>11. ASSUME ~lossy PROVE Attended' /\ InStep'
  <2>1. Attended /\ InStep
    BY <1>0, <1>11
  <2>2. \A u \in turns' : u \in turns /\ u.name # t.name /\ u.object # o
    BY <1>0, <1>4, <2>1 DEF Attended, OwnObjects, Users, o
  <2>3. Attended'
    BY <1>4, <2>1, <2>2 DEF Attended
  <2>4. \A p \in Question : done'[p] = IF p = o THEN Append(done[o], t.q) ELSE done[p]
    BY <1>0, <1>3, <2>1 DEF Typed, Attended
  <2>5. /\ AnswersTo(t.messages, done[o]) /\ talk[o].count < MaxTurns
        /\ talk[o].count = Len(done[o]) /\ talk[o].count \in Nat
    BY <1>1, <2>1 DEF InStep, Seen, Talk, o
  <2>6. AnswersTo(m, Append(done[o], t.q))
    BY <1>1, <1>2, <2>5
  <2>7. talk[o].count + 1 <= MaxTurns /\ talk[o].count + 1 = Len(Append(done[o], t.q))
    BY <1>5, <2>5, ChatAssumption
  <2>8. ASSUME NEW p \in Question PROVE Seen(p)' /\ talk'[p].count <= MaxTurns
    <3>1. CASE p = o
      <4>1. talk'[p] = [messages |-> m, count |-> talk[o].count + 1]
        BY <1>9, <3>1
      <4>2. done'[p] = Append(done[o], t.q)
        BY <2>4, <3>1
      <4>3. talk'[p].messages = m /\ talk'[p].count = talk[o].count + 1
        BY <4>1
      <4> QED  BY <2>6, <2>7, <4>2, <4>3 DEF Seen
    <3>2. CASE p # o
      <4>1. talk'[p] = talk[p] /\ done'[p] = done[p]
        BY <1>9, <2>4, <3>2
      <4> QED  BY <2>1, <4>1 DEF InStep, Seen
    <3> QED  BY <3>1, <3>2
  <2>9. \A u \in turns' : AnswersTo(u.messages, done'[u.object]) /\ talk'[u.object].count < MaxTurns
    <3>1. \A u \in turns' : u.object \in Question
      BY <1>0, <1>4 DEF Typed, Turn
    <3> QED  BY <1>9, <2>1, <2>2, <2>4, <3>1 DEF InStep
  <2> QED  BY <2>3, <2>8, <2>9 DEF InStep
<1> QED  BY <1>3, <1>6, <1>7, <1>8, <1>10, <1>11 DEF ChatInv

\* A lost connection: the turn goes on unheard.
LEMMA LoseKeeps ==
    ASSUME ChatInv, NEW t \in turns, Lose(t)
    PROVE  ChatInv'
<1> DEFINE u == [t EXCEPT !.heard = FALSE]
<1>0. Typed /\ Spent /\ TableInv /\ OwnObjects /\ Exchanges
  BY DEF ChatInv
<1>1. /\ lossy /\ turns' = (turns \ {t}) \cup {u}
      /\ UNCHANGED <<lossy, asked, chats, talk, usage, called, lives, done>>
  BY DEF Lose
<1>2. /\ u \in Turn /\ u.q = t.q /\ u.name = t.name /\ u.object = t.object
      /\ u.messages = t.messages
  BY <1>0 DEF Typed, Turn
<1> HIDE DEF u
<1>3. Typed' /\ Spent' /\ TableInv'
  BY <1>0, <1>1, <1>2 DEF Typed, Spent, TableInv
<1>4. OwnObjects'
  <2>1. Users' \subseteq Users \cup {u} /\ t \in Users
    BY <1>1 DEF Users
  <2> QED  BY <1>0, <1>1, <1>2, <2>1 DEF OwnObjects
<1>5. Exchanges'
  BY <1>0, <1>1, <1>2 DEF Exchanges
<1> QED  BY <1>1, <1>3, <1>4, <1>5 DEF ChatInv

\* A response with tool calls, or a pause: another round, or the last one was it.
LEMMA ContinueKeeps ==
    ASSUME ChatInv, NEW t \in turns, Continue(t)
    PROVE  ChatInv'
<1>1. PICK more \in {Said(t.q, "lookup") \o Said(t.q, "results"), Said(t.q, "paused")} :
        GoOn(t, more)
  BY DEF Continue
<1>2. UNCHANGED <<lossy, asked, chats, talk, usage, called, lives, done>>
  BY DEF Continue
<1>3. CASE t.round < MaxToolRounds
  <2> DEFINE u == [t EXCEPT !.round = @ + 1, !.messages = @ \o more]
  <2>1. turns' = (turns \ {t}) \cup {u} /\ UNCHANGED busy
    BY <1>1, <1>3 DEF GoOn
  <2>2. t \in Turn /\ Open(t.messages, t.q)
    BY DEF ChatInv, Typed, Exchanges
  <2>3. /\ t.messages \o more \in Seq(Message) /\ Open(t.messages \o more, t.q)
        /\ \A qs : AnswersTo(t.messages, qs) => AnswersTo(t.messages \o more, qs)
    BY <2>2, RoundsStayOpen DEF Turn
  <2>4. /\ u \in Turn /\ u.q = t.q /\ u.name = t.name /\ u.object = t.object
        /\ u.heard = t.heard /\ u.messages = t.messages \o more
    <3> DEFINE n == t.messages \o more
               r == t.round + 1
    <3>1. n \in Seq(Message) /\ r \in Nat /\ u = [t EXCEPT !.round = r, !.messages = n]
      BY <2>2, <2>3 DEF Turn
    <3> HIDE DEF n, r, u
    <3>2. /\ u \in Turn /\ u.q = t.q /\ u.name = t.name /\ u.object = t.object
          /\ u.heard = t.heard /\ u.messages = n
      BY <2>2, <3>1 DEF Turn
    <3> QED  BY <3>2 DEF n
  <2> HIDE DEF u
  <2> QED  BY <1>2, <2>1, <2>3, <2>4, RoundKeeps
<1>4. CASE ~(t.round < MaxToolRounds)
  BY <1>1, <1>2, <1>4, EndKeeps DEF GoOn
<1> QED  BY <1>3, <1>4

\* A restarted server knows no conversation, and its pages wait for nothing.
LEMMA RestartKeeps ==
    ASSUME ChatInv, Restart
    PROVE  ChatInv'
<1>1. /\ chats' = <<>> /\ turns' = {} /\ usage' = 0 /\ lives' = lives + 1
      /\ UNCHANGED <<lossy, asked, talk, called, done>>
  BY DEF Restart
<1>2. Typed'
  BY <1>1 DEF ChatInv, Typed
<1>3. Spent' /\ TableInv'
  <2>1. Spent
    BY DEF ChatInv
  <2>2. /\ called \in Nat /\ DailyLimit * (lives - 1) \in Nat
        /\ called <= DailyLimit * (lives - 1) + DailyLimit
    BY <2>1, ChatAssumption, AllowanceIsNat DEF Spent
  <2>3. DailyLimit * (lives - 1) + DailyLimit = DailyLimit * lives
    BY <2>1, ChatAssumption, Allowances DEF Spent
  <2>4. lives' \in Nat \ {0} /\ lives' - 1 = lives
    BY <1>1, <2>1 DEF Spent
  <2> DEFINE allowed == DailyLimit * lives
  <2>7. allowed \in Nat /\ called <= allowed
    BY <2>2, <2>3, ChatAssumption
  <2>8. allowed = DailyLimit * (lives' - 1)
    BY <2>4
  <2> HIDE DEF allowed
  <2>9. called <= allowed + 0
    BY <2>7, <2>2
  <2>5. called <= DailyLimit * (lives' - 1) + 0
    BY <2>8, <2>9
  <2>6. Spent'
    BY <1>1, <2>2, <2>4, <2>5, ChatAssumption DEF Spent
  <2> QED  BY <1>1, <2>6, ChatAssumption DEF TableInv
<1>4. OwnObjects'
  BY <1>1 DEF OwnObjects, Users, Entries
<1>5. Exchanges'
  BY <1>1 DEF ChatInv, Exchanges
<1>6. ~lossy => Attended' /\ InStep'
  BY <1>1 DEF ChatInv, Attended, InStep, Seen
<1> QED  BY <1>1, <1>2, <1>3, <1>4, <1>5, <1>6 DEF ChatInv

-----------------------------------------------------------------------------
(* Theorems *)

LEMMA ChatAtFirst == Init => ChatInv
<1> SUFFICES ASSUME Init PROVE ChatInv
  OBVIOUS
<1>1. /\ lossy \in LossySets
      /\ asked = 0 /\ chats = <<>> /\ turns = {} /\ usage = 0 /\ busy = {} /\ called = 0 /\ lives = 1
      /\ talk = [q \in Question |-> Blank]
      /\ done = [q \in Question |-> <<>>]
  BY DEF Init
<1>2. Typed
  <2>1. Blank \in Talk
    BY DEF Blank, Talk
  <2> QED  BY <1>1, <2>1, ChatAssumption DEF Typed
<1>3. Spent /\ TableInv
  BY <1>1, ChatAssumption, NothingBefore DEF Spent, TableInv
<1>4. OwnObjects
  BY <1>1 DEF OwnObjects, Users, Entries
<1>5. Exchanges
  BY <1>1 DEF Exchanges, Blank, Whole
<1>6. Attended /\ InStep
  <2>1. AnswersTo(<<>>, <<>>)
    <3>1. Answers(<<>>) = {}
      BY DEF Answers
    <3> QED  BY <3>1, FS_EmptySet DEF AnswersTo
  <2> QED  BY <1>1, <2>1, ChatAssumption DEF Attended, InStep, Seen, Blank
<1> QED  BY <1>2, <1>3, <1>4, <1>5, <1>6 DEF ChatInv

LEMMA ChatInductive == ChatInv /\ [Next]_vars => ChatInv'
<1> SUFFICES ASSUME ChatInv, [Next]_vars PROVE ChatInv'
  OBVIOUS
<1>1. ASSUME NEW name \in Name, NEW k \in 0..Len(chats), Ask(name, k) PROVE ChatInv'
  BY <1>1, AskKeeps
<1>2. ASSUME NEW t \in turns, Reply(t) PROVE ChatInv'
  <2>1. CASE Answer(t)
    BY <2>1, AnswerKeeps
  <2>2. CASE Continue(t)
    BY <2>2, ContinueKeeps
  <2>3. CASE Fail(t)
    BY <2>3, EndKeeps DEF Fail
  <2> QED  BY <1>2, <2>1, <2>2, <2>3 DEF Reply
<1>3. ASSUME NEW t \in turns, Lose(t) PROVE ChatInv'
  BY <1>3, LoseKeeps
<1>4. CASE NewDay
  BY <1>4, ChatAssumption, NothingBefore DEF NewDay, ChatInv, Typed, Spent, TableInv, OwnObjects, Users, Exchanges,
       Attended, InStep, Seen
<1>5. CASE Restart
  BY <1>5, RestartKeeps
<1>6. CASE UNCHANGED vars
  BY <1>6 DEF vars, ChatInv, Typed, Spent, TableInv, OwnObjects, Users, Exchanges, Attended,
       InStep, Seen
<1> QED  BY <1>1, <1>2, <1>3, <1>4, <1>5, <1>6 DEF Next

\* "Each is kept whole": whatever turns fail, are cut short or run at once, an object
\* holds whole exchanges only, and unless a connection is lost unnoticed exactly those
\* its page saw (ChatService._chat and its use in /chat/send).
THEOREM KeptWholeHolds == Spec => []KeptWhole
<1>1. ChatInv => KeptWhole
  BY DEF ChatInv, Exchanges, InStep, Seen, KeptWhole
<1> QED  BY <1>1, ChatAtFirst, ChatInductive, PTL DEF Spec

\* The caps hold in every state: the conversations held; unless a connection is lost
\* unnoticed the questions of a conversation, though each is compared with its cap when
\* a question comes and counted when its answer has been given; and of the turns that
\* reach Claude in a day, as many for each server that ran in it as chat.py:15-17 allows
\* the day.
THEOREM CapsHoldHolds == Spec => []CapsHold
<1>1. ChatInv => CapsHold
  <2> SUFFICES ASSUME ChatInv PROVE CapsHold
    OBVIOUS
  <2>1. Spent /\ TableInv /\ (~lossy => InStep)
    BY DEF ChatInv
  <2>2. DailyLimit * (lives - 1) + DailyLimit = DailyLimit * lives
    BY <2>1, ChatAssumption, Allowances DEF Spent
  <2>3. called <= DailyLimit * lives
    <3>1. DailyLimit * (lives - 1) \in Nat
      BY <2>1, AllowanceIsNat DEF Spent
    <3> QED  BY <2>1, <2>2, <3>1, ChatAssumption DEF Spent
  <2> QED  BY <2>1, <2>3 DEF TableInv, InStep, CapsHold
<1> QED  BY <1>1, ChatAtFirst, ChatInductive, PTL DEF Spec

=============================================================================
