------------------------------ MODULE Reading ------------------------------
(***************************************************************************)
(* Every read of a graph: those of OneRead, and questions, which the gate  *)
(* answers by itself, prompts, which may ask several, and memory_ask.      *)
(*                                                                         *)
(* What is asked may also be a "question" or one to "ask" [q], a "prompt"  *)
(* [prompt], or "nothing": the lexicon changes between reads, in           *)
(* behaviours that read nothing.                                           *)
(***************************************************************************)
EXTENDS QueryPlan, OneRead, Lexicon

QuestionKinds == {"question", "prompt", "ask"}
QuestionsIn(ask) == IF ask.kind = "prompt" THEN ToSet(QuestionCandidates(ask.prompt)) ELSE {ask.q}

\* What ground.py makes of a question it does not refuse: relations that each join two
\* different things it names, at most MaxVars types among these, one of them the subject.
WellGrounded(g) ==
    /\ IsSeq(g.nodes) /\ IsSeq(g.edges) /\ IsSeq(g.values) /\ IsSeq(g.dates) /\ IsSeq(g.anchors)
    /\ \A e \in ToSet(g.edges) : e.source # e.target /\ Ends(e) \subseteq DOMAIN g.nodes
    /\ Cardinality(Vars(g)) <= MaxVars /\ g.subject \in Vars(g) \cup {0}
    /\ ToSet(g.anchors) = DOMAIN g.nodes \ Vars(g)

\* Questions are asked of graphs whose nodes have ids of their own.
ASSUME QuestionAssumption ==
    /\ {RecentLimit, RowLimit, MaxRows, AskRows} \subseteq Nat \ {0}
    /\ \A r \in Reads : r[2].kind \in QuestionKinds =>
        /\ IsGraph(r[1])
        /\ \A q \in QuestionsIn(r[2]) :
            LET g == Ground(QuestionDocs(r[1]), q) IN g.refuse \/ WellGrounded(g)

readingVars == <<reading, lexicon>>

ReadingInit == ReadInit /\ LexiconInit

Get ==
    CASE asked.kind = "question" -> Answer(graph, asked.q)
      [] asked.kind = "prompt" -> UNION {{[q |-> q, said |-> a.said, rows |-> a.rows, total |-> a.total] :
              a \in Answer(graph, q)} : q \in QuestionsIn(asked)}
      [] asked.kind = "ask" -> MemoryAsk(graph, asked.q)

Reply ==
    /\ answer = NoAnswer /\ asked.kind \in QuestionKinds
    /\ answer' \in Get
    /\ UNCHANGED <<graph, asked>>

Amend ==
    /\ asked.kind = "nothing" /\ LexiconNext
    /\ UNCHANGED reading

ReadingNext ==
    \/ (Read \/ Reply) /\ UNCHANGED lexicon
    \/ Amend

ReadingSpec == ReadingInit /\ [][ReadingNext]_readingVars

-----------------------------------------------------------------------------
\* Properties

\* Of what is meant: some, unless there is none.
SomeOf(meant) == answer.rows \subseteq meant /\ (answer.rows = {} => meant = {})

\* As many as are meant, and each of them where so many may be shown.
AllOf(meant) ==
    /\ answer.total = Cardinality(meant)
    /\ Cardinality(meant) <= MaxRows => answer.rows = meant

\* The answer to q, of which g is what was understood.
MeansWhatItSays(q, g) ==
    /\ (Given("question") \/ Given("prompt")) /\ UnderstoodWhole(g, q) /\ Connected(g) =>
            SomeOf(Meant(graph, g)) /\ (~g.recent => AllOf(Meant(graph, g)))
    /\ Given("ask") /\ Outcome(g, q, 6) = "plan" /\ Connected(g) /\ Relaxations(g) = <<>> =>
            /\ SomeOf(Meant(graph, g))
            /\ g.count /\ ~g.recent => answer.total = Cardinality(Meant(graph, g))

\* "None unless the planner understood ALL of it ... silence is better than a confident
\* wrong answer injected as memory" (planner.py:416-420): given what grounding took each
\* word for, what the gate answers by itself is what the question asks for.  The rows
\* shown with the "(+N more)" are as many as that, and so is the number memory_ask gives
\* when asked how many.  (Of questions whose parts hang together: a relation out of reach
\* of what is asked for is dropped, see the README.)
AnswersAreMeant ==
    LET q == IF asked.kind = "prompt" THEN answer.q ELSE asked.q
    IN Given("question") \/ Given("prompt") \/ Given("ask") =>
            MeansWhatItSays(q, Ground(QuestionDocs(graph), q))

=============================================================================
