--------------------------- MODULE AmbientRecall ---------------------------
(***************************************************************************)
(* Ambient recall over one session: what every prompt is given of the      *)
(* graph, of the session logs and of the answers to its questions          *)
(* (gate/recall.py RecallExtension, gate/session_corpus.py).  A lookup of  *)
(* GateIndex ends in an answer, which names memories as the index it found *)
(* has them.  The planner is external: it understands a question or not.   *)
(* A log file counts as this session's when it changed since the session   *)
(* began, whoever wrote it; a reply is what reaches the prompt.            *)
(***************************************************************************)
EXTENDS GateIndex, GateScore, TLC

CONSTANTS
    Graphs,         \* the graph's contents, by version
    Project,        \* the name of the session's project
    Prompt, Text, Questions,    \* prompts, what each says and asks
    Understood,     \* questions the planner fully understands
    Entries,        \* log entries: a sequence of [file, mine, model, name, text]
    LogAbsMin,
    MaxQuestions

VARIABLES
    session,        \* primed, injected, injectedLog, answered, compacted
    log,            \* entries on disk, by place in Entries
    touched,        \* files changed since the session began
    reply,          \* what the last hook put into the conversation
    conversation,   \* observer: entries whose writing the model can still see
    given           \* observer: all the session was given: memories, entries, answers

vars == <<graphs, indexes, lookup, session, log, touched, reply, conversation,
          given>>
ours == <<session, log, touched, conversation, given>>

NoReply == [prime |-> FALSE, graph |-> <<>>, log |-> <<>>, answers |-> <<>>, kept |-> {}]

\* A bound: logs are kept in the world whose graph rests.
Logged == world = "still"

Init ==
    /\ IndexInit
    /\ session = [primed |-> FALSE, injected |-> {}, injectedLog |-> {}, answered |-> {},
                  compacted |-> FALSE]
    /\ log = IF Logged THEN {e \in DOMAIN Entries : ~Entries[e].mine} ELSE {}
    /\ touched = {} /\ conversation = {} /\ given = {}
    /\ reply = NoReply

-----------------------------------------------------------------------------
\* The log corpus

Key(e) == <<e.file, e.model, e.name>>

LogDoc(e) ==
    LET name == TermsPos(e.name)
        all == TermsPos(e.text)
    IN [key |-> Key(e), model |-> e.model, name |-> e.name,
        nameTerms |-> Words(name), terms |-> Words(all),
        nameBigrams |-> Bigrams(name), bigrams |-> Bigrams(all)]

DocsOf(entries) == [k \in 1..Cardinality(entries) |-> LogDoc(Entries[Nth(entries, k)])]

LogDocsAll(compacted) == DocsOf({e \in log : TermsPos(Entries[e].text) # <<>>})
LogDocs(compacted) ==
    DocsOf({e \in log : (Entries[e].file \notin touched \/ compacted)
                        /\ TermsPos(Entries[e].text) # <<>>})

\* The graph's rarity of a word where it has one, else the log's own.
LogIdf(docs, idf) == idf @@ Idf(docs)

LogScored(text, docs, idf) ==
    [i \in DOMAIN docs |->
        [doc |-> docs[i], score |-> ScoreViews(QueryViews(text), docs[i], LogIdf(docs, idf))]]

\* The best entries not seen and not of a memory in exclude.
LogRecall(text, idf, budget, exclude) ==
    LET ranked == Ranked(LogScored(text, LogDocs(session.compacted), idf))
        eligible == Picked(ranked, {i \in DOMAIN ranked :
                        /\ ranked[i].score >= LogAbsMin
                        /\ ranked[i].doc.key \notin session.injectedLog
                        /\ <<ranked[i].doc.model, ranked[i].doc.name>> \notin exclude})
    IN Top([k \in DOMAIN eligible |-> eligible[k].doc], budget)

-----------------------------------------------------------------------------
\* The graph

GroupFor(text, index) ==
    LET docs == Corpus(Graphs[index.version], FALSE)
        near == Neighbourhood(Graphs[index.near], Project)
        decided == Decide(RankedFor(text, docs, near)).group
    IN IF docs = <<>> THEN <<>>
       ELSE IF decided # <<>> THEN decided ELSE SemanticPick(text, docs)

Groups == [p \in Prompt |-> [v \in 1..MaxVersion |-> [n \in 1..MaxVersion |->
              GroupFor(Text[p], [version |-> v, near |-> n])]]]

GraphIdf == [v \in 1..MaxVersion |-> Idf(Corpus(Graphs[v], FALSE))]

\* A prompt, a graph and a log are texts, memories and entries in an order, and scores are
\* numbers.
AreNumbers(scored) == \A i \in DOMAIN scored : scored[i].score \in Int

ASSUME RecallAssumption ==
    /\ MaxVersion = Len(Graphs) /\ MaxVersion \in Nat \ {0}
    /\ TopN \in Nat /\ MaxQuestions \in Nat /\ IsSeq(Entries)
    /\ \A v \in 1..MaxVersion : IsSeq(Graphs[v].nodes)
    /\ \A p \in Prompt : IsSeq(Questions[p])

ASSUME ScoreAssumption ==
    \A p \in Prompt, v \in 1..MaxVersion :
        LET docs == Corpus(Graphs[v], FALSE) IN
        /\ AreNumbers(ScoredByMeaning(Text[p], docs))
        /\ \A n \in 1..MaxVersion :
            AreNumbers(Scored(Text[p], docs, Neighbourhood(Graphs[n], Project)))
        /\ \A entries \in SUBSET DOMAIN Entries :
            AreNumbers(LogScored(Text[p], DocsOf(entries), GraphIdf[v]))

Line(id, d) == [id |-> id, model |-> d.model, name |-> d.name]

\* What a prompt is given: memories of its group that are new to the session, then, in the
\* slots they leave, entries of other memories.
Named(group) == {<<group[k].doc.model, group[k].doc.name>> : k \in DOMAIN group}
NewIn(group) == Picked(group, {i \in DOMAIN group : group[i].doc.id \notin session.injected})
Beside(p, index, group, fresh) ==
    LogRecall(Text[p], GraphIdf[index.version],
              IF fresh = <<>> THEN TopN ELSE Max({1, TopN - Len(fresh)}),
              IF fresh = <<>> THEN {} ELSE Named(group))

Lines(p, fresh, entries) ==
    IF Words(TermsPos(FlattenSeq(Text[p]))) = {}
    THEN [graph |-> <<>>, log |-> <<>>]
    ELSE [graph |-> [k \in DOMAIN fresh |-> Line(fresh[k].doc.id, fresh[k].doc)],
          log |-> [k \in DOMAIN entries |-> Line(entries[k].key, entries[k])]]
RecallNew(p, index, group, fresh) == Lines(p, fresh, Beside(p, index, group, fresh))
RecallOf(p, index, group) == RecallNew(p, index, group, NewIn(group))
Recall(p, index) == RecallOf(p, index, Groups[p][index.version][index.near])

\* Questions of the prompt that were not answered yet and are understood.
Answers(p) ==
    LET asked == Top(Questions[p], MaxQuestions)
    IN Picked(asked, {i \in DOMAIN asked :
                         asked[i] \notin session.answered /\ asked[i] \in Understood})

-----------------------------------------------------------------------------
\* The session's events

Prime ==
    /\ lookup.by = "start" /\ lookup.step = "answer"
    /\ session' = [session EXCEPT !.primed = TRUE]
    /\ reply' = [NoReply EXCEPT !.prime = TRUE]
    /\ lookup' = NoLookup
    /\ UNCHANGED <<graphs, indexes, log, touched, conversation, given>>

ReplyOf(recalled, answers, kept) ==
    [prime |-> FALSE, graph |-> recalled.graph, log |-> recalled.log, answers |-> answers,
     kept |-> kept]

LinesOf(r) ==
    {<<"memory", d.id>> : d \in ToSet(r.graph)} \cup {<<"entry", d.id>> : d \in ToSet(r.log)}
    \cup {<<"answer", q>> : q \in ToSet(r.answers)}

RememberLast(r) ==
    [session EXCEPT !.injected = IF r.graph = <<>> THEN @ ELSE {d.id : d \in ToSet(r.graph)},
                    !.injectedLog = @ \cup {d.id : d \in ToSet(r.log)},
                    !.answered = @ \cup ToSet(r.answers)]
Remember(r) ==
    [session EXCEPT !.injected = @ \cup {d.id : d \in ToSet(r.graph)},
                    !.injectedLog = @ \cup {d.id : d \in ToSet(r.log)},
                    !.answered = @ \cup ToSet(r.answers)]

AnswerPrompt(p) ==
    /\ lookup.by = p /\ lookup.step = "answer"
    /\ reply' = ReplyOf(Recall(p, lookup.index), Answers(p), lookup.kept)
    /\ session' = Remember(reply')
    /\ given' = given \cup LinesOf(reply')
    /\ lookup' = NoLookup
    /\ UNCHANGED <<graphs, indexes, log, touched, conversation>>

Quiet == reply' = NoReply

\* What no lookup reads before it answers may as well happen between lookups.
Between == lookup.step = "none"

\* A session writes its log, or another session of the project its own.
WriteEntry(e) ==
    /\ Between /\ Logged
    /\ e \notin log
    /\ log' = log \cup {e}
    /\ touched' = touched \cup {Entries[e].file}
    /\ conversation' = IF Entries[e].mine THEN conversation \cup {e} ELSE conversation
    /\ Quiet
    /\ UNCHANGED <<graphs, indexes, lookup, session, given>>

\* Promotion archives a file that rested (module Promotion).
Distilled(f) ==
    /\ Between
    /\ f \notin touched
    /\ \E e \in log : Entries[e].file = f
    /\ log' = {e \in log : Entries[e].file # f}
    /\ Quiet
    /\ UNCHANGED <<graphs, indexes, lookup, session, touched, conversation, given>>

PreCompact ==
    /\ Between /\ Logged
    /\ ~session.compacted
    /\ session' = [session EXCEPT !.compacted = TRUE]
    /\ conversation' = {}
    /\ Quiet
    /\ UNCHANGED <<graphs, indexes, lookup, log, touched, given>>

Ask ==
    /\ \/ ~session.primed /\ Begin("start")
       \/ \E p \in Prompt : Begin(p)
       \/ Warm
    /\ Quiet /\ UNCHANGED ours

Session ==
    \/ Prime
    \/ \E p \in Prompt : AnswerPrompt(p)
    \/ \E e \in DOMAIN Entries : WriteEntry(e)
    \/ \E f \in {Entries[e].file : e \in DOMAIN Entries} : Distilled(f)
    \/ PreCompact

Elsewhere == (Writer \/ Lookup) /\ Quiet /\ UNCHANGED ours

Next == Ask \/ Elsewhere \/ Session

Spec == Init /\ [][Next]_vars

-----------------------------------------------------------------------------
\* Properties

\* The gate never repeats itself: a memory, a log entry or an answer a session was given
\* is not given to it again, and no prompt gets one memory from both the graph and the
\* log (injected, injected_log, answered, exclude).
NeverTwice ==
    [][reply' # NoReply =>
        /\ LinesOf(reply') \cap given = {}
        /\ \A d \in ToSet(reply'.graph), e \in ToSet(reply'.log) :
            <<d.model, d.name>> # <<e.model, e.name>>]_vars

\* A memory that was gone from the saved graph, and from the writer's, before the hook
\* began is not shown: one forgotten or renamed does not come back out of an index
\* (gate_index).
ForgottenIsNotShown ==
    world \notin {"copy", "shared"} =>
        \A d \in ToSet(reply.graph) : \E v \in Min(reply.kept)..MaxVersion :
            \E n \in ToSet(Graphs[v].nodes) : n.id = d.id /\ ~n.dead /\ n.name = d.name

\* Until a compaction a session is not told what it wrote itself: "an entry is only
\* injectable when its authoring context is GONE" (session_corpus.py:7).
NoEcho ==
    ~session.compacted =>
        \A d \in ToSet(reply.log), e \in conversation : Key(Entries[e]) # d.id

\* Where lookups run, no index under the key of the file as it is misses what was saved,
\* and no copy the server would leave in place is behind it; only a writer beside the
\* server breaks this (gate_index, fetch_replica).
IndexesKeepUp == world # "shared" => KeyIsNotAhead /\ TaggedCopyIsCurrent

=============================================================================
