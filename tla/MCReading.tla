----------------------------- MODULE MCReading -----------------------------
(* Reading on small graphs: questions of one or two relations over every    *)
(* choice of seven links, walks over every choice of seven others, date     *)
(* phrases around the ends of months, years and centuries.                  *)
EXTENDS Reading

MCLog == <<<<69>>, <<110, 69>>, <<139, 92, 69>>, <<161, 110, 85, 69>>, <<179, 125, 98, 81, 69>>,
           <<195, 139, 110, 92, 79, 69>>>>
MCLn == <<0, 69, 110, 139, 161, 179, 195, 208, 220, 230, 240, 248, 256, 264, 271, 277>>
MCRare == [n \in DOMAIN MCLn |-> [c \in 1..n |-> MCLn[n] - MCLn[c]]]

Sense(w) == IF w \in {"impinge", "affect"} THEN "affect" ELSE w
MCClose(a, b) ==
    LET m == {Sense(a[i]) : i \in DOMAIN a}  n == {Sense(b[i]) : i \in DOMAIN b}
    IN IF m \cup n = {} THEN 0 ELSE (100 * Cardinality(m \cap n)) \div Cardinality(m \cup n)

MCAboutPhrases == {<<"what", "do", "we", "know", "about">>}

Q(words) == [words |-> words, mark |-> TRUE]
Part(key, texts) == [key |-> key, texts |-> texts]
N(id, model, name, parts, dead, day) ==
    [id |-> id, model |-> model, name |-> name, parts |-> parts, dead |-> dead, day |-> day]
L(rel, s, t, open) == [rel |-> rel, source |-> s, target |-> t, open |-> open]

-----------------------------------------------------------------------------
\* Questions

MCTypeWords == [w \in {"decisions", "decision", "projects", "tasks", "task", "person"} |->
    CASE w \in {"decisions", "decision"} -> "Decision" [] w = "projects" -> "Project"
      [] w \in {"tasks", "task"} -> "Task" [] OTHER -> "Person"]

MCTypes == <<"Decision", "Pattern", "Person", "Project", "Task">>

Rel(name, fs, dom, rng) == [name |-> name, forms |-> fs, domain |-> dom, range |-> rng]
MCRelations == <<
    Rel("affects", <<<<"affects">>, <<"affect">>>>, {"Decision"}, {"Project", "Task"}),
    Rel("resolves", <<<<"resolve">>, <<"resolves">>>>, {"Decision"}, {"Task"}),
    Rel("partOf", <<<<"part", "of">>, <<"within">>>>, {"Task"}, {"Project"}),
    Rel("madeBy", <<<<"decided", "by">>>>, {"Decision"}, {"Person"}),
    Rel("supersedes", <<<<"replace">>>>, {}, {}) >>

Status(w, v) == [phrase |-> <<w>>, candidates |-> <<[field |-> "status", owners |-> {}, value |-> v]>>]
MCValues == <<Status("active", "active"), Status("open", "active"), Status("done", "done")>>

DateKey(f, label, default, fs) ==
    [field |-> f, label |-> label, owners |-> {}, default |-> default, forms |-> fs]
MCDateFields == <<DateKey("createdAt", <<"creation", "date">>, TRUE, <<<<"created">>>>),
                  DateKey("updatedAt", <<"last", "update">>, FALSE, <<<<"updated">>>>)>>
MCDateForms == <<[phrase |-> <<"created">>, fields |-> <<MCDateFields[1]>>],
                 [phrase |-> <<"updated">>, fields |-> <<MCDateFields[2]>>]>>

InYear(y) == [kind |-> "in", points |-> <<[kind |-> "year", n |-> y, m |-> 1, d |-> 1]>>]
Today == D!Date(2024, 2, 29)
MCDaysOf(w) ==
    LET r == D!RangeOf(InYear(IF w = "2023" THEN 2023 ELSE 2024), Today)
    IN D!Days(r[1][1])..D!Days(r[2][1])

MCImplied == [w \in {"who", "why", "how"} |->
    CASE w = "who" -> "Person" [] w = "why" -> "Decision" [] OTHER -> "Pattern"]
MCHints == [w \in {"decided"} |-> "Decision"]

MCSalient == [m \in {"Decision", "Task", "Project", "Person"} |->
    CASE m = "Decision" -> {"rationale", "outcome"} [] OTHER -> {"status", "description"}]

In(y) == [f \in {"createdAt", "updatedAt"} |-> D!Days(D!Date(y, 5, 1))]
Then(c, u) == [In(c) EXCEPT !["updatedAt"] = D!Days(D!Date(u, 5, 1))]

Quartz == N("p", "Project", <<"quartz">>, <<>>, FALSE, In(2020))
Zola(dead) == N("t", "Task", <<"zola">>, <<Part("status", <<<<"active">>>>)>>, dead, In(2023))
Alice == N("a", "Person", <<"alice">>, <<>>, FALSE, In(2020))
Ochre == N("d", "Decision", <<"ochre">>, <<Part("rationale", <<<<"cheaper">>>>)>>, FALSE, Then(2023, 2024))
Sable(dead) == N("e", "Decision", <<"sable">>, <<Part("status", <<<<"done">>>>)>>, dead, In(2024))

\* The subsequences of a sequence.
Parts(s) == {LET kept == Where(s, LAMBDA i : i \in S) IN [k \in DOMAIN kept |-> s[kept[k]]] :
                S \in SUBSET DOMAIN s}

QuestionLinks == <<L("affects", "d", "p", TRUE), L("affects", "d", "t", TRUE),
    L("resolves", "e", "t", TRUE), L("partOf", "t", "p", TRUE), L("madeBy", "d", "a", TRUE),
    L("supersedes", "e", "d", TRUE)>>
QuestionGraphs ==
    {[nodes |-> <<Quartz, Zola(dead[1]), Alice, Ochre, Sable(dead[2])>>,
      links |-> <<L("affects", "e", "p", FALSE)>> \o s] :
        s \in Parts(QuestionLinks), dead \in {<<FALSE, FALSE>>, <<TRUE, FALSE>>, <<FALSE, TRUE>>}}

MCQuestions == {Q(<<"which", "decisions", "affect", "quartz">>),
    Q(<<"which", "decisions", "affect", "quartz", "within", "zola">>),
    Q(<<"which", "decisions", "do", "not", "resolve", "tasks", "not", "within", "quartz">>),
    Q(<<"which", "decisions", "are", "not", "cheaper">>),
    Q(<<"which", "decisions", "do", "not", "affect", "quartz">>),
    Q(<<"which", "decisions", "resolve", "tasks">>),
    Q(<<"which", "decisions", "resolve", "tasks", "within", "quartz">>),
    Q(<<"which", "decisions", "resolve", "tasks", "not", "within", "quartz">>),
    Q(<<"which", "tasks", "within", "quartz", "are", "active">>),
    Q(<<"which", "tasks", "are", "not", "active">>),
    Q(<<"which", "decisions", "replace", "ochre">>),
    Q(<<"which", "decisions", "affect", "quartz", "and", "resolve", "zola">>),
    Q(<<"which", "decisions", "updated", "2024", "affect", "quartz">>),
    Q(<<"which", "decisions", "2023", "affect", "tasks">>),
    Q(<<"which", "decisions", "impinge", "quartz">>),
    Q(<<"who", "decided", "by">>),
    Q(<<"which", "decisions", "affect", "tasks", "and", "resolve", "tasks">>),
    Q(<<"which", "decisions", "decided", "by", "alice", "affect", "tasks">>),
    Q(<<"which", "recent", "decisions", "affect", "quartz">>), Q(<<"which", "recent", "decisions">>),
    Q(<<"who", "made", "decisions">>), Q(<<"who", "decided", "ochre">>),
    Q(<<"how", "many", "tasks", "within", "quartz">>),
    Q(<<"how", "many", "decisions", "do", "not", "affect", "quartz">>),
    Q(<<"which", "decisions", "about", "quartz">>),
    Q(<<"which", "decisions", "cheaper">>),
    Q(<<"what", "do", "we", "know", "about", "quartz">>)}

\* A prompt: a request, a question after a lead-in, the same one again, another.
MCPrompt == <<[words |-> <<"resolve", "zola">>, mark |-> FALSE],
    Q(<<"know", "about", "zola", "which", "decisions", "affect", "quartz">>),
    Q(<<"which", "decisions", "affect", "quartz">>),
    Q(<<"which", "tasks", "within", "quartz", "are", "active">>)>>

-----------------------------------------------------------------------------
\* Dates

DatePoints ==
    {D!Point("year", n) : n \in {1001, 1799, 1800, 1900, 2020, 2099}}
    \cup {D!Point("decade", n) : n \in {1810, 1890, 1900, 2000}}
    \cup {D!Point("century", n) : n \in {12, 19, 21}}
    \cup {D!Day(D!Date(2020, 2, 29)), D!Day(D!Date(1999, 12, 31)), D!Day(D!Date(1001, 1, 1))}
    \cup {D!Month(D!Date(2020, 2, 1)), D!Month(D!Date(1900, 12, 1)), D!Month(D!Date(2021, 1, 1))}
    \cup {D!Point(k, 0) : k \in {"today", "yesterday", "this year", "last year", "this month",
                                 "last month", "this week", "last week"}}
Todays == {D!Date(2024, 2, 29), D!Date(2024, 3, 31), D!Date(2023, 1, 1)}
Phrases ==
    {D!Phrase(k, <<p>>) : k \in {"in", "before", "after", "since"}, p \in DatePoints}
    \cup {D!Phrase("between", <<p, q>>) : p, q \in DatePoints}
    \cup {D!Phrase("last_n", <<D!Point(k, n)>>) :
            k \in {"days", "weeks", "months", "years"}, n \in {0, 1, 12, 50}}

-----------------------------------------------------------------------------
\* Walks

Topic(model) == N("c", model, <<"arches">>, <<>>, FALSE, In(2020))
Basalt == N("o", "Project", <<"basalt">>, <<>>, FALSE, In(2021))
Retry == N("x", "Pattern", <<"arches", "retry">>, <<Part("sourceContext", <<<<"log">>>>)>>, FALSE, In(2022))
WalkLinks == <<L("affects", "d", "p", TRUE), L("hasConcept", "d", "c", TRUE),
    L("hasConcept", "x", "c", TRUE), L("madeBy", "d", "a", TRUE), L("worksOn", "a", "p", TRUE),
    L("affects", "d", "o", TRUE), L("appliesTo", "x", "d", TRUE)>>
WalkGraphs ==
    {[nodes |-> <<Quartz, Alice, [Ochre EXCEPT !.dead = dead], Topic(model), Basalt, Retry>>,
      links |-> <<L("appliesTo", "x", "p", FALSE)>> \o s] :
        s \in Parts(WalkLinks), dead \in BOOLEAN, model \in {"Concept", "Preference"}}
Walks ==
    {[kind |-> "recall", id |-> "p", depth |-> k, focus |-> {}] : k \in 1..3}
    \cup {[kind |-> "recall", id |-> "d", depth |-> 2, focus |-> {"retry"}]}
    \cup {[kind |-> "share", id |-> "p", depth |-> k] : k \in 1..2}
    \cup {[kind |-> "prime", id |-> "d"], [kind |-> "gaps"],
          [kind |-> "chain", text |-> <<"ochre", "arches">>, depth |-> 2],
          [kind |-> "search", text |-> <<"arches">>]}

Bare == [nodes |-> <<Quartz>>, links |-> <<>>]
MCReads ==
    (QuestionGraphs \X {[kind |-> k, q |-> q] : k \in {"question", "ask"}, q \in MCQuestions})
    \cup (QuestionGraphs \X {[kind |-> "prompt", prompt |-> MCPrompt]})
    \cup ({Bare} \X {[kind |-> "date", phrase |-> p, today |-> t] : p \in Phrases, t \in Todays})
    \cup (WalkGraphs \X Walks)
    \cup ({Bare} \X {[kind |-> "nothing"]})

\* The second version of base.ttl drops a phrasing, brings one, and adopts mentors.
MCBaseForms == <<{<<"affects", "f1">>}, {<<"affects", "f2">>, <<"mentors", "f1">>}>>
=============================================================================
