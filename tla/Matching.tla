------------------------------ MODULE Matching ------------------------------
(***************************************************************************)
(* What leftover words of a question can mean (ceist/matching.py): layers  *)
(* asked in order, where the first sure one wins and the rest offer "did   *)
(* you mean".  An item is [key, label, phrases], a label and a phrase a     *)
(* sequence of words; roots are taken off already.  The encoder is Close   *)
(* of GateScore.                                                           *)
(***************************************************************************)
EXTENDS GateScore

CONSTANTS
    FromWords, ToWords,     \* words that say which way a link goes
    Short,                  \* phrasings of three letters at most
    LowMin, CloseGap,       \* the vector layer's threshold and gap
    ClashPenalty,
    ClarifyTop, ClarifyMin

NoMatch == [sure |-> FALSE, ranked |-> <<>>]

Clash(said, phrase) ==
    LET w == ToSet(phrase)
        way(us, them) == said \cap us # {} /\ w \cap them # {} /\ w \cap us = {}
    IN way(FromWords, ToWords) \/ way(ToWords, FromWords)

\* Most of the outer phrase, as whole words.
Covers(inner, outer) ==
    /\ 2 * Len(inner) >= Len(outer)
    /\ \E i \in 1..(Len(outer) - Len(inner) + 1) :
        SubSeq(outer, i, i + Len(inner) - 1) = inner

\* How exactly one phrasing is what was said; 0 when it is not.
Likeness(said, phrase) ==
    IF Clash(ToSet(said), phrase) \/ phrase = <<>> THEN 0
    ELSE IF phrase = said THEN 3
    ELSE IF Covers(phrase, said) \/ Covers(said, phrase)
    THEN IF phrase \in Short THEN 1 ELSE 2
    ELSE 0

Exact(said, items) ==
    LET best == [i \in DOMAIN items |->
                    Max({0} \cup {Likeness(said, p) : p \in ToSet(items[i].phrases)})]
        top == Max({0} \cup Range(best))
        winners == Where(items, LAMBDA i : best[i] = top)
    IN IF top = 0 THEN NoMatch
       ELSE [sure |-> Len(winners) = 1,
             ranked |-> [k \in DOMAIN winners |-> [item |-> items[winners[k]], score |-> 100]]]

Vectors(said, items) ==
    LET nearness(item) ==
            Max({Close(said, p) - (IF Clash(ToSet(said), p) THEN ClashPenalty ELSE 0) :
                    p \in ToSet(item.phrases) \cup {item.label}})
        ranked == Ranked([i \in DOMAIN items |-> [item |-> items[i], score |-> nearness(items[i])]])
        close == SelectSeq(ranked, LAMBDA r : ranked[1].score - r.score < CloseGap)
    IN IF items = <<>> THEN NoMatch
       ELSE IF ranked[1].score < LowMin THEN [sure |-> FALSE, ranked |-> ranked]
       ELSE [sure |-> Len(close) = 1, ranked |-> close]

\* Each item once, where it first is.
Options(pool) ==
    LET first == Where(pool, LAMBDA k :
                    \A j \in 1..(k - 1) : pool[j].item.key # pool[k].item.key)
    IN Top([k \in DOMAIN first |-> pool[first[k]].item], ClarifyTop)

\* The chain: exact, then meaning.  A layer that cannot choose leaves its candidates in
\* the pool, one that found none its near misses.
Decided(items, e, v) ==
    LET torn == v.ranked # <<>> /\ v.ranked[1].score >= LowMin
        pool == Ranked(IF torn THEN v.ranked \o e.ranked
                       ELSE e.ranked \o SelectSeq(v.ranked, LAMBDA r : r.score >= ClarifyMin))
        match == IF items = <<>> THEN <<>>
                 ELSE IF e.sure THEN <<e.ranked[1].item>>
                 ELSE IF v.sure THEN <<v.ranked[1].item>> ELSE <<>>
    IN [match |-> match, options |-> IF match = <<>> THEN Options(pool) ELSE <<>>]

Resolve(said, items) == Decided(items, Exact(said, items), Vectors(said, items))

=============================================================================
