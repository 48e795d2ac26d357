---------------------------- MODULE MemoryGraph ----------------------------
(***************************************************************************)
(* One server's in-memory graph under the mutating MCP tools               *)
(* (claude_memory_graph/tools): memory_store_resource,                     *)
(* memory_store_concept, memory_rename, memory_forget, memory_link and     *)
(* memory_unlink.  A tool call runs to its end on the event loop without   *)
(* awaiting, so each is one step.  A call that is refused before it wrote  *)
(* anything is no step at all; one that raises half way is a step of its   *)
(* own, because what it wrote stays in memory (on_call_tool only skips the *)
(* save).  When the graph reaches the disk is the subject of SharedStore.  *)
(***************************************************************************)
EXTENDS GraphOps

CONSTANTS
    MaxTime,        \* bound on the clock
    Calls           \* the metadata callers pass to memory_link

ASSUME BoundsAssumption == MaxTime \in Nat /\ Calls \subseteq Metadata

VARIABLES
    nodes,          \* the resources and concepts of the graph
    links,          \* its edges
    known,          \* relations declared in the schema graph
    now             \* the clock _now() reads, to the second

vars == <<nodes, links, known, now>>

Init ==
    /\ nodes = {}
    /\ links = {}
    /\ known = BaseRelation
    /\ now = 0

-----------------------------------------------------------------------------
(* memory_store_resource, memory_store_concept *)

\* handle_resource on a name that is not there: past the duplicate guard it
\* mints a node.
CreateResource(n, force) ==
    /\ MayCreate(nodes, n, force)
    /\ \E i \in FreshIri(nodes) : nodes' = nodes \cup {NewNode(i, n)}
    /\ UNCHANGED <<links, known, now>>

\* create_resource adds quad by quad: a malformed key met before the name leaves
\* a typed node nobody can look up.  (Met after it, it leaves CreateResource's.)
InterruptedCreate(n, force) ==
    /\ MayCreate(nodes, n, force)
    /\ \E i \in FreshIri(nodes) : nodes' = nodes \cup {NewNode(i, NoName)}
    /\ UNCHANGED <<links, known, now>>

\* store_concept writes the label before it looks at the caller's keys, so a
\* malformed key changes nothing here.
StoreConcept(l) ==
    /\ \E i \in FreshIri(nodes) : nodes' = UpsertConcept(nodes, i, l)
    /\ UNCHANGED <<links, known, now>>

-----------------------------------------------------------------------------
(* memory_rename, memory_forget *)

\* Mutant: no collision check on the new name.
RenameOntoName(old, new) ==
    /\ \E x \in FindResource(nodes, old) : nodes' = Renamed(nodes, x, new)
    /\ UNCHANGED <<links, known, now>>

RenameResource(old, new) ==
    /\ FindResource(nodes, new) = {}
    /\ \E x \in FindResource(nodes, old) : nodes' = Renamed(nodes, x, new)
    /\ UNCHANGED <<links, known, now>>

RenameConcept(old, new) ==
    /\ FindConcept(nodes, new) = {}
    /\ \E x \in FindConcept(nodes, old) : nodes' = Renamed(nodes, x, new)
    /\ UNCHANGED <<links, known, now>>

Forget(n) ==
    /\ \E x \in FindResource(nodes, n) : nodes' = Forgotten(nodes, x)
    /\ UNCHANGED <<links, known, now>>

-----------------------------------------------------------------------------
(* memory_link.  define: the call carries a description and verb forms. *)

MayUse(r, define) == r \in known \/ define

LinkNodes(s, t, r, define, m, c) ==
    /\ MayUse(r, define)
    /\ \E x \in FindAny(nodes, s), y \in FindAny(nodes, t), i \in FreshLink(links) :
        links' = CreateLink(links, i, x.iri, y.iri, r, m, c)
    /\ known' = known \cup {r}
    /\ now' = c.from
    /\ UNCHANGED nodes

\* The relation is declared before the endpoints are looked up.
LinkUnresolved(s, t, r) ==
    /\ FindAny(nodes, s) = {} \/ FindAny(nodes, t) = {}
    /\ known' = known \cup {r}
    /\ UNCHANGED <<nodes, links, now>>

\* A malformed metadata key raises after the closure and after the edge's own
\* quads were written.
InterruptedLink(s, t, r, define, m, c) ==
    /\ MayUse(r, define)
    /\ \E x \in FindAny(nodes, s), y \in FindAny(nodes, t), i \in FreshLink(links) :
        /\ FindOpen(links, x.iri, y.iri, r) = {}
        /\ \E l \in HalfLinks(i, x.iri, y.iri, r, m, c) :
            links' = Cleared(links, x.iri, y.iri, r, c.closed) \cup {l}
    /\ known' = known \cup {r}
    /\ now' = c.from
    /\ UNCHANGED nodes

-----------------------------------------------------------------------------
(* memory_unlink *)

Unlink(s, t, r, kind) ==
    /\ \E x \in FindAny(nodes, s), y \in FindAny(nodes, t) :
        \E l \in FindOpen(links, x.iri, y.iri, r) :
            links' = CloseLink(links, l, kind, now)
    /\ UNCHANGED <<nodes, known, now>>

\* mode remove deletes any one matching edge, open or closed.
RemoveLink(s, t, r) ==
    /\ \E x \in FindAny(nodes, s), y \in FindAny(nodes, t) :
        \E l \in {k \in links : SameEnds(k, x.iri, y.iri, r)} :
            links' = links \ {l}
    /\ UNCHANGED <<nodes, known, now>>

-----------------------------------------------------------------------------

Tick ==
    /\ now < MaxTime
    /\ now' = now + 1
    /\ UNCHANGED <<nodes, links, known>>

Store ==
    \/ \E n \in ResourceName, force \in BOOLEAN :
        CreateResource(n, force) \/ InterruptedCreate(n, force)
    \/ \E l \in Label : StoreConcept(l)

Rename ==
    \/ \E old, new \in ResourceName : RenameResource(old, new)
    \/ \E old, new \in Label : RenameConcept(old, new)

LinkCall ==
    \E s, t \in AnyName, r \in Relation :
        \/ \E define \in BOOLEAN, m \in Calls, c \in ClockReads(now, MaxTime) :
            \/ LinkNodes(s, t, r, define, m, c)
            \/ InterruptedLink(s, t, r, define, m, c)
        \/ LinkUnresolved(s, t, r)

UnlinkCall ==
    \E s, t \in AnyName, r \in Relation :
        \/ \E kind \in Kind : Unlink(s, t, r, kind)
        \/ RemoveLink(s, t, r)

Next ==
    \/ Store
    \/ Rename
    \/ \E n \in ResourceName : Forget(n)
    \/ LinkCall
    \/ UnlinkCall
    \/ Tick

Spec == Init /\ [][Next]_vars

-----------------------------------------------------------------------------
(* Type correctness: what the four variables range over. *)
TypeOK ==
    /\ nodes \subseteq Node
    /\ links \subseteq Link
    /\ known \subseteq Relation
    /\ now \in Time

SameIdentity(x, y) ==
    \/ x.name \in ResourceName /\ x.name = y.name
    \/ x.name \in Label /\ y.name \in Label /\ Fold[x.name] = Fold[y.name]

\* A name is an identity: the upserts of handle_resource and handle_concept and
\* the collision check of memory_rename leave no two live resources with one
\* name and no two concepts whose labels differ only in case or spacing, so
\* the LIMIT 1 of every lookup has one row to take.
NamesIdentify ==
    \A x, y \in nodes : x.live /\ y.live /\ SameIdentity(x, y) => x = y

\* An edge never dangles and never names a relation the schema does not
\* declare, and as long as an endpoint is not forgotten it is found under the
\* name it has now, renames and half-made nodes included.
EdgesResolve ==
    \A l \in links :
        /\ l.relation \in known
        /\ \A e \in {l.source, l.target} :
            \E x \in nodes :
                /\ x.iri = e
                /\ x.live => FindAny(nodes, x.name) = {x}

\* The contradiction closure of create_link: a source has at most one open edge
\* of a single-valued relation, whatever calls failed half way.  (The relation is
\* the call's: metadata naming a second one, linkRelation, is left out.)
OneCurrentTarget ==
    \A l, k \in links :
        /\ Open(l) /\ Open(k)
        /\ l.source = k.source /\ l.relation = k.relation
        /\ l.relation \in SingleValued
        => l = k

\* create_link is idempotent on open edges: one pair of nodes never has two
\* open edges of one relation.
NoTwinEdges ==
    \A l, k \in links :
        Open(l) /\ Open(k) /\ SameEnds(l, k.source, k.target, k.relation) => l = k

\* The bounds and the kind of an edge as a reader of its quads finds them.
Untils(l) == {l.until, l.said.until} \ {Never}
Invalidations(l) == {l.invalidated, l.said.invalidated} \ {Never}
Kinds(l) == {l.kind, l.said.kind} \ {NoKind}

\* The caller gave valid-time keys at most, none of those that are the store's.
StoreKeysUnsaid(l) ==
    l.said.created = Never /\ l.said.invalidated = Never /\ l.said.kind = NoKind

\* The two clocks agree with the kind of the invalidation (docs/GLOSSARY.md): a
\* correction never bounds the world clock, a world change bounds both at one
\* instant between the edge's recording and now, and an edge without a kind was
\* never revised.  Of what the store wrote this holds for every edge, and one the
\* caller wrote closed is never revised; of what a reader finds it holds unless the
\* caller wrote linkCreatedAt, linkInvalidatedAt or invalidationKind, which
\* create_link's loop lets through.
ClocksAgree ==
    \A l \in links :
        /\ l.created <= now
        /\ l.kind = "correction" => l.until = Never /\ l.invalidated # Never
        /\ l.kind = "worldChange" =>
            l.until = l.invalidated /\ l.until \in l.created .. now
        /\ l.kind = NoKind => l.until = Never /\ l.invalidated = Never
        /\ BornClosed(l) => l.kind = NoKind
        /\ StoreKeysUnsaid(l) =>
            \/ Kinds(l) = {} /\ Invalidations(l) = {}
            \/ Kinds(l) = {"correction"} /\ Untils(l) = {} /\ Invalidations(l) # {}
            \/ /\ Kinds(l) = {"worldChange"}
               /\ \E t \in l.created .. now : Untils(l) = {t} /\ Invalidations(l) = {t}

-----------------------------------------------------------------------------
(* Action properties *)

HardDelete == \E s, t \in AnyName, r \in Relation : RemoveLink(s, t, r)

\* Facts get bounded, never lost: a step leaves an edge as it is, bounds it if
\* it was open, at an instant of the step, or is a memory_unlink in mode remove.
\* No step reopens an edge or moves the bounds of a closed one.
OnlyBounded ==
    [][ \A l \in links :
            \/ l \in links'
            \/ /\ Open(l)
               /\ \E t \in now .. now' : {WorldChanged(l, t), Corrected(l, t)} \cap links' # {}
            \/ HardDelete ]_vars

-----------------------------------------------------------------------------
(* Point-in-time reads *)

\* Edges stamped by the store alone: no metadata set a bound of theirs.
StampedByStore(l) ==
    l.said.from = Never /\ l.said.until = Never /\ l.said.invalidated = Never

Overlap(l, k) ==
    /\ l.until = Never \/ k.from < l.until
    /\ k.until = Never \/ l.from < k.until

Rivals(l, k) ==
    /\ l # k /\ l.source = k.source /\ l.relation = k.relation
    /\ l.relation \in SingleValued
    /\ l.kind # "correction" /\ k.kind # "correction"
    /\ Never \notin {l.from, k.from}

\* A point-in-time question about a single-valued relation has one answer: the
\* valid times of two uncorrected edges never overlap, as long as the store
\* stamped both.  Closing one edge and stamping its successor happen in one
\* call that reads the clock three times: no instant has two.
OneAnswerAtEveryInstant ==
    \A l, k \in links :
        Rivals(l, k) /\ StampedByStore(l) /\ StampedByStore(k) => ~Overlap(l, k)

\* memory_unlink ends a relationship (tools/__init__.py): after a hard delete
\* no open edge of that relation joins the two nodes.
RemoveEnds ==
    [][ \A s, t \in AnyName, r \in Relation :
            RemoveLink(s, t, r) =>
                \A x \in FindAny(nodes, s), y \in FindAny(nodes, t) :
                    FindOpen(links', x.iri, y.iri, r) = {} ]_vars

-----------------------------------------------------------------------------
(* The edges of the single-valued relations as a register file *)

FactOf(l) == [subject |-> l.source, slot |-> l.relation, value |-> l.target]

Single == {l \in links : l.relation \in SingleValued}
PresentFacts == {FactOf(l) : l \in {k \in Single : Open(k)}}
PastFacts == {FactOf(l) : l \in {k \in Single : Untils(k) # {}}}

Facts == INSTANCE CurrentFacts WITH
    Subject <- Iri, Slot <- SingleValued, Value <- Iri,
    current <- PresentFacts, past <- PastFacts

\* Every tool call, one that fails half way included, is one step of the
\* register file on the single-valued edges, or none.
FactsImplemented == Facts!FactSpec
=============================================================================
