------------------------------ MODULE Lexicon ------------------------------
(***************************************************************************)
(* The phrasings by which questions name relations: kept in the schema     *)
(* graph (store.py valid_relations, relation_lexicon, add_relation,        *)
(* amend_relation), seeded from base.ttl, which a store under another      *)
(* version of it loads again on opening (_ensure_base_ontology).           *)
(***************************************************************************)
EXTENDS Naturals, FiniteSets

CONSTANTS
    OwnRelations,   \* relations calls may add; a later base.ttl may adopt one
    Form,
    BaseForms,      \* what each version of base.ttl holds: pairs <<relation, form>>
    MaxAmends       \* bound of the checked instance

ASSUME LexiconAssumption == 1 \in DOMAIN BaseForms

VARIABLES
    forms,          \* pairs <<relation, form>>
    added,          \* relations with a definedAt: defined by a call
    version,        \* of the base.ttl loaded last
    amends,
    gone            \* observer: what was removed and not given back by a call

lexicon == <<forms, added, version, amends, gone>>

BaseRelations == {p[1] : p \in UNION {BaseForms[v] : v \in DOMAIN BaseForms}}
FormsOf(r, fs) == {<<r, f>> : f \in fs}

LexiconInit ==
    /\ version = 1
    /\ forms = BaseForms[version]
    /\ added = {} /\ amends = 0 /\ gone = {}

\* valid_relations: a relation stays one without any phrasing.
Valid == added \cup {p[1] : p \in forms}

\* memory_link with a new relation's description and verb forms.
AddRelation(r, fs) ==
    /\ r \notin Valid /\ fs # {} /\ amends < MaxAmends
    /\ forms' = forms \cup FormsOf(r, fs)
    /\ added' = added \cup {r}
    /\ gone' = gone \ FormsOf(r, fs)
    /\ amends' = amends + 1
    /\ UNCHANGED version

\* "a form removed from the store would silently resurrect"
RemovableAny(r) == TRUE
Removable(r) == r \in added

AmendRelation(r, adds, removes) ==
    /\ r \in Valid /\ adds \cup removes # {} /\ amends < MaxAmends
    /\ removes # {} => Removable(r)
    /\ forms' = (forms \ FormsOf(r, removes)) \cup FormsOf(r, adds)
    /\ gone' = (gone \cup FormsOf(r, removes)) \ FormsOf(r, adds)
    /\ amends' = amends + 1
    /\ UNCHANGED <<added, version>>

\* Opening the store under another base.ttl: loading adds to what is there, and a
\* relation it adopts keeps its definedAt.
LoadBase(v) ==
    /\ v # version
    /\ forms' = forms \cup BaseForms[v]
    /\ version' = v
    /\ UNCHANGED <<added, amends, gone>>

LexiconNext ==
    \/ \E r \in OwnRelations, fs \in SUBSET Form : AddRelation(r, fs)
    \/ \E r \in OwnRelations \cup BaseRelations, adds, removes \in SUBSET Form :
            AmendRelation(r, adds, removes)
    \/ \E v \in DOMAIN BaseForms : LoadBase(v)

LexiconSpec == LexiconInit /\ [][LexiconNext]_lexicon

\* A phrasing taken away answers no question again until a call gives it back: "a
\* base-ontology form removed from the store would silently resurrect on the next
\* base.ttl version bump" (store.py:466).  But for one case, which store.py:126 rules
\* out ("never touches LLM-added relations") and the code does not: a base.ttl that
\* adopts a relation a call had added brings back what it holds of it.
RemovedStaysRemoved ==
    [][ \A p \in gone \cap gone' :
            p \in forms' \ forms =>
                p[1] \in added /\ version' # version /\ p \in BaseForms[version'] ]_lexicon

=============================================================================
