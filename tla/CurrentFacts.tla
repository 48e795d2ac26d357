---------------------------- MODULE CurrentFacts ----------------------------
(***************************************************************************)
(* What the single-valued relations promise their readers: a subject's     *)
(* slot holds at most one current value, asserting another moves the old   *)
(* one to the past, and a value leaves the past only by a hard delete.     *)
(* The edges of MemoryGraph implement it.                                  *)
(***************************************************************************)
CONSTANTS Subject, Slot, Value

VARIABLES current, past

factVars == <<current, past>>

Fact == [subject : Subject, slot : Slot, value : Value]

About(f) == {g \in current : g.subject = f.subject /\ g.slot = f.slot}

FactInit == current = {} /\ past = {}

\* f becomes the current value of its slot.
Assert(f) ==
    /\ current' = (current \ About(f)) \cup {f}
    /\ past' = past \cup (About(f) \ {f})

\* f is recorded as already over, or as never true, which empties its slot.
Record(f) ==
    /\ f \notin current
    /\ current' = current \ About(f)
    /\ past' \in {past \cup About(f) \cup {f}, past \cup About(f)}

\* f stopped being true.
End(f) ==
    /\ f \in current
    /\ current' = current \ {f}
    /\ past' = past \cup {f}

\* f never was true: it leaves the present and never joins the past.
Retract(f) ==
    /\ f \in current
    /\ current' = current \ {f}
    /\ UNCHANGED past

\* A hard delete takes one of the present and the past fact.
Delete(f) ==
    \/ Retract(f)
    \/ past' = past \ {f} /\ UNCHANGED current

FactNext == \E f \in Fact : Assert(f) \/ Record(f) \/ End(f) \/ Retract(f) \/ Delete(f)

FactSpec == FactInit /\ [][FactNext]_factVars
=============================================================================
