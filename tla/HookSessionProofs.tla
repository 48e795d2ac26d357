------------------------- MODULE HookSessionProofs -------------------------
(***************************************************************************)
(* Theorems about HookSession for any sessions, thresholds and numbers of  *)
(* prompts: reviews keep their distance as long as no call overlaps        *)
(* another, and while none fails either, a turn's inspections are counted  *)
(* once and a session that does not write its log is held at every stop.   *)
(* The invariant says that the one call under way carries the state as it  *)
(* is, what has been counted where each turn is, and when a write of the   *)
(* session's own can still be unseen.                                      *)
(***************************************************************************)
EXTENDS HookSession, TLAPS

-----------------------------------------------------------------------------
(* One call at a time *)

Exclusive == \A c, d \in calls : c = d

\* The day of the last review is the one the next call is given.
ReviewsNoted ==
    /\ day \in Int /\ global \in Int
    /\ global = reviews.last /\ ~reviews.soon
    /\ reviews = [last |-> reviews.last, soon |-> reviews.soon]
    /\ \A c \in calls : c.global = global

ReviewInv == "overlap" \notin troubles => Exclusive /\ ReviewsNoted

\* A call is made when no other is under way, and carries the state as it is.
LEMMA CallsAlone ==
    ASSUME NEW s \in Session, NEW event, NEW payload, MayCall(s), "overlap" \notin troubles,
           Call(s, event, payload)
    PROVE  /\ calls = {}
           /\ calls' = {[session |-> s, event |-> event, payload |-> payload,
                         core |-> core[s], ext |-> ext[s], global |-> global]}
  BY DEF MayCall, Call

\* What a session does beside its calls leaves the calls and the reviews alone.
LEMMA ReviewInductive == ReviewInv /\ [Next]_vars => ReviewInv'
<1> SUFFICES ASSUME ReviewInv, [Next]_vars, "overlap" \notin troubles' PROVE (Exclusive /\ ReviewsNoted)'
  BY DEF ReviewInv
<1> USE DEF files, observed
<1>1. "overlap" \notin troubles
  BY DEF Next, vars, Prompt, Stop, Dig, Lookup, Compact, Write, Return, Failed, Retire, NextDay
<1>2. Exclusive /\ ReviewsNoted
  BY <1>1 DEF ReviewInv
<1>3. ASSUME NEW s \in Session, NEW event, NEW payload, MayCall(s), Call(s, event, payload),
             UNCHANGED <<global, day, reviews>>
      PROVE  (Exclusive /\ ReviewsNoted)'
  BY <1>1, <1>2, <1>3, CallsAlone DEF Exclusive, ReviewsNoted
<1>4. ASSUME UNCHANGED <<calls, global, day, reviews>>
      PROVE  (Exclusive /\ ReviewsNoted)'
  BY <1>2, <1>4 DEF Exclusive, ReviewsNoted
<1>5. ASSUME NEW c \in calls, Return(c)
      PROVE  (Exclusive /\ ReviewsNoted)'
  <2>1. c.global = global /\ calls' = {}
    BY <1>2, <1>5 DEF Exclusive, ReviewsNoted, Return
  <2>2. CASE c.event = "Stop" /\ ReviewDue(c)
    <3>1. global' = day /\ ~(day - reviews.last < REVIEW_EVERY)
      BY <1>2, <1>5, <2>1, <2>2, HookAssumption DEF Return, ReviewDue, ReviewsNoted
    <3> QED  BY <1>2, <1>5, <2>1, <2>2, <3>1 DEF Return, Exclusive, ReviewsNoted
  <2>3. CASE ~(c.event = "Stop" /\ ReviewDue(c))
    BY <1>2, <1>5, <2>1, <2>3 DEF Return, Exclusive, ReviewsNoted
  <2> QED  BY <2>2, <2>3
<1>6. ASSUME NEW c \in calls, Failed(c)
      PROVE  (Exclusive /\ ReviewsNoted)'
  BY <1>2, <1>6 DEF Failed, Exclusive, ReviewsNoted
<1>7. CASE Next
  <2>1. ASSUME NEW s \in Session, NEW b \in BOOLEAN, Prompt(s, b) \/ Stop(s, b)
        PROVE  (Exclusive /\ ReviewsNoted)'
    BY <1>3, <1>4, <2>1 DEF Prompt, Stop
  <2>2. ASSUME NEW s \in Session, Dig(s) \/ Lookup(s) \/ Compact(s) \/ Write(s)
        PROVE  (Exclusive /\ ReviewsNoted)'
    BY <1>3, <1>4, <2>2 DEF Dig, Lookup, Compact, Write
  <2>3. CASE Retire
    BY <1>4, <2>3 DEF Retire
  <2>4. CASE NextDay
    BY <1>2, <2>4 DEF NextDay, Exclusive, ReviewsNoted
  <2> QED  BY <1>5, <1>6, <1>7, <2>1, <2>2, <2>3, <2>4 DEF Next
<1>8. CASE UNCHANGED vars
  BY <1>4, <1>8 DEF vars
<1> QED
  BY <1>7, <1>8

\* "This fires at most once every REVIEW_EVERY_DAYS (cross-session state)" (review.py:18):
\* it does as long as no call overlaps another, whatever fails.
THEOREM ReviewsApartInTurnHolds == Spec => []ReviewsApartInTurn
<1>1. Init => ReviewInv
  BY HookAssumption DEF Init, ReviewInv, Exclusive, ReviewsNoted
<1>2. ReviewInv => ReviewsApartInTurn
  BY DEF ReviewInv, ReviewsNoted, ReviewsApartInTurn, ReviewsApart
<1> QED
  BY <1>1, <1>2, ReviewInductive, PTL DEF Spec

-----------------------------------------------------------------------------
(* Nothing overlaps and nothing fails *)

Event == {"UserPromptSubmit", "Lookup", "PreCompact", "Stop"}
During == [event \in Event |->
    CASE event = "UserPromptSubmit" -> "prompted" [] event = "Lookup" -> "working"
      [] event = "PreCompact" -> "compacting" [] event = "Stop" -> "stopping"]

Shapes ==
    /\ core \in [Session -> [prompts : Nat, significant : Nat]]
    /\ ext \in [Session -> [last : Nat, written : Nat, digTurn : Nat, digs : Nat,
                            nagged : BOOLEAN, reviewed : BOOLEAN]]
    /\ phase \in [Session -> {"idle", "prompted", "working", "compacting", "stopping"}]
    /\ active \in [Session -> BOOLEAN] /\ alone \in [Session -> BOOLEAN]
    /\ behind \in [Session -> Nat] /\ dug \in [Session -> Nat]
    /\ mtime \in Nat /\ writes \in Nat

\* The one call carries its session's state as it is, in the phase that made it, though
\* a stop that follows a block does not wait for a lookup.
Carries ==
    /\ Exclusive
    /\ \A c \in calls :
        /\ c.session \in Session /\ c.event \in Event /\ c.payload \in BOOLEAN
        /\ c.core = core[c.session] /\ c.ext = ext[c.session]
        /\ c.event # "Lookup" => phase[c.session] = During[c.event]

\* What has been inspected in the turn is what is counted for it.
DigsCounted ==
    \A s \in Session :
        /\ ext[s].digTurn <= core[s].prompts
        /\ phase[s] = "prompted" => dug[s] = 0
        /\ phase[s] \in {"working", "compacting", "stopping"} =>
            dug[s] = IF ext[s].digTurn = core[s].prompts THEN ext[s].digs ELSE 0

\* A session's own write is unseen until the stop of its turn, or of the one after.
Unseen(s) == mtime # 0 /\ mtime # ext[s].last
WritesSeen ==
    \A s \in Session : alone[s] /\ Unseen(s) =>
        behind[s] = 0 \/ (behind[s] = 1 /\ phase[s] # "idle" /\ ~active[s])

\* What a session owes is counted from its last write seen, which may hide one prompt;
\* the prompt under way is not counted yet.
Asking(s) ==
    \E c \in calls : c.session = s /\ c.event = "UserPromptSubmit" /\ c.payload
Owed(s) == core[s].significant - ext[s].written
OwedIsCounted ==
    \A s \in Session :
        /\ ext[s].written <= core[s].significant
        /\ alone[s] => \/ behind[s] <= Owed(s) + 1
                       \/ behind[s] <= Owed(s) + 2 /\ Asking(s)

Quiet == Shapes /\ Carries /\ DigsCounted /\ WritesSeen /\ OwedIsCounted
QuietInv == troubles = {} => Quiet

\* What one step may do to a call, in one place.
LEMMA AloneCall ==
    ASSUME Quiet, troubles = {}, NEW s \in Session, NEW event \in Event,
           NEW payload \in BOOLEAN, MayCall(s), Call(s, event, payload)
    PROVE  /\ calls = {}
           /\ calls' = {[session |-> s, event |-> event, payload |-> payload,
                         core |-> core[s], ext |-> ext[s], global |-> global]}
  BY CallsAlone DEF Quiet

LEMMA QuietPrompt ==
    ASSUME Quiet, troubles = {}, NEW s \in Session, NEW b \in BOOLEAN, Prompt(s, b)
    PROVE  Quiet'
<1>1. /\ calls = {}
      /\ calls' = {[session |-> s, event |-> "UserPromptSubmit", payload |-> b,
                    core |-> core[s], ext |-> ext[s], global |-> global]}
  BY AloneCall DEF Prompt, Event
<1>2. /\ phase[s] = "idle" /\ phase' = [phase EXCEPT ![s] = "prompted"]
      /\ active' = [active EXCEPT ![s] = FALSE]
      /\ behind' = [behind EXCEPT ![s] = IF b /\ behind[s] <= N_TURNS THEN behind[s] + 1 ELSE behind[s]]
      /\ dug' = [dug EXCEPT ![s] = 0]
      /\ UNCHANGED <<core, ext, mtime, writes, alone>>
  BY DEF Prompt, files
<1>3. Shapes'
  BY <1>2, HookAssumption DEF Quiet, Shapes
<1>4. Carries'
  BY <1>1, <1>2 DEF Quiet, Shapes, Carries, Exclusive, During, Event
<1>5. DigsCounted'
  BY <1>2 DEF Quiet, Shapes, DigsCounted
<1>6. WritesSeen'
  <2> SUFFICES ASSUME NEW t \in Session, alone[t], Unseen(t)
               PROVE  behind'[t] = 0 \/ (behind'[t] = 1 /\ phase'[t] # "idle" /\ ~active'[t])
    BY <1>2 DEF WritesSeen, Unseen
  <2>1. CASE t = s
    BY <1>2, <2>1, HookAssumption DEF Quiet, Shapes, WritesSeen
  <2>2. CASE t # s
    BY <1>2, <2>2 DEF Quiet, Shapes, WritesSeen
  <2> QED  BY <2>1, <2>2
<1>7. OwedIsCounted'
  <2> SUFFICES ASSUME NEW t \in Session
               PROVE  /\ ext[t].written <= core[t].significant
                      /\ alone[t] => \/ behind'[t] <= Owed(t) + 1
                                     \/ behind'[t] <= Owed(t) + 2 /\ Asking(t)'
    BY <1>2 DEF OwedIsCounted, Owed
  <2>1. /\ ext[t].written <= core[t].significant
        /\ alone[t] => behind[t] <= Owed(t) + 1
    BY <1>1 DEF Quiet, OwedIsCounted, Asking
  <2>2. Owed(t) \in Int /\ behind[t] \in Nat
    BY DEF Quiet, Shapes, Owed
  <2>3. CASE t = s /\ b
    <3>1. Asking(t)'
      BY <1>1, <2>3 DEF Asking
    <3>2. behind'[t] <= behind[t] + 1
      BY <1>2, <2>2, <2>3 DEF Quiet, Shapes
    <3> QED  BY <2>1, <2>2, <2>3, <3>1, <3>2 , <1>2 DEF Quiet, Shapes
  <2>4. CASE ~(t = s /\ b)
    <3>1. behind'[t] = behind[t]
      BY <1>2, <2>4 DEF Quiet, Shapes
    <3> QED  BY <2>1, <3>1
  <2> QED  BY <2>3, <2>4
<1> QED
  BY <1>3, <1>4, <1>5, <1>6, <1>7 DEF Quiet

\* A call made in the middle of a turn, or none, changes nothing but the phase.
LEMMA QuietAsked ==
    ASSUME Quiet, troubles = {}, NEW s \in Session, NEW event \in Event,
           NEW payload \in BOOLEAN, NEW at,
           event # "UserPromptSubmit", at = During[event],
           MayCall(s), Call(s, event, payload),
           phase[s] = "working", phase' = [phase EXCEPT ![s] = at],
           UNCHANGED <<core, ext, active, files, observed>>
    PROVE  Quiet'
<1>1. /\ calls = {}
      /\ calls' = {[session |-> s, event |-> event, payload |-> payload,
                    core |-> core[s], ext |-> ext[s], global |-> global]}
  BY AloneCall
<1>2. at \in {"working", "compacting", "stopping"}
  BY DEF During, Event
<1>3. UNCHANGED <<core, ext, active, mtime, writes, behind, alone, dug>>
  BY DEF files, observed
<1>4. Shapes'
  BY <1>2, <1>3 DEF Quiet, Shapes
<1>5. Carries'
  BY <1>1, <1>3 DEF Quiet, Shapes, Carries, Exclusive
<1>6. DigsCounted'
  BY <1>2, <1>3 DEF Quiet, Shapes, DigsCounted
<1>7. WritesSeen'
  BY <1>2, <1>3 DEF Quiet, Shapes, WritesSeen, Unseen
<1>8. OwedIsCounted'
  BY <1>1, <1>3 DEF Quiet, OwedIsCounted, Owed, Asking
<1> QED
  BY <1>4, <1>5, <1>6, <1>7, <1>8 DEF Quiet

LEMMA QuietStop ==
    ASSUME Quiet, troubles = {}, NEW s \in Session, NEW b \in BOOLEAN, Stop(s, b)
    PROVE  Quiet'
<1>1. CASE ~active[s]
  BY <1>1, QuietAsked DEF Stop, Event, During
<1>2. CASE active[s]
  <2>1. /\ phase[s] = "working" /\ phase' = [phase EXCEPT ![s] = "idle"]
        /\ UNCHANGED <<calls, core, ext, active, mtime, writes, behind, alone, dug>>
    BY <1>2 DEF Stop, files, observed
  <2>2. Shapes'
    BY <2>1 DEF Quiet, Shapes
  <2>3. Carries'
    <3>1. \A c \in calls : c.session = s => c.event = "Lookup"
      BY <2>1 DEF Quiet, Carries, During, Event
    <3> QED  BY <2>1, <3>1 DEF Quiet, Shapes, Carries, Exclusive
  <2>4. DigsCounted'
    BY <2>1 DEF Quiet, Shapes, DigsCounted
  <2>5. WritesSeen'
    BY <1>2, <2>1 DEF Quiet, Shapes, WritesSeen, Unseen
  <2>6. OwedIsCounted'
    BY <2>1 DEF Quiet, OwedIsCounted, Owed, Asking
  <2> QED  BY <2>2, <2>3, <2>4, <2>5, <2>6 DEF Quiet
<1> QED
  BY <1>1, <1>2 DEF Quiet, Shapes

LEMMA QuietDig ==
    ASSUME Quiet, troubles = {}, NEW s \in Session, Dig(s)
    PROVE  Quiet'
<1>1. /\ phase[s] = "working" /\ calls = {}
      /\ ext' = [ext EXCEPT ![s] = Counted(core[s], ext[s])]
      /\ dug' = [dug EXCEPT ![s] = dug[s] + 1]
      /\ UNCHANGED <<calls, core, phase, active, mtime, writes, behind, alone>>
  BY DEF Dig, files
<1>2. ext[s] \in [last : Nat, written : Nat, digTurn : Nat, digs : Nat,
                  nagged : BOOLEAN, reviewed : BOOLEAN]
  BY DEF Quiet, Shapes
<1>3. core[s].prompts \in Nat
  BY DEF Quiet, Shapes
<1>4. PICK x : x = Counted(core[s], ext[s])
  OBVIOUS
<1>5. /\ x.last = ext[s].last /\ x.written = ext[s].written
      /\ x.nagged = ext[s].nagged /\ x.reviewed = ext[s].reviewed
  BY <1>2, <1>4 DEF Counted
<1>6. /\ x.digTurn = core[s].prompts
      /\ x.digs = IF ext[s].digTurn = core[s].prompts THEN ext[s].digs + 1 ELSE 1
  BY <1>2, <1>4 DEF Counted
<1>7. x \in [last : Nat, written : Nat, digTurn : Nat, digs : Nat,
             nagged : BOOLEAN, reviewed : BOOLEAN]
  <2> DEFINE turned == [ext[s] EXCEPT !.digTurn = core[s].prompts]
             digs == IF ext[s].digTurn = core[s].prompts THEN ext[s].digs + 1 ELSE 1
  <2>1. turned \in [last : Nat, written : Nat, digTurn : Nat, digs : Nat,
                    nagged : BOOLEAN, reviewed : BOOLEAN]
    BY <1>2, <1>3
  <2>2. digs \in Nat
    BY <1>2
  <2>3. x = [turned EXCEPT !.digs = digs]
    BY <1>4 DEF Counted
  <2> HIDE DEF turned, digs
  <2> QED  BY <2>1, <2>2, <2>3
<1>8. \A t \in Session : ext'[t] = IF t = s THEN x ELSE ext[t]
  BY <1>1, <1>4 DEF Quiet, Shapes
<1>9. Shapes'
  BY <1>1, <1>4, <1>7 DEF Quiet, Shapes
<1>10. Carries'
  BY <1>1 DEF Carries, Exclusive
<1>11. DigsCounted'
  <2> SUFFICES ASSUME NEW t \in Session
               PROVE  /\ ext'[t].digTurn <= core[t].prompts
                      /\ phase[t] = "prompted" => dug'[t] = 0
                      /\ phase[t] \in {"working", "compacting", "stopping"} =>
                          dug'[t] = IF ext'[t].digTurn = core[t].prompts THEN ext'[t].digs ELSE 0
    BY <1>1 DEF DigsCounted
  <2>1. CASE t = s
    BY <1>1, <1>3, <1>6, <1>8, <2>1 DEF Quiet, Shapes, DigsCounted
  <2>2. CASE t # s
    BY <1>1, <1>8, <2>2 DEF Quiet, Shapes, DigsCounted
  <2> QED  BY <2>1, <2>2
<1>12. WritesSeen'
  BY <1>1, <1>5, <1>8 DEF Quiet, WritesSeen, Unseen
<1>13. OwedIsCounted'
  BY <1>1, <1>5, <1>8 DEF Quiet, OwedIsCounted, Owed, Asking
<1> QED
  BY <1>9, <1>10, <1>11, <1>12, <1>13 DEF Quiet

LEMMA QuietWrite ==
    ASSUME Quiet, troubles = {}, NEW s \in Session, Write(s)
    PROVE  Quiet'
<1>1. /\ mtime' = Later /\ writes' = writes + 1
      /\ behind' = [behind EXCEPT ![s] = 0]
      /\ alone' = [t \in Session |-> t = s]
      /\ UNCHANGED <<calls, core, ext, phase, active, dug>>
  BY DEF Write
<1>2. Shapes'
  BY <1>1 DEF Quiet, Shapes, Later
<1>3. Carries' /\ DigsCounted'
  BY <1>1 DEF Quiet, Carries, Exclusive, DigsCounted
<1>4. WritesSeen'
  BY <1>1 DEF Quiet, Shapes, WritesSeen, Unseen
<1>5. OwedIsCounted'
  BY <1>1 DEF Quiet, Shapes, OwedIsCounted, Owed, Asking
<1> QED
  BY <1>2, <1>3, <1>4, <1>5 DEF Quiet

LEMMA QuietElsewhere ==
    ASSUME Quiet, troubles = {}, Retire \/ NextDay \/ UNCHANGED vars
    PROVE  Quiet'
<1>1. CASE Retire
  <2>1. /\ alone' = [t \in Session |-> FALSE] /\ writes' = writes + 1
        /\ mtime' \in {0, Later}
        /\ UNCHANGED <<calls, core, ext, phase, active, behind, dug>>
    BY <1>1 DEF Retire
  <2>2. Shapes'
    BY <2>1 DEF Quiet, Shapes, Later
  <2> QED  BY <2>1, <2>2 DEF Quiet, Shapes, Carries, Exclusive, DigsCounted, WritesSeen,
                             Unseen, OwedIsCounted, Owed, Asking
<1>2. CASE NextDay \/ UNCHANGED vars
  BY <1>2 DEF NextDay, vars, files, observed, Quiet, Shapes, Carries, Exclusive, DigsCounted,
              WritesSeen, Unseen, OwedIsCounted, Owed, Asking
<1> QED
  BY <1>1, <1>2

\* What Python gives back of the extensions' state.
ExtShape == [last : Nat, written : Nat, digTurn : Nat, digs : Nat,
             nagged : BOOLEAN, reviewed : BOOLEAN]

LEMMA RememberedIs ==
    ASSUME Shapes, NEW c, c.ext \in ExtShape, c.core.significant \in Nat
    PROVE  /\ Remembered(c) \in ExtShape
           /\ Remembered(c).written = IF Wrote(c.ext) THEN c.core.significant ELSE c.ext.written
           /\ Remembered(c).last = IF Wrote(c.ext) THEN mtime
                                   ELSE IF Stamps(c) THEN Later ELSE c.ext.last
           /\ Remembered(c).digTurn = c.ext.digTurn
           /\ Remembered(c).digs = c.ext.digs
<1> DEFINE written == IF Wrote(c.ext) THEN c.core.significant ELSE c.ext.written
           last == IF Wrote(c.ext) THEN mtime ELSE IF Stamps(c) THEN Later ELSE c.ext.last
           nagged == c.ext.nagged \/ Nag(c)
           reviewed == c.ext.reviewed \/ ReviewDue(c)
           x1 == [c.ext EXCEPT !.nagged = nagged]
           x2 == [x1 EXCEPT !.written = written]
           x3 == [x2 EXCEPT !.last = last]
           x4 == [x3 EXCEPT !.reviewed = reviewed]
<1>1. Remembered(c) = x4
  BY DEF Remembered
<1>2. written \in Nat /\ last \in Nat
  BY DEF Shapes, ExtShape, Later
<1>3. nagged \in BOOLEAN /\ reviewed \in BOOLEAN
  BY DEF Nag, ReviewDue
<1> HIDE DEF written, last, nagged, reviewed
<1>4. x1 \in ExtShape /\ x1.digTurn = c.ext.digTurn /\ x1.digs = c.ext.digs
  BY <1>3 DEF ExtShape
<1> HIDE DEF x1
<1>5. /\ x2 \in ExtShape /\ x2.written = written
      /\ x2.digTurn = x1.digTurn /\ x2.digs = x1.digs
  BY <1>2, <1>4 DEF ExtShape
<1> HIDE DEF x2
<1>6. /\ x3 \in ExtShape /\ x3.written = x2.written /\ x3.last = last
      /\ x3.digTurn = x2.digTurn /\ x3.digs = x2.digs
  BY <1>2, <1>5 DEF ExtShape
<1> HIDE DEF x3
<1>7. /\ x4 \in ExtShape /\ x4.written = x3.written /\ x4.last = x3.last
      /\ x4.digTurn = x3.digTurn /\ x4.digs = x3.digs
  BY <1>3, <1>6 DEF ExtShape
<1> HIDE DEF x4
<1>8. x4.written = written /\ x4.last = last
  BY <1>5, <1>6, <1>7
<1> QED
  BY <1>1, <1>4, <1>5, <1>6, <1>7, <1>8 DEF written, last

\* What a call that returns leaves of its session, whatever the call was.
LEMMA ResultIs ==
    ASSUME Quiet, NEW c \in calls
    PROVE  /\ Result(c) \in ExtShape
           /\ Result(c).digTurn = c.ext.digTurn /\ Result(c).digs = c.ext.digs
           /\ Result(c).written = IF c.event = "Stop" /\ Wrote(c.ext)
                                  THEN c.core.significant ELSE c.ext.written
           /\ Result(c).last = IF c.event = "Stop" /\ Wrote(c.ext) THEN mtime
                               ELSE IF Stamps(c) THEN Later ELSE c.ext.last
<1>1. /\ c.ext \in ExtShape /\ c.core.significant \in Nat
      /\ c.event \in Event
  BY DEF Quiet, Shapes, Carries, ExtShape
<1>2. CASE c.event = "Stop"
  BY <1>1, <1>2, RememberedIs DEF Quiet, Result
<1>3. CASE c.event = "PreCompact" /\ Stamps(c)
  <2>1. Result(c) = [c.ext EXCEPT !.last = Later]
    BY <1>3 DEF Result
  <2>2. Later \in Nat
    BY DEF Quiet, Shapes, Later
  <2> QED  BY <1>1, <1>3, <2>1, <2>2 DEF ExtShape
<1>4. CASE c.event # "Stop" /\ ~(c.event = "PreCompact" /\ Stamps(c))
  <2>1. Result(c) = c.ext /\ ~Stamps(c)
    BY <1>4 DEF Result, Stamps
  <2> QED  BY <1>1, <1>4, <2>1
<1> QED
  BY <1>2, <1>3, <1>4

LEMMA AdvancedIs ==
    ASSUME Quiet, NEW c \in calls
    PROVE  /\ Advanced(c) \in [prompts : Nat, significant : Nat]
           /\ c.event # "UserPromptSubmit" => Advanced(c) = c.core
           /\ c.event = "UserPromptSubmit" =>
                /\ Advanced(c).prompts = c.core.prompts + 1
                /\ Advanced(c).significant = c.core.significant + IF c.payload THEN 1 ELSE 0
<1>1. c.core \in [prompts : Nat, significant : Nat]
  BY DEF Quiet, Shapes, Carries
<1> QED
  BY <1>1 DEF Advanced

LEMMA QuietReturn ==
    ASSUME Quiet, NEW c \in calls, Return(c)
    PROVE  Quiet'
<1> DEFINE s == c.session
<1>1. /\ s \in Session /\ c.event \in Event /\ c.payload \in BOOLEAN
      /\ c.core = core[s] /\ c.ext = ext[s]
      /\ c.event # "Lookup" => phase[s] = During[c.event]
  BY DEF Quiet, Carries
<1>2. calls' = {} /\ \A d \in calls : d = c
  BY DEF Quiet, Carries, Exclusive, Return
<1>3. /\ core' = [core EXCEPT ![s] = Advanced(c)]
      /\ ext' = [ext EXCEPT ![s] = Result(c)]
      /\ phase' = [phase EXCEPT ![s] = PhaseAfter(c, phase[s])]
      /\ UNCHANGED <<behind, dug>>
  BY DEF Return
<1>4. \A t \in Session : /\ core'[t] = IF t = s THEN Advanced(c) ELSE core[t]
                         /\ ext'[t] = IF t = s THEN Result(c) ELSE ext[t]
  BY <1>1, <1>3 DEF Quiet, Shapes
<1>5. active' = IF c.event = "Stop" THEN [active EXCEPT ![s] = Reasons(c) # {}] ELSE active
  BY DEF Return
<1>6. /\ Stamps(c) => /\ mtime' = Later /\ writes' = writes + 1
                      /\ alone' = [t \in Session |-> t = s /\ alone[t]]
      /\ ~Stamps(c) => UNCHANGED <<writes, mtime, alone>>
  BY DEF Return, Stamped
<1>7. /\ c.event # "Lookup" => PhaseAfter(c, phase[s]) \in {"idle", "working"}
      /\ c.event = "Lookup" => PhaseAfter(c, phase[s]) = phase[s]
      /\ c.event \in {"UserPromptSubmit", "PreCompact"} => PhaseAfter(c, phase[s]) = "working"
  BY <1>1 DEF PhaseAfter, Event
<1>8. Shapes'
  <2>1. core' \in [Session -> [prompts : Nat, significant : Nat]]
    BY <1>1, <1>3, AdvancedIs DEF Quiet, Shapes
  <2>2. ext' \in [Session -> ExtShape]
    BY <1>1, <1>3, ResultIs DEF Quiet, Shapes, ExtShape
  <2>3. phase' \in [Session -> {"idle", "prompted", "working", "compacting", "stopping"}]
    BY <1>1, <1>3, <1>7 DEF Quiet, Shapes
  <2>4. active' \in [Session -> BOOLEAN]
    BY <1>1, <1>5 DEF Quiet, Shapes
  <2>5. mtime' \in Nat /\ writes' \in Nat
    BY <1>6 DEF Quiet, Shapes, Later
  <2>6. alone' \in [Session -> BOOLEAN]
    BY <1>6, Zenon DEF Quiet, Shapes
  <2> QED  BY <1>3, <2>1, <2>2, <2>3, <2>4, <2>5, <2>6 DEF Quiet, Shapes, ExtShape
<1>9. Carries'
  BY <1>2 DEF Carries, Exclusive
<1>10. DigsCounted'
  <2> SUFFICES ASSUME NEW t \in Session
               PROVE  /\ ext'[t].digTurn <= core'[t].prompts
                      /\ phase'[t] = "prompted" => dug[t] = 0
                      /\ phase'[t] \in {"working", "compacting", "stopping"} =>
                          dug[t] = IF ext'[t].digTurn = core'[t].prompts THEN ext'[t].digs ELSE 0
    BY <1>3 DEF DigsCounted
  <2>1. CASE t # s
    BY <1>1, <1>3, <1>4, <2>1 DEF Quiet, Shapes, DigsCounted
  <2>2. CASE t = s /\ c.event = "UserPromptSubmit"
    <3>1. phase[s] = "prompted"
      BY <1>1, <2>2 DEF During, Event
    <3>2. /\ ext'[s].digTurn = ext[s].digTurn /\ core'[s].prompts = core[s].prompts + 1
      BY <1>1, <1>4, <2>2, ResultIs, AdvancedIs
    <3>3. ext[s].digTurn \in Nat /\ core[s].prompts \in Nat
      BY <1>1 DEF Quiet, Shapes
    <3>4. ext[s].digTurn <= core[s].prompts /\ dug[s] = 0
      BY <1>1, <3>1 DEF Quiet, DigsCounted
    <3>5. phase'[s] = "working"
      BY <1>1, <1>3, <1>7, <2>2 DEF Quiet, Shapes
    <3> QED  BY <2>2, <3>2, <3>3, <3>4, <3>5
  <2>3. CASE t = s /\ c.event # "UserPromptSubmit"
    <3>1. /\ ext'[s].digTurn = ext[s].digTurn /\ ext'[s].digs = ext[s].digs
          /\ core'[s] = core[s]
      BY <1>1, <1>4, <2>3, ResultIs, AdvancedIs
    <3>2. CASE c.event = "Lookup"
      BY <1>1, <1>3, <1>7, <2>3, <3>1, <3>2 DEF Quiet, Shapes, DigsCounted
    <3>3. CASE c.event # "Lookup"
      <4>1. phase[s] \in {"compacting", "stopping"}
        BY <1>1, <2>3, <3>3 DEF During, Event
      <4>2. phase'[s] \in {"idle", "working"}
        BY <1>1, <1>3, <1>7, <3>3 DEF Quiet, Shapes
      <4> QED  BY <1>1, <2>3, <3>1, <4>1, <4>2 DEF Quiet, DigsCounted
    <3> QED  BY <3>2, <3>3
  <2> QED  BY <2>1, <2>2, <2>3
<1>11. WritesSeen'
  <2> SUFFICES ASSUME NEW t \in Session, alone'[t], mtime' # 0, mtime' # ext'[t].last
               PROVE  behind[t] = 0 \/ (behind[t] = 1 /\ phase'[t] # "idle" /\ ~active'[t])
    BY <1>3 DEF WritesSeen, Unseen
  <2>1. alone[t] /\ (t # s => ~Stamps(c))
    BY <1>6
  <2>2. CASE t # s
    <3>1. mtime' = mtime /\ ext'[t] = ext[t] /\ phase'[t] = phase[t] /\ active'[t] = active[t]
      BY <1>1, <1>3, <1>4, <1>5, <1>6, <2>1, <2>2 DEF Quiet, Shapes
    <3> QED  BY <2>1, <3>1 DEF Quiet, WritesSeen, Unseen
  <2>3. CASE t = s
    <3>1. ~Stamps(c) /\ mtime' = mtime
      BY <1>1, <1>4, <1>6, <2>3, ResultIs DEF Wrote, Stamps
    <3>2. ~(c.event = "Stop" /\ Wrote(c.ext)) /\ ext'[s].last = ext[s].last
      BY <1>1, <1>4, <2>3, <3>1, ResultIs
    <3>3. Unseen(s) /\ c.event # "Stop"
      BY <1>1, <2>3, <3>1, <3>2 DEF Unseen, Wrote
    <3>4. active'[s] = active[s] /\ (phase[s] # "idle" => phase'[s] # "idle")
      BY <1>1, <1>3, <1>5, <1>7, <3>3 DEF Quiet, Shapes, Event
    <3> QED  BY <2>1, <2>3, <3>3, <3>4 DEF Quiet, WritesSeen
  <2> QED  BY <2>2, <2>3
<1>12. OwedIsCounted'
  <2> SUFFICES ASSUME NEW t \in Session
               PROVE  /\ ext'[t].written <= core'[t].significant
                      /\ alone'[t] => behind[t] <= core'[t].significant - ext'[t].written + 1
    BY <1>3 DEF OwedIsCounted, Owed
  <2>1. /\ ext[t].written \in Nat /\ core[t].significant \in Nat /\ behind[t] \in Nat
        /\ ext[t].written <= core[t].significant
        /\ alone[t] => \/ behind[t] <= core[t].significant - ext[t].written + 1
                       \/ behind[t] <= core[t].significant - ext[t].written + 2 /\ Asking(t)
    BY DEF Quiet, Shapes, OwedIsCounted, Owed
  <2>2. alone'[t] => alone[t]
    BY <1>6
  <2>3. Asking(t) => t = s /\ c.event = "UserPromptSubmit" /\ c.payload
    BY <1>2 DEF Asking
  <2>4. CASE t # s
    BY <1>4, <2>1, <2>2, <2>3, <2>4
  <2>5. CASE t = s /\ c.event = "UserPromptSubmit"
    <3>1. /\ ext'[s].written = ext[s].written
          /\ core'[s].significant = core[s].significant + IF c.payload THEN 1 ELSE 0
      BY <1>1, <1>4, <2>5, ResultIs, AdvancedIs
    <3>2. CASE c.payload
      BY <2>1, <2>2, <2>5, <3>1, <3>2
    <3>3. CASE ~c.payload
      BY <2>1, <2>2, <2>3, <2>5, <3>1, <3>3
    <3> QED  BY <3>2, <3>3
  <2>6. CASE t = s /\ c.event # "UserPromptSubmit"
    <3>1. core'[s] = core[s]
      BY <1>1, <1>4, <2>6, AdvancedIs
    <3>2. CASE c.event = "Stop" /\ Wrote(c.ext)
      <4>1. ext'[s].written = core[s].significant
        BY <1>1, <1>4, <3>2, ResultIs
      <4>2. alone[s] => behind[s] <= 1
        BY <1>1, <3>2 DEF Quiet, WritesSeen, Unseen, Wrote
      <4> QED  BY <2>1, <2>2, <2>6, <3>1, <4>1, <4>2
    <3>3. CASE ~(c.event = "Stop" /\ Wrote(c.ext))
      <4>1. ext'[s].written = ext[s].written
        BY <1>1, <1>4, <3>3, ResultIs
      <4> QED  BY <2>1, <2>2, <2>3, <2>6, <3>1, <4>1
    <3> QED  BY <3>2, <3>3
  <2> QED  BY <2>4, <2>5, <2>6
<1> QED
  BY <1>8, <1>9, <1>10, <1>11, <1>12 DEF Quiet

LEMMA QuietInductive == QuietInv /\ [Next]_vars => QuietInv'
<1> SUFFICES ASSUME QuietInv, [Next]_vars, troubles' = {} PROVE Quiet'
  BY DEF QuietInv
<1>1. troubles = {} /\ \A c \in calls : ~Failed(c)
  <2>1. \A c \in calls : ~Failed(c)
    BY DEF Failed
  <2> QED  BY <2>1 DEF Next, vars, Prompt, Stop, Dig, Lookup, Compact, Write, Return, Retire, NextDay
<1>2. Quiet
  BY <1>1 DEF QuietInv
<1>3. ASSUME NEW s \in Session, Lookup(s) \/ Compact(s)
      PROVE  Quiet'
  <2>1. CASE Lookup(s)
    <3>1. phase' = [phase EXCEPT ![s] = "working"]
      BY <1>2, <2>1 DEF Lookup, Quiet, Shapes
    <3> QED  BY <1>1, <1>2, <2>1, <3>1, QuietAsked DEF Lookup, Event, During
  <2>2. CASE Compact(s)
    BY <1>1, <1>2, <2>2, QuietAsked DEF Compact, Event, During
  <2> QED  BY <1>3, <2>1, <2>2
<1>4. ASSUME NEW s \in Session, NEW b \in BOOLEAN, Prompt(s, b) \/ Stop(s, b)
      PROVE  Quiet'
  BY <1>1, <1>2, <1>4, QuietPrompt, QuietStop
<1>5. ASSUME NEW s \in Session, Dig(s) \/ Write(s)
      PROVE  Quiet'
  BY <1>1, <1>2, <1>5, QuietDig, QuietWrite
<1>6. ASSUME NEW c \in calls, Return(c)
      PROVE  Quiet'
  BY <1>2, <1>6, QuietReturn
<1>7. CASE Retire \/ NextDay \/ UNCHANGED vars
  BY <1>1, <1>2, <1>7, QuietElsewhere
<1> QED
  BY <1>1, <1>3, <1>4, <1>5, <1>6, <1>7 DEF Next

LEMMA QuietAtFirst == Init => QuietInv
<1> SUFFICES ASSUME Init PROVE Quiet
  BY DEF QuietInv
<1>1. Shapes
  BY DEF Init, Shapes, NewExt
<1> QED
  BY <1>1 DEF Init, Quiet, NewExt, Carries, Exclusive, DigsCounted, WritesSeen, Unseen,
              OwedIsCounted, Owed, Asking

\* The mod and Python keep one count of a turn's inspections between them, though each
\* tests for itself whether the count is an earlier turn's (register.ts:262, nudge.py:157).
THEOREM DigsAgreeHolds == Spec => []DigsAgree
<1>1. QuietInv => DigsAgree
  BY DEF QuietInv, Quiet, DigsCounted, DigsAgree
<1> QED
  BY <1>1, QuietAtFirst, QuietInductive, PTL DEF Spec

\* A session that owes its log more than N_TURNS prompts is held at the stop of every
\* turn, whatever lookups, compactions and blocks came between (nudge.py:16-21).
LEMMA HeldThen ==
    ASSUME QuietInv, NEW c \in calls, troubles = {}, c.event = "Stop", Return(c),
           alone[c.session], behind[c.session] > N_TURNS
    PROVE  "context" \in Reasons(c) /\ active'[c.session]
<1> DEFINE s == c.session
<1>1. /\ s \in Session /\ c.core = core[s] /\ c.ext = ext[s]
      /\ \A d \in calls : d = c
      /\ ext[s].written \in Nat /\ core[s].significant \in Nat /\ behind[s] \in Nat
      /\ N_TURNS \in Nat \ {0}
  BY HookAssumption DEF QuietInv, Quiet, Shapes, Carries, Exclusive
<1>2. ~Wrote(c.ext)
  BY <1>1 DEF QuietInv, Quiet, WritesSeen, Unseen, Wrote
<1>3. CadenceDue(c)
  <2>1. behind[s] <= Owed(s) + 1
    BY <1>1 DEF QuietInv, Quiet, OwedIsCounted, Asking
  <2> QED  BY <1>1, <2>1 DEF CadenceDue, Overdue, Owed
<1>4. "context" \in Reasons(c)
  BY <1>2, <1>3 DEF Reasons
<1> QED
  BY <1>1, <1>4 DEF Return, QuietInv, Quiet, Shapes

THEOREM HeldUntilWrittenHolds == Spec => HeldUntilWritten
<1>1. QuietInv /\ [Next]_vars =>
        [\A c \in calls :
            /\ troubles = {} /\ c.event = "Stop" /\ Return(c)
            /\ alone[c.session] /\ behind[c.session] > N_TURNS
            => "context" \in Reasons(c) /\ active'[c.session]]_vars
  BY HeldThen
<1> QED
  BY <1>1, QuietAtFirst, QuietInductive, PTL DEF Spec, HeldUntilWritten

=============================================================================
