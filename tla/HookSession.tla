---------------------------- MODULE HookSession ----------------------------
(***************************************************************************)
(* What a session's hooks remember and when they hold a turn: the mod that *)
(* keeps the state and counts digs (hooks/register.ts), the Python call it *)
(* makes for an event (claude_memory_graph/hookrun.py, hookcore/state.py)  *)
(* and the two extensions that block a stop (gate/nudge.py,                *)
(* gate/review.py).                                                        *)
(*                                                                         *)
(* The mod reads the session's state and the global one, awaits Python and *)
(* stores both whole as they come back, so a call carries the state it was *)
(* made with.  Every session here works on one project.  Its context logs  *)
(* are abstracted to the modification time of the latest, unique and 0 for *)
(* none; a review always has findings; the recall extension has no part.   *)
(***************************************************************************)
EXTENDS Integers, FiniteSetsExt

CONSTANTS
    Session,
    TroubleSets,    \* which of "overlap" and "failure" a behaviour may meet
    N_TURNS, DIG_THRESHOLD, REVIEW_EVERY,
    Stale,          \* whether there are context files a distill left behind
    MaxPrompts, MaxDigs, MaxWrites, MaxDays     \* bounds of the checked instance

ASSUME HookAssumption ==
    /\ TroubleSets \subseteq SUBSET {"overlap", "failure"}
    /\ {N_TURNS, DIG_THRESHOLD, REVIEW_EVERY} \subseteq Nat \ {0}
    /\ Stale \in BOOLEAN

VARIABLES
    troubles,       \* what may go wrong in this behaviour: one failure at most
    core,           \* per session: prompts and significant prompts
    ext,            \* per session: what the extensions remember
    global,         \* the day of the last review, across sessions
    phase, active,  \* where each turn is; whether its stop follows a block
    calls,          \* Python calls under way
    mtime, writes,  \* the latest context log, and how often any was written
    day,
    behind,         \* observer: significant prompts since the session wrote its log
    alone,          \* observer: nobody else changed a log since then
    dug,            \* observer: the turn's file inspections
    reviews         \* observer: the last review asked for, and whether any came too soon

vars == <<troubles, core, ext, global, phase, active, calls, mtime, writes, day,
          behind, alone, dug, reviews>>
files == <<mtime, writes, day>>
observed == <<behind, alone, dug, reviews>>

\* A time no log has yet.
Later == writes + 2

NewExt == [last |-> 0, written |-> 0, digTurn |-> 0, digs |-> 0,
           nagged |-> FALSE, reviewed |-> FALSE]

Init ==
    /\ troubles \in TroubleSets
    /\ core = [s \in Session |-> [prompts |-> 0, significant |-> 0]]
    /\ ext = [s \in Session |-> NewExt]
    /\ global = 0 /\ day = REVIEW_EVERY
    /\ phase = [s \in Session |-> "idle"]
    /\ active = [s \in Session |-> FALSE]
    /\ calls = {}
    /\ mtime \in {0, 1} /\ writes = 0
    /\ behind = [s \in Session |-> 0]
    /\ alone = [s \in Session |-> mtime = 0]
    /\ dug = [s \in Session |-> 0]
    /\ reviews = [last |-> 0, soon |-> FALSE]

-----------------------------------------------------------------------------
\* The mod

MayCall(s) ==
    /\ \A c \in calls : c.session # s \/ c.event = "Lookup"
    /\ "overlap" \in troubles \/ calls = {}

Call(s, event, payload) ==
    calls' = calls \cup {[session |-> s, event |-> event, payload |-> payload,
                          core |-> core[s], ext |-> ext[s], global |-> global]}

Prompt(s, significant) ==
    /\ phase[s] = "idle" /\ MayCall(s)
    /\ MapThenSumSet(LAMBDA t : core[t].prompts, Session) < MaxPrompts
    /\ Call(s, "UserPromptSubmit", significant)
    /\ phase' = [phase EXCEPT ![s] = "prompted"]
    /\ active' = [active EXCEPT ![s] = FALSE]
    /\ behind' = [behind EXCEPT ![s] = IF significant /\ @ <= N_TURNS THEN @ + 1 ELSE @]
    /\ dug' = [dug EXCEPT ![s] = 0]
    /\ UNCHANGED <<troubles, core, ext, global, files, alone, reviews>>

\* tool.call for a Read, Grep, Glob or search-shaped Bash.
CountedOn(c, x) == [x EXCEPT !.digTurn = c.prompts, !.digs = @ + 1]
Counted(c, x) ==
    [x EXCEPT !.digTurn = c.prompts, !.digs = IF x.digTurn = c.prompts THEN @ + 1 ELSE 1]

Dig(s) ==
    /\ phase[s] = "working" /\ dug[s] < MaxDigs
    /\ "overlap" \in troubles \/ calls = {}
    /\ ext' = [ext EXCEPT ![s] = Counted(core[s], @)]
    /\ dug' = [dug EXCEPT ![s] = @ + 1]
    /\ UNCHANGED <<troubles, core, global, phase, active, calls, files, behind, alone,
                   reviews>>

\* tool.call for a memory lookup or memory_distill: Python returns the state as it was.
Lookup(s) ==
    /\ phase[s] = "working" /\ MayCall(s) /\ \A c \in calls : c.session # s
    /\ Call(s, "Lookup", FALSE)
    /\ UNCHANGED <<troubles, core, ext, global, phase, active, files, observed>>

Compact(s) ==
    /\ phase[s] = "working" /\ MayCall(s)
    /\ Call(s, "PreCompact", FALSE)
    /\ phase' = [phase EXCEPT ![s] = "compacting"]
    /\ UNCHANGED <<troubles, core, ext, global, active, files, observed>>

\* A stop that follows a block ends the turn without a call.
Stop(s, pressed) ==
    /\ phase[s] = "working"
    /\ IF active[s]
       THEN phase' = [phase EXCEPT ![s] = "idle"] /\ UNCHANGED calls
       ELSE /\ MayCall(s)
            /\ Call(s, "Stop", pressed)
            /\ phase' = [phase EXCEPT ![s] = "stopping"]
    /\ UNCHANGED <<troubles, core, ext, global, active, files, observed>>

-----------------------------------------------------------------------------
\* Python

\* advance_core, of the counters the extensions read.
Advanced(c) ==
    IF c.event # "UserPromptSubmit" THEN c.core
    ELSE [prompts |-> c.core.prompts + 1,
          significant |-> c.core.significant + IF c.payload THEN 1 ELSE 0]

Wrote(x) == mtime # 0 /\ mtime # x.last

\* What a stop finds due in the context-log cadence and in the turn's digs.
Overdue(c) == c.core.significant - c.ext.written
CadenceDue(c) == Overdue(c) >= N_TURNS \/ (c.payload /\ Overdue(c) >= 1)
DigDue(c) == c.ext.digTurn = c.core.prompts /\ c.ext.digs >= DIG_THRESHOLD
Nag(c) == Stale /\ ~c.ext.nagged
ReviewUnlessSession(c) == ~c.ext.reviewed
ReviewDue(c) == ~c.ext.reviewed /\ day - c.global >= REVIEW_EVERY

Reasons(c) ==
    (IF Nag(c) THEN {"distill"} ELSE {})
    \cup (IF ~Wrote(c.ext) /\ CadenceDue(c) THEN {"context"} ELSE {})
    \cup (IF ~Wrote(c.ext) /\ DigDue(c) THEN {"trace"} ELSE {})
    \cup (IF ReviewDue(c) THEN {"review"} ELSE {})

\* A file is made for a session that has none to write to.
Stamps(c) ==
    /\ mtime = 0
    /\ \/ c.event = "PreCompact"
       \/ c.event = "Stop" /\ (CadenceDue(c) \/ DigDue(c))

RememberedUnstamped(c) ==
    [c.ext EXCEPT
        !.nagged = @ \/ Nag(c),
        !.written = IF Wrote(c.ext) THEN c.core.significant ELSE @,
        !.last = IF Wrote(c.ext) THEN mtime ELSE @,
        !.reviewed = @ \/ ReviewDue(c)]
Remembered(c) ==
    [c.ext EXCEPT
        !.nagged = @ \/ Nag(c),
        !.written = IF Wrote(c.ext) THEN c.core.significant ELSE @,
        !.last = IF Wrote(c.ext) THEN mtime ELSE IF Stamps(c) THEN Later ELSE @,
        !.reviewed = @ \/ ReviewDue(c)]

Result(c) ==
    CASE c.event = "Stop" -> Remembered(c)
      [] c.event = "PreCompact" /\ Stamps(c) -> [c.ext EXCEPT !.last = Later]
      [] OTHER -> c.ext

PhaseAfter(c, at) ==
    CASE c.event = "Stop" /\ Reasons(c) = {} -> "idle"
      [] c.event = "Lookup" -> at
      [] OTHER -> "working"

\* The files as Python leaves them.
Stamped(c) ==
    IF Stamps(c)
    THEN /\ writes' = writes + 1 /\ mtime' = Later
         /\ alone' = [t \in Session |-> t = c.session /\ alone[t]]
    ELSE UNCHANGED <<writes, mtime, alone>>

Return(c) ==
    LET s == c.session
        stops == c.event = "Stop"
    IN
    /\ calls' = calls \ {c}
    /\ core' = [core EXCEPT ![s] = Advanced(c)]
    /\ ext' = [ext EXCEPT ![s] = Result(c)]
    /\ global' = IF stops /\ ReviewDue(c) THEN day ELSE c.global
    /\ phase' = [phase EXCEPT ![s] = PhaseAfter(c, @)]
    /\ active' = IF stops THEN [active EXCEPT ![s] = Reasons(c) # {}] ELSE active
    /\ reviews' = IF stops /\ ReviewDue(c)
                  THEN [last |-> day, soon |-> reviews.soon \/ day - reviews.last < REVIEW_EVERY]
                  ELSE reviews
    /\ Stamped(c)
    /\ UNCHANGED <<troubles, day, behind, dug>>

\* The process fails or times out: the event passes unseen, but for a file it made.
Failed(c) ==
    /\ "failure" \in troubles
    /\ troubles' = (troubles \ {"failure"}) \cup {"failed"}
    /\ calls' = calls \ {c}
    /\ phase' = [phase EXCEPT ![c.session] = IF c.event = "Stop" THEN "idle" ELSE PhaseAfter(c, @)]
    /\ Stamped(c) \/ UNCHANGED <<writes, mtime, alone>>
    /\ UNCHANGED <<core, ext, global, active, day, behind, dug, reviews>>

-----------------------------------------------------------------------------
\* The logs and the clock

\* The model appends to its session's log, or makes one.
Write(s) ==
    /\ phase[s] = "working" /\ writes < MaxWrites
    /\ writes' = writes + 1 /\ mtime' = Later
    /\ behind' = [behind EXCEPT ![s] = 0]
    /\ alone' = [t \in Session |-> t = s]
    /\ UNCHANGED <<troubles, core, ext, global, phase, active, calls, day, dug, reviews>>

\* A distill archives or rewrites the latest log.
Retire ==
    /\ mtime # 0 /\ writes < MaxWrites
    /\ writes' = writes + 1 /\ mtime' \in {0, Later}
    /\ alone' = [t \in Session |-> FALSE]
    /\ UNCHANGED <<troubles, core, ext, global, phase, active, calls, day, behind, dug,
                   reviews>>

NextDay ==
    /\ day < REVIEW_EVERY + MaxDays
    /\ day' = day + 1
    /\ UNCHANGED <<troubles, core, ext, global, phase, active, calls, mtime, writes,
                   observed>>

Next ==
    \/ \E s \in Session :
        \/ \E b \in BOOLEAN : Prompt(s, b) \/ Stop(s, b)
        \/ Dig(s) \/ Lookup(s) \/ Compact(s) \/ Write(s)
    \/ \E c \in calls : Return(c) \/ Failed(c)
    \/ Retire \/ NextDay

Spec == Init /\ [][Next]_vars

-----------------------------------------------------------------------------
\* Properties

\* "A block that gets ignored doesn't buy the model N more quiet turns - the next
\* turn's Stop blocks too, until a write is observed" (nudge.py:16-21): a session that
\* let more than N_TURNS significant prompts pass since it wrote its log is held at the
\* stop of every turn, as long as its is the only log that changes and no call fails or
\* overlaps another.  (More than: a write that follows a block is first seen at the
\* next turn's stop, and takes that turn's prompt for logged.)
HeldUntilWritten ==
    [][\A c \in calls :
        /\ troubles = {} /\ c.event = "Stop" /\ Return(c)
        /\ alone[c.session] /\ behind[c.session] > N_TURNS
        => "context" \in Reasons(c) /\ active'[c.session]]_vars

\* The mod and Python keep one count of a turn's file inspections between them, though
\* each tests for itself whether the count is an earlier turn's (register.ts:262,
\* nudge.py:157).
DigsAgree ==
    \A s \in Session :
        troubles = {} /\ phase[s] \in {"working", "stopping"} =>
            dug[s] = IF ext[s].digTurn = core[s].prompts THEN ext[s].digs ELSE 0

\* "This fires at most once every REVIEW_EVERY_DAYS (cross-session state)"
\* (review.py:18).
ReviewsApart == ~reviews.soon

\* It does as long as no session's call overlaps another's.
ReviewsApartInTurn == "overlap" \notin troubles => ReviewsApart

=============================================================================
