-------------------------------- MODULE Chat --------------------------------
(***************************************************************************)
(* The server's browser chat (claude_memory_graph/chat.py: ChatService and *)
(* the /chat/send route), with the page that talks to it (chat.html),      *)
(* which sends a question only when its last one has ended.                *)
(*                                                                         *)
(* A conversation is an object in a table by name; a turn keeps the object *)
(* it found while it awaits Claude, whatever happens to the table.  A      *)
(* question is its number, and an object has the number of the question    *)
(* it was made for.  The table is kept as a sequence, least recently       *)
(* touched first.  Texts and tool results are left out.                    *)
(***************************************************************************)
EXTENDS Integers, Sequences, FiniteSets, SequencesExt

CONSTANTS
    Name,           \* the pages' conversation names
    LossySets,      \* whether a page may lose its connection unnoticed
    MaxTurns, MaxToolRounds, MaxChats, DailyLimit,
    MaxAsks,        \* bounds of the checked instance: questions, and
    MaxLives        \* servers started in one day

ASSUME ChatAssumption ==
    /\ LossySets \subseteq BOOLEAN
    /\ {MaxTurns, MaxToolRounds, MaxChats, DailyLimit} \subseteq Nat \ {0}
    /\ MaxAsks \in Nat /\ MaxLives \in Nat

VARIABLES
    lossy,          \* chosen at first, never changed
    asked,          \* questions so far
    chats,          \* the table: pairs of a name and an object
    talk,           \* the objects: messages and turns
    turns,          \* the turns in flight
    usage,          \* the day's count, as this server has it
    busy,           \* conversations whose page waits for an answer
    called,         \* observer: turns that reached Claude today
    lives,          \* observer: servers that ran today
    done            \* observer: the questions an object's page saw answered

vars == <<lossy, asked, chats, talk, turns, usage, busy, called, lives, done>>

Question == 1 .. MaxAsks
Blank == [messages |-> <<>>, count |-> 0]

Init ==
    /\ lossy \in LossySets
    /\ asked = 0 /\ chats = <<>> /\ turns = {} /\ usage = 0 /\ busy = {} /\ called = 0 /\ lives = 1
    /\ talk = [q \in Question |-> Blank]
    /\ done = [q \in Question |-> <<>>]

Said(q, what) == <<[q |-> q, what |-> what]>>

-----------------------------------------------------------------------------

InFlight(e) == \E t \in turns : t.object = e.object

\* The table without its k entries idle for longer than CHAT_TTL; no turn takes so long.
Fresh(k) == SubSeq(chats, k + 1, Len(chats))

Places(table, name) == {i \in DOMAIN table : table[i].name = name}

RoomAfter(table, name) ==
    IF Places(table, name) = {} /\ Len(table) > MaxChats
    THEN Tail(table) ELSE table
Room(table, name) ==
    IF Places(table, name) = {} /\ Len(table) >= MaxChats
    THEN Tail(table) ELSE table

Entry(table, name) ==
    IF Places(table, name) = {} THEN [name |-> name, object |-> asked + 1]
    ELSE table[CHOOSE i \in Places(table, name) : TRUE]

\* Its entry is the one touched last from now on.
Touched(table, name) ==
    Append(IF Places(table, name) = {} THEN table
           ELSE RemoveAt(table, CHOOSE i \in Places(table, name) : TRUE), Entry(table, name))

\* Whether one more turn may reach Claude today.
Spend == usage < DailyLimit

Ask(name, k) ==
    LET table == Room(Fresh(k), name)
        chat == Entry(table, name)
        q == asked + 1
        goes == talk[chat.object].count < MaxTurns /\ Spend
    IN
    /\ asked < MaxAsks /\ name \notin busy
    /\ \A i \in 1 .. k : ~InFlight(chats[i])
    /\ asked' = q
    /\ chats' = Touched(table, name)
    /\ IF goes
       THEN /\ usage' = usage + 1 /\ called' = called + 1
            /\ busy' = busy \cup {name}
            /\ turns' = turns \cup
                {[q |-> q, name |-> name, object |-> chat.object, round |-> 1, heard |-> TRUE,
                  messages |-> talk[chat.object].messages \o Said(q, "question")]}
       ELSE UNCHANGED <<usage, called, busy, turns>>
    /\ UNCHANGED <<lossy, talk, lives, done>>

End(t) ==
    /\ turns' = turns \ {t}
    /\ busy' = IF t.heard THEN busy \ {t.name} ELSE busy

\* A response without tool calls ends the turn.
AnswerAppended(t) ==
    /\ End(t)
    /\ talk' = [talk EXCEPT ![t.object] =
                   [messages |-> @.messages \o Said(t.q, "answer"), count |-> @.count + 1]]
    /\ done' = IF t.heard THEN [done EXCEPT ![t.object] = Append(@, t.q)] ELSE done
    /\ UNCHANGED <<lossy, asked, chats, usage, called, lives>>
Answer(t) ==
    /\ End(t)
    /\ talk' = [talk EXCEPT ![t.object] =
                   [messages |-> t.messages \o Said(t.q, "answer"), count |-> @.count + 1]]
    /\ done' = IF t.heard THEN [done EXCEPT ![t.object] = Append(@, t.q)] ELSE done
    /\ UNCHANGED <<lossy, asked, chats, usage, called, lives>>

\* Tools are run and their results sent back, or Claude is asked to go on: the next
\* round, if there is one.
GoOnForever(t, more) ==
    /\ turns' = (turns \ {t}) \cup {[t EXCEPT !.messages = Said(t.q, "question") \o more]}
    /\ UNCHANGED busy
GoOn(t, more) ==
    IF t.round < MaxToolRounds
    THEN /\ turns' = (turns \ {t}) \cup {[t EXCEPT !.round = @ + 1, !.messages = @ \o more]}
         /\ UNCHANGED busy
    ELSE End(t)

Continue(t) ==
    /\ \/ GoOn(t, Said(t.q, "lookup") \o Said(t.q, "results"))
       \/ GoOn(t, Said(t.q, "paused"))
    /\ UNCHANGED <<lossy, asked, chats, talk, usage, called, lives, done>>

\* A refusal, too long a response, an API error, or a reader that left.
Fail(t) ==
    /\ End(t)
    /\ UNCHANGED <<lossy, asked, chats, talk, usage, called, lives, done>>

\* The page sees an error and may ask again while the server knows nothing of it.
Lose(t) ==
    /\ lossy /\ t.heard
    /\ turns' = (turns \ {t}) \cup {[t EXCEPT !.heard = FALSE]}
    /\ busy' = busy \ {t.name}
    /\ UNCHANGED <<lossy, asked, chats, talk, usage, called, lives, done>>

NewDay ==
    /\ called > 0 \/ lives > 1
    /\ usage' = 0 /\ called' = 0 /\ lives' = 1
    /\ UNCHANGED <<lossy, asked, chats, talk, turns, busy, done>>

\* Conversations and the day's count are in memory only.
Restart ==
    /\ lives < MaxLives
    /\ chats' = <<>> /\ turns' = {} /\ usage' = 0 /\ busy' = {} /\ lives' = lives + 1
    /\ UNCHANGED <<lossy, asked, talk, called, done>>

Reply(t) == Answer(t) \/ Continue(t) \/ Fail(t)

Next ==
    \/ \E name \in Name, k \in 0 .. Len(chats) : Ask(name, k)
    \/ \E t \in turns : Reply(t) \/ Lose(t)
    \/ NewDay \/ Restart

\* Claude's API answers or fails: the client has its own timeouts.
Replies(q) == \E t \in turns : t.q = q /\ Reply(t)

Spec == Init /\ [][Next]_vars /\ \A q \in Question : WF_vars(Replies(q))

-----------------------------------------------------------------------------
\* Properties

\* Messages that can be sent back to the API as they are: every question up to its
\* answer, every lookup up to its results.
Whole(m) ==
    /\ m # <<>> => Last(m).what = "answer"
    /\ \A i \in DOMAIN m :
        /\ m[i].what = "question" <=> i = 1 \/ m[i - 1].what = "answer"
        /\ m[i].what # "question" => m[i].q = m[i - 1].q
        /\ m[i].what = "results" <=> i > 1 /\ m[i - 1].what = "lookup"

\* The answers among them are to these questions, in this order.
Answers(m) == {i \in DOMAIN m : m[i].what = "answer"}
AnswersTo(m, qs) ==
    /\ Len(qs) = Cardinality(Answers(m))
    /\ \A i \in Answers(m) : m[i].q = qs[Cardinality({j \in Answers(m) : j <= i})]

\* "Each is kept whole" (chat.py:21-23): whatever turns fail, are cut short, run at
\* once or outlive their place in the table, a conversation consists of whole
\* exchanges, and unless a connection is lost unnoticed of exactly those its page
\* saw, in order.
KeptWhole ==
    \A o \in Question :
        /\ Whole(talk[o].messages)
        /\ ~lossy => AnswersTo(talk[o].messages, done[o]) /\ talk[o].count = Len(done[o])

\* The caps that bound what a shared link can spend and hold: turns that reach Claude
\* in a day, questions of a conversation, conversations held.  "A daily cap bounds what
\* a shared link can spend" (chat.py:15-17) holds of one server only: the count starts
\* again with every restart, so what a day may cost is the cap for each server that ran
\* in it, whatever turns were still waiting when one went.
CapsHold ==
    /\ called <= DailyLimit * lives
    /\ Len(chats) <= MaxChats
    /\ ~lossy => \A o \in Question : talk[o].count <= MaxTurns

\* However Claude answers, a turn ends, and its page may ask again.
TurnsEnd == \A name \in Name : name \in busy ~> name \notin busy

=============================================================================
