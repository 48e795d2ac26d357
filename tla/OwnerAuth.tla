----------------------------- MODULE OwnerAuth -----------------------------
(***************************************************************************)
(* Sign-in of a hosted server's single owner (claude_memory_graph/auth.py: *)
(* OwnerAuth and its login page), with the browser sign-ins and the        *)
(* settings page that act on it (chat.py: Sessions, chat_routes).          *)
(*                                                                         *)
(* book is what _save writes and _load reads; the rest of the state dies   *)
(* with the process.  A handler runs to its next await in one step; the    *)
(* settings page awaits its body between its test of the cookie and the    *)
(* rest.  A save may fail ("unsaved": the handler raises with its memory   *)
(* changed) and an answer may be lost on its way ("lost").  The SDK loads  *)
(* a code or a token and exchanges it without an await in between, and     *)
(* refuses it when expired; a client is a connector, registered once.      *)
(* Clocks are small integers, a word is a password or a token as typed.    *)
(* The list of failures' times is a set: a time and its place among equals.*)
(***************************************************************************)
EXTENDS Integers, FiniteSets

CONSTANTS
    Client,         \* connectors that may register
    Word,           \* what can be typed, or minted as a token
    NoWord,
    StaticToken,    \* MEMORY_GRAPH_TOKEN
    StaticPassword, \* MEMORY_GRAPH_PASSWORD, NoWord when the token doubles as it
    CodeTTL, AccessTTL, RefreshTTL, LoginTTL, SessionTTL,
    MaxFailures, Lockout,
    Outcomes,       \* how a request that saves may end
    MaxTime, MaxMint, MaxEra    \* bounds of the checked instance

ASSUME WordAssumption ==
    /\ NoWord \notin Word
    /\ StaticToken \in Word
    /\ StaticPassword \in Word \cup {NoWord}

ASSUME TTLAssumption ==
    /\ {CodeTTL, AccessTTL, RefreshTTL, LoginTTL, SessionTTL, Lockout} \subseteq Nat \ {0}
    /\ AccessTTL <= RefreshTTL
    /\ MaxFailures \in Nat \ {0}

ASSUME OutcomeAssumption == Outcomes \subseteq {"answered", "unsaved", "lost"}

VARIABLES
    now,
    minted,         \* how many secrets were minted: each is a number
    book,           \* clients, access, refresh, password and token in memory
    disk,           \* oauth.json
    pending, codes, failures,
    sessions,       \* Sessions.live
    asked,          \* a settings request of a signed-in browser awaits its body
    era,            \* observer: sign-outs carried out
    held,           \* observer: refresh tokens connectors may rely on
    retired,        \* observer: tokens that were replaced
    wrong           \* observer: the guesses this process answered as wrong, from
                    \* Lockout before the last of them

vars == <<now, minted, book, disk, pending, codes, failures, sessions, asked,
          era, held, retired, wrong>>
observed == <<era, held, retired, wrong>>

Pending == [id : Nat, client : Client, at : Nat, era : Nat]
Token == [id : Nat, client : Client, until : Nat, family : Nat, era : Nat]
Session == [id : Nat, until : Nat, era : Nat]
Miss == [at : Nat, n : Nat]
Book == [clients : SUBSET Client, access : SUBSET Token, refresh : SUBSET Token,
         password : Word \cup {NoWord}, token : Word \cup {NoWord}]

Blank == [clients |-> {}, access |-> {}, refresh |-> {},
          password |-> NoWord, token |-> NoWord]

Init ==
    /\ now = 0 /\ minted = 0
    /\ book = Blank /\ disk = Blank
    /\ pending = {} /\ codes = {} /\ failures = {}
    /\ sessions = {} /\ asked = FALSE
    /\ era = 0 /\ held = {} /\ retired = {} /\ wrong = {}

-----------------------------------------------------------------------------
\* Storage

LoadedTokens(b) ==
    [b EXCEPT !.clients = {}, !.access = {a \in @ : a.until > now},
              !.refresh = {r \in @ : r.until > now}]
Loaded(b) ==
    [b EXCEPT !.access = {a \in @ : a.until > now},
              !.refresh = {r \in @ : r.until > now}]

Save(b, o) ==
    /\ book' = b
    /\ disk' = IF o = "unsaved" THEN disk ELSE b

-----------------------------------------------------------------------------
\* Guesses

RecentToTheSecond == {f \in failures : f.at > now - Lockout + 1}
Recent == {f \in failures : f.at > now - Lockout}

Locked == Cardinality(Recent) >= MaxFailures

\* One more guess, after those of this second.
OneMore(guesses) == [at |-> now, n |-> Cardinality({f \in guesses : f.at = now})]

TokenOk(b, w) == w = IF b.token # NoWord THEN b.token ELSE StaticToken

PasswordOkAtFirst(b, w) ==
    IF b.password # NoWord THEN w = b.password
    ELSE IF StaticPassword # NoWord THEN w = StaticPassword
    ELSE w = StaticToken
PasswordOk(b, w) ==
    IF b.password # NoWord THEN w = b.password
    ELSE IF StaticPassword # NoWord THEN w = StaticPassword
    ELSE TokenOk(b, w)

\* _guard: what a typed word does to the lockout it shares with all others.
Guard(ok) ==
    LET miss == ~Locked /\ ~ok IN
    /\ failures' = IF miss THEN Recent \cup {OneMore(Recent)} ELSE Recent
    /\ wrong' = IF miss THEN {f \in wrong : f.at > now - Lockout} \cup {OneMore(wrong)}
                ELSE wrong

-----------------------------------------------------------------------------
\* Connectors

Register(c, o) ==
    /\ c \notin book.clients
    /\ Save([book EXCEPT !.clients = @ \cup {c}], o)
    /\ UNCHANGED <<now, minted, pending, codes, failures, sessions, asked, observed>>

Unexpired == {p \in pending : p.at >= now - LoginTTL}

Authorize(c) ==
    /\ c \in book.clients
    /\ minted' = minted + 1
    /\ pending' = Unexpired \cup {[id |-> minted, client |-> c, at |-> now, era |-> era]}
    /\ UNCHANGED <<now, book, disk, codes, failures, sessions, asked, observed>>

\* The login page's form.
Login(p, w) ==
    LET live == ~Locked /\ p \in Unexpired
        ok == PasswordOk(book, w)
    IN
    /\ pending' = IF Locked THEN pending
                  ELSE IF live /\ ok THEN Unexpired \ {p} ELSE Unexpired
    /\ Guard(~live \/ ok)
    /\ IF live /\ ok
       THEN /\ codes' = codes \cup {[id |-> minted, client |-> p.client,
                                     until |-> now + CodeTTL, family |-> minted,
                                     era |-> era]}
            /\ minted' = minted + 1
       ELSE UNCHANGED <<codes, minted>>
    /\ UNCHANGED <<now, book, disk, sessions, asked, era, held, retired>>

\* The pair minted for the grant g, a code or a refresh token: the number they share
\* is the access token's note of its refresh token.
NewAccess(g) ==
    [id |-> minted, client |-> g.client, until |-> now + AccessTTL,
     family |-> g.family, era |-> g.era]
NewRefresh(g) ==
    [id |-> minted, client |-> g.client, until |-> now + RefreshTTL,
     family |-> g.family, era |-> g.era]

Issued(b, g) == [b EXCEPT !.access = @ \cup {NewAccess(g)},
                          !.refresh = @ \cup {NewRefresh(g)}]

\* What its client may rely on from then on.
Handed(g, o) == IF o = "answered" THEN {NewRefresh(g)} ELSE {}

Redeem(c, o) ==
    /\ c.until > now /\ c.client \in book.clients
    /\ codes' = codes \ {c}
    /\ minted' = minted + 1
    /\ Save(Issued(book, c), o)
    /\ held' = held \cup Handed(c, o)
    /\ UNCHANGED <<now, pending, failures, sessions, asked, era, retired, wrong>>

\* A refresh token dies with the access tokens it minted.
WithoutRefresh(b, r) == [b EXCEPT !.refresh = @ \ {r}]
WithoutPair(b, r) ==
    [b EXCEPT !.refresh = @ \ {r}, !.access = {a \in @ : a.id # r.id}]

Rotate(r, o) ==
    /\ r.until >= now /\ r.client \in book.clients
    /\ minted' = minted + 1
    /\ Save(Issued(WithoutPair(book, r), r), o)
    /\ held' = (held \ {r}) \cup Handed(r, o)
    /\ UNCHANGED <<now, pending, codes, failures, sessions, asked, era, retired, wrong>>

Revoke(r, o) ==
    /\ r.client \in book.clients
    /\ Save(WithoutPair(book, r), o)
    /\ held' = held \ {r}
    /\ UNCHANGED <<now, minted, pending, codes, failures, sessions, asked, era, retired, wrong>>

RevokeAccess(a, o) ==
    /\ a.until >= now /\ a.client \in book.clients
    /\ Save([book EXCEPT !.access = @ \ {a}], o)
    /\ UNCHANGED <<now, minted, pending, codes, failures, sessions, asked, observed>>

-----------------------------------------------------------------------------
\* Browsers

Valid == {s \in sessions : s.until > now}

BrowserLogin(w) ==
    LET ok == ~Locked /\ PasswordOk(book, w) IN
    /\ Guard(PasswordOk(book, w))
    /\ IF ok
       THEN /\ sessions' = Valid \cup {[id |-> minted, until |-> now + SessionTTL, era |-> era]}
            /\ minted' = minted + 1
       ELSE UNCHANGED <<sessions, minted>>
    /\ UNCHANGED <<now, book, disk, pending, codes, asked, era, held, retired>>

Logout(s) ==
    /\ sessions' = sessions \ {s}
    /\ UNCHANGED <<now, minted, book, disk, pending, codes, failures, asked, observed>>

AskSettings ==
    /\ Valid # {} /\ ~asked
    /\ asked' = TRUE
    /\ UNCHANGED <<now, minted, book, disk, pending, codes, failures, sessions, observed>>

\* Every settings action begins with the server token.
TypedToken(w) ==
    /\ asked /\ asked' = FALSE
    /\ Guard(TokenOk(book, w))

WrongToken(w) ==
    /\ ~TokenOk(book, w) \/ Locked
    /\ TypedToken(w)
    /\ UNCHANGED <<now, minted, book, disk, pending, codes, sessions, era, held, retired>>

\* sign_out_all: the browsers are cleared after the save, or not at all.
SignOut(b, o) ==
    /\ Save([b EXCEPT !.clients = {}, !.access = {}, !.refresh = {}], o)
    /\ codes' = {} /\ pending' = {} /\ held' = {}
    /\ sessions' = IF o = "unsaved" THEN sessions ELSE {}
    /\ era' = IF o = "unsaved" THEN era ELSE era + 1

SignOutAll(w, o) ==
    /\ TokenOk(book, w) /\ ~Locked /\ TypedToken(w)
    /\ SignOut(book, o)
    /\ UNCHANGED <<now, minted, retired>>

SetPassword(w, new, o) ==
    /\ TokenOk(book, w) /\ ~Locked /\ TypedToken(w)
    /\ SignOut([book EXCEPT !.password = new], o)
    /\ UNCHANGED <<now, minted, retired>>

NewToken(w, new, o) ==
    /\ TokenOk(book, w) /\ ~Locked /\ TypedToken(w)
    /\ new \notin retired \cup {StaticToken, StaticPassword, book.password, book.token,
                                disk.password, disk.token}
    /\ Save([book EXCEPT !.token = new], o)
    /\ retired' = IF o = "unsaved" THEN retired ELSE retired \cup {w}
    /\ UNCHANGED <<now, minted, pending, codes, sessions, era, held>>

-----------------------------------------------------------------------------
\* The process and its clock

Restart ==
    /\ book' = Loaded(disk)
    /\ pending' = {} /\ codes' = {} /\ failures' = {} /\ sessions' = {}
    /\ asked' = FALSE /\ wrong' = {}
    /\ UNCHANGED <<now, minted, disk, era, held, retired>>

Tick ==
    /\ now < MaxTime
    /\ now' = now + 1
    /\ UNCHANGED <<minted, book, disk, pending, codes, failures, sessions, asked, observed>>

Mints == minted < MaxMint

\* /authorize, /login, /token, /revoke and /register
Connectors ==
    \/ \E c \in Client : Mints /\ Authorize(c)
    \/ \E p \in pending, w \in Word : Mints /\ Login(p, w)
    \/ \E o \in Outcomes :
        \/ \E c \in Client : Register(c, o)
        \/ \E c \in codes : Mints /\ Redeem(c, o)
        \/ \E r \in book.refresh : Mints /\ Rotate(r, o)
        \/ \E r \in book.refresh : Revoke(r, o)
        \/ \E a \in book.access : RevokeAccess(a, o)

\* /chat/login, /chat/logout and /settings
Browsers ==
    \/ \E w \in Word : Mints /\ BrowserLogin(w)
    \/ \E s \in sessions : Logout(s)
    \/ AskSettings
    \/ \E w \in Word : WrongToken(w)
    \/ \E w \in Word, o \in Outcomes :
        \/ era < MaxEra /\ SignOutAll(w, o)
        \/ \E new \in Word : era < MaxEra /\ SetPassword(w, new, o)
        \/ \E new \in Word : NewToken(w, new, o)

Next == Connectors \/ Browsers \/ Restart \/ Tick

Spec == Init /\ [][Next]_vars

-----------------------------------------------------------------------------
\* Properties

\* Every part of the state has its type.
TypeOK ==
    /\ now \in Nat /\ minted \in Nat
    /\ book \in Book /\ disk \in Book
    /\ pending \subseteq Pending /\ codes \subseteq Token /\ sessions \subseteq Session
    /\ failures \subseteq Miss /\ wrong \subseteq Miss
    /\ asked \in BOOLEAN
    /\ era \in Nat /\ held \subseteq Token /\ retired \subseteq Word

Credentials == pending \cup codes \cup sessions \cup book.access \cup book.refresh
               \cup disk.access \cup disk.refresh

\* What the settings page reported done stays done, in memory, on the disk and
\* after any restart: nothing granted before a sign-out (and so under an older
\* password) lives on, and a replaced token opens nothing, not even as the
\* password it doubled as (sign_out_all, set_password, new_token).
ChangesHold ==
    /\ \A x \in Credentials : x.era = era
    /\ \A b \in {book, disk}, w \in retired :
        /\ ~TokenOk(b, w)
        /\ PasswordOk(b, w) => w \in {b.password, StaticPassword}

\* One approval of the owner's keeps one connector signed in: of all the tokens
\* that descend from it through rotations at most one refresh token and one access
\* token live, whose refresh token lives too, so revoking it ends the access
\* (_issue, exchange_authorization_code, exchange_refresh_token, revoke_token).
OneHeir ==
    \A b \in {book, disk} :
        /\ \A r, s \in b.refresh : r.family = s.family => r = s
        /\ \A a, c \in b.access : a.family = c.family => a = c
        /\ \A a \in b.access :
            \E r \in b.refresh : r.id = a.id /\ r.family = a.family
        /\ \A c \in codes : c.family \notin {r.family : r \in b.refresh}

\* A connector that was handed a refresh token, has not used or revoked it, and was
\* not signed out can still use it until it expires, and would be after a restart:
\* "Restarting the server keeps connectors signed in" (auth.py:19).
KeepsSignedIn ==
    \A b \in {book, disk}, h \in held :
        h.until > now => h \in b.refresh /\ h.client \in b.clients

\* Of the guesses a process answered as wrong, at a sign-in page, the chat's or the
\* settings page's, no more than MAX_FAILURES fall into any LOCKOUT seconds.
FewGuesses == Cardinality(wrong) <= MaxFailures

=============================================================================
