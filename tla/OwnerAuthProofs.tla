-------------------------- MODULE OwnerAuthProofs --------------------------
(***************************************************************************)
(* Theorems about OwnerAuth for any connectors, words, lifetimes and       *)
(* bounds: one approval has one heir, connectors stay signed in, what the  *)
(* settings page reported done stays done, and guesses are few.  The two   *)
(* in the middle are inductive given the types; for the first the          *)
(* invariant adds that grants and tokens carry numbers below the next one, *)
(* that a code's family has no token yet, and that a refresh token         *)
(* outlives its access token, so that a load drops no token's pair; for    *)
(* the last, that the guesses that still count are those answered.         *)
(***************************************************************************)
EXTENDS OwnerAuth, FiniteSetTheorems, TLAPS

-----------------------------------------------------------------------------
(* Types *)

\* The parts of TypeOK the theorems rest on: guesses are left out.
Typed ==
    /\ now \in Nat /\ minted \in Nat /\ era \in Nat
    /\ book \in Book /\ disk \in Book
    /\ pending \subseteq Pending /\ codes \subseteq Token /\ sessions \subseteq Session
    /\ held \subseteq Token /\ retired \subseteq Word

\* A new pair has the types of tokens, with the grant's family, client and era.
LEMMA NewPair ==
    ASSUME Typed, NEW g \in Token
    PROVE  /\ NewAccess(g) \in Token /\ NewRefresh(g) \in Token
           /\ NewAccess(g).id = minted /\ NewRefresh(g).id = minted
           /\ NewAccess(g).family = g.family /\ NewRefresh(g).family = g.family
           /\ NewAccess(g).era = g.era /\ NewRefresh(g).era = g.era
           /\ NewRefresh(g).client = g.client
           /\ NewAccess(g).until <= NewRefresh(g).until
<1>1. AccessTTL \in Nat /\ RefreshTTL \in Nat /\ AccessTTL <= RefreshTTL
  BY TTLAssumption
<1> QED  BY <1>1 DEF Typed, NewAccess, NewRefresh, Token

\* What the operations on books change of one.
LEMMA BookOps ==
    ASSUME NEW b \in Book
    PROVE  /\ \A g \in Token :
                /\ Issued(b, g).access = b.access \cup {NewAccess(g)}
                /\ Issued(b, g).refresh = b.refresh \cup {NewRefresh(g)}
                /\ Issued(b, g).clients = b.clients
                /\ Issued(b, g).password = b.password /\ Issued(b, g).token = b.token
                /\ Typed => Issued(b, g) \in Book
           /\ \A r \in b.refresh :
                /\ WithoutPair(b, r).access = {a \in b.access : a.id # r.id}
                /\ WithoutPair(b, r).refresh = b.refresh \ {r}
                /\ WithoutPair(b, r).clients = b.clients
                /\ WithoutPair(b, r).password = b.password /\ WithoutPair(b, r).token = b.token
                /\ WithoutPair(b, r) \in Book
           /\ Loaded(b).access = {a \in b.access : a.until > now}
           /\ Loaded(b).refresh = {r \in b.refresh : r.until > now}
           /\ Loaded(b).clients = b.clients
           /\ Loaded(b).password = b.password /\ Loaded(b).token = b.token
           /\ Loaded(b) \in Book
<1>1. \A g \in Token : Typed => NewAccess(g) \in Token /\ NewRefresh(g) \in Token
  BY NewPair
<1>2. ASSUME NEW g \in Token
      PROVE  /\ Issued(b, g).access = b.access \cup {NewAccess(g)}
             /\ Issued(b, g).refresh = b.refresh \cup {NewRefresh(g)}
             /\ Issued(b, g).clients = b.clients
             /\ Issued(b, g).password = b.password /\ Issued(b, g).token = b.token
             /\ Typed => Issued(b, g) \in Book
  BY <1>1 DEF Book, Issued
<1>3. ASSUME NEW r \in b.refresh
      PROVE  /\ WithoutPair(b, r).access = {a \in b.access : a.id # r.id}
             /\ WithoutPair(b, r).refresh = b.refresh \ {r}
             /\ WithoutPair(b, r).clients = b.clients
             /\ WithoutPair(b, r).password = b.password /\ WithoutPair(b, r).token = b.token
             /\ WithoutPair(b, r) \in Book
  BY DEF Book, WithoutPair
<1>4. /\ Loaded(b).access = {a \in b.access : a.until > now}
      /\ Loaded(b).refresh = {r \in b.refresh : r.until > now}
      /\ Loaded(b).clients = b.clients
      /\ Loaded(b).password = b.password /\ Loaded(b).token = b.token
      /\ Loaded(b) \in Book
  BY DEF Book, Loaded
<1> QED  BY <1>2, <1>3, <1>4

\* The same of the books the other handlers save.
LEMMA BookEdits ==
    ASSUME NEW b \in Book
    PROVE  /\ \A c \in Client : LET d == [b EXCEPT !.clients = @ \cup {c}] IN
                /\ d \in Book /\ d.clients = b.clients \cup {c} /\ d.access = b.access
                /\ d.refresh = b.refresh /\ d.password = b.password /\ d.token = b.token
           /\ \A a \in b.access : LET d == [b EXCEPT !.access = @ \ {a}] IN
                /\ d \in Book /\ d.clients = b.clients /\ d.access = b.access \ {a}
                /\ d.refresh = b.refresh /\ d.password = b.password /\ d.token = b.token
           /\ \A w \in Word : LET d == [b EXCEPT !.password = w] IN
                /\ d \in Book /\ d.password = w /\ d.token = b.token
           /\ \A w \in Word : LET d == [b EXCEPT !.token = w] IN
                /\ d \in Book /\ d.clients = b.clients /\ d.access = b.access
                /\ d.refresh = b.refresh /\ d.password = b.password /\ d.token = w
           /\ LET d == [b EXCEPT !.clients = {}, !.access = {}, !.refresh = {}] IN
                /\ d \in Book /\ d.clients = {} /\ d.access = {} /\ d.refresh = {}
                /\ d.password = b.password /\ d.token = b.token
  BY DEF Book

-----------------------------------------------------------------------------
(* What one step does *)

\* Nothing that was granted changes; who signs in now does so in this era.
Aside ==
    /\ UNCHANGED <<book, disk, codes, held, era, retired>>
    /\ now' \in Nat /\ now <= now' /\ minted' \in Nat /\ minted <= minted'
    /\ pending' \subseteq Pending /\ sessions' \subseteq Session
    /\ \A x \in (pending' \ pending) \cup (sessions' \ sessions) : x.era = era

\* The owner approved: a code of a family of its own.
Approved(c) ==
    /\ c.id = minted /\ c.family = minted /\ c.era = era
    /\ codes' = codes \cup {c} /\ minted' = minted + 1
    /\ pending' \subseteq pending
    /\ UNCHANGED <<now, book, disk, sessions, era, held, retired>>

\* The owner signed everyone out, with a new password or the old one.
SignedOut(b, o) ==
    /\ b.token = book.token
    /\ SignOut(b, o)
    /\ UNCHANGED <<now, minted, retired>>

Minted(o) ==
    \/ \E c \in codes : Redeem(c, o)
    \/ \E r \in book.refresh : Rotate(r, o)

Changed(o) ==
    \/ \E c \in Client : Register(c, o)
    \/ \E r \in book.refresh : Revoke(r, o)
    \/ \E a \in book.access : RevokeAccess(a, o)
    \/ \E w, new \in Word : NewToken(w, new, o)

\* Sign-ins, guesses and the clock leave what was granted alone.
LEMMA AsideSteps ==
    ASSUME Typed
    PROVE  /\ \A c \in Client : Authorize(c) => Aside
           /\ \A w \in Word : BrowserLogin(w) => Aside
           /\ \A s \in sessions : Logout(s) => Aside
           /\ AskSettings \/ Tick \/ UNCHANGED vars => Aside
           /\ \A w \in Word : WrongToken(w) => Aside
<1> USE DEF Typed, Aside
<1>1. ASSUME NEW c \in Client, Authorize(c) PROVE Aside
  BY <1>1 DEF Authorize, Unexpired, Pending, observed
<1>2. ASSUME NEW w \in Word, BrowserLogin(w) PROVE Aside
  <2>1. SessionTTL \in Nat
    BY TTLAssumption
  <2> QED  BY <1>2, <2>1 DEF BrowserLogin, Valid, Session
<1>3. ASSUME NEW s \in sessions, Logout(s) PROVE Aside
  BY <1>3 DEF Logout, observed
<1>4. ASSUME AskSettings \/ Tick \/ UNCHANGED vars PROVE Aside
  BY <1>4 DEF AskSettings, Tick, vars, observed
<1>5. ASSUME NEW w \in Word, WrongToken(w) PROVE Aside
  BY <1>5 DEF WrongToken
<1> QED  BY <1>1, <1>2, <1>3, <1>4, <1>5

\* A login page's form is a guess, or an approval.
LEMMA LoginSteps ==
    ASSUME Typed, NEW p \in pending, NEW w \in Word, Login(p, w)
    PROVE  Aside \/ \E c \in Token : Approved(c)
<1> DEFINE goes == ~Locked /\ p \in Unexpired /\ PasswordOk(book, w)
           c == [id |-> minted, client |-> p.client, until |-> now + CodeTTL,
                 family |-> minted, era |-> era]
<1>1. pending' \subseteq pending
  BY DEF Login, Unexpired
<1>2. CASE goes
  <2>1. c \in Token
    BY TTLAssumption DEF Typed, Pending, Token
  <2>2. Approved(c)
    BY <1>1, <1>2 DEF Login, Approved
  <2> QED  BY <2>1, <2>2
<1>3. CASE ~goes
  BY <1>1, <1>3 DEF Login, Aside, Typed
<1> QED  BY <1>2, <1>3

\* Both ways of signing everyone out.
LEMMA SignOutSteps ==
    ASSUME Typed, NEW w \in Word, NEW o \in Outcomes,
           SignOutAll(w, o) \/ \E new \in Word : SetPassword(w, new, o)
    PROVE  \E b \in Book : SignedOut(b, o)
<1>1. CASE SignOutAll(w, o)
  BY <1>1 DEF SignOutAll, SignedOut, Typed
<1>2. ASSUME NEW new \in Word, SetPassword(w, new, o)
      PROVE  \E b \in Book : SignedOut(b, o)
  <2> DEFINE b == [book EXCEPT !.password = new]
  <2>1. b \in Book /\ b.token = book.token
    <3>1. book \in Book
      BY DEF Typed
    <3> QED  BY <3>1 DEF Book
  <2>2. SignOut(b, o) /\ UNCHANGED <<now, minted, retired>>
    BY <1>2 DEF SetPassword
  <2> HIDE DEF b
  <2> QED  BY <2>1, <2>2 DEF SignedOut
<1> QED  BY <1>1, <1>2

\* Every step is one of these.
LEMMA Steps ==
    ASSUME Typed, [Next]_vars
    PROVE  \/ Aside
           \/ \E c \in Token : Approved(c)
           \/ \E o \in Outcomes : Minted(o) \/ Changed(o) \/ \E b \in Book : SignedOut(b, o)
           \/ Restart
<1>1. CASE Connectors
  BY <1>1, AsideSteps, LoginSteps DEF Connectors, Minted, Changed
<1>2. CASE Browsers
  BY <1>2, AsideSteps, SignOutSteps DEF Browsers, Changed
<1> QED  BY <1>1, <1>2, AsideSteps DEF Next

\* What a save leaves.
LEMMA Saved ==
    ASSUME NEW b, NEW o, Save(b, o)
    PROVE  /\ book' = b /\ disk' \in {disk, b}
           /\ o # "unsaved" => disk' = b
           /\ o = "unsaved" => disk' = disk
  BY DEF Save

\* The types are inductive.
LEMMA TypedInductive == Typed /\ [Next]_vars => Typed'
<1> SUFFICES ASSUME Typed, [Next]_vars PROVE Typed'
  OBVIOUS
<1>1. CASE Aside
  BY <1>1 DEF Aside, Typed
<1>2. ASSUME NEW c \in Token, Approved(c) PROVE Typed'
  BY <1>2 DEF Approved, Typed
<1>3. ASSUME NEW o \in Outcomes, NEW c \in codes, Redeem(c, o) PROVE Typed'
  <2>1. Issued(book, c) \in Book /\ NewRefresh(c) \in Token
    BY BookOps, NewPair DEF Typed
  <2> QED  BY <1>3, <2>1 DEF Redeem, Typed, Save, Handed
<1>4. ASSUME NEW o \in Outcomes, NEW r \in book.refresh, Rotate(r, o) PROVE Typed'
  <2>1. r \in Token /\ WithoutPair(book, r) \in Book
    BY BookOps DEF Typed, Book
  <2>2. Issued(WithoutPair(book, r), r) \in Book /\ NewRefresh(r) \in Token
    BY <2>1, BookOps, NewPair
  <2> QED  BY <1>4, <2>2 DEF Rotate, Typed, Save, Handed
<1>5. ASSUME NEW o \in Outcomes, NEW c \in Client, Register(c, o) PROVE Typed'
  <2>1. [book EXCEPT !.clients = @ \cup {c}] \in Book
    BY BookEdits DEF Typed
  <2> QED  BY <1>5, <2>1 DEF Register, Typed, Save, observed
<1>6. ASSUME NEW o \in Outcomes, NEW r \in book.refresh, Revoke(r, o) PROVE Typed'
  <2>1. WithoutPair(book, r) \in Book
    BY BookOps DEF Typed
  <2> QED  BY <1>6, <2>1 DEF Revoke, Typed, Save
<1>7. ASSUME NEW o \in Outcomes, NEW a \in book.access, RevokeAccess(a, o) PROVE Typed'
  <2>1. [book EXCEPT !.access = @ \ {a}] \in Book
    BY BookEdits DEF Typed
  <2> QED  BY <1>7, <2>1 DEF RevokeAccess, Typed, Save, observed
<1>8. ASSUME NEW o \in Outcomes, NEW w \in Word, NEW new \in Word, NewToken(w, new, o)
      PROVE  Typed'
  <2>1. [book EXCEPT !.token = new] \in Book
    BY BookEdits DEF Typed
  <2> QED  BY <1>8, <2>1 DEF NewToken, Typed, Save
<1>9. ASSUME NEW o \in Outcomes, NEW b \in Book, SignedOut(b, o) PROVE Typed'
  <2>1. [b EXCEPT !.clients = {}, !.access = {}, !.refresh = {}] \in Book
    BY BookEdits
  <2> QED  BY <1>9, <2>1 DEF SignedOut, SignOut, Typed, Save
<1>10. CASE Restart
  <2>1. Loaded(disk) \in Book
    BY BookOps DEF Typed
  <2> QED  BY <1>10, <2>1 DEF Restart, Typed
<1> QED
  BY <1>1, <1>2, <1>3, <1>4, <1>5, <1>6, <1>7, <1>8, <1>9, <1>10, Steps DEF Minted, Changed

\* At first everything is blank.
LEMMA TypedAtFirst == Init => Typed
  BY DEF Init, Typed, Blank, Book

-----------------------------------------------------------------------------
(* Connectors stay signed in *)

Keeps(b, hs, t) == \A h \in hs : h.until > t => h \in b.refresh /\ h.client \in b.clients

\* What connectors rely on is inductive, given the types.
LEMMA KeepsInductive == Typed /\ KeepsSignedIn /\ [Next]_vars => KeepsSignedIn'
<1> SUFFICES ASSUME Typed, KeepsSignedIn, [Next]_vars PROVE KeepsSignedIn'
  OBVIOUS
<1>1. Keeps(book, held, now) /\ Keeps(disk, held, now)
  BY DEF KeepsSignedIn, Keeps
<1>2. (Keeps(book, held, now) /\ Keeps(disk, held, now))' => KeepsSignedIn'
  BY DEF KeepsSignedIn, Keeps
<1>3. CASE Aside
  BY <1>1, <1>2, <1>3 DEF Aside, Keeps, Typed, Token
<1>4. ASSUME NEW c \in Token, Approved(c) PROVE KeepsSignedIn'
  BY <1>1, <1>2, <1>4 DEF Approved, Keeps
<1>5. ASSUME NEW o \in Outcomes, NEW c \in codes, Redeem(c, o) PROVE KeepsSignedIn'
  <2> DEFINE b == Issued(book, c)
  <2>1. /\ b.refresh = book.refresh \cup {NewRefresh(c)} /\ b.clients = book.clients
        /\ NewRefresh(c).client = c.client
    BY BookOps, NewPair DEF Typed
  <2>2. Save(b, o) /\ now' = now /\ held' = held \cup Handed(c, o) /\ c.client \in book.clients
    BY <1>5 DEF Redeem
  <2> HIDE DEF b
  <2>3. Keeps(b, held', now)
    BY <1>1, <2>1, <2>2 DEF Keeps, Handed
  <2>4. o # "answered" => Keeps(disk, held', now)
    BY <1>1, <2>2 DEF Keeps, Handed
  <2> QED  BY <1>2, <2>2, <2>3, <2>4, Saved DEF Keeps
<1>6. ASSUME NEW o \in Outcomes, NEW r \in book.refresh, Rotate(r, o) PROVE KeepsSignedIn'
  <2> DEFINE b == Issued(WithoutPair(book, r), r)
  <2>1. r \in Token /\ WithoutPair(book, r) \in Book
    BY BookOps DEF Typed, Book
  <2>2. /\ b.refresh = (book.refresh \ {r}) \cup {NewRefresh(r)} /\ b.clients = book.clients
        /\ NewRefresh(r).client = r.client
    <3>1. /\ b.refresh = WithoutPair(book, r).refresh \cup {NewRefresh(r)}
          /\ b.clients = WithoutPair(book, r).clients
      BY <2>1, BookOps
    <3>2. /\ WithoutPair(book, r).refresh = book.refresh \ {r}
          /\ WithoutPair(book, r).clients = book.clients
      BY BookOps DEF Typed
    <3> QED  BY <2>1, <3>1, <3>2, NewPair
  <2>3. /\ Save(b, o) /\ now' = now /\ held' = (held \ {r}) \cup Handed(r, o)
        /\ r.client \in book.clients
    BY <1>6 DEF Rotate
  <2> HIDE DEF b
  <2>4. Keeps(b, held', now)
    BY <1>1, <2>2, <2>3 DEF Keeps, Handed
  <2>5. o # "answered" => Keeps(disk, held', now)
    BY <1>1, <2>3 DEF Keeps, Handed
  <2> QED  BY <1>2, <2>3, <2>4, <2>5, Saved DEF Keeps
<1>7. ASSUME NEW o, NEW b, Save(b, o), now' = now, held' \subseteq held, Keeps(b, held', now)
      PROVE  KeepsSignedIn'
  BY <1>1, <1>2, <1>7, Saved DEF Keeps
<1>8. ASSUME NEW o \in Outcomes, NEW c \in Client, Register(c, o) PROVE KeepsSignedIn'
  <2> DEFINE b == [book EXCEPT !.clients = @ \cup {c}]
  <2>1. b.refresh = book.refresh /\ b.clients = book.clients \cup {c}
    BY DEF Typed, Book
  <2>2. Save(b, o) /\ now' = now /\ held' = held
    BY <1>8 DEF Register, observed
  <2> HIDE DEF b
  <2>3. Keeps(b, held', now)
    BY <1>1, <2>1, <2>2 DEF Keeps
  <2> QED  BY <1>7, <2>2, <2>3
<1>9. ASSUME NEW o \in Outcomes, NEW r \in book.refresh, Revoke(r, o) PROVE KeepsSignedIn'
  <2> DEFINE b == WithoutPair(book, r)
  <2>1. b.refresh = book.refresh \ {r} /\ b.clients = book.clients
    BY BookOps DEF Typed
  <2>2. Save(b, o) /\ now' = now /\ held' = held \ {r}
    BY <1>9 DEF Revoke
  <2> HIDE DEF b
  <2>3. Keeps(b, held', now)
    BY <1>1, <2>1, <2>2 DEF Keeps
  <2> QED  BY <1>7, <2>2, <2>3
<1>10. ASSUME NEW o \in Outcomes, NEW a \in book.access, RevokeAccess(a, o) PROVE KeepsSignedIn'
  <2> DEFINE b == [book EXCEPT !.access = @ \ {a}]
  <2>1. b.refresh = book.refresh /\ b.clients = book.clients
    BY DEF Typed, Book
  <2>2. Save(b, o) /\ now' = now /\ held' = held
    BY <1>10 DEF RevokeAccess, observed
  <2> HIDE DEF b
  <2>3. Keeps(b, held', now)
    BY <1>1, <2>1, <2>2 DEF Keeps
  <2> QED  BY <1>7, <2>2, <2>3
<1>11. ASSUME NEW o \in Outcomes, NEW w \in Word, NEW new \in Word, NewToken(w, new, o)
       PROVE  KeepsSignedIn'
  <2> DEFINE b == [book EXCEPT !.token = new]
  <2>1. b.refresh = book.refresh /\ b.clients = book.clients
    BY DEF Typed, Book
  <2>2. Save(b, o) /\ now' = now /\ held' = held
    BY <1>11 DEF NewToken
  <2> HIDE DEF b
  <2>3. Keeps(b, held', now)
    BY <1>1, <2>1, <2>2 DEF Keeps
  <2> QED  BY <1>7, <2>2, <2>3
<1>12. ASSUME NEW o \in Outcomes, NEW b \in Book, SignedOut(b, o) PROVE KeepsSignedIn'
  BY <1>2, <1>12 DEF SignedOut, SignOut, Keeps
<1>13. CASE Restart
  <2>1. Keeps(Loaded(disk), held, now)
    BY <1>1, BookOps DEF Keeps, Typed
  <2> QED  BY <1>1, <1>2, <1>13, <2>1 DEF Restart, Keeps
<1> QED
  BY <1>3, <1>4, <1>5, <1>6, <1>8, <1>9, <1>10, <1>11, <1>12, <1>13, Steps
     DEF Minted, Changed

\* A connector that was handed a refresh token, has not used or revoked it and was not
\* signed out can use it until it expires, whatever saves failed, answers were lost or
\* restarts came between (auth.py exchange_refresh_token, _save, _load).
THEOREM KeepsSignedInHolds == Spec => []KeepsSignedIn
<1>1. Init => KeepsSignedIn
  BY DEF Init, KeepsSignedIn
<1> QED  BY <1>1, TypedAtFirst, TypedInductive, KeepsInductive, PTL DEF Spec

-----------------------------------------------------------------------------
(* What was reported done stays done *)

\* A word that is not the token opens as the password only if it is one.
LEMMA OnlyAPassword ==
    ASSUME NEW b, NEW w, ~TokenOk(b, w), PasswordOk(b, w)
    PROVE  w \in {b.password, StaticPassword}
  BY DEF PasswordOk

Shut(b, ws) == \A w \in ws : ~TokenOk(b, w)

\* Only the token decides what the token is.
LEMMA SameToken ==
    ASSUME NEW b, NEW d, b.token = d.token, NEW ws, Shut(d, ws)
    PROVE  Shut(b, ws)
  BY DEF Shut, TokenOk

InEra(S) == \A x \in S : x.era = era

Current ==
    /\ InEra(pending) /\ InEra(codes) /\ InEra(sessions)
    /\ InEra(book.access) /\ InEra(book.refresh) /\ InEra(disk.access) /\ InEra(disk.refresh)
    /\ Shut(book, retired) /\ Shut(disk, retired)

LEMMA CurrentSays == Current <=> ChangesHold
<1>1. Current => ChangesHold
  BY OnlyAPassword DEF Current, ChangesHold, Credentials, InEra, Shut
<1>2. ChangesHold => Current
  BY DEF Current, ChangesHold, Credentials, InEra, Shut
<1> QED  BY <1>1, <1>2

\* Signing out and changing secrets moves the era for all that is left, given the types.
LEMMA CurrentInductive == Typed /\ Current /\ [Next]_vars => Current'
<1> SUFFICES ASSUME Typed, Current, [Next]_vars PROVE Current'
  OBVIOUS
<1>1. CASE Aside
  BY <1>1 DEF Aside, Current, InEra
<1>2. ASSUME NEW c \in Token, Approved(c) PROVE Current'
  BY <1>2 DEF Approved, Current, InEra
<1> DEFINE Good(b) == InEra(b.access) /\ InEra(b.refresh) /\ Shut(b, retired)
<1>3. ASSUME NEW o, NEW b, Save(b, o), Good(b), codes' \subseteq codes,
             UNCHANGED <<pending, sessions, era, retired>>
      PROVE  Current'
  BY <1>3, Saved DEF Current, InEra
<1>4. Good(book)
  BY DEF Current
<1>5. ASSUME NEW o \in Outcomes, NEW c \in codes, Redeem(c, o) PROVE Current'
  <2> DEFINE b == Issued(book, c)
  <2>1. c \in Token /\ c.era = era
    BY DEF Typed, Current, InEra
  <2>2. /\ b.access = book.access \cup {NewAccess(c)} /\ b.refresh = book.refresh \cup {NewRefresh(c)}
        /\ b.token = book.token
    BY <2>1, BookOps DEF Typed
  <2>3. NewAccess(c).era = era /\ NewRefresh(c).era = era
    BY <2>1, NewPair
  <2>4. Save(b, o) /\ codes' \subseteq codes /\ UNCHANGED <<pending, sessions, era, retired>>
    BY <1>5 DEF Redeem
  <2> HIDE DEF b
  <2>5. Good(b)
    BY <1>4, <2>2, <2>3, SameToken DEF InEra
  <2> HIDE DEF Good
  <2> QED  BY <1>3, <2>4, <2>5
<1>6. ASSUME NEW o \in Outcomes, NEW r \in book.refresh, Rotate(r, o) PROVE Current'
  <2> DEFINE q == WithoutPair(book, r)
             b == Issued(q, r)
  <2>1. r \in Token /\ r.era = era
    BY DEF Typed, Book, Current, InEra
  <2>2. q \in Book /\ q.access \subseteq book.access /\ q.refresh \subseteq book.refresh
        /\ q.token = book.token
    BY BookOps DEF Typed
  <2>3. NewAccess(r).era = era /\ NewRefresh(r).era = era
    BY <2>1, NewPair
  <2>4. Save(b, o) /\ codes' \subseteq codes /\ UNCHANGED <<pending, sessions, era, retired>>
    BY <1>6 DEF Rotate
  <2> HIDE DEF q
  <2>5. /\ b.access = q.access \cup {NewAccess(r)} /\ b.refresh = q.refresh \cup {NewRefresh(r)}
        /\ b.token = q.token
    BY <2>1, <2>2, BookOps
  <2> HIDE DEF b
  <2>6. Good(b)
    BY <1>4, <2>2, <2>3, <2>5, SameToken DEF InEra
  <2> HIDE DEF Good
  <2> QED  BY <1>3, <2>4, <2>6
<1>7. ASSUME NEW o \in Outcomes, NEW c \in Client, Register(c, o) PROVE Current'
  <2> DEFINE b == [book EXCEPT !.clients = @ \cup {c}]
  <2>1. b.access = book.access /\ b.refresh = book.refresh /\ b.token = book.token
    BY DEF Typed, Book
  <2>2. Save(b, o) /\ codes' \subseteq codes /\ UNCHANGED <<pending, sessions, era, retired>>
    BY <1>7 DEF Register, observed
  <2> HIDE DEF b
  <2>3. Good(b)
    BY <1>4, <2>1, SameToken
  <2> HIDE DEF Good
  <2> QED  BY <1>3, <2>2, <2>3
<1>8. ASSUME NEW o \in Outcomes, NEW r \in book.refresh, Revoke(r, o) PROVE Current'
  <2> DEFINE b == WithoutPair(book, r)
  <2>1. b.access \subseteq book.access /\ b.refresh \subseteq book.refresh /\ b.token = book.token
    BY BookOps DEF Typed
  <2>2. Save(b, o) /\ codes' \subseteq codes /\ UNCHANGED <<pending, sessions, era, retired>>
    BY <1>8 DEF Revoke
  <2> HIDE DEF b
  <2>3. Good(b)
    BY <1>4, <2>1, SameToken DEF InEra
  <2> HIDE DEF Good
  <2> QED  BY <1>3, <2>2, <2>3
<1>9. ASSUME NEW o \in Outcomes, NEW a \in book.access, RevokeAccess(a, o) PROVE Current'
  <2> DEFINE b == [book EXCEPT !.access = @ \ {a}]
  <2>1. b.access \subseteq book.access /\ b.refresh = book.refresh /\ b.token = book.token
    BY DEF Typed, Book
  <2>2. Save(b, o) /\ codes' \subseteq codes /\ UNCHANGED <<pending, sessions, era, retired>>
    BY <1>9 DEF RevokeAccess, observed
  <2> HIDE DEF b
  <2>3. Good(b)
    BY <1>4, <2>1, SameToken DEF InEra
  <2> HIDE DEF Good
  <2> QED  BY <1>3, <2>2, <2>3
<1>10. ASSUME NEW o \in Outcomes, NEW w \in Word, NEW new \in Word, NewToken(w, new, o)
       PROVE  Current'
  <2> DEFINE b == [book EXCEPT !.token = new]
  <2>1. b.access = book.access /\ b.refresh = book.refresh /\ b.token = new
    BY DEF Typed, Book
  <2>2. /\ Save(b, o) /\ UNCHANGED <<pending, codes, sessions, era>>
        /\ retired' = IF o = "unsaved" THEN retired ELSE retired \cup {w}
        /\ TokenOk(book, w) /\ new \notin retired /\ new \notin {StaticToken, book.token}
    BY <1>10 DEF NewToken
  <2> HIDE DEF b
  <2>3. Shut(b, retired \cup {w})
    BY <2>1, <2>2, WordAssumption DEF Shut, TokenOk
  <2>4. Shut(b, retired')
    BY <2>2, <2>3 DEF Shut
  <2>5. Good(b)
    BY <1>4, <2>1, <2>3 DEF Shut
  <2>6. CASE o = "unsaved"
    BY <1>3, <2>2, <2>5, <2>6
  <2>7. CASE o # "unsaved"
    <3>1. book' = b /\ disk' = b
      BY <2>2, <2>7, Saved
    <3> QED  BY <2>2, <2>4, <2>5, <3>1 DEF Current, InEra
  <2> QED  BY <2>6, <2>7
<1>11. ASSUME NEW o \in Outcomes, NEW b \in Book, SignedOut(b, o) PROVE Current'
  <2> DEFINE d == [b EXCEPT !.clients = {}, !.access = {}, !.refresh = {}]
  <2>1. d.access = {} /\ d.refresh = {} /\ d.token = book.token
    BY <1>11 DEF Book, SignedOut
  <2>2. /\ Save(d, o) /\ codes' = {} /\ pending' = {} /\ retired' = retired
        /\ sessions' = IF o = "unsaved" THEN sessions ELSE {}
        /\ era' = IF o = "unsaved" THEN era ELSE era + 1
    BY <1>11 DEF SignedOut, SignOut
  <2> HIDE DEF d
  <2>3. Shut(d, retired)
    BY <1>4, <2>1, SameToken
  <2>4. CASE o = "unsaved"
    BY <2>1, <2>2, <2>3, <2>4, Saved DEF Current, InEra
  <2>5. CASE o # "unsaved"
    <3>1. book' = d /\ disk' = d
      BY <2>2, <2>5, Saved
    <3> QED  BY <2>1, <2>2, <2>3, <2>5, <3>1 DEF Current, InEra
  <2> QED  BY <2>4, <2>5
<1>12. CASE Restart
  <2>1. Loaded(disk).access \subseteq disk.access /\ Loaded(disk).refresh \subseteq disk.refresh
        /\ Loaded(disk).token = disk.token
    BY BookOps DEF Typed
  <2>2. Shut(Loaded(disk), retired)
    BY <2>1, SameToken DEF Current
  <2> QED  BY <1>12, <2>1, <2>2 DEF Restart, Current, InEra
<1> HIDE DEF Good
<1> QED
  BY <1>1, <1>2, <1>5, <1>6, <1>7, <1>8, <1>9, <1>10, <1>11, <1>12, Steps
     DEF Minted, Changed

\* Nothing granted before a sign-out lives on, and a replaced token opens nothing, in
\* memory, on the disk and after any restart (auth.py sign_out_all, set_password,
\* new_token).
THEOREM ChangesHoldHolds == Spec => []ChangesHold
<1>1. Init => Current
  BY DEF Init, Current, InEra, Shut, Blank
<1> QED
  BY <1>1, TypedAtFirst, TypedInductive, CurrentInductive, CurrentSays, PTL DEF Spec

-----------------------------------------------------------------------------
(* One approval has one heir *)

Single(S) == \A x, y \in S : x.family = y.family => x = y

Backs(r, a) == r.id = a.id /\ r.family = a.family /\ a.until <= r.until

\* Of a book, before the number m is given out: a family has one refresh token and one
\* access token, minted with it.
Heirs(b, m) ==
    /\ b \in Book
    /\ Single(b.refresh) /\ Single(b.access)
    /\ \A a \in b.access : \E r \in b.refresh : Backs(r, a)
    /\ \A x \in b.access \cup b.refresh : x.id < m /\ x.family < m

\* The family has nobody in a book.
Free(b, f) == \A r \in b.refresh : r.family # f

HeirInv ==
    /\ Heirs(book, minted) /\ Heirs(disk, minted)
    /\ Single(codes)
    /\ \A c \in codes : c.family < minted /\ Free(book, c.family) /\ Free(disk, c.family)

\* A pair for a family that has nobody.
LEMMA IssuedHeirs ==
    ASSUME Typed, NEW b, Heirs(b, minted), NEW g \in Token, g.family < minted, Free(b, g.family)
    PROVE  Heirs(Issued(b, g), minted + 1)
<1> DEFINE d == Issued(b, g)
           x == NewAccess(g)
           z == NewRefresh(g)
<1>1. /\ d \in Book /\ d.access = b.access \cup {x} /\ d.refresh = b.refresh \cup {z}
  BY BookOps DEF Heirs
<1>2. /\ x.id = minted /\ z.id = minted /\ x.family = g.family /\ z.family = g.family
      /\ x.until <= z.until
  BY NewPair
<1> HIDE DEF d, x, z
<1>3. \A r \in b.refresh : r.family # g.family
  BY DEF Free
<1>4. \A a \in b.access : a.family # g.family
  BY <1>3 DEF Heirs, Backs
<1>5. Single(d.refresh) /\ Single(d.access)
  BY <1>1, <1>2, <1>3, <1>4 DEF Heirs, Single
<1>6. \A a \in d.access : \E r \in d.refresh : Backs(r, a)
  BY <1>1, <1>2 DEF Heirs, Backs
<1>7. \A y \in b.access \cup b.refresh : y.id \in Nat /\ y.family \in Nat
  BY DEF Heirs, Book, Token
<1>8. \A y \in d.access \cup d.refresh : y.id < minted + 1 /\ y.family < minted + 1
  BY <1>1, <1>2, <1>7 DEF Heirs, Typed, Token
<1> QED  BY <1>1, <1>5, <1>6, <1>8 DEF Heirs, d

\* Without a refresh token and the access token minted with it, its family has nobody.
LEMMA WithoutHeir ==
    ASSUME NEW b, NEW m, Heirs(b, m), NEW r \in b.refresh
    PROVE  Heirs(WithoutPair(b, r), m) /\ Free(WithoutPair(b, r), r.family)
<1> DEFINE d == WithoutPair(b, r)
<1>1. d \in Book /\ d.access = {a \in b.access : a.id # r.id} /\ d.refresh = b.refresh \ {r}
  BY BookOps DEF Heirs
<1> HIDE DEF d
<1>2. Single(d.refresh) /\ Single(d.access)
  BY <1>1 DEF Heirs, Single
<1>3. \A a \in d.access : \E s \in d.refresh : Backs(s, a)
  BY <1>1 DEF Heirs, Backs
<1>4. \A x \in d.access \cup d.refresh : x.id < m /\ x.family < m
  BY <1>1 DEF Heirs
<1>5. Free(d, r.family)
  BY <1>1 DEF Heirs, Single, Free
<1> QED  BY <1>1, <1>2, <1>3, <1>4, <1>5 DEF Heirs, d

\* A load keeps the refresh token of every access token it keeps.
LEMMA LoadedHeirs ==
    ASSUME Typed, NEW b, NEW m, Heirs(b, m)
    PROVE  Heirs(Loaded(b), m)
<1> DEFINE d == Loaded(b)
<1>1. /\ d \in Book /\ d.access = {a \in b.access : a.until > now}
      /\ d.refresh = {r \in b.refresh : r.until > now}
  BY BookOps DEF Heirs
<1> HIDE DEF d
<1>2. \A y \in b.access \cup b.refresh : y.until \in Nat
  BY DEF Heirs, Book, Token
<1>3. Single(d.refresh) /\ Single(d.access)
  BY <1>1 DEF Heirs, Single
<1>4. \A a \in d.access : \E s \in d.refresh : Backs(s, a)
  BY <1>1, <1>2 DEF Heirs, Backs, Typed
<1>5. \A x \in d.access \cup d.refresh : x.id < m /\ x.family < m
  BY <1>1 DEF Heirs
<1> QED  BY <1>1, <1>3, <1>4, <1>5 DEF Heirs, d

\* Fewer access tokens, other secrets, other clients and later numbers do no harm.
LEMMA HeirsStay ==
    ASSUME NEW b, NEW d \in Book, NEW m \in Nat, NEW n \in Nat, Heirs(b, m), m <= n,
           d.refresh = b.refresh, d.access \subseteq b.access
    PROVE  Heirs(d, n)
<1>1. \A y \in b.access \cup b.refresh : y.id \in Nat /\ y.family \in Nat
  BY DEF Heirs, Book, Token
<1> QED  BY <1>1 DEF Heirs, Single

\* One heir each is inductive, given the types.
LEMMA HeirInductive == Typed /\ HeirInv /\ [Next]_vars => HeirInv'
<1> SUFFICES ASSUME Typed, HeirInv, [Next]_vars PROVE HeirInv'
  OBVIOUS
<1>0. /\ minted \in Nat /\ book \in Book /\ disk \in Book
      /\ \A c \in codes : c \in Token /\ c.family \in Nat
  BY DEF Typed, Token
<1>1. CASE Aside
  <2>1. Heirs(book, minted') /\ Heirs(disk, minted')
    BY <1>0, <1>1, HeirsStay DEF Aside, HeirInv
  <2> QED  BY <1>0, <1>1, <2>1 DEF Aside, HeirInv, Free
<1>2. ASSUME NEW c \in Token, Approved(c) PROVE HeirInv'
  <2>1. Heirs(book, minted') /\ Heirs(disk, minted')
    BY <1>0, <1>2, HeirsStay DEF Approved, HeirInv
  <2>2. \A b \in {book, disk} : Free(b, c.family)
    BY <1>0, <1>2 DEF Approved, HeirInv, Heirs, Free, Book, Token
  <2>3. Single(codes')
    BY <1>0, <1>2 DEF Approved, HeirInv, Single
  <2>4. \A d \in codes' : d.family < minted' /\ Free(book, d.family) /\ Free(disk, d.family)
    BY <1>0, <1>2, <2>2 DEF Approved, HeirInv
  <2> QED  BY <1>2, <2>1, <2>3, <2>4 DEF Approved, HeirInv, Free
<1>3. ASSUME NEW o, NEW b, Save(b, o), minted' \in {minted, minted + 1}, Heirs(b, minted'),
             codes' \subseteq codes, \A c \in codes' : Free(b, c.family)
      PROVE  HeirInv'
  <2>1. Heirs(disk, minted')
    BY <1>0, <1>3, HeirsStay DEF HeirInv
  <2>2. Heirs(book', minted') /\ Heirs(disk', minted')
    BY <1>3, <2>1, Saved
  <2>3. \A c \in codes' : c.family < minted' /\ Free(book', c.family) /\ Free(disk', c.family)
    BY <1>0, <1>3, Saved DEF HeirInv
  <2>4. Single(codes')
    BY <1>3 DEF HeirInv, Single
  <2> QED  BY <2>2, <2>3, <2>4 DEF HeirInv, Heirs, Free, Single, Backs
<1>4. ASSUME NEW o \in Outcomes, NEW c \in codes, Redeem(c, o) PROVE HeirInv'
  <2> DEFINE b == Issued(book, c)
  <2>1. Heirs(b, minted + 1)
    BY <1>0, IssuedHeirs DEF HeirInv
  <2>2. b.refresh = book.refresh \cup {NewRefresh(c)} /\ NewRefresh(c).family = c.family
    BY <1>0, BookOps, NewPair
  <2>3. Save(b, o) /\ minted' = minted + 1 /\ codes' = codes \ {c}
    BY <1>4 DEF Redeem
  <2> HIDE DEF b
  <2>4. \A d \in codes' : Free(b, d.family)
    BY <2>2, <2>3 DEF HeirInv, Free, Single
  <2> QED  BY <1>3, <2>1, <2>3, <2>4
<1>5. ASSUME NEW o \in Outcomes, NEW r \in book.refresh, Rotate(r, o) PROVE HeirInv'
  <2> DEFINE q == WithoutPair(book, r)
             b == Issued(q, r)
  <2>1. r \in Token /\ r.family < minted
    BY DEF Typed, Book, HeirInv, Heirs
  <2>2. Heirs(q, minted) /\ Free(q, r.family)
    BY WithoutHeir DEF HeirInv
  <2>3. q \in Book /\ q.refresh = book.refresh \ {r}
    BY <1>0, BookOps
  <2>4. Save(b, o) /\ minted' = minted + 1 /\ codes' = codes
    BY <1>5 DEF Rotate
  <2> HIDE DEF q
  <2>5. b.refresh = q.refresh \cup {NewRefresh(r)} /\ NewRefresh(r).family = r.family
    BY <2>1, <2>3, BookOps, NewPair
  <2>6. Heirs(b, minted + 1)
    BY <2>1, <2>2, IssuedHeirs
  <2> HIDE DEF b
  <2>7. \A d \in codes' : Free(b, d.family)
    BY <2>3, <2>4, <2>5 DEF HeirInv, Free
  <2> QED  BY <1>3, <2>4, <2>6, <2>7
<1>6. ASSUME NEW o, NEW b \in Book, Save(b, o), minted' = minted, codes' = codes,
             b.refresh = book.refresh, b.access \subseteq book.access
      PROVE  HeirInv'
  <2>1. Heirs(b, minted)
    BY <1>0, <1>6, HeirsStay DEF HeirInv
  <2>2. \A c \in codes' : Free(b, c.family)
    BY <1>6 DEF HeirInv, Free
  <2> QED  BY <1>3, <1>6, <2>1, <2>2
<1>7. ASSUME NEW o \in Outcomes, NEW c \in Client, Register(c, o) PROVE HeirInv'
  <2> DEFINE b == [book EXCEPT !.clients = @ \cup {c}]
  <2>1. b \in Book /\ b.refresh = book.refresh /\ b.access = book.access
    BY <1>0 DEF Book
  <2>2. Save(b, o) /\ minted' = minted /\ codes' = codes
    BY <1>7 DEF Register
  <2> HIDE DEF b
  <2> QED  BY <1>6, <2>1, <2>2
<1>8. ASSUME NEW o \in Outcomes, NEW r \in book.refresh, Revoke(r, o) PROVE HeirInv'
  <2> DEFINE b == WithoutPair(book, r)
  <2>1. Heirs(b, minted) /\ b.refresh \subseteq book.refresh
    <3>1. b.refresh = book.refresh \ {r}
      BY <1>0, BookOps
    <3> QED  BY <3>1, WithoutHeir DEF HeirInv
  <2>2. Save(b, o) /\ minted' = minted /\ codes' = codes
    BY <1>8 DEF Revoke
  <2> HIDE DEF b
  <2>3. \A c \in codes' : Free(b, c.family)
    BY <2>1, <2>2 DEF HeirInv, Free
  <2> QED  BY <1>3, <2>1, <2>2, <2>3
<1>9. ASSUME NEW o \in Outcomes, NEW a \in book.access, RevokeAccess(a, o) PROVE HeirInv'
  <2> DEFINE b == [book EXCEPT !.access = @ \ {a}]
  <2>1. b \in Book /\ b.refresh = book.refresh /\ b.access \subseteq book.access
    BY <1>0 DEF Book
  <2>2. Save(b, o) /\ minted' = minted /\ codes' = codes
    BY <1>9 DEF RevokeAccess
  <2> HIDE DEF b
  <2> QED  BY <1>6, <2>1, <2>2
<1>10. ASSUME NEW o \in Outcomes, NEW w \in Word, NEW new \in Word, NewToken(w, new, o)
       PROVE  HeirInv'
  <2> DEFINE b == [book EXCEPT !.token = new]
  <2>1. b \in Book /\ b.refresh = book.refresh /\ b.access = book.access
    BY <1>0 DEF Book
  <2>2. Save(b, o) /\ minted' = minted /\ codes' = codes
    BY <1>10 DEF NewToken
  <2> HIDE DEF b
  <2> QED  BY <1>6, <2>1, <2>2
<1>11. ASSUME NEW o \in Outcomes, NEW b \in Book, SignedOut(b, o) PROVE HeirInv'
  <2> DEFINE d == [b EXCEPT !.clients = {}, !.access = {}, !.refresh = {}]
  <2>1. d \in Book /\ d.access = {} /\ d.refresh = {}
    BY DEF Book
  <2>2. Save(d, o) /\ minted' = minted /\ codes' = {}
    BY <1>11 DEF SignedOut, SignOut
  <2> HIDE DEF d
  <2>3. Heirs(d, minted)
    BY <2>1 DEF Heirs, Single
  <2> QED  BY <1>3, <2>2, <2>3
<1>12. CASE Restart
  <2>1. Heirs(Loaded(disk), minted)
    BY LoadedHeirs DEF HeirInv
  <2> QED  BY <1>12, <2>1 DEF Restart, HeirInv, Single
<1> QED
  BY <1>1, <1>2, <1>4, <1>5, <1>7, <1>8, <1>9, <1>10, <1>11, <1>12, Steps
     DEF Minted, Changed

\* Through any rotations, revocations, failed saves and restarts an approval of the
\* owner's keeps at most one refresh token and the one access token minted with it
\* (auth.py _issue, exchange_authorization_code, exchange_refresh_token, revoke_token).
THEOREM OneHeirHolds == Spec => []OneHeir
<1>1. Init => HeirInv
  BY DEF Init, HeirInv, Heirs, Single, Blank, Book
<1>2. HeirInv => OneHeir
  BY DEF HeirInv, Heirs, Single, Backs, Free, OneHeir
<1> QED
  BY <1>1, <1>2, TypedAtFirst, TypedInductive, HeirInductive, PTL DEF Spec

-----------------------------------------------------------------------------
(* Few guesses *)

OfSecond(S, t) == {f \in S : f.at = t}
Since(S, t) == {f \in S : f.at > t}

\* Guesses of a second are numbered from 0.
Apart(S) == \A f \in S : f.n < Cardinality(OfSecond(S, f.at))

Guesses(S) == S \subseteq Miss /\ IsFiniteSet(S) /\ Apart(S)

\* Of the guesses that can still lock anyone out, the process counts what it answered.
GuessInv ==
    /\ now \in Int
    /\ Guesses(failures) /\ Guesses(wrong)
    /\ Since(wrong, now - Lockout) = Since(failures, now - Lockout)
    /\ Cardinality(wrong) <= MaxFailures

\* A guess more is one that was not counted yet.
LEMMA OneMoreIsNew ==
    ASSUME NEW S, Guesses(S)
    PROVE  /\ OneMore(S) \notin S
           /\ OneMore(S).at = now /\ OneMore(S).n = Cardinality(OfSecond(S, now))
<1>1. OneMore(S).at = now /\ OneMore(S).n = Cardinality(OfSecond(S, now))
  BY DEF OneMore, OfSecond
<1>2. Cardinality(OfSecond(S, now)) \in Nat
  BY FS_Subset, FS_CardinalityType DEF Guesses, OfSecond
<1>3. OneMore(S) \in S => Cardinality(OfSecond(S, now)) < Cardinality(OfSecond(S, now))
  BY <1>1 DEF Guesses, Apart
<1> QED  BY <1>1, <1>2, <1>3

\* Forgetting the guesses up to a time forgets whole seconds.
LEMMA SinceGuesses ==
    ASSUME NEW S, Guesses(S), NEW t \in Int
    PROVE  Guesses(Since(S, t))
<1> DEFINE R == Since(S, t)
<1>1. R \subseteq Miss /\ IsFiniteSet(R)
  BY FS_Subset DEF Guesses, Since
<1>2. ASSUME NEW f \in R PROVE f.n < Cardinality(OfSecond(R, f.at))
  <2>1. OfSecond(R, f.at) = OfSecond(S, f.at)
    BY DEF OfSecond, Since
  <2> QED  BY <2>1 DEF Guesses, Apart, Since
<1> QED  BY <1>1, <1>2 DEF Guesses, Apart

\* With one more they are numbered still.
LEMMA OneMoreGuesses ==
    ASSUME NEW S, Guesses(S), now \in Nat
    PROVE  /\ Guesses(S \cup {OneMore(S)})
           /\ Cardinality(S \cup {OneMore(S)}) = Cardinality(S) + 1
<1> DEFINE g == OneMore(S)
           T == S \cup {g}
<1>1. g \notin S /\ g.at = now /\ g.n = Cardinality(OfSecond(S, now))
  BY OneMoreIsNew
<1>2. IsFiniteSet(OfSecond(S, now)) /\ Cardinality(OfSecond(S, now)) \in Nat
  BY FS_Subset, FS_CardinalityType DEF Guesses, OfSecond
<1>3. g \in Miss
  BY <1>2 DEF Miss, OneMore, OfSecond
<1>4. IsFiniteSet(T) /\ Cardinality(T) = Cardinality(S) + 1
  BY <1>1, FS_AddElement DEF Guesses
<1> HIDE DEF g
<1>5. ASSUME NEW f \in T PROVE f.n < Cardinality(OfSecond(T, f.at))
  <2>1. CASE f.at = now
    <3>1. OfSecond(T, now) = OfSecond(S, now) \cup {g} /\ g \notin OfSecond(S, now)
      BY <1>1 DEF OfSecond
    <3>2. Cardinality(OfSecond(T, now)) = Cardinality(OfSecond(S, now)) + 1
      BY <1>2, <3>1, FS_AddElement
    <3>3. f.n <= Cardinality(OfSecond(S, now)) /\ f.n \in Nat
      BY <1>1, <1>2, <1>3, <2>1 DEF Guesses, Apart, Miss
    <3> QED  BY <1>2, <2>1, <3>2, <3>3
  <2>2. CASE f.at # now
    <3>1. f \in S /\ OfSecond(T, f.at) = OfSecond(S, f.at)
      BY <1>1, <2>2 DEF OfSecond
    <3> QED  BY <3>1 DEF Guesses, Apart
  <2> QED  BY <2>1, <2>2
<1>6. T \subseteq Miss
  BY <1>3 DEF Guesses
<1> QED  BY <1>4, <1>5, <1>6 DEF Guesses, Apart, g

\* A word typed counts as a guess unless it is right or nobody may guess.
LEMMA GuardKeeps ==
    ASSUME GuessInv, now \in Nat, now' = now, NEW ok, Guard(ok)
    PROVE  GuessInv'
<1> DEFINE cut == now - Lockout
           miss == ~Locked /\ ~ok
<1>0. Lockout \in Nat \ {0} /\ MaxFailures \in Nat /\ cut \in Int /\ now > cut
  BY TTLAssumption
<1>1. Recent = Since(failures, cut) /\ Guesses(Recent)
  <2>1. Recent = Since(failures, cut)
    BY DEF Recent, Since
  <2> QED  BY <1>0, <2>1, SinceGuesses DEF GuessInv
<1>2. Since(Recent, cut) = Recent /\ Since(wrong, cut) = Recent
  BY <1>1 DEF Since, GuessInv
<1>3. CASE miss
  <2>1. OneMore(wrong) = OneMore(Recent)
    <3>1. OfSecond(wrong, now) = OfSecond(Recent, now)
      BY <1>0, <1>2 DEF OfSecond, Since
    <3> QED  BY <3>1 DEF OneMore, OfSecond
  <2>2. failures' = Recent \cup {OneMore(Recent)} /\ wrong' = failures'
    BY <1>2, <1>3, <2>1 DEF Guard, Since
  <2>3. Guesses(failures') /\ Cardinality(wrong') = Cardinality(Recent) + 1
    BY <1>1, <2>2, OneMoreGuesses
  <2>4. Cardinality(Recent) \in Nat /\ Cardinality(Recent) < MaxFailures
    BY <1>0, <1>1, <1>3, FS_CardinalityType DEF Guesses, Locked
  <2> HIDE DEF miss
  <2>5. Cardinality(wrong') <= MaxFailures
    BY <1>0, <2>3, <2>4
  <2> QED  BY <2>2, <2>3, <2>5 DEF GuessInv, Guesses, Apart, OfSecond, Since
<1>4. CASE ~miss
  <2>1. failures' = Recent /\ wrong' = wrong
    BY <1>4 DEF Guard
  <2> QED  BY <1>1, <1>2, <2>1 DEF GuessInv, Guesses, Apart, OfSecond, Since
<1> QED  BY <1>3, <1>4

\* Every step types a word, lets time pass, restarts, or does not concern guesses.
LEMMA GuessSteps ==
    ASSUME [Next]_vars
    PROVE  \/ now' = now /\ \E ok : Guard(ok)
           \/ now' = now /\ UNCHANGED <<failures, wrong>>
           \/ now' = now + 1 /\ UNCHANGED <<failures, wrong>>
           \/ now' = now /\ failures' = {} /\ wrong' = {}
<1>1. CASE Connectors
  BY <1>1 DEF Connectors, Authorize, Login, Register, Redeem, Rotate, Revoke, RevokeAccess,
              observed
<1>2. CASE Browsers
  BY <1>2 DEF Browsers, BrowserLogin, Logout, AskSettings, WrongToken, SignOutAll, SetPassword,
              NewToken, TypedToken, observed
<1> QED
  BY <1>1, <1>2 DEF Next, Restart, Tick, vars, observed

\* What was answered and what is counted stay in step.
LEMMA GuessInductive == Typed /\ GuessInv /\ [Next]_vars => GuessInv'
<1> SUFFICES ASSUME Typed, GuessInv, [Next]_vars PROVE GuessInv'
  OBVIOUS
<1>0. now \in Nat /\ Lockout \in Nat /\ MaxFailures \in Nat
  BY TTLAssumption DEF Typed
<1>1. ASSUME now' = now, NEW ok, Guard(ok) PROVE GuessInv'
  BY <1>0, <1>1, GuardKeeps
<1>2. CASE now' = now /\ UNCHANGED <<failures, wrong>>
  BY <1>2 DEF GuessInv, Guesses, Apart, OfSecond, Since
<1>3. CASE now' = now + 1 /\ UNCHANGED <<failures, wrong>>
  <2>1. Since(wrong, now' - Lockout) = Since(failures, now' - Lockout)
    <3>1. ASSUME NEW f \in failures \cup wrong, f.at > now' - Lockout
          PROVE  f.at > now - Lockout
      <4>1. f.at \in Nat
        BY DEF GuessInv, Guesses, Miss
      <4> QED  BY <1>0, <1>3, <3>1, <4>1
    <3> QED  BY <3>1 DEF GuessInv, Since
  <2> QED  BY <1>0, <1>3, <2>1 DEF GuessInv, Guesses, Apart, OfSecond, Since
<1>4. CASE now' = now /\ failures' = {} /\ wrong' = {}
  BY <1>0, <1>4, FS_EmptySet DEF GuessInv, Guesses, Apart, OfSecond, Since
<1> QED  BY <1>1, <1>2, <1>3, <1>4, GuessSteps

\* However sign-ins on three pages, the clock and restarts alternate, a process answers
\* no more than MAX_FAILURES guesses as wrong in any LOCKOUT seconds (auth.py locked,
\* _guard).
THEOREM FewGuessesHolds == Spec => []FewGuesses
<1>1. Init => GuessInv
  BY FS_EmptySet, TTLAssumption DEF Init, GuessInv, Guesses, Apart, OfSecond, Since
<1>2. GuessInv => FewGuesses
  BY DEF GuessInv, FewGuesses
<1> QED
  BY <1>1, <1>2, TypedAtFirst, TypedInductive, GuessInductive, PTL DEF Spec

\* Every part of the state keeps its type.
THEOREM TypeOKHolds == Spec => []TypeOK
<1> DEFINE Flag == asked \in BOOLEAN
<1>1. Init => Flag
  BY DEF Init
<1>2. Init => GuessInv
  BY FS_EmptySet, TTLAssumption DEF Init, GuessInv, Guesses, Apart, OfSecond, Since
<1>3. Flag /\ [Next]_vars => Flag'
  <2>1. Connectors => asked' = asked
    BY DEF Connectors, Authorize, Login, Register, Redeem, Rotate, Revoke, RevokeAccess
  <2>2. Browsers => asked' \in {asked, TRUE, FALSE}
    BY DEF Browsers, BrowserLogin, Logout, AskSettings, WrongToken, SignOutAll, SetPassword,
           NewToken, TypedToken
  <2>3. Restart \/ Tick \/ UNCHANGED vars => asked' \in {asked, FALSE}
    BY DEF Restart, Tick, vars
  <2> QED  BY <2>1, <2>2, <2>3 DEF Next
<1>4. Typed /\ GuessInv /\ Flag => TypeOK
  BY DEF Typed, GuessInv, Guesses, TypeOK
<1> QED
  BY <1>1, <1>2, <1>3, <1>4, TypedAtFirst, TypedInductive, GuessInductive, PTL DEF Spec

=============================================================================
