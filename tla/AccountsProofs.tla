----------------------------- MODULE AccountsProofs -----------------------------
(***************************************************************************)
(* Proofs about Accounts.  A handler acts on what its reads found, so the     *)
(* invariant says what those reads were (Handled), and from that follows     *)
(* what a handler that did not race may do to the logins of its account.     *)
(***************************************************************************)
EXTENDS Accounts, FiniteSetTheorems, TLAPS

\* What the operations of a handler leave to its later steps.
Requested(p) ==
    /\ p.pc \in {"lookup", "csrf"} /\ p.op = "telegram" => p.login \in Telegram
    /\ p.pc \in {"lookup", "csrf"} /\ p.op = "unlink" => p.provider \in Provider
    /\ p.pc = "csrf" => p.op \in {"telegram", "unlink"}
    /\ p.pc = "lookup" => p.op \in {"telegram", "unlink", "delete"}
    /\ p.pc \in {"lookup", "csrf", "identities"} => p.seen = {}

\* What the reads of a handler found that is about to link or unlink.
Decided(p) ==
    /\ p.pc = "link" => \A S \in p.seen : S \cap Telegram = {}
    /\ p.pc \in {"count", "unlink"} => \E S \in p.seen : S \cap p.provider \cap RootLogin = {}
    /\ p.pc = "unlink" => \E S \in p.seen : Cardinality(S) > 1

Handled == \A w \in Worker : Requested(proc[w]) /\ Decided(proc[w])

Good(p) == p \in Handler /\ Ready(p) /\ Requested(p) /\ Decided(p)

TypeInv == TypeOK /\ Handled

LoginInv == LoginMethodKept /\ OneLoginPerProvider /\ NoOrphans

-----------------------------------------------------------------------------
(* A handler's own step *)

\* Replacing one handler by a good one leaves all of them good.
LEMMA HandlerReplaced ==
    ASSUME TypeInv, NEW w \in Worker, NEW p, Goto(w, p), Good(p)
    PROVE  /\ proc' \in [Worker -> Handler]
           /\ \A v \in Worker : Ready(proc'[v])
           /\ Handled'
<1>1. proc' \in [Worker -> Handler] /\ \A v \in Worker : proc'[v] = IF v = w THEN p ELSE proc[v]
  BY DEF Goto, Good, TypeInv, TypeOK
<1>2. \A v \in Worker : Ready(proc[v]) /\ Requested(proc[v]) /\ Decided(proc[v])
  BY DEF TypeInv, TypeOK, Handled
<1>3. \A v \in Worker : Ready(proc'[v]) /\ Requested(proc'[v]) /\ Decided(proc'[v])
  BY <1>1, <1>2 DEF Good
<1> QED
  BY <1>1, <1>3 DEF Handled

LEMMA IdleIsGood == Good(Idle)
BY DEF Good, Idle, Handler, Steps, Ready, Requested, Decided

\* A handler that stays or ends, when the tables keep their types.
LEMMA Ends ==
    ASSUME TypeInv, NEW w \in Worker, Goto(w, Idle)
    PROVE  proc' \in [Worker -> Handler] /\ (\A v \in Worker : Ready(proc'[v])) /\ Handled'
BY HandlerReplaced, IdleIsGood

LEMMA LoginsAreLogins == ASSUME NEW a PROVE LoginsOf(a) \in SUBSET Login
BY DEF LoginsOf

\* Where lookup_session leads, whatever it answered.
LEMMA AuthenticatedIsGood ==
    ASSUME NEW p, Good(p), p.pc = "lookup", NEW a \in Account \cup {None}
    PROVE  Good(Authenticated(p, a))
<1>1. p.session \in Session /\ p.op \in {"telegram", "unlink", "delete"} /\ p.seen = {}
  BY DEF Good, Ready, Requested
<1>2. CASE a = None /\ p.op = "telegram"
  <2>1. p.login \in Login /\ Authenticated(p, a) = [p EXCEPT !.pc = "upsert", !.session = None]
    BY <1>1, <1>2 DEF Authenticated, Good, Requested, Login
  <2> QED
    BY <1>1, <2>1 DEF Good, Handler, Steps, Ready, Requested, Decided
<1>3. CASE a = None /\ p.op # "telegram"
  <2>1. Authenticated(p, a) = Idle
    BY <1>3 DEF Authenticated
  <2> QED
    BY <2>1, IdleIsGood
<1>4. CASE a # None /\ p.op = "delete"
  <2>1. Authenticated(p, a) = [p EXCEPT !.pc = "delete", !.user = a]
    BY <1>4 DEF Authenticated
  <2> QED
    BY <1>1, <1>4, <2>1 DEF Good, Handler, Steps, Ready, Requested, Decided
<1>5. CASE a # None /\ p.op # "delete"
  <2>1. Authenticated(p, a) = [p EXCEPT !.pc = "csrf", !.user = a]
    BY <1>5 DEF Authenticated
  <2> QED
    BY <1>1, <1>5, <2>1 DEF Good, Handler, Steps, Ready, Requested, Decided
<1> QED
  BY <1>2, <1>3, <1>4, <1>5

\* The other steps of a handler, each with what it has just read.
LEMMA CsrfIsGood ==
    ASSUME NEW p, Good(p), p.pc = "csrf"
    PROVE  Good([p EXCEPT !.pc = IF p.op = "unlink" THEN "root" ELSE "identities"])
BY DEF Good, Handler, Steps, Ready, Requested, Decided

LEMMA UpsertIsGood ==
    ASSUME NEW p, Good(p), p.pc = "upsert", NEW a \in Account
    PROVE  Good([p EXCEPT !.pc = "session", !.user = a])
BY DEF Good, Handler, Steps, Ready, Requested, Decided

LEMMA LinkIsGood ==
    ASSUME NEW p, Good(p), p.pc = "identities", NEW T \in SUBSET (SUBSET Login),
           \A S \in T : S \cap Telegram = {}
    PROVE  Good([p EXCEPT !.pc = "link", !.seen = T])
BY DEF Good, Handler, Steps, Ready, Requested, Decided

LEMMA UnreadIsGood ==
    ASSUME NEW p, Good(p), p.pc = "identities"
    PROVE  Good([p EXCEPT !.pc = "link"])
BY DEF Good, Handler, Steps, Ready, Requested, Decided

LEMMA CountIsGood ==
    ASSUME NEW p, Good(p), p.pc = "root", NEW T \in SUBSET (SUBSET Login),
           \E S \in T : S \cap p.provider \cap RootLogin = {}
    PROVE  Good([p EXCEPT !.pc = "count", !.seen = T])
BY DEF Good, Handler, Steps, Ready, Requested, Decided

LEMMA UnlinkIsGood ==
    ASSUME NEW p, Good(p), p.pc = "count", NEW T \in SUBSET (SUBSET Login),
           \E S \in T : S \cap p.provider \cap RootLogin = {},
           \E S \in T : Cardinality(S) > 1
    PROVE  Good([p EXCEPT !.pc = "unlink", !.seen = T])
BY DEF Good, Handler, Steps, Ready, Requested, Decided

-----------------------------------------------------------------------------
(* Types, and what the reads found *)

\* The typed tables and counters, without the handlers.
Tables ==
    /\ users \subseteq created /\ created \subseteq Account
    /\ identities \in [Login -> Account \cup {None}]
    /\ sessions \in [Session -> Account \cup {None}] /\ issued \subseteq Session
    /\ faults \in 0..MaxFaults /\ raced \subseteq Account

LEMMA Assembled ==
    /\ TypeInv <=> /\ Tables /\ Handled
                   /\ proc \in [Worker -> Handler] /\ \A w \in Worker : Ready(proc[w])
    /\ TypeInv' <=> /\ Tables' /\ Handled'
                    /\ proc' \in [Worker -> Handler] /\ \A w \in Worker : Ready(proc'[w])
BY DEF TypeInv, TypeOK, Tables

LEMMA InitInv == Init => TypeInv /\ LoginInv
<1> SUFFICES ASSUME Init PROVE TypeInv /\ LoginInv
  OBVIOUS
<1>1. proc \in [Worker -> Handler] /\ \A w \in Worker : Ready(proc[w])
  BY IdleIsGood DEF Init, Good
<1>2. Handled
  BY IdleIsGood DEF Init, Good, Handled
<1>3. Tables
  BY LoginAssumption DEF Init, Tables
<1>4. LoginInv
  BY DEF Init, LoginInv, LoginMethodKept, OneLoginPerProvider, NoOrphans
<1> QED
  BY <1>1, <1>2, <1>3, <1>4, Assembled

\* A step of one handler that leaves typed tables and itself good.
LEMMA GoodStep ==
    ASSUME TypeInv, Tables', NEW w \in Worker, NEW p, Goto(w, p), Good(p)
    PROVE  TypeInv'
BY HandlerReplaced, Assembled

\* The tables keep their types, and every read is written down as it was: each
\* action leaves its handler with what the next one relies on.
LEMMA TypeStep == TypeInv /\ [Next]_vars => TypeInv'
<1> SUFFICES ASSUME TypeInv, [Next]_vars PROVE TypeInv'
  OBVIOUS
<1>t. Tables /\ proc \in [Worker -> Handler]
  BY Assembled
<1>s. Tables /\ UNCHANGED <<tables, faults, raced>> => Tables'
  BY DEF Tables, tables
<1>h. ASSUME NEW w \in Worker
      PROVE  Good(proc[w]) /\ Saw(proc[w]) \in SUBSET (SUBSET Login)
  <2>1. Good(proc[w])
    BY Assembled DEF Good, Handled
  <2>2. proc[w].seen \in SUBSET (SUBSET Login)
    BY <2>1 DEF Good, Handler
  <2> QED
    BY <2>1, <2>2, LoginsAreLogins DEF Saw
<1>f. ASSUME Fault PROVE faults' \in 0..MaxFaults
  BY <1>f, <1>t, LoginAssumption DEF Fault, Tables
<1>1. ASSUME NEW w \in Worker, Request(w) PROVE TypeInv'
  <2>1. Tables'
    BY <1>1, <1>s, <1>t DEF Request
  <2>2. CASE \E l \in Login : Goto(w, [Idle EXCEPT !.pc = "upsert", !.op = "login", !.login = l])
    <3>1. PICK l \in Login : Goto(w, [Idle EXCEPT !.pc = "upsert", !.op = "login", !.login = l])
      BY <2>2
    <3> DEFINE q == [Idle EXCEPT !.pc = "upsert", !.op = "login", !.login = l]
    <3>2. Good(q)
      BY DEF Good, Handler, Steps, Ready, Requested, Decided, Idle, Login, Provider
    <3> QED
      BY <2>1, <3>1, <3>2, GoodStep
  <2>3. CASE \E s \in issued, l \in Telegram :
               Goto(w, [Idle EXCEPT !.pc = "lookup", !.op = "telegram", !.session = s, !.login = l])
    <3>1. PICK s \in issued, l \in Telegram :
                 Goto(w, [Idle EXCEPT !.pc = "lookup", !.op = "telegram", !.session = s, !.login = l])
      BY <2>3
    <3> DEFINE q == [Idle EXCEPT !.pc = "lookup", !.op = "telegram", !.session = s, !.login = l]
    <3>2. Good(q)
      BY <1>t DEF Tables, Good, Handler, Steps, Ready, Requested, Decided, Idle, Login, Provider
    <3> QED
      BY <2>1, <3>1, <3>2, GoodStep
  <2>4. CASE \E s \in issued, p \in Provider :
               Goto(w, [Idle EXCEPT !.pc = "lookup", !.op = "unlink", !.session = s, !.provider = p])
    <3>1. PICK s \in issued, p \in Provider :
                 Goto(w, [Idle EXCEPT !.pc = "lookup", !.op = "unlink", !.session = s, !.provider = p])
      BY <2>4
    <3> DEFINE q == [Idle EXCEPT !.pc = "lookup", !.op = "unlink", !.session = s, !.provider = p]
    <3>2. Good(q)
      BY <1>t DEF Tables, Good, Handler, Steps, Ready, Requested, Decided, Idle, Login, Provider
    <3> QED
      BY <2>1, <3>1, <3>2, GoodStep
  <2>5. CASE \E s \in issued :
               \/ Goto(w, [Idle EXCEPT !.pc = "lookup", !.op = "delete", !.session = s])
               \/ Goto(w, [Idle EXCEPT !.pc = "logout", !.op = "logout", !.session = s])
    <3>1. PICK s \in issued :
               \/ Goto(w, [Idle EXCEPT !.pc = "lookup", !.op = "delete", !.session = s])
               \/ Goto(w, [Idle EXCEPT !.pc = "logout", !.op = "logout", !.session = s])
      BY <2>5
    <3> DEFINE q == [Idle EXCEPT !.pc = "lookup", !.op = "delete", !.session = s]
               r == [Idle EXCEPT !.pc = "logout", !.op = "logout", !.session = s]
    <3>2. Good(q)
      BY <1>t DEF Tables, Good, Handler, Steps, Ready, Requested, Decided, Idle, Login, Provider
    <3>3. Good(r)
      BY <1>t DEF Tables, Good, Handler, Steps, Ready, Requested, Decided, Idle, Login, Provider
    <3> QED
      BY <2>1, <3>1, <3>2, <3>3, GoodStep
  <2> QED
    BY <1>1, <2>2, <2>3, <2>4, <2>5 DEF Request
<1>2. ASSUME NEW w \in Worker, LookupSession(w) PROVE TypeInv'
  <2>1. Tables'
    BY <1>2, <1>s, <1>t DEF LookupSession
  <2>2. sessions[proc[w].session] \in Account \cup {None}
    BY <1>2, <1>h, <1>t DEF LookupSession, Good, Ready, Tables
  <2> QED
    BY <1>2, <1>h, <2>1, <2>2, AuthenticatedIsGood, GoodStep DEF LookupSession
<1>3. ASSUME NEW w \in Worker, CheckCsrf(w) PROVE TypeInv'
  <2> DEFINE p == proc[w]
             q == [p EXCEPT !.pc = IF p.op = "unlink" THEN "root" ELSE "identities"]
  <2>1. Tables'
    BY <1>3, <1>s, <1>t DEF CheckCsrf
  <2>2. Good(q)
    BY <1>3, <1>h, CsrfIsGood DEF CheckCsrf
  <2> QED
    BY <1>3, <2>1, <2>2, GoodStep, IdleIsGood DEF CheckCsrf
<1>4. ASSUME NEW w \in Worker, Upsert(w) PROVE TypeInv'
  <2> DEFINE p == proc[w]
  <2>1. p.login \in Login
    BY <1>4, <1>h DEF Upsert, Good, Ready
  <2>2. ASSUME NEW a \in Account
        PROVE  Good([p EXCEPT !.pc = "session", !.user = a])
    BY <1>4, <1>h, UpsertIsGood DEF Upsert
  <2>3. CASE identities[p.login] # None
    <3>1. Tables' /\ identities[p.login] \in Account
      BY <1>4, <1>t, <2>1, <2>3 DEF Upsert, Tables
    <3>2. Goto(w, [p EXCEPT !.pc = "session", !.user = identities[p.login]])
      BY <1>4, <2>3 DEF Upsert
    <3> QED
      BY <2>2, <3>1, <3>2, GoodStep
  <2>4. CASE identities[p.login] = None
    <3>1. PICK a \in Account \ created :
            /\ created' = created \cup {a} /\ users' = users \cup {a}
            /\ identities' = [identities EXCEPT ![p.login] = a]
            /\ Goto(w, [p EXCEPT !.pc = "session", !.user = a])
      BY <1>4, <2>4 DEF Upsert
    <3>2. Tables'
      BY <1>4, <1>t, <3>1 DEF Upsert, Tables
    <3> QED
      BY <2>2, <3>1, <3>2, GoodStep
  <2> QED
    BY <2>3, <2>4
<1>5. ASSUME NEW w \in Worker, CreateSession(w) PROVE TypeInv'
  <2>1. proc[w].user \in Account /\ Goto(w, Idle)
    BY <1>5, <1>h DEF CreateSession, Good, Ready
  <2>2. sessions' \in [Session -> Account \cup {None}] /\ issued' \subseteq Session
    BY <1>5, <1>t, <2>1 DEF CreateSession, NewSession, Tables
  <2>3. Tables'
    BY <1>5, <1>t, <2>2 DEF CreateSession, NewSession, Tables
  <2> QED
    BY <2>1, <2>3, GoodStep, IdleIsGood
<1>6. ASSUME NEW w \in Worker, Logout(w) PROVE TypeInv'
  <2>1. Tables' /\ Goto(w, Idle)
    BY <1>6, <1>t DEF Logout, Tables
  <2> QED
    BY <2>1, GoodStep, IdleIsGood
<1>7. ASSUME NEW w \in Worker, DeleteAccount(w) PROVE TypeInv'
  <2>1. Tables' /\ Goto(w, Idle)
    BY <1>7, <1>t DEF DeleteAccount, Tables
  <2> QED
    BY <2>1, GoodStep, IdleIsGood
<1>8. ASSUME NEW w \in Worker, ReadIdentities(w) PROVE TypeInv'
  <2> DEFINE p == proc[w]
             q == [p EXCEPT !.pc = "link", !.seen = Saw(p)]
  <2>1. Tables'
    BY <1>8, <1>s, <1>t DEF ReadIdentities
  <2>2. CASE AlreadyLinked(p.user)
    BY <1>8, <2>1, <2>2, GoodStep, IdleIsGood DEF ReadIdentities
  <2>3. CASE ~AlreadyLinked(p.user)
    <3>1. \A S \in Saw(p) : S \cap Telegram = {}
      BY <1>8, <1>h, <2>3 DEF ReadIdentities, Saw, AlreadyLinked, Good, Requested
    <3>2. Good(q)
      BY <1>8, <1>h, <3>1, LinkIsGood DEF ReadIdentities
    <3> QED
      BY <1>8, <2>1, <2>3, <3>2, GoodStep DEF ReadIdentities
  <2> QED
    BY <2>2, <2>3
<1>9. ASSUME NEW w \in Worker, Link(w) PROVE TypeInv'
  <2>1. proc[w].user \in Account /\ Goto(w, Idle)
    BY <1>9, <1>h DEF Link, Good, Ready
  <2>2. identities' \in [Login -> Account \cup {None}] /\ raced' \subseteq Account
    BY <1>9, <1>t, <2>1 DEF Link, Note, Tables
  <2>3. Tables'
    BY <1>9, <1>t, <2>2 DEF Link, Tables
  <2> QED
    BY <2>1, <2>3, GoodStep, IdleIsGood
<1>10. ASSUME NEW w \in Worker, CheckRoot(w) PROVE TypeInv'
  <2> DEFINE p == proc[w]
             q == [p EXCEPT !.pc = "count", !.seen = Saw(p)]
  <2>1. Tables'
    BY <1>10, <1>s, <1>t DEF CheckRoot
  <2>2. CASE IsConfiguredRoot(p.user, p.provider)
    BY <1>10, <2>1, <2>2, GoodStep, IdleIsGood DEF CheckRoot
  <2>3. CASE ~IsConfiguredRoot(p.user, p.provider)
    <3>1. \E S \in Saw(p) : S \cap p.provider \cap RootLogin = {}
      BY <2>3 DEF Saw, IsConfiguredRoot
    <3>2. Good(q)
      BY <1>10, <1>h, <3>1, CountIsGood DEF CheckRoot
    <3> QED
      BY <1>10, <2>1, <2>3, <3>2, GoodStep DEF CheckRoot
  <2> QED
    BY <2>2, <2>3
<1>11. ASSUME NEW w \in Worker, CountIdentities(w) PROVE TypeInv'
  <2> DEFINE p == proc[w]
             q == [p EXCEPT !.pc = "unlink", !.seen = Saw(p)]
  <2>1. Tables'
    BY <1>11, <1>s, <1>t DEF CountIdentities
  <2>2. CASE OnlyLoginMethod(p.user)
    BY <1>11, <2>1, <2>2, GoodStep, IdleIsGood DEF CountIdentities
  <2>3. CASE ~OnlyLoginMethod(p.user)
    <3>1. IsFiniteSet(LoginsOf(p.user))
      BY LoginAssumption, LoginsAreLogins, FS_Subset
    <3>2. Cardinality(LoginsOf(p.user)) > 1
      BY <2>3, <3>1, FS_CardinalityType DEF OnlyLoginMethod
    <3>3. /\ \E S \in Saw(p) : S \cap p.provider \cap RootLogin = {}
          /\ \E S \in Saw(p) : Cardinality(S) > 1
      BY <1>11, <1>h, <3>2 DEF CountIdentities, Good, Decided, Saw
    <3>4. Good(q)
      BY <1>11, <1>h, <3>3, UnlinkIsGood DEF CountIdentities
    <3> QED
      BY <1>11, <2>1, <2>3, <3>4, GoodStep DEF CountIdentities
  <2> QED
    BY <2>2, <2>3
<1>12. ASSUME NEW w \in Worker, Unlink(w) PROVE TypeInv'
  <2>1. proc[w].user \in Account /\ Goto(w, Idle)
    BY <1>12, <1>h DEF Unlink, Good, Ready
  <2>2. identities' \in [Login -> Account \cup {None}] /\ raced' \subseteq Account
    BY <1>12, <1>t, <2>1 DEF Unlink, Note, Tables
  <2>3. Tables'
    BY <1>12, <1>t, <2>2 DEF Unlink, Tables
  <2> QED
    BY <2>1, <2>3, GoodStep, IdleIsGood
<1>13. ASSUME NEW w \in Worker, ReadFails(w) PROVE TypeInv'
  <2> DEFINE p == proc[w]
             q == [p EXCEPT !.pc = "link"]
  <2>1. Tables'
    BY <1>13, <1>f, <1>t DEF ReadFails, Tables, tables
  <2>2. CASE p.pc = "identities" /\ Goto(w, q)
    <3>1. Good(q)
      BY <1>h, <2>2, UnreadIsGood
    <3> QED
      BY <2>1, <2>2, <3>1, GoodStep
  <2>3. CASE p.pc = "lookup" /\ Goto(w, Authenticated(p, None))
    BY <1>h, <2>1, <2>3, AuthenticatedIsGood, GoodStep
  <2> QED
    BY <1>13, <2>2, <2>3 DEF ReadFails
<1>14. ASSUME NEW w \in Worker, Abort(w) PROVE TypeInv'
  <2>1. Tables' /\ Goto(w, Idle)
    BY <1>14, <1>f, <1>t DEF Abort, Tables, tables
  <2> QED
    BY <2>1, GoodStep, IdleIsGood
<1>15. ASSUME NEW s \in Session, ExpireSession(s) PROVE TypeInv'
  <2>1. Tables' /\ UNCHANGED proc
    BY <1>15, <1>t DEF ExpireSession, Tables
  <2> QED
    BY <2>1, Assembled DEF Handled
<1>16. CASE UNCHANGED vars
  BY <1>16, Assembled DEF vars, Tables, Handled
<1> QED
  BY <1>1, <1>2, <1>3, <1>4, <1>5, <1>6, <1>7, <1>8, <1>9, <1>10, <1>11, <1>12, <1>13,
     <1>14, <1>15, <1>16 DEF Next

-----------------------------------------------------------------------------
(* The logins of an account *)

LEMMA UnchangedLogins ==
    ASSUME LoginInv, UNCHANGED <<users, identities, sessions, raced>>
    PROVE  LoginInv'
BY DEF LoginInv, LoginMethodKept, OneLoginPerProvider, NoOrphans, LoginsOf

\* A set with two members or more has two that differ.
LEMMA NotAllEqual ==
    ASSUME NEW S, Cardinality(S) > 1
    PROVE  \E k, l \in S : k # l
<1> SUFFICES ASSUME \A k, l \in S : k = l PROVE FALSE
  OBVIOUS
<1>1. CASE S = {}
  BY <1>1, FS_EmptySet
<1>2. CASE S # {}
  <2>1. PICK k \in S : TRUE
    BY <1>2
  <2>2. S = {k}
    BY <2>1
  <2> QED
    BY <2>2, FS_Singleton
<1> QED
  BY <1>1, <1>2

\* A handler that unlinks on what is still true leaves its account a login: it
\* counted two, they are of two providers, and it deletes those of one.
LEMMA UnlinkLeavesOne ==
    ASSUME TypeInv, LoginInv, NEW w \in Worker, Unlink(w),
           NEW u \in users \ raced', u = proc[w].user
    PROVE  LoginsOf(u)' # {}
<1> DEFINE p == proc[w]
           L == LoginsOf(u)
<1>1. p.seen = {L} /\ u \in users \ raced
  BY DEF Unlink, Note
<1>2. Cardinality(L) > 1 /\ p.provider \in Provider
  BY <1>1 DEF TypeInv, TypeOK, Handled, Unlink, Ready, Decided
<1>3. PICK k \in L, l \in L : k # l
  BY <1>2, NotAllEqual
<1>4. ~(k \in p.provider /\ l \in p.provider)
  BY <1>1, <1>2, <1>3 DEF LoginInv, OneLoginPerProvider
<1>5. PICK m \in L : m \notin p.provider
  BY <1>3, <1>4
<1>6. m \in Login /\ identities[m] = u
  BY <1>5 DEF LoginsOf
<1>7. identities'[m] = u
  BY <1>5, <1>6 DEF Unlink
<1> QED
  BY <1>6, <1>7 DEF LoginsOf, Unlink

\* Every step keeps LoginInv.
LEMMA LoginStep == TypeInv /\ LoginInv /\ [Next]_vars => LoginInv'
<1> SUFFICES ASSUME TypeInv, LoginInv, [Next]_vars PROVE LoginInv'
  OBVIOUS
<1>t. /\ users \subseteq created /\ created \subseteq Account /\ None \notin Account
      /\ identities \in [Login -> Account \cup {None}]
      /\ sessions \in [Session -> Account \cup {None}]
      /\ \A w \in Worker : Ready(proc[w]) /\ Decided(proc[w])
  BY LoginAssumption DEF TypeInv, TypeOK, Handled
<1>i. /\ \A a \in users \ raced : LoginsOf(a) # {}
      /\ \A a \in users \ raced, p \in Provider : \A k, l \in LoginsOf(a) \cap p : k = l
      /\ \A l \in Login : identities[l] \in users \cup {None}
      /\ \A s \in Session : sessions[s] \in users \cup {None}
  BY DEF LoginInv, LoginMethodKept, OneLoginPerProvider, NoOrphans
<1>1. ASSUME NEW w \in Worker,
             \/ Request(w) \/ LookupSession(w) \/ CheckCsrf(w) \/ ReadIdentities(w)
             \/ CheckRoot(w) \/ CountIdentities(w) \/ ReadFails(w) \/ Abort(w)
      PROVE  LoginInv'
  <2>1. UNCHANGED <<users, identities, sessions, raced>>
    BY <1>1 DEF Request, LookupSession, CheckCsrf, ReadIdentities, CheckRoot, CountIdentities,
                ReadFails, Abort, tables
  <2> QED
    BY <2>1, UnchangedLogins
<1>2. ASSUME NEW w \in Worker, Upsert(w) PROVE LoginInv'
  <2> DEFINE l == proc[w].login
  <2>1. CASE identities[l] # None
    BY <1>2, <2>1, UnchangedLogins DEF Upsert
  <2>2. CASE identities[l] = None
    <3>1. PICK a \in Account \ created :
            users' = users \cup {a} /\ identities' = [identities EXCEPT ![l] = a]
      BY <1>2, <2>2 DEF Upsert
    <3>2. l \in Login /\ a \notin users /\ UNCHANGED <<sessions, raced>>
      BY <1>2, <1>t, <3>1 DEF Upsert, Ready
    <3>3. LoginsOf(a)' = {l}
      BY <1>t, <1>i, <3>1, <3>2 DEF LoginsOf
    <3>4. \A b \in users : LoginsOf(b)' = LoginsOf(b)
      BY <1>t, <2>2, <3>1, <3>2 DEF LoginsOf
    <3>5. LoginMethodKept'
      BY <1>i, <3>1, <3>2, <3>3, <3>4 DEF LoginMethodKept
    <3>6. OneLoginPerProvider'
      BY <1>i, <3>1, <3>2, <3>3, <3>4 DEF OneLoginPerProvider
    <3>7. NoOrphans'
      BY <1>t, <1>i, <3>1, <3>2 DEF NoOrphans
    <3> QED
      BY <3>5, <3>6, <3>7 DEF LoginInv
  <2> QED
    BY <2>1, <2>2
<1>3. ASSUME NEW w \in Worker, CreateSession(w) \/ Logout(w) PROVE LoginInv'
  <2>1. UNCHANGED <<users, identities, raced>>
    BY <1>3 DEF CreateSession, Logout
  <2>2. \A s \in Session : sessions'[s] \in users \cup {None}
    BY <1>3, <1>t, <1>i DEF CreateSession, NewSession, Logout, Known
  <2> QED
    BY <2>1, <2>2 DEF LoginInv, LoginMethodKept, OneLoginPerProvider, NoOrphans, LoginsOf
<1>4. ASSUME NEW s \in Session, ExpireSession(s) PROVE LoginInv'
  <2>1. UNCHANGED <<users, identities, raced>>
    BY <1>4 DEF ExpireSession
  <2>2. \A r \in Session : sessions'[r] \in users \cup {None}
    BY <1>4, <1>t, <1>i DEF ExpireSession
  <2> QED
    BY <2>1, <2>2 DEF LoginInv, LoginMethodKept, OneLoginPerProvider, NoOrphans, LoginsOf
<1>5. ASSUME NEW w \in Worker, DeleteAccount(w) PROVE LoginInv'
  <2> DEFINE a == proc[w].user
  <2>1. /\ users' = users \ {a} /\ UNCHANGED raced
        /\ identities' = [l \in Login |-> IF identities[l] = a THEN None ELSE identities[l]]
        /\ sessions' = [s \in Session |-> IF sessions[s] = a THEN None ELSE sessions[s]]
    BY <1>5 DEF DeleteAccount
  <2>2. \A b \in users' : LoginsOf(b)' = LoginsOf(b)
    BY <1>t, <2>1 DEF LoginsOf
  <2>3. NoOrphans'
    BY <1>i, <2>1 DEF NoOrphans
  <2> QED
    BY <1>i, <2>1, <2>2, <2>3 DEF LoginInv, LoginMethodKept, OneLoginPerProvider
<1>6. ASSUME NEW w \in Worker, Link(w) PROVE LoginInv'
  <2> DEFINE p == proc[w]
  <2>1. CASE ~Linkable(p.login, p.user)
    BY <1>6, <2>1, UnchangedLogins DEF Link
  <2>2. CASE Linkable(p.login, p.user)
    <3>u. PICK u : u = p.user
      OBVIOUS
    <3>1. /\ identities' = [identities EXCEPT ![p.login] = u] /\ Note(p)
          /\ UNCHANGED <<users, sessions>> /\ p.pc = "link"
          /\ identities[p.login] = None /\ u \in users
      BY <1>6, <2>2, <3>u DEF Link, Linkable, Known
    <3>2. p.login \in Telegram /\ p.login \in Login /\ raced \subseteq raced'
      BY <1>t, <3>1 DEF Ready, Note, Login
    <3>3. LoginsOf(u)' = LoginsOf(u) \cup {p.login}
      BY <1>t, <3>1, <3>2 DEF LoginsOf
    <3>4. \A b \in users \ {u} : LoginsOf(b)' = LoginsOf(b)
      BY <1>t, <3>1, <3>2 DEF LoginsOf
    <3>5. LoginMethodKept'
      BY <1>i, <3>1, <3>2, <3>3, <3>4 DEF LoginMethodKept
    <3>6. u \notin raced' => LoginsOf(u) \cap Telegram = {}
      BY <1>t, <3>u, <3>1 DEF Note, Decided
    <3>7. OneLoginPerProvider'
      BY <1>i, <3>1, <3>2, <3>3, <3>4, <3>6, LoginAssumption DEF OneLoginPerProvider, Provider
    <3>8. NoOrphans'
      BY <1>t, <1>i, <3>1, <3>2 DEF NoOrphans
    <3> QED
      BY <3>5, <3>7, <3>8 DEF LoginInv
  <2> QED
    BY <2>1, <2>2
<1>7. ASSUME NEW w \in Worker, Unlink(w) PROVE LoginInv'
  <2> DEFINE p == proc[w]
  <2>u. PICK u : u = p.user
    OBVIOUS
  <2>1. /\ identities' = [l \in Login |-> IF l \in p.provider /\ identities[l] = u
                                          THEN None ELSE identities[l]]
        /\ raced \subseteq raced' /\ UNCHANGED <<users, sessions>>
    BY <1>7, <2>u DEF Unlink, Note
  <2>2. \A b \in users \ {u} : LoginsOf(b)' = LoginsOf(b)
    BY <1>t, <2>1 DEF LoginsOf
  <2>3. LoginsOf(u)' \subseteq LoginsOf(u)
    BY <1>t, <2>1 DEF LoginsOf
  <2>4. LoginMethodKept'
    BY <1>7, <1>i, <2>u, <2>1, <2>2, UnlinkLeavesOne DEF LoginMethodKept
  <2>5. OneLoginPerProvider'
    BY <1>i, <2>1, <2>2, <2>3 DEF OneLoginPerProvider
  <2>6. NoOrphans'
    BY <1>i, <2>1 DEF NoOrphans
  <2> QED
    BY <2>4, <2>5, <2>6 DEF LoginInv
<1>8. CASE UNCHANGED vars
  BY <1>8, UnchangedLogins DEF vars
<1> QED
  BY <1>1, <1>2, <1>3, <1>4, <1>5, <1>6, <1>7, <1>8 DEF Next

LEMMA InvAlways == Spec => [](TypeInv /\ LoginInv)
<1>1. TypeInv /\ LoginInv /\ [Next]_vars => (TypeInv /\ LoginInv)'
  BY TypeStep, LoginStep
<1> QED
  BY InitInv, <1>1, PTL DEF Spec

\* Every variable keeps its type, and every handler holds what its next step
\* uses, whatever the others do.
THEOREM TypeCorrect == Spec => []TypeOK
BY InvAlways, PTL DEF TypeInv

\* An account is without a login only after one of the two named races.
THEOREM LoginMethodsKept == Spec => []LoginMethodKept
BY InvAlways, PTL DEF LoginInv

\* An account has two logins of one provider only after such a race.
THEOREM OneLoginOfEach == Spec => []OneLoginPerProvider
BY InvAlways, PTL DEF LoginInv

\* No login and no session outlives its account.
THEOREM NothingOrphaned == Spec => []NoOrphans
BY InvAlways, PTL DEF LoginInv

-----------------------------------------------------------------------------
(* What a step may do to a login *)

\* Only three statements write user_identities of accounts that stay.
LEMMA LoginsWritten ==
    ASSUME TypeInv, [Next]_vars, NEW l \in Login, identities[l] # None,
           identities'[l] # identities[l]
    PROVE  /\ identities'[l] = None
           /\ \E w \in Worker : identities[l] = proc[w].user /\ (DeleteAccount(w) \/ Unlink(w))
<1>t. identities \in [Login -> Account \cup {None}]
  BY DEF TypeInv, TypeOK
<1>1. ASSUME NEW w \in Worker, Upsert(w) PROVE FALSE
  BY <1>1, <1>t DEF Upsert
<1>2. ASSUME NEW w \in Worker, Link(w) PROVE FALSE
  BY <1>2, <1>t DEF Link, Linkable
<1>3. ASSUME NEW w \in Worker,
             \/ Request(w) \/ LookupSession(w) \/ CheckCsrf(w) \/ CreateSession(w) \/ Logout(w)
             \/ ReadIdentities(w) \/ CheckRoot(w) \/ CountIdentities(w) \/ ReadFails(w) \/ Abort(w)
      PROVE  FALSE
  BY <1>3 DEF Request, LookupSession, CheckCsrf, CreateSession, Logout, ReadIdentities, CheckRoot,
              CountIdentities, ReadFails, Abort, tables
<1>4. ASSUME NEW s \in Session, ExpireSession(s) PROVE FALSE
  BY <1>4 DEF ExpireSession
<1>5. ~UNCHANGED vars
  BY DEF vars
<1>6. PICK w \in Worker : DeleteAccount(w) \/ Unlink(w)
  BY <1>1, <1>2, <1>3, <1>4, <1>5 DEF Next
<1>7. identities[l] = proc[w].user /\ identities'[l] = None
  BY <1>6, <1>t DEF DeleteAccount, Unlink
<1> QED
  BY <1>6, <1>7

\* No step hands a login from one account to another.
THEOREM LoginsNeverMove == Spec => LoginNeverMoves
<1>1. TypeInv /\ [Next]_vars =>
         [\A l \in Login : identities[l] = None \/ identities'[l] \in {identities[l], None}]_vars
  BY LoginsWritten
<1> QED
  BY InvAlways, <1>1, PTL DEF Spec, LoginNeverMoves

\* A root login is taken from an account that stays only in a race.
THEOREM RootLoginsKept == Spec => RootLoginKept
<1>1. ASSUME TypeInv, LoginInv, [Next]_vars, NEW l \in RootLogin, identities[l] \in users' \ raced'
      PROVE  identities'[l] = identities[l]
  <2>1. SUFFICES ASSUME identities'[l] # identities[l] PROVE FALSE
    OBVIOUS
  <2>2. l \in Login /\ identities[l] # None
    <3>1. users' \subseteq Account
      BY <1>1, TypeStep DEF TypeInv, TypeOK
    <3> QED
      BY <1>1, <3>1, LoginAssumption
  <2>3. PICK w \in Worker : identities[l] = proc[w].user /\ (DeleteAccount(w) \/ Unlink(w))
    BY <1>1, <2>1, <2>2, LoginsWritten
  <2>4. CASE DeleteAccount(w)
    BY <1>1, <2>3, <2>4 DEF DeleteAccount
  <2>5. CASE Unlink(w)
    <3>1. proc[w].seen = {LoginsOf(proc[w].user)} /\ l \in LoginsOf(proc[w].user)
      BY <1>1, <2>2, <2>3, <2>5 DEF Unlink, Note, LoginsOf
    <3>2. LoginsOf(proc[w].user) \cap proc[w].provider \cap RootLogin = {}
      BY <1>1, <2>5, <3>1 DEF TypeInv, Handled, Decided, Unlink
    <3>3. l \in proc[w].provider
      BY <2>1, <2>2, <2>5 DEF Unlink
    <3> QED
      BY <1>1, <3>1, <3>2, <3>3
  <2> QED
    BY <2>3, <2>4, <2>5
<1>2. TypeInv /\ LoginInv /\ [Next]_vars =>
         [\A l \in RootLogin : identities[l] \in users' \ raced' => identities'[l] = identities[l]]_vars
  BY <1>1
<1> QED
  BY InvAlways, <1>2, PTL DEF Spec, RootLoginKept

-----------------------------------------------------------------------------
(* The handlers implement Credentials *)

\* A session that leads somewhere was handed out.
Issued == \A s \in Session : sessions[s] # None => s \in issued

Ended == {s \in issued : sessions[s] = None}

Closed == created \ users

LEMMA IssuedStep == TypeInv /\ Issued /\ [Next]_vars => Issued'
<1> SUFFICES ASSUME TypeInv, Issued, [Next]_vars PROVE Issued'
  OBVIOUS
<1>t. sessions \in [Session -> Account \cup {None}] /\ issued \subseteq Session
  BY DEF TypeInv, TypeOK
<1>1. ASSUME NEW w \in Worker, CreateSession(w) \/ Logout(w) \/ DeleteAccount(w) PROVE Issued'
  BY <1>1, <1>t DEF Issued, CreateSession, NewSession, Logout, DeleteAccount
<1>2. ASSUME NEW s \in Session, ExpireSession(s) PROVE Issued'
  BY <1>2, <1>t DEF Issued, ExpireSession
<1>3. CASE UNCHANGED <<sessions, issued>>
  BY <1>3 DEF Issued
<1> QED
  BY <1>1, <1>2, <1>3 DEF Next, vars, tables, Request, LookupSession, CheckCsrf, Upsert,
     ReadIdentities, Link, CheckRoot, CountIdentities, Unlink, ReadFails, Abort

\* What becomes of the sessions that lead nowhere any more.
LEMMA SessionsEnd ==
    ASSUME TypeInv, Issued, NEW S \in SUBSET Session, \A s \in S : sessions[s] # None,
           sessions' = [s \in Session |-> IF s \in S THEN None ELSE sessions[s]], issued' = issued
    PROVE  Ended' = Ended \cup S
<1>1. issued \subseteq Session /\ S \subseteq issued
  BY DEF TypeInv, TypeOK, Issued
<1> QED
  BY <1>1 DEF Ended

SessionsOf(a) == {s \in Session : sessions[s] = a}

Withdrawn(L, S) ==
    /\ identities' = [l \in Login |-> IF l \in L THEN None ELSE identities[l]]
    /\ sessions' = [s \in Session |-> IF s \in S THEN None ELSE sessions[s]]

\* Logins and sessions of one account that is there are withdrawn.
LEMMA Withdrawal ==
    ASSUME TypeInv, LoginInv, Issued, NEW a \in Account,
           NEW L \in SUBSET LoginsOf(a), NEW S \in SUBSET SessionsOf(a), Withdrawn(L, S),
           UNCHANGED <<users, created, issued>>
    PROVE  [Book!Next]_<<users, Closed, identities, sessions, Ended>>
<1>1. a # None /\ identities \in [Login -> Account \cup {None}]
      /\ sessions \in [Session -> Account \cup {None}]
  BY LoginAssumption DEF TypeInv, TypeOK
<1>2. Ended' = Ended \cup S /\ Closed' = Closed
  <2>1. S \in SUBSET Session /\ \A s \in S : sessions[s] # None
    BY <1>1 DEF SessionsOf
  <2> QED
    BY <2>1, SessionsEnd DEF Closed, Withdrawn
<1>3. CASE a \in users
  <2>1. Book!Withdraw(L, S)
    BY <1>2 DEF Book!Withdraw, Ended, Withdrawn
  <2>2. L \in SUBSET Book!LoginsOf(a) /\ S \in SUBSET Book!SessionsOf(a)
    BY DEF LoginsOf, SessionsOf, Book!LoginsOf, Book!SessionsOf
  <2>3. Book!Revoke(a)
    BY <1>2, <1>3, <2>1, <2>2 DEF Book!Revoke, Closed
  <2> QED
    BY <2>3 DEF Book!Next
<1>4. CASE a \notin users
  <2>1. L = {} /\ S = {}
    BY <1>1, <1>4 DEF LoginInv, NoOrphans, LoginsOf, SessionsOf
  <2>2. UNCHANGED <<identities, sessions>>
    BY <1>1, <2>1 DEF Withdrawn
  <2> QED
    BY <1>2, <2>1, <2>2
<1> QED
  BY <1>3, <1>4

\* A statement that grants: sign-up, a new session, a linked login.
LEMMA Granting ==
    ASSUME TypeInv, Issued, NEW w \in Worker, Upsert(w) \/ CreateSession(w) \/ Link(w)
    PROVE  [Book!Next]_<<users, Closed, identities, sessions, Ended>>
<1> DEFINE p == proc[w]
<1>t. /\ users \subseteq created /\ created \subseteq Account /\ None \notin Account
      /\ identities \in [Login -> Account \cup {None}]
      /\ sessions \in [Session -> Account \cup {None}] /\ issued \subseteq Session
      /\ Ready(p)
  BY LoginAssumption DEF TypeInv, TypeOK
<1>1. CASE Upsert(w)
  <2>1. UNCHANGED <<sessions, issued>> /\ p.login \in Login
    BY <1>1, <1>t DEF Upsert, Ready
  <2>2. CASE identities[p.login] # None
    BY <1>1, <2>1, <2>2 DEF Upsert, Closed, Ended
  <2>3. CASE identities[p.login] = None
    <3>1. PICK a \in Account \ created :
            /\ created' = created \cup {a} /\ users' = users \cup {a}
            /\ identities' = [identities EXCEPT ![p.login] = a]
      BY <1>1, <2>3 DEF Upsert
    <3>2. Closed' = Closed /\ Ended' = Ended /\ a \notin users \cup Closed
      BY <1>t, <2>1, <3>1 DEF Closed, Ended
    <3>3. Book!GrantLogin(a)
      BY <2>1, <2>3, <3>1 DEF Book!GrantLogin
    <3>4. Book!Open(a)
      BY <2>1, <3>1, <3>2, <3>3 DEF Book!Open, Closed, Ended
    <3> QED
      BY <3>1, <3>4 DEF Book!Next
  <2> QED
    BY <2>2, <2>3
<1>2. CASE CreateSession(w)
  <2>1. UNCHANGED <<users, created, identities>>
    BY <1>2 DEF CreateSession
  <2>2. CASE ~Known(p.user)
    BY <1>2, <2>1, <2>2 DEF CreateSession, Closed, Ended
  <2>3. CASE Known(p.user)
    <3>1. PICK s \in Session \ issued :
            issued' = issued \cup {s} /\ sessions' = [sessions EXCEPT ![s] = p.user]
      BY <1>2, <2>3 DEF CreateSession, NewSession
    <3>2. p.user \in users /\ p.user # None /\ sessions[s] = None /\ s \notin Ended
      BY <1>t, <2>3, <3>1 DEF Known, Issued, Ended
    <3>3. Ended' = Ended /\ Closed' = Closed
      BY <1>t, <2>1, <3>1, <3>2 DEF Ended, Closed
    <3>4. Book!GrantSession(p.user)
      BY <3>1, <3>2 DEF Book!GrantSession, Ended
    <3>5. Book!Grant(p.user)
      BY <2>1, <3>2, <3>3, <3>4 DEF Book!Grant, Ended, Closed
    <3> QED
      BY <1>t, <3>2, <3>5 DEF Book!Next
  <2> QED
    BY <2>2, <2>3
<1>3. CASE Link(w)
  <2>1. UNCHANGED <<users, created, sessions, issued>>
    BY <1>3 DEF Link
  <2>2. Closed' = Closed /\ Ended' = Ended
    BY <2>1 DEF Closed, Ended
  <2>3. CASE ~Linkable(p.login, p.user)
    BY <1>3, <2>1, <2>2, <2>3 DEF Link
  <2>4. CASE Linkable(p.login, p.user)
    <3>1. identities' = [identities EXCEPT ![p.login] = p.user] /\ p.login \in Login
      BY <1>3, <1>t, <2>4 DEF Link, Ready, Login
    <3>2. identities[p.login] = None /\ p.user \in users
      BY <2>4 DEF Linkable, Known
    <3>3. Book!GrantLogin(p.user)
      BY <3>1, <3>2 DEF Book!GrantLogin
    <3>4. Book!Grant(p.user)
      BY <2>1, <2>2, <3>2, <3>3 DEF Book!Grant, Ended, Closed
    <3> QED
      BY <1>t, <3>2, <3>4 DEF Book!Next
  <2> QED
    BY <2>3, <2>4
<1> QED
  BY <1>1, <1>2, <1>3

\* DELETE FROM users, and what the foreign keys make of it.
LEMMA Closing ==
    ASSUME TypeInv, LoginInv, Issued, NEW w \in Worker, DeleteAccount(w)
    PROVE  [Book!Next]_<<users, Closed, identities, sessions, Ended>>
<1>a. PICK a : a = proc[w].user
  OBVIOUS
<1>1. /\ users' = users \ {a} /\ UNCHANGED <<created, issued>>
      /\ identities' = [l \in Login |-> IF identities[l] = a THEN None ELSE identities[l]]
      /\ sessions' = [s \in Session |-> IF sessions[s] = a THEN None ELSE sessions[s]]
      /\ a \in Account
  BY <1>a DEF DeleteAccount, TypeInv, TypeOK, Ready
<1>t. /\ users \subseteq created /\ None \notin Account
      /\ identities \in [Login -> Account \cup {None}]
      /\ sessions \in [Session -> Account \cup {None}]
  BY LoginAssumption DEF TypeInv, TypeOK
<1>2. CASE a \in users
  <2> DEFINE S == {s \in Session : sessions[s] = a}
  <2>1. sessions' = [s \in Session |-> IF s \in S THEN None ELSE sessions[s]]
    BY <1>1
  <2>2. Ended' = Ended \cup S
    <3>1. S \in SUBSET Session /\ \A s \in S : sessions[s] # None
      BY <1>1, <1>t
    <3> HIDE DEF S
    <3> QED
      BY <1>1, <2>1, <3>1, SessionsEnd
  <2>3. Closed' = Closed \cup {a}
    BY <1>1, <1>t, <1>2 DEF Closed
  <2>4. Book!Withdraw(Book!LoginsOf(a), Book!SessionsOf(a))
    BY <1>1, <2>1, <2>2 DEF Book!Withdraw, Book!LoginsOf, Book!SessionsOf, Ended
  <2>5. Book!Close(a)
    BY <1>1, <1>2, <2>3, <2>4 DEF Book!Close, Closed
  <2> QED
    BY <1>1, <2>5 DEF Book!Next
<1>3. CASE a \notin users
  <2>1. \A l \in Login : identities[l] # a
    BY <1>1, <1>t, <1>3 DEF LoginInv, NoOrphans
  <2>2. \A s \in Session : sessions[s] # a
    BY <1>1, <1>t, <1>3 DEF LoginInv, NoOrphans
  <2>3. UNCHANGED <<users, identities, sessions>>
    BY <1>1, <1>t, <1>3, <2>1, <2>2
  <2> QED
    BY <1>1, <2>3 DEF Closed, Ended
<1> QED
  BY <1>2, <1>3

\* The statements that revoke: unlink, log out, expiry.
LEMMA Revoking ==
    ASSUME TypeInv, LoginInv, Issued,
           (\E w \in Worker : Unlink(w) \/ Logout(w)) \/ (\E s \in Session : ExpireSession(s))
    PROVE  [Book!Next]_<<users, Closed, identities, sessions, Ended>>
<1>t. /\ None \notin Account
      /\ identities \in [Login -> Account \cup {None}]
      /\ sessions \in [Session -> Account \cup {None}]
      /\ \A w \in Worker : Ready(proc[w])
  BY LoginAssumption DEF TypeInv, TypeOK
<1>1. ASSUME NEW w \in Worker, Unlink(w) PROVE [Book!Next]_<<users, Closed, identities, sessions, Ended>>
  <2>a. PICK a, P : a = proc[w].user /\ P = proc[w].provider
    OBVIOUS
  <2>1. /\ a \in Account /\ UNCHANGED <<users, created, sessions, issued>>
        /\ identities' = [l \in Login |-> IF l \in P /\ identities[l] = a THEN None ELSE identities[l]]
    BY <1>1, <1>t, <2>a DEF Unlink, Ready
  <2>2. PICK L, S : L = LoginsOf(a) \cap P /\ S = {}
    OBVIOUS
  <2>3. Withdrawn(L, S)
    BY <1>t, <2>1, <2>2 DEF LoginsOf, Withdrawn
  <2>4. L \in SUBSET LoginsOf(a) /\ S \in SUBSET SessionsOf(a)
    BY <2>2
  <2> QED
    BY <2>1, <2>3, <2>4, Withdrawal
<1>2. ASSUME NEW s \in Session, sessions' = [sessions EXCEPT ![s] = None],
             UNCHANGED <<users, created, identities, issued>>
      PROVE  [Book!Next]_<<users, Closed, identities, sessions, Ended>>
  <2>1. CASE sessions[s] = None
    <3>1. sessions' = sessions
      BY <1>2, <1>t, <2>1
    <3> QED
      BY <1>2, <3>1 DEF Closed, Ended
  <2>2. CASE sessions[s] # None
    <3>a. PICK a \in Account : a = sessions[s]
      BY <1>t, <2>2
    <3>1. PICK L, S : L = {} /\ S = {s}
      OBVIOUS
    <3>2. Withdrawn(L, S)
      BY <1>2, <1>t, <3>1 DEF Withdrawn
    <3>3. L \in SUBSET LoginsOf(a) /\ S \in SUBSET SessionsOf(a)
      BY <3>a, <3>1 DEF SessionsOf
    <3> QED
      BY <1>2, <3>2, <3>3, Withdrawal
  <2> QED
    BY <2>1, <2>2
<1>3. ASSUME NEW w \in Worker, Logout(w) PROVE [Book!Next]_<<users, Closed, identities, sessions, Ended>>
  BY <1>2, <1>3, <1>t DEF Logout, Ready
<1>4. ASSUME NEW s \in Session, ExpireSession(s)
      PROVE  [Book!Next]_<<users, Closed, identities, sessions, Ended>>
  BY <1>2, <1>4 DEF ExpireSession
<1> QED
  BY <1>1, <1>3, <1>4

\* Whatever the handlers read and however they end, what their statements do to
\* logins and sessions are steps of Credentials: grants to accounts that are
\* there, one account at a time, and nothing that ended comes back.
THEOREM ImplementsCredentials == Spec => CredentialsSpec
<1>1. Init => Issued /\ Book!Init
  BY DEF Init, Issued, Book!Init
<1>2. TypeInv /\ LoginInv /\ Issued /\ [Next]_vars
        => [Book!Next]_<<users, Closed, identities, sessions, Ended>>
  <2> SUFFICES ASSUME TypeInv, LoginInv, Issued, [Next]_vars
               PROVE  [Book!Next]_<<users, Closed, identities, sessions, Ended>>
    OBVIOUS
  <2>1. CASE UNCHANGED tables
    BY <2>1 DEF tables, Closed, Ended
  <2>2. CASE \E w \in Worker : Upsert(w) \/ CreateSession(w) \/ Link(w)
    BY <2>2, Granting
  <2>3. CASE \E w \in Worker : DeleteAccount(w)
    BY <2>3, Closing
  <2>4. CASE (\E w \in Worker : Unlink(w) \/ Logout(w)) \/ (\E s \in Session : ExpireSession(s))
    BY <2>4, Revoking
  <2> QED
    BY <2>1, <2>2, <2>3, <2>4 DEF Next, vars, tables, Request, LookupSession, CheckCsrf,
       ReadIdentities, CheckRoot, CountIdentities, ReadFails, Abort
<1>3. [Book!Next]_<<users, Closed, identities, sessions, Ended>>
        => [Book!Next]_(Book!credentials)
  BY DEF Book!credentials, Closed, Ended
<1>4. Spec => []Issued
  BY InvAlways, IssuedStep, <1>1, PTL DEF Spec
<1> QED
  BY InvAlways, <1>1, <1>2, <1>3, <1>4, PTL DEF CredentialsSpec, Book!Spec, Spec

=============================================================================
