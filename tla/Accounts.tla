-------------------------------- MODULE Accounts --------------------------------
(***************************************************************************)
(* Accounts, the logins that lead to them, and sessions (auth/*.rs,         *)
(* api/account.rs, repositories/users.rs).  Signing in with an unknown      *)
(* login makes an account; a signed-in user links and unlinks logins, logs  *)
(* out, or deletes the account.  Each handler is a sequence of statements,   *)
(* and handlers interleave between them; upsert_by_provider alone is a       *)
(* transaction.  Foreign keys are on (config.rs).                            *)
(***************************************************************************)
EXTENDS Naturals, FiniteSets

CONSTANTS
    Account, Session,   \* ids; a random id is never drawn twice
    Discord, Telegram,  \* provider_user_ids; a provider is the set of its ids
    RootLogin,          \* ADMIN_PROVIDER_IDS
    Worker,             \* request handlers in flight at once
    None,               \* SQL NULL, no row
    MaxFaults           \* bound: failed statements and dropped requests

Login    == Discord \cup Telegram
Provider == {Discord, Telegram}

ASSUME LoginAssumption ==
    /\ Discord \cap Telegram = {} /\ Discord # Telegram
    /\ RootLogin \subseteq Login
    /\ None \notin Account \cup Session \cup Login \cup Provider
    /\ IsFiniteSet(Login) /\ MaxFaults \in Nat

VARIABLES
    users,       \* accounts that exist
    created,     \* account ids handed out so far
    identities,  \* user_identities: login -> its account, or None
    sessions,    \* session id -> the account of a session still valid, or None
    issued,      \* session ids handed out so far
    proc,        \* where each handler stands
    faults,      \* the bounded counter
    raced        \* history: accounts whose logins a handler changed although
                 \* they were not, or no longer, what its reads had found

tables == <<users, created, identities, sessions, issued>>
vars   == <<users, created, identities, sessions, issued, proc, faults, raced>>

\* seen: what each read of the user's identities found.
Idle == [pc |-> "idle", op |-> None, user |-> None, session |-> None, login |-> None,
         provider |-> {}, seen |-> {}]

Steps == {"idle", "lookup", "csrf", "identities", "link", "root", "count", "unlink",
          "delete", "logout", "upsert", "session"}

Goto(w, s)  == proc' = [proc EXCEPT ![w] = s]
LoginsOf(a) == {l \in Login : identities[l] = a}

\* Mutant: foreign keys are not enforced.
KnownOnce(a) == a \in created

\* REFERENCES users(id) accepts the account.
Known(a) == a \in users

\* UNIQUE(provider, provider_user_id) and the foreign key accept the row.
Linkable(l, a) == identities[l] = None /\ Known(a)

\* Mutant: no account counts as linked already.
AlreadyLinkedNever(a) == FALSE

\* already_linked: the account has a Telegram identity.
AlreadyLinked(a) == LoginsOf(a) \cap Telegram # {}

\* Mutant: the root check forgotten.
IsConfiguredRootNever(a, p) == FALSE

IsConfiguredRoot(a, p) == LoginsOf(a) \cap p \cap RootLogin # {}

\* Mutant: off by one.
OnlyLoginMethodOff(a) == Cardinality(LoginsOf(a)) < 1

\* count <= 1
OnlyLoginMethod(a) == Cardinality(LoginsOf(a)) <= 1

\* A database with no account yet.
Init ==
    /\ users = {} /\ created = {}
    /\ identities = [l \in Login |-> None]
    /\ sessions = [s \in Session |-> None] /\ issued = {}
    /\ proc = [w \in Worker |-> Idle]
    /\ faults = 0 /\ raced = {}

-----------------------------------------------------------------------------
(* Requests.  A cookie may name any session ever issued. *)

Request(w) ==
    /\ proc[w].pc = "idle"
    /\ \/ \E l \in Login :
             Goto(w, [Idle EXCEPT !.pc = "upsert", !.op = "login", !.login = l])
       \/ \E s \in issued, l \in Telegram :
             Goto(w, [Idle EXCEPT !.pc = "lookup", !.op = "telegram", !.session = s, !.login = l])
       \/ \E s \in issued, p \in Provider :
             Goto(w, [Idle EXCEPT !.pc = "lookup", !.op = "unlink", !.session = s, !.provider = p])
       \/ \E s \in issued :
             \/ Goto(w, [Idle EXCEPT !.pc = "lookup", !.op = "delete", !.session = s])
             \/ Goto(w, [Idle EXCEPT !.pc = "logout", !.op = "logout", !.session = s])
    /\ UNCHANGED <<tables, faults, raced>>

\* Mutant: a request without a valid session goes on.
AuthenticatedAnyway(p, a) ==
    CASE a = None /\ p.op = "telegram" -> [p EXCEPT !.pc = "upsert", !.session = None]
      [] p.op = "delete"               -> [p EXCEPT !.pc = "delete", !.user = a]
      [] OTHER                         -> [p EXCEPT !.pc = "csrf", !.user = a]

\* Where a handler goes once lookup_session answered a.  The Telegram callback
\* links for a signed-in user and signs in anyone else.
Authenticated(p, a) ==
    CASE a = None /\ p.op = "telegram" -> [p EXCEPT !.pc = "upsert", !.session = None]
      [] a = None /\ p.op # "telegram" -> Idle
      [] a # None /\ p.op = "delete"   -> [p EXCEPT !.pc = "delete", !.user = a]
      [] OTHER                         -> [p EXCEPT !.pc = "csrf", !.user = a]

LookupSession(w) ==
    /\ proc[w].pc = "lookup"
    /\ Goto(w, Authenticated(proc[w], sessions[proc[w].session]))
    /\ UNCHANGED <<tables, faults, raced>>

\* lookup_session_info reads the session again; the token may be wrong.
CheckCsrf(w) ==
    LET p == proc[w] IN
    /\ p.pc = "csrf"
    /\ \/ /\ sessions[p.session] # None
          /\ Goto(w, [p EXCEPT !.pc = IF p.op = "unlink" THEN "root" ELSE "identities"])
       \/ Goto(w, Idle)
    /\ UNCHANGED <<tables, faults, raced>>

-----------------------------------------------------------------------------
(* Signing in and out *)

\* upsert_by_provider: one transaction.
Upsert(w) ==
    LET p == proc[w] l == p.login IN
    /\ p.pc = "upsert"
    /\ \/ /\ identities[l] # None
          /\ Goto(w, [p EXCEPT !.pc = "session", !.user = identities[l]])
          /\ UNCHANGED <<users, created, identities>>
       \/ /\ identities[l] = None
          /\ \E a \in Account \ created :
                /\ created' = created \cup {a}
                /\ users' = users \cup {a}
                /\ identities' = [identities EXCEPT ![l] = a]
                /\ Goto(w, [p EXCEPT !.pc = "session", !.user = a])
    /\ UNCHANGED <<sessions, issued, faults, raced>>

\* Mutant: ids come from a counter that starts over.
NewSessionAgain == {s \in Session : sessions[s] = None}

\* Uuid::new_v4()
NewSession == Session \ issued

\* create_session: the account may have been deleted since.
CreateSession(w) ==
    LET p == proc[w] IN
    /\ p.pc = "session"
    /\ \/ /\ Known(p.user)
          /\ \E s \in NewSession :
                /\ issued' = issued \cup {s}
                /\ sessions' = [sessions EXCEPT ![s] = p.user]
       \/ /\ ~Known(p.user)
          /\ UNCHANGED <<sessions, issued>>
    /\ Goto(w, Idle)
    /\ UNCHANGED <<users, created, identities, faults, raced>>

Logout(w) ==
    /\ proc[w].pc = "logout"
    /\ sessions' = [sessions EXCEPT ![proc[w].session] = None]
    /\ Goto(w, Idle)
    /\ UNCHANGED <<users, created, identities, issued, faults, raced>>

\* expires_at > datetime('now') no longer.
ExpireSession(s) ==
    /\ sessions[s] # None
    /\ sessions' = [sessions EXCEPT ![s] = None]
    /\ UNCHANGED <<users, created, identities, issued, proc, faults, raced>>

\* DELETE FROM users, with ON DELETE CASCADE.
DeleteAccount(w) ==
    LET a == proc[w].user IN
    /\ proc[w].pc = "delete"
    /\ users' = users \ {a}
    /\ identities' = [l \in Login |-> IF identities[l] = a THEN None ELSE identities[l]]
    /\ sessions' = [s \in Session |-> IF sessions[s] = a THEN None ELSE sessions[s]]
    /\ Goto(w, Idle)
    /\ UNCHANGED <<created, issued, faults, raced>>

-----------------------------------------------------------------------------
(* Linking and unlinking logins *)

\* The handler of p is about to change the logins of its user.
Note(p) == raced' = IF p.seen = {LoginsOf(p.user)} THEN raced ELSE raced \cup {p.user}

Saw(p) == p.seen \cup {LoginsOf(p.user)}

ReadIdentities(w) ==
    LET p == proc[w] IN
    /\ p.pc = "identities"
    /\ Goto(w, IF AlreadyLinked(p.user) THEN Idle ELSE [p EXCEPT !.pc = "link", !.seen = Saw(p)])
    /\ UNCHANGED <<tables, faults, raced>>

\* link_identity: an error is logged, and that is all.
Link(w) ==
    LET p == proc[w] IN
    /\ p.pc = "link"
    /\ \/ /\ Linkable(p.login, p.user)
          /\ identities' = [identities EXCEPT ![p.login] = p.user]
          /\ Note(p)
       \/ /\ ~Linkable(p.login, p.user)
          /\ UNCHANGED <<identities, raced>>
    /\ Goto(w, Idle)
    /\ UNCHANGED <<users, created, sessions, issued, faults>>

CheckRoot(w) ==
    LET p == proc[w] IN
    /\ p.pc = "root"
    /\ Goto(w, IF IsConfiguredRoot(p.user, p.provider) THEN Idle
               ELSE [p EXCEPT !.pc = "count", !.seen = Saw(p)])
    /\ UNCHANGED <<tables, faults, raced>>

CountIdentities(w) ==
    LET p == proc[w] IN
    /\ p.pc = "count"
    /\ Goto(w, IF OnlyLoginMethod(p.user) THEN Idle ELSE [p EXCEPT !.pc = "unlink", !.seen = Saw(p)])
    /\ UNCHANGED <<tables, faults, raced>>

\* DELETE FROM user_identities WHERE user_id = ? AND provider = ?
Unlink(w) ==
    LET p == proc[w] IN
    /\ p.pc = "unlink"
    /\ identities' = [l \in Login |-> IF l \in p.provider /\ identities[l] = p.user
                                      THEN None ELSE identities[l]]
    /\ Note(p)
    /\ Goto(w, Idle)
    /\ UNCHANGED <<users, created, sessions, issued, faults>>

-----------------------------------------------------------------------------
(* What may go wrong *)

Fault == faults < MaxFaults /\ faults' = faults + 1

\* unwrap_or_default and .ok()??: a failed read of the identities finds none, a
\* failed lookup no session.
ReadFails(w) ==
    LET p == proc[w] IN
    /\ Fault
    /\ \/ p.pc = "identities" /\ Goto(w, [p EXCEPT !.pc = "link"])
       \/ p.pc = "lookup" /\ Goto(w, Authenticated(p, None))
    /\ UNCHANGED <<tables, raced>>

\* Any other statement fails, or the client hangs up: the handler ends there.
Abort(w) ==
    /\ Fault
    /\ proc[w].pc # "idle"
    /\ Goto(w, Idle)
    /\ UNCHANGED <<tables, raced>>

-----------------------------------------------------------------------------
Next ==
    \/ \E w \in Worker :
          \/ Request(w) \/ LookupSession(w) \/ CheckCsrf(w)
          \/ Upsert(w) \/ CreateSession(w) \/ Logout(w) \/ DeleteAccount(w)
          \/ ReadIdentities(w) \/ Link(w) \/ CheckRoot(w) \/ CountIdentities(w) \/ Unlink(w)
          \/ ReadFails(w) \/ Abort(w)
    \/ \E s \in Session : ExpireSession(s)

Spec == Init /\ [][Next]_vars

-----------------------------------------------------------------------------
(* Properties *)

Handler == [pc : Steps, op : {None, "login", "telegram", "unlink", "delete", "logout"},
            user : Account \cup {None}, session : Session \cup {None},
            login : Login \cup {None}, provider : SUBSET Login, seen : SUBSET (SUBSET Login)]

\* The handler holds what its next step uses.
Ready(p) ==
    /\ p.pc \in {"lookup", "csrf", "logout"} => p.session \in Session
    /\ p.pc = "upsert" => p.login \in Login
    /\ p.pc \in {"identities", "link"} => p.login \in Telegram
    /\ p.pc \in {"root", "count", "unlink"} => p.provider \in Provider
    /\ p.pc \notin {"idle", "lookup", "logout", "upsert"} => p.user \in Account

\* Every variable has its type, and every handler what its next step uses.
TypeOK ==
    /\ users \subseteq created /\ created \subseteq Account
    /\ identities \in [Login -> Account \cup {None}]
    /\ sessions \in [Session -> Account \cup {None}] /\ issued \subseteq Session
    /\ proc \in [Worker -> Handler] /\ \A w \in Worker : Ready(proc[w])
    /\ faults \in 0..MaxFaults /\ raced \subseteq Account

\* An account keeps a way to sign in, unless a handler linked or unlinked on a
\* read that was no longer true (unlink_identity counts before it deletes, and
\* deletes by provider).
LoginMethodKept == \A a \in users \ raced : LoginsOf(a) # {}

\* With the same exception an account has one login of each provider at most
\* (the Telegram callback's already_linked, which no UNIQUE backs).
OneLoginPerProvider ==
    \A a \in users \ raced, p \in Provider : \A k, l \in LoginsOf(a) \cap p : k = l

\* Nobody is left without the row they belong to: a login or session of a
\* deleted account would lead nowhere (ON DELETE CASCADE, and foreign keys
\* against the handlers that write after the account is gone).
NoOrphans ==
    /\ \A l \in Login : identities[l] \in users \cup {None}
    /\ \A s \in Session : sessions[s] \in users \cup {None}

\* A login never goes from one account to another in one step, whoever links it
\* and whatever they had read (link_identity).
LoginNeverMoves ==
    [][\A l \in Login : identities[l] = None \/ identities'[l] \in {identities[l], None}]_vars

\* A configured root login stays with its account as long as the account is
\* there, the racing handlers apart (unlink_identity's first check).
RootLoginKept ==
    [][\A l \in RootLogin :
          identities[l] \in users' \ raced' => identities'[l] = identities[l]]_vars

\* Handlers of many statements, racing and failing, change what leads to an
\* account as Credentials says: one account at a time, for accounts that are
\* there, and for good (auth/sessions.rs, repositories/users.rs).
Book == INSTANCE Credentials WITH
    accounts <- users,
    closed   <- created \ users,
    owner    <- identities,
    ended    <- {s \in issued : sessions[s] = None}

CredentialsSpec == Book!Spec

\* api/account.rs:226, "Cannot remove your only login method".
OnlyLoginMethodKept == \A a \in users : LoginsOf(a) # {}
=============================================================================
