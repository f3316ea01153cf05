------------------------------ MODULE Credentials ------------------------------
(***************************************************************************)
(* What logins and sessions promise.  Each leads to one account at most, and *)
(* is granted to accounts that are open; a session that has ended stays so,  *)
(* a closed account too, and it takes all that led to it along at once.  No  *)
(* step touches the logins and sessions of two accounts.                     *)
(***************************************************************************)
CONSTANTS Account, Login, Session,
          None       \* leads nowhere

VARIABLES accounts,  \* those that are open
          closed,    \* those that were
          owner,     \* login -> the account it leads to, or None
          sessions,  \* session -> the account it leads to, or None
          ended      \* sessions that led to one

credentials == <<accounts, closed, owner, sessions, ended>>

LoginsOf(a)   == {l \in Login : owner[l] = a}
SessionsOf(a) == {s \in Session : sessions[s] = a}

Init ==
    /\ accounts = {} /\ closed = {} /\ ended = {}
    /\ owner = [l \in Login |-> None]
    /\ sessions = [s \in Session |-> None]

GrantLogin(a) == \E l \in Login : owner[l] = None /\ owner' = [owner EXCEPT ![l] = a]

GrantSession(a) ==
    \E s \in Session \ ended : sessions[s] = None /\ sessions' = [sessions EXCEPT ![s] = a]

Withdraw(L, S) ==
    /\ owner' = [l \in Login |-> IF l \in L THEN None ELSE owner[l]]
    /\ sessions' = [s \in Session |-> IF s \in S THEN None ELSE sessions[s]]
    /\ ended' = ended \cup S

\* An account begins with a login.
Open(a) ==
    /\ a \notin accounts \cup closed
    /\ accounts' = accounts \cup {a}
    /\ GrantLogin(a)
    /\ UNCHANGED <<closed, sessions, ended>>

Grant(a) ==
    /\ a \in accounts
    /\ \/ GrantLogin(a) /\ UNCHANGED sessions
       \/ GrantSession(a) /\ UNCHANGED owner
    /\ UNCHANGED <<accounts, closed, ended>>

Revoke(a) ==
    /\ a \in accounts
    /\ \E L \in SUBSET LoginsOf(a), S \in SUBSET SessionsOf(a) : Withdraw(L, S)
    /\ UNCHANGED <<accounts, closed>>

Close(a) ==
    /\ a \in accounts
    /\ accounts' = accounts \ {a} /\ closed' = closed \cup {a}
    /\ Withdraw(LoginsOf(a), SessionsOf(a))

Next == \E a \in Account : Open(a) \/ Grant(a) \/ Revoke(a) \/ Close(a)

Spec == Init /\ [][Next]_credentials
=============================================================================
