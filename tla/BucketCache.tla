------------------------------ MODULE BucketCache ------------------------------
(***************************************************************************)
(* Buckets, their sharing, and the moka caches in front of both            *)
(* (repositories/buckets.rs, repositories/cached.rs, api/buckets.rs).  A    *)
(* read takes the cached answer, or asks the database and caches what it    *)
(* was told one await later; a write drops entries before and after its     *)
(* statement.  Requests interleave at every await.  The drops of one        *)
(* invalidation are one step: no operation reads two entries, so only when  *)
(* each entry goes matters, not in which order.                             *)
(***************************************************************************)
EXTENDS Naturals, FiniteSets

CONSTANTS
    User, Bucket,  \* ids; a bucket's id is never used again
    Name,          \* bucket names after trim and to_lowercase
    Token,         \* share tokens; a random draw never repeats one
    Worker,        \* request handlers in flight at once
    None,          \* SQL NULL, no row
    Miss,          \* nothing cached
    Stock,         \* buckets the database holds when the server starts
    StockToken,    \* their share tokens are of this set
    Watch,         \* bound: each behaviour's clients read the keys of one of these sets
    Strangers,     \* bound: do clients ask for what only a bucket's owner may do
    MaxWrites,     \* bound: requests that write
    MaxFaults      \* bound: failed statements and dropped requests

Row    == [owner: User, name: Name, share_token: Token \cup {None}, whitelist_enabled: BOOLEAN]
Stored == [id: Bucket, row: Row, subscriber_count: Nat, image_count: Nat]

\* The keys of the caches, one record per entry that can exist.
OwnedKey(u)       == [cache |-> "user_buckets", user |-> u]
NamesKey(u)       == [cache |-> "user_bucket_names", user |-> u]
SubscribedKey(u)  == [cache |-> "user_subscribed", user |-> u]
IdKey(b)          == [cache |-> "bucket_by_id", bucket |-> b]
TokenKey(t)       == [cache |-> "bucket_by_token", token |-> t]
WhitelistKey(b)   == [cache |-> "whitelist_users", bucket |-> b]
AdmittedKey(b, u) == [cache |-> "is_whitelisted", bucket |-> b, user |-> u]
ImagesKey(u, b)   == [cache |-> "list_for_bucket", user |-> u, bucket |-> b]

AdmittedKeys   == {AdmittedKey(b, u) : b \in Bucket, u \in User}
ImagesKeys     == {ImagesKey(u, b) : u \in User, b \in Bucket}
SubscribedKeys == {SubscribedKey(u) : u \in User}
Key == {OwnedKey(u) : u \in User} \cup {NamesKey(u) : u \in User} \cup SubscribedKeys
       \cup {IdKey(b) : b \in Bucket} \cup {TokenKey(t) : t \in Token}
       \cup {WhitelistKey(b) : b \in Bucket} \cup AdmittedKeys \cup ImagesKeys

ASSUME CacheAssumption ==
    /\ Watch \subseteq SUBSET Key /\ Watch # {}
    /\ Stock \subseteq Bucket /\ StockToken \subseteq Token \cup {None}
    /\ None \notin User \cup Bucket \cup Token \cup Row \cup Key
    /\ Strangers \in BOOLEAN
    /\ MaxWrites \in Nat /\ MaxFaults \in Nat

\* What a request may ask for.  The first six go through
\* invalidate_bucket_with_token; the first four of them do so twice.
Twice   == {"rename", "delete", "share", "protect"}
Guarded == Twice \cup {"subscribe", "unsubscribe"}
Ops     == Guarded \cup {"get", "create", "allow", "deny", "add_image", "delete_image"}
Steps   == {"idle", "lookup", "fill", "read", "drop", "write", "reread", "redrop", "finish"}

VARIABLES
    buckets,             \* id -> row, or None
    created,             \* ids handed out so far
    issued,              \* share tokens handed out so far
    bucket_subscriptions,\* pairs <<subscriber, bucket>>
    bucket_whitelists,   \* pairs <<bucket, user>>
    images,              \* how many images each bucket holds
    cache,               \* key -> the cached answer, or Miss
    proc,                \* where each handler stands
    watched,             \* the keys this behaviour's clients read
    writes, faults,      \* the bounded counters
    excused,             \* history: cached keys stale by a cause the comments name
    admitted             \* history: pairs <<user, bucket>> the database ever let in

db     == <<buckets, created, issued, bucket_subscriptions, bucket_whitelists, images>>
vars   == <<buckets, created, issued, bucket_subscriptions, bucket_whitelists, images,
            cache, proc, watched, writes, faults, excused, admitted>>

Idle == [pc |-> "idle", op |-> None, user |-> None, bucket |-> None, arg |-> None,
         key |-> None, value |-> None, snap |-> None]

Exists(b)  == buckets[b] # None
Owns(u, b) == Exists(b) /\ buckets[b].owner = u
Subscribers(b) == {u \in User : <<u, b>> \in bucket_subscriptions}
\* ... AND (whitelist_enabled = 0 OR EXISTS (SELECT 1 FROM bucket_whitelists ...))
Visible(u, b) == ~buckets[b].whitelist_enabled \/ <<b, u>> \in bucket_whitelists
Goto(w, s) == proc' = [proc EXCEPT ![w] = s]

\* The database would let u subscribe to b, or has u on b's whitelist.
Open == {a \in User \X Bucket :
            /\ Exists(a[2])
            /\ \/ <<a[2], a[1]>> \in bucket_whitelists
               \/ buckets[a[2]].share_token # None /\ ~buckets[a[2]].whitelist_enabled}

\* A bucket as the INSERT leaves it.
NewBucket(u, n) == [owner |-> u, name |-> n, share_token |-> None, whitelist_enabled |-> FALSE]

\* What UNIQUE(owner_user_id, name_folded) and the index on share_token keep apart.
Distinct(r, s) ==
    /\ r.owner = s.owner => r.name # s.name
    /\ r.share_token = s.share_token => r.share_token = None

\* The server starts with empty caches over a database with some buckets.
Init ==
    /\ \E rows \in [Stock -> {[NewBucket(u, n) EXCEPT !.share_token = t] :
                               u \in User, n \in Name, t \in StockToken}] :
          /\ \A b, c \in Stock : b # c => Distinct(rows[b], rows[c])
          /\ buckets = [b \in Bucket |-> IF b \in Stock THEN rows[b] ELSE None]
          /\ issued = {rows[b].share_token : b \in Stock} \ {None}
    /\ created = Stock
    /\ bucket_subscriptions = {} /\ bucket_whitelists = {}
    /\ images = [b \in Bucket |-> 0]
    /\ cache = [k \in Key |-> Miss]
    /\ proc = [w \in Worker |-> Idle]
    /\ watched \in Watch
    /\ writes = 0 /\ faults = 0
    /\ excused = {} /\ admitted = Open

-----------------------------------------------------------------------------
(* What the database answers *)

StoredBucket(b) ==
    [id |-> b, row |-> buckets[b], subscriber_count |-> Cardinality(Subscribers(b)),
     image_count |-> images[b]]

OptionBucket(b) == IF Exists(b) THEN StoredBucket(b) ELSE None

Owned(u)      == {b \in Bucket : Owns(u, b)}
SubscribedTo(u) == {b \in Bucket : Exists(b) /\ u \in Subscribers(b)}

\* WHERE share_token = ?; the index leaves fetch_optional one row at most.
Holders(t) == {b \in Bucket : Exists(b) /\ buckets[b].share_token = t}
First(S)   == CHOOSE b \in S : TRUE

\* The query behind a key.  whitelist_users answers its owner here; for anyone
\* else the query says "no such bucket", under the same key (AnswerTo).
Answer(k) ==
    CASE k.cache = "user_buckets"      -> {StoredBucket(b) : b \in Owned(k.user)}
      [] k.cache = "user_bucket_names" -> {buckets[b].name : b \in Owned(k.user) \cup SubscribedTo(k.user)}
      [] k.cache = "user_subscribed"   -> {StoredBucket(b) : b \in {c \in SubscribedTo(k.user) : Visible(k.user, c)}}
      [] k.cache = "bucket_by_id"      -> OptionBucket(k.bucket)
      [] k.cache = "bucket_by_token"   ->
            IF Holders(k.token) # {} THEN StoredBucket(First(Holders(k.token))) ELSE None
      [] k.cache = "whitelist_users"   ->
            IF Exists(k.bucket) THEN {u \in User : <<k.bucket, u>> \in bucket_whitelists} ELSE None
      [] k.cache = "is_whitelisted"    -> <<k.bucket, k.user>> \in bucket_whitelists
      [] k.cache = "list_for_bucket"   ->
            IF /\ Exists(k.bucket)
               /\ \/ Owns(k.user, k.bucket)
                  \/ k.user \in Subscribers(k.bucket) /\ Visible(k.user, k.bucket)
            THEN images[k.bucket] ELSE 0

AnswerTo(u, k) ==
    IF k.cache = "whitelist_users" /\ ~Owns(u, k.bucket) THEN None ELSE Answer(k)

\* Cached answers the database would not give now.
Stale == {k \in Key : cache[k] # Miss /\ cache[k] # Answer(k)}

-----------------------------------------------------------------------------
(* Reading through the cache *)

\* A request to read one watched key.  Who asks matters to one answer only.
Get(w) ==
    /\ proc[w].pc = "idle"
    /\ \E k \in watched, u \in User \cup {None} :
          /\ (u = None) <=> (k.cache # "whitelist_users")
          /\ "bucket" \in DOMAIN k => k.bucket \in created
          /\ Goto(w, [Idle EXCEPT !.pc = "lookup", !.op = "get", !.user = u, !.key = k])
    /\ UNCHANGED <<db, cache, watched, writes, faults, excused, admitted>>

\* Mutant: subscribe_bucket without its whitelist check.
AnsweredUnchecked(p, v) ==
    IF p.op = "get" \/ v = None THEN Idle
    ELSE [p EXCEPT !.pc = "read", !.bucket = v.id, !.key = None, !.value = None]

\* Where a handler goes once it knows v for its key: a read is over;
\* subscribe_bucket goes on to its whitelist check, to its write, or gives up.
Answered(p, v) ==
    IF p.op = "get" THEN Idle
    ELSE IF p.key.cache = "is_whitelisted"
    THEN IF v THEN [p EXCEPT !.pc = "read", !.key = None, !.value = None] ELSE Idle
    ELSE IF v = None THEN Idle
    ELSE IF v.row.whitelist_enabled
    THEN [p EXCEPT !.pc = "lookup", !.bucket = v.id, !.key = AdmittedKey(v.id, p.user), !.value = None]
    ELSE [p EXCEPT !.pc = "read", !.bucket = v.id, !.key = None, !.value = None]

\* A hit answers at once; a miss asks the database.
Lookup(w) ==
    LET p == proc[w] IN
    /\ p.pc = "lookup"
    /\ IF cache[p.key] # Miss
       THEN Goto(w, Answered(p, cache[p.key]))
       ELSE Goto(w, [p EXCEPT !.pc = "fill", !.value = AnswerTo(p.user, p.key)])
    /\ UNCHANGED <<db, cache, watched, writes, faults, excused, admitted>>

\* The database's answer is cached, however old it is by now.  Two named causes
\* of staleness: a write came between, or whitelist_users was asked by someone
\* who is not the owner.
Fill(w) ==
    LET p == proc[w] IN
    /\ p.pc = "fill"
    /\ cache' = [cache EXCEPT ![p.key] = p.value]
    /\ excused' = IF p.value = Answer(p.key) THEN excused \ {p.key} ELSE excused \cup {p.key}
    /\ Goto(w, Answered(p, p.value))
    /\ UNCHANGED <<db, watched, writes, faults, admitted>>

\* Mutant: time_to_idle, which a request for the entry puts off.
ExpireIdle(k) ==
    /\ cache[k] # Miss
    /\ \A w \in Worker : proc[w].key # k
    /\ cache' = [cache EXCEPT ![k] = Miss]
    /\ excused' = excused \ {k}
    /\ UNCHANGED <<db, proc, watched, writes, faults, admitted>>

\* time_to_live, or the cache is full.
Expire(k) ==
    /\ cache[k] # Miss
    /\ cache' = [cache EXCEPT ![k] = Miss]
    /\ excused' = excused \ {k}
    /\ UNCHANGED <<db, proc, watched, writes, faults, admitted>>

Drop(K) ==
    /\ cache' = [k \in Key |-> IF k \in K THEN Miss ELSE cache[k]]
    /\ excused' = excused \ K

-----------------------------------------------------------------------------
(* Invalidation *)

\* What an invalidation drops because the row it read names it.
RowKeys(row) ==
    IF row = None THEN {}
    ELSE {OwnedKey(row.owner), NamesKey(row.owner)}
         \cup {TokenKey(t) : t \in {row.share_token} \ {None}}

\* invalidate_bucket_with_token, having read row.
BucketKeys(b, row) ==
    RowKeys(row) \cup {IdKey(b), WhitelistKey(b)} \cup SubscribedKeys \cup AdmittedKeys

\* Mutant: editing the whitelist leaves is_whitelisted alone.
AfterKeysForgetful(p) ==
    CASE p.op = "create"                       -> {OwnedKey(p.user), NamesKey(p.user)}
      [] p.op \in {"subscribe", "unsubscribe"} -> {SubscribedKey(p.user)}
      [] p.op \in {"allow", "deny"}            -> {WhitelistKey(p.bucket)}
      [] OTHER                                 -> ImagesKeys

\* What the operations outside Twice drop after their statement.
AfterKeys(p) ==
    CASE p.op = "create"                       -> {OwnedKey(p.user), NamesKey(p.user)}
      [] p.op \in {"subscribe", "unsubscribe"} -> {SubscribedKey(p.user)}
      [] p.op \in {"allow", "deny"}            -> {WhitelistKey(p.bucket)} \cup AdmittedKeys
      [] OTHER                                 -> ImagesKeys

\* Entries the handler at w has written behind and will still drop.
Pending(w) ==
    CASE proc[w].pc = "reread" -> BucketKeys(proc[w].bucket, buckets[proc[w].bucket])
      [] proc[w].pc = "redrop" -> BucketKeys(proc[w].bucket, proc[w].snap)
      [] proc[w].pc = "finish" -> AfterKeys(proc[w])
      [] OTHER                 -> {}

\* self.inner.get_by_id(bucket_id).await, before or after the statement.
ReadBucket(w) ==
    LET p == proc[w] IN
    /\ \/ p.pc = "read"   /\ Goto(w, [p EXCEPT !.pc = "drop", !.snap = buckets[p.bucket]])
       \/ p.pc = "reread" /\ Goto(w, [p EXCEPT !.pc = "redrop", !.snap = buckets[p.bucket]])
    /\ UNCHANGED <<db, cache, watched, writes, faults, excused, admitted>>

DropEntries(w) ==
    LET p == proc[w] IN
    /\ \/ p.pc = "drop"   /\ Goto(w, [p EXCEPT !.pc = "write", !.snap = None])
       \/ p.pc = "redrop" /\ Goto(w, Idle)
    /\ Drop(BucketKeys(p.bucket, p.snap))
    /\ UNCHANGED <<db, watched, writes, faults, admitted>>

Finish(w) ==
    /\ proc[w].pc = "finish"
    /\ Drop(AfterKeys(proc[w]))
    /\ Goto(w, Idle)
    /\ UNCHANGED <<db, watched, writes, faults, admitted>>

-----------------------------------------------------------------------------
(* Requests that write *)

\* A random draw is a token not issued before; which one makes no difference.
NewToken == IF issued = Token THEN {} ELSE {CHOOSE t \in Token : t \notin issued}

\* Someone asks for one of them.  set_share_token's argument is the token drawn
\* by share_bucket, or None for unshare_bucket.
Request(w) ==
    /\ proc[w].pc = "idle"
    /\ writes < MaxWrites
    /\ writes' = writes + 1
    /\ \E u \in User, op \in Ops \ {"get"} :
          \/ /\ op = "create" /\ created # Bucket
             /\ \E n \in Name : Goto(w, [Idle EXCEPT !.pc = "write", !.op = op, !.user = u, !.arg = n])
             /\ UNCHANGED issued
          \/ /\ op = "subscribe"
             /\ \E t \in issued : Goto(w, [Idle EXCEPT !.pc = "lookup", !.op = op, !.user = u, !.key = TokenKey(t)])
             /\ UNCHANGED issued
          \/ \E b \in created, a \in Name \cup Token \cup User \cup BOOLEAN \cup {None} :
                /\ CASE op = "rename"             -> a \in Name
                     [] op = "share"              -> a \in NewToken \cup {None}
                     [] op = "protect"            -> a \in BOOLEAN
                     [] op \in {"allow", "deny"}  -> a \in User
                     [] op \in {"delete", "unsubscribe", "add_image", "delete_image"} -> a = None
                     [] OTHER                     -> FALSE
                /\ Strangers \/ Owns(u, b) \/ op = "unsubscribe"
                /\ issued' = IF op = "share" THEN issued \cup ({a} \ {None}) ELSE issued
                /\ Goto(w, [Idle EXCEPT !.pc = IF op \in Guarded THEN "read" ELSE "write",
                                        !.op = op, !.user = u, !.bucket = b, !.arg = a])
    /\ UNCHANGED <<buckets, created, bucket_subscriptions, bucket_whitelists, images,
                   cache, watched, faults, excused, admitted>>

\* The handler at w is at the statement of op; no statement touches the caches.
Writing(w, op) == proc[w].pc = "write" /\ proc[w].op = op /\ UNCHANGED cache

\* The statement is done; what is left is the closing invalidation, and what
\* that needs to know.
Wrote(w) ==
    /\ Goto(w, IF proc[w].op \in Twice
               THEN [Idle EXCEPT !.pc = "reread", !.bucket = proc[w].bucket]
               ELSE [proc[w] EXCEPT !.pc = "finish", !.arg = None])
    /\ UNCHANGED <<watched, writes, faults>>

\* gap: the keys that this statement changes and that its handler drops only
\* beforehand, or never.
Note(gap) ==
    /\ excused' = excused \cup (gap \cap Stale')
    /\ admitted' = admitted \cup Open'

\* ON CONFLICT DO NOTHING RETURNING: a name in use ends the request.
CreateBucket(w) ==
    LET p == proc[w] IN
    /\ Writing(w, "create")
    /\ IF \E c \in Owned(p.user) : buckets[c].name = p.arg
       THEN /\ Goto(w, Idle)
            /\ UNCHANGED <<db, watched, writes, faults, excused, admitted>>
       ELSE /\ \E b \in Bucket \ created :
                  /\ created' = created \cup {b}
                  /\ buckets' = [buckets EXCEPT ![b] = NewBucket(p.user, p.arg)]
            /\ UNCHANGED <<issued, bucket_subscriptions, bucket_whitelists, images>>
            /\ Wrote(w) /\ Note({})

\* UNIQUE(owner_user_id, name_folded): an error skips the second invalidation.
RenameBucket(w) ==
    LET p == proc[w] b == p.bucket IN
    /\ Writing(w, "rename")
    /\ IF Owns(p.user, b) /\ \E c \in Owned(p.user) \ {b} : buckets[c].name = p.arg
       THEN /\ Goto(w, Idle)
            /\ UNCHANGED <<db, watched, writes, faults, excused, admitted>>
       ELSE /\ buckets' = IF Owns(p.user, b) THEN [buckets EXCEPT ![b].name = p.arg] ELSE buckets
            /\ UNCHANGED <<created, issued, bucket_subscriptions, bucket_whitelists, images>>
            /\ Wrote(w) /\ Note({NamesKey(u) : u \in Subscribers(b)})

\* The second get_by_id finds no row, so nothing the row named is dropped again.
DeleteBucket(w) ==
    LET p == proc[w] b == p.bucket IN
    /\ Writing(w, "delete")
    /\ IF Owns(p.user, b)
       THEN /\ buckets' = [buckets EXCEPT ![b] = None]
            /\ bucket_subscriptions' = {s \in bucket_subscriptions : s[2] # b}
            /\ bucket_whitelists' = {e \in bucket_whitelists : e[1] # b}
            /\ images' = [images EXCEPT ![b] = 0]
       ELSE UNCHANGED <<buckets, bucket_subscriptions, bucket_whitelists, images>>
    /\ UNCHANGED <<created, issued>>
    /\ Wrote(w)
    /\ Note(RowKeys(buckets[b]) \cup {NamesKey(u) : u \in Subscribers(b)} \cup ImagesKeys)

\* The second invalidation reads the new token: the old one is dropped only before.
SetShareToken(w) ==
    LET p == proc[w] b == p.bucket IN
    /\ Writing(w, "share")
    /\ buckets' = IF Owns(p.user, b) THEN [buckets EXCEPT ![b].share_token = p.arg] ELSE buckets
    /\ UNCHANGED <<created, issued, bucket_subscriptions, bucket_whitelists, images>>
    /\ Wrote(w)
    /\ Note(RowKeys(buckets[b]) \cap {TokenKey(t) : t \in Token})

\* The image repository's cache is another object; this one cannot reach it.
SetWhitelistEnabled(w) ==
    LET p == proc[w] b == p.bucket IN
    /\ Writing(w, "protect")
    /\ buckets' = IF Owns(p.user, b) THEN [buckets EXCEPT ![b].whitelist_enabled = p.arg] ELSE buckets
    /\ UNCHANGED <<created, issued, bucket_subscriptions, bucket_whitelists, images>>
    /\ Wrote(w)
    /\ Note(ImagesKeys)

\* Entries that show b's subscriber_count, and what u alone sees of b.
SubscriptionGap(u, b) ==
    (RowKeys(buckets[b]) \cup {IdKey(b), NamesKey(u), ImagesKey(u, b)} \cup SubscribedKeys)
        \ {SubscribedKey(u)}

\* A foreign key error when the bucket is gone; a row already there stays.
Subscribe(w) ==
    LET p == proc[w] IN
    /\ Writing(w, "subscribe")
    /\ IF ~Exists(p.bucket)
       THEN /\ Goto(w, Idle)
            /\ UNCHANGED <<db, watched, writes, faults, excused, admitted>>
       ELSE /\ bucket_subscriptions' = bucket_subscriptions \cup {<<p.user, p.bucket>>}
            /\ UNCHANGED <<buckets, created, issued, bucket_whitelists, images>>
            /\ Wrote(w) /\ Note(SubscriptionGap(p.user, p.bucket))

Unsubscribe(w) ==
    LET p == proc[w] IN
    /\ Writing(w, "unsubscribe")
    /\ bucket_subscriptions' = bucket_subscriptions \ {<<p.user, p.bucket>>}
    /\ UNCHANGED <<buckets, created, issued, bucket_whitelists, images>>
    /\ Wrote(w) /\ Note(SubscriptionGap(p.user, p.bucket))

\* add_whitelist_user and remove_whitelist_user: what the listed user sees of
\* the bucket changes too, and stays cached.  A bucket the caller does not own
\* is "not found", which still ends in the invalidation; one deleted after that
\* was found out makes the INSERT fail, which does not.
EditWhitelist(w) ==
    LET p == proc[w] b == p.bucket IN
    /\ Writing(w, "allow") \/ Writing(w, "deny")
    /\ \/ /\ bucket_whitelists' = IF ~Owns(p.user, b) THEN bucket_whitelists
                                  ELSE IF p.op = "allow" THEN bucket_whitelists \cup {<<b, p.arg>>}
                                  ELSE bucket_whitelists \ {<<b, p.arg>>}
          /\ UNCHANGED <<buckets, created, issued, bucket_subscriptions, images>>
          /\ Wrote(w) /\ Note({SubscribedKey(p.arg), ImagesKey(p.arg, b)})
       \/ /\ p.op = "allow" /\ ~Exists(b)
          /\ Goto(w, Idle)
          /\ UNCHANGED <<db, watched, writes, faults, excused, admitted>>

\* Mutant: a deletion of nothing counts.
ImagesLeftUncounted(b) == images[b] - 1

\* What deleting one of b's images leaves, if there is one.
ImagesLeft(b) == IF images[b] > 0 THEN images[b] - 1 ELSE 0

\* Images come and go in the other repository, whose cache does not hold the
\* image_count that bucket entries show.  A bucket of someone else's is an
\* error on insert and nothing to delete.
EditImages(w) ==
    LET p == proc[w] b == p.bucket IN
    /\ Writing(w, "add_image") \/ Writing(w, "delete_image")
    /\ IF p.op = "add_image" /\ ~Owns(p.user, b)
       THEN /\ Goto(w, Idle)
            /\ UNCHANGED <<db, watched, writes, faults, excused, admitted>>
       ELSE /\ IF p.op = "add_image"
               THEN images' = [images EXCEPT ![b] = @ + 1]
               ELSE images' = IF Owns(p.user, b) THEN [images EXCEPT ![b] = ImagesLeft(b)] ELSE images
            /\ UNCHANGED <<buckets, created, issued, bucket_subscriptions, bucket_whitelists>>
            /\ Wrote(w)
            /\ Note(RowKeys(buckets[b]) \cup {IdKey(b)} \cup SubscribedKeys)

-----------------------------------------------------------------------------
(* What may go wrong *)

Fault == faults < MaxFaults /\ faults' = faults + 1 /\ UNCHANGED writes

\* if let Ok(Some(bucket)): a failed get_by_id drops less and says nothing.
ReadFails(w) ==
    LET p == proc[w] IN
    /\ Fault
    /\ \/ /\ p.pc = "read" /\ Goto(w, [p EXCEPT !.pc = "drop", !.snap = None])
          /\ UNCHANGED excused
       \/ /\ p.pc = "reread" /\ Goto(w, [p EXCEPT !.pc = "redrop", !.snap = None])
          /\ excused' = excused \cup (Stale \cap RowKeys(buckets[p.bucket]))
    /\ UNCHANGED <<db, cache, watched, admitted>>

\* A lookup or a statement fails: the ? ends the request.
StatementFails(w) ==
    /\ Fault
    /\ proc[w].pc \in {"lookup", "write"}
    /\ Goto(w, Idle)
    /\ UNCHANGED <<db, cache, watched, excused, admitted>>

\* The client hangs up and the handler is dropped at its await.
Disconnect(w) ==
    /\ Fault
    /\ proc[w].pc # "idle"
    /\ Goto(w, Idle)
    /\ excused' = excused \cup (Stale \cap Pending(w))
    /\ UNCHANGED <<db, cache, watched, admitted>>

-----------------------------------------------------------------------------
Write(w) ==
    \/ CreateBucket(w) \/ RenameBucket(w) \/ DeleteBucket(w) \/ SetShareToken(w)
    \/ SetWhitelistEnabled(w) \/ Subscribe(w) \/ Unsubscribe(w) \/ EditWhitelist(w) \/ EditImages(w)

Serve(w) == Lookup(w) \/ Fill(w) \/ ReadBucket(w) \/ DropEntries(w) \/ Write(w) \/ Finish(w)

Next ==
    \/ \E w \in Worker : \/ Get(w) \/ Request(w) \/ Serve(w)
                         \/ ReadFails(w) \/ StatementFails(w) \/ Disconnect(w)
    \/ \E k \in Key : Expire(k)

Spec == Init /\ [][Next]_vars

\* tokio polls every ready handler and each await ends; every entry reaches its
\* time_to_live.  Nothing makes clients ask.
FairSpec == /\ Spec
            /\ \A w \in Worker : WF_vars(Serve(w))
            /\ \A k \in Key : WF_vars(Expire(k))

-----------------------------------------------------------------------------
(* Properties *)

AnswerType(k) ==
    CASE k.cache \in {"user_buckets", "user_subscribed"} -> SUBSET Stored
      [] k.cache = "user_bucket_names"                   -> SUBSET Name
      [] k.cache \in {"bucket_by_id", "bucket_by_token"} -> Stored \cup {None}
      [] k.cache = "whitelist_users"                     -> (SUBSET User) \cup {None}
      [] k.cache = "is_whitelisted"                      -> BOOLEAN
      [] k.cache = "list_for_bucket"                     -> Nat

\* Every variable has its type.
TypeOK ==
    /\ buckets \in [Bucket -> Row \cup {None}]
    /\ created \subseteq Bucket /\ issued \subseteq Token
    /\ bucket_subscriptions \subseteq User \X Bucket
    /\ bucket_whitelists \subseteq Bucket \X User
    /\ images \in [Bucket -> Nat]
    /\ DOMAIN cache = Key
    /\ \A k \in Key : cache[k] # Miss => cache[k] \in AnswerType(k)
    /\ \A w \in Worker : proc[w].pc \in Steps /\ proc[w].op \in Ops \cup {None}
    /\ watched \in Watch
    /\ writes \in 0..MaxWrites /\ faults \in 0..MaxFaults
    /\ excused \subseteq Key /\ admitted \subseteq User \X Bucket

\* An entry the database would not give now is about to be dropped by the
\* handler whose statement made it old, or is old for a cause named above: a
\* fill that a write overtook, a key the code does not drop, a lost handler
\* (repositories/cached.rs, all the invalidations).
NoUnexplainedStaleness == Stale \subseteq excused \cup UNION {Pending(w) : w \in Worker}

\* Whatever the caches told the handler, a subscription is only ever made for a
\* user on the whitelist, or while the bucket was shared without one, at some
\* time (subscribe_bucket's two cached checks).
SubscribersWereAdmitted == bucket_subscriptions \subseteq admitted

\* Once the writing stops, every entry agrees with the database for good, the
\* one that does not depend on who asks apart (time_to_live).
Converges == <>[](Stale \subseteq {WhitelistKey(b) : b \in Bucket})
=============================================================================
