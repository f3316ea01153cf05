--------------------------- MODULE BucketCacheProofs ---------------------------
(***************************************************************************)
(* Proofs about BucketCache: types, why an entry that differs from the      *)
(* database is about to be dropped or old for a named cause, and why stale  *)
(* answers never make a subscriber of someone who was not let in.           *)
(***************************************************************************)
EXTENDS BucketCache, FiniteSetTheorems, TLAPS

-----------------------------------------------------------------------------
(* The invariant *)

Value == (SUBSET Stored) \cup (SUBSET Name) \cup Stored \cup (SUBSET User) \cup BOOLEAN
         \cup Nat \cup {None}

Handler ==
    [pc: Steps, op: Ops \cup {None}, user: User \cup {None}, bucket: Bucket \cup {None},
     arg: Name \cup Token \cup User \cup BOOLEAN \cup {None}, key: Key \cup {None},
     value: Value, snap: Row \cup {None}]

\* What a statement is given.
ArgTyped(p) ==
    /\ p.op \in {"create", "rename"} => p.arg \in Name
    /\ p.op = "share" => p.arg \in Token \cup {None}
    /\ p.op = "protect" => p.arg \in BOOLEAN
    /\ p.op \in {"allow", "deny"} => p.arg \in User

\* What a handler holds at each of its steps.
Ready(p) ==
    /\ p.pc \in {"lookup", "fill"} =>
          /\ p.key \in Key /\ p.op \in {"get", "subscribe"}
          /\ p.op = "subscribe" =>
                /\ p.user \in User
                /\ \/ \E t \in Token : p.key = TokenKey(t)
                   \/ p.bucket \in Bucket /\ p.key = AdmittedKey(p.bucket, p.user)
    /\ p.pc = "fill" => p.value \in AnswerType(p.key)
    /\ p.pc \in {"read", "drop", "write", "finish"} => p.op \in Ops \ {"get"} /\ p.user \in User
    /\ p.pc \in {"read", "drop"} => p.op \in Guarded
    /\ p.pc \in {"read", "drop", "write"} => ArgTyped(p)
    /\ p.pc = "finish" => p.op \notin Twice
    /\ p.pc \in {"read", "drop", "write", "finish"} /\ p.op # "create" => p.bucket \in Bucket
    /\ p.pc \in {"reread", "redrop"} => p.bucket \in Bucket

Handled == proc \in [Worker -> Handler] /\ \A w \in Worker : Ready(proc[w])

\* Foreign keys, and what has to be there for a row to be.
Tables ==
    /\ buckets \in [Bucket -> Row \cup {None}]
    /\ created \subseteq Bucket /\ issued \subseteq Token
    /\ bucket_subscriptions \subseteq User \X Bucket
    /\ bucket_whitelists \subseteq Bucket \X User
    /\ images \in [Bucket -> Nat]
    /\ \A b \in Bucket : IsFiniteSet(Subscribers(b))
    /\ \A b \in Bucket : ~Exists(b) => images[b] = 0 /\ Subscribers(b) = {}
    /\ \A e \in bucket_whitelists : Exists(e[1])
    /\ \A b \in Bucket \ created : ~Exists(b)

Cached == DOMAIN cache = Key /\ \A k \in Key : cache[k] # Miss => cache[k] \in AnswerType(k)

\* Nobody asks for a bucket by its id before there is one.
Unborn == {IdKey(b) : b \in Bucket \ created} \cup {WhitelistKey(b) : b \in Bucket \ created}
Fresh ==
    /\ \A k \in Unborn : cache[k] = Miss
    /\ \A w \in Worker : proc[w].pc \in {"lookup", "fill"} => proc[w].key \notin Unborn

Counters ==
    /\ watched \in Watch
    /\ writes \in 0..MaxWrites /\ faults \in 0..MaxFaults
    /\ excused \subseteq Key /\ admitted \subseteq User \X Bucket

Inv == Tables /\ Handled /\ Cached /\ Fresh /\ Counters

\* An answer that lets a subscriber through was once true: for the one user, or
\* for all of them.
Admits(k, v) ==
    /\ \A b \in Bucket, u \in User : k = AdmittedKey(b, u) /\ v = TRUE => <<u, b>> \in admitted
    /\ (\E t \in Token : k = TokenKey(t)) /\ v # None =>
          v.row.whitelist_enabled \/ \A u \in User : <<u, v.id>> \in admitted

Gates ==
    /\ Open \subseteq admitted
    /\ bucket_subscriptions \subseteq admitted
    /\ \A k \in Key : cache[k] # Miss => Admits(k, cache[k])
    /\ \A w \in Worker : proc[w].pc = "fill" => Admits(proc[w].key, proc[w].value)
    /\ \A w \in Worker : proc[w].op = "subscribe" /\ proc[w].pc \in {"read", "drop", "write"} =>
          <<proc[w].user, proc[w].bucket>> \in admitted

-----------------------------------------------------------------------------
(* Keys and answers *)

\* What a key says: the arguments of the query it stands for.
LEMMA Keys ==
    /\ \A u \in User : OwnedKey(u) \in Key /\ NamesKey(u) \in Key /\ SubscribedKey(u) \in Key
    /\ \A b \in Bucket : IdKey(b) \in Key /\ WhitelistKey(b) \in Key
    /\ \A t \in Token : TokenKey(t) \in Key
    /\ \A b \in Bucket, u \in User : AdmittedKey(b, u) \in Key /\ ImagesKey(u, b) \in Key
BY DEF Key, SubscribedKeys, AdmittedKeys, ImagesKeys

LEMMA KeyCases ==
    ASSUME NEW k \in Key, NEW P,
           \A u \in User : k = OwnedKey(u) => P,
           \A u \in User : k = NamesKey(u) => P,
           \A u \in User : k = SubscribedKey(u) => P,
           \A b \in Bucket : k = IdKey(b) => P,
           \A t \in Token : k = TokenKey(t) => P,
           \A b \in Bucket : k = WhitelistKey(b) => P,
           \A b \in Bucket, u \in User : k = AdmittedKey(b, u) => P,
           \A u \in User, b \in Bucket : k = ImagesKey(u, b) => P
    PROVE  P
BY DEF Key, SubscribedKeys, AdmittedKeys, ImagesKeys

\* What is asked under each key.
AnswersAre ==
    /\ \A u : Answer(OwnedKey(u)) = {StoredBucket(b) : b \in Owned(u)}
    /\ \A u : Answer(NamesKey(u)) = {buckets[b].name : b \in Owned(u) \cup SubscribedTo(u)}
    /\ \A u : Answer(SubscribedKey(u)) = {StoredBucket(b) : b \in {c \in SubscribedTo(u) : Visible(u, c)}}
    /\ \A b : Answer(IdKey(b)) = OptionBucket(b)
    /\ \A t : Answer(TokenKey(t)) =
             IF Holders(t) # {} THEN StoredBucket(First(Holders(t))) ELSE None
    /\ \A b : Answer(WhitelistKey(b)) =
             IF Exists(b) THEN {u \in User : <<b, u>> \in bucket_whitelists} ELSE None
    /\ \A b, u : Answer(AdmittedKey(b, u)) = (<<b, u>> \in bucket_whitelists)
    /\ \A u, b : Answer(ImagesKey(u, b)) =
             IF Exists(b) /\ (Owns(u, b) \/ (u \in Subscribers(b) /\ Visible(u, b)))
             THEN images[b] ELSE 0

LEMMA Answers == AnswersAre
<1>1. \A u : Answer(OwnedKey(u)) = {StoredBucket(b) : b \in Owned(u)}
    BY DEF Answer, OwnedKey
<1>2. \A u : Answer(NamesKey(u)) = {buckets[b].name : b \in Owned(u) \cup SubscribedTo(u)}
    BY DEF Answer, NamesKey
<1>3. \A u : Answer(SubscribedKey(u)) = {StoredBucket(b) : b \in {c \in SubscribedTo(u) : Visible(u, c)}}
    BY DEF Answer, SubscribedKey
<1>4. \A b : Answer(IdKey(b)) = OptionBucket(b)
    BY DEF Answer, IdKey
<1>5. \A t : Answer(TokenKey(t)) =
             IF Holders(t) # {} THEN StoredBucket(First(Holders(t))) ELSE None
    BY DEF Answer, TokenKey
<1>6. \A b : Answer(WhitelistKey(b)) =
             IF Exists(b) THEN {u \in User : <<b, u>> \in bucket_whitelists} ELSE None
    BY DEF Answer, WhitelistKey
<1>7. \A b, u : Answer(AdmittedKey(b, u)) = (<<b, u>> \in bucket_whitelists)
    BY DEF Answer, AdmittedKey
<1>8. \A u, b : Answer(ImagesKey(u, b)) =
             IF Exists(b) /\ (Owns(u, b) \/ (u \in Subscribers(b) /\ Visible(u, b)))
             THEN images[b] ELSE 0
    BY DEF Answer, ImagesKey
<1> QED BY <1>1, <1>2, <1>3, <1>4, <1>5, <1>6, <1>7, <1>8 DEF AnswersAre

LEMMA NextAnswers == AnswersAre'
BY Answers, PTL

\* And what each kind of answer is.
LEMMA AnswerTypes ==
    /\ \A u : AnswerType(OwnedKey(u)) = SUBSET Stored /\ AnswerType(SubscribedKey(u)) = SUBSET Stored
    /\ \A u : AnswerType(NamesKey(u)) = SUBSET Name
    /\ \A b : AnswerType(IdKey(b)) = Stored \cup {None}
    /\ \A t : AnswerType(TokenKey(t)) = Stored \cup {None}
    /\ \A b : AnswerType(WhitelistKey(b)) = (SUBSET User) \cup {None}
    /\ \A b, u : AnswerType(AdmittedKey(b, u)) = BOOLEAN
    /\ \A u, b : AnswerType(ImagesKey(u, b)) = Nat
BY DEF AnswerType, OwnedKey, NamesKey, SubscribedKey, IdKey, TokenKey, WhitelistKey, AdmittedKey, ImagesKey

LEMMA AnswersAreValues ==
    ASSUME NEW k \in Key, NEW v \in AnswerType(k)
    PROVE  v \in Value
<1>1. /\ SUBSET Stored \subseteq Value /\ SUBSET Name \subseteq Value /\ BOOLEAN \subseteq Value
      /\ Stored \cup {None} \subseteq Value /\ (SUBSET User) \cup {None} \subseteq Value
      /\ Nat \subseteq Value
    BY DEF Value
<1>2. \A u \in User : k = OwnedKey(u) => v \in Value
    BY <1>1, AnswerTypes
<1>3. \A u \in User : k = NamesKey(u) => v \in Value
    BY <1>1, AnswerTypes
<1>4. \A u \in User : k = SubscribedKey(u) => v \in Value
    BY <1>1, AnswerTypes
<1>5. \A b \in Bucket : k = IdKey(b) => v \in Value
    BY <1>1, AnswerTypes
<1>6. \A t \in Token : k = TokenKey(t) => v \in Value
    BY <1>1, AnswerTypes
<1>7. \A b \in Bucket : k = WhitelistKey(b) => v \in Value
    BY <1>1, AnswerTypes
<1>8. \A b \in Bucket, u \in User : k = AdmittedKey(b, u) => v \in Value
    BY <1>1, AnswerTypes
<1>9. \A u \in User, b \in Bucket : k = ImagesKey(u, b) => v \in Value
    BY <1>1, AnswerTypes
<1> HIDE DEF Value
<1> QED BY <1>2, <1>3, <1>4, <1>5, <1>6, <1>7, <1>8, <1>9, KeyCases

LEMMA FirstIsMember ==
    ASSUME NEW S, S # {}
    PROVE  First(S) \in S
BY DEF First

LEMMA AnswersTyped ==
    ASSUME Tables, NEW k \in Key
    PROVE  Answer(k) \in AnswerType(k)
<1>1. \A b \in Bucket : Exists(b) => buckets[b] \in Row
    BY DEF Tables, Exists
<1>2. \A b \in Bucket : Exists(b) => StoredBucket(b) \in Stored
    <2> SUFFICES ASSUME NEW b \in Bucket, Exists(b) PROVE StoredBucket(b) \in Stored
        OBVIOUS
    <2>1. Cardinality(Subscribers(b)) \in Nat
        BY FS_CardinalityType DEF Tables
    <2>2. images[b] \in Nat
        BY DEF Tables
    <2> QED BY <1>1, <2>1, <2>2 DEF StoredBucket, Stored
<1>3. \A u \in User : k = OwnedKey(u) => Answer(k) \in AnswerType(k)
    <2> SUFFICES ASSUME NEW u \in User PROVE Answer(OwnedKey(u)) \in SUBSET Stored
        BY AnswerTypes
    <2>1. \A b \in Owned(u) : StoredBucket(b) \in Stored
        BY <1>2 DEF Owned, Owns
    <2> QED BY <2>1, Answers DEF AnswersAre
<1>4. \A u \in User : k = NamesKey(u) => Answer(k) \in AnswerType(k)
    <2> SUFFICES ASSUME NEW u \in User PROVE Answer(NamesKey(u)) \in SUBSET Name
        BY AnswerTypes
    <2>1. \A b \in Owned(u) \cup SubscribedTo(u) : buckets[b].name \in Name
        BY <1>1 DEF Owned, Owns, SubscribedTo, Row
    <2> QED BY <2>1, Answers DEF AnswersAre
<1>5. \A u \in User : k = SubscribedKey(u) => Answer(k) \in AnswerType(k)
    <2> SUFFICES ASSUME NEW u \in User PROVE Answer(SubscribedKey(u)) \in SUBSET Stored
        BY AnswerTypes
    <2>1. \A b \in SubscribedTo(u) : StoredBucket(b) \in Stored
        BY <1>2 DEF SubscribedTo
    <2> QED BY <2>1, Answers DEF AnswersAre
<1>6. \A b \in Bucket : k = IdKey(b) => Answer(k) \in AnswerType(k)
    BY <1>2, Answers, AnswerTypes DEF OptionBucket, AnswersAre
<1>7. \A t \in Token : k = TokenKey(t) => Answer(k) \in AnswerType(k)
    <2> SUFFICES ASSUME NEW t \in Token PROVE Answer(TokenKey(t)) \in Stored \cup {None}
        BY AnswerTypes
    <2>1. Holders(t) # {} => StoredBucket(First(Holders(t))) \in Stored
        BY <1>2, FirstIsMember DEF Holders
    <2> QED BY <2>1, Answers DEF AnswersAre
<1>8. \A b \in Bucket : k = WhitelistKey(b) => Answer(k) \in AnswerType(k)
    <2> SUFFICES ASSUME NEW b \in Bucket
                 PROVE  Answer(WhitelistKey(b)) \in (SUBSET User) \cup {None}
        BY AnswerTypes
    <2>1. {u \in User : <<b, u>> \in bucket_whitelists} \in SUBSET User
        OBVIOUS
    <2> QED BY <2>1, Answers DEF AnswersAre
<1>9. \A b \in Bucket, u \in User : k = AdmittedKey(b, u) => Answer(k) \in AnswerType(k)
    <2> SUFFICES ASSUME NEW b \in Bucket, NEW u \in User
                 PROVE  Answer(AdmittedKey(b, u)) \in BOOLEAN
        BY AnswerTypes
    <2>1. Answer(AdmittedKey(b, u)) = (<<b, u>> \in bucket_whitelists)
        BY Answers DEF AnswersAre
    <2>2. (<<b, u>> \in bucket_whitelists) \in BOOLEAN
        OBVIOUS
    <2> QED BY <2>1, <2>2, Zenon
<1>10. \A u \in User, b \in Bucket : k = ImagesKey(u, b) => Answer(k) \in AnswerType(k)
    BY Answers, AnswerTypes DEF Tables, AnswersAre
<1> QED BY <1>3, <1>4, <1>5, <1>6, <1>7, <1>8, <1>9, <1>10, KeyCases

LEMMA AnswersToTyped ==
    ASSUME Tables, NEW k \in Key, NEW u
    PROVE  AnswerTo(u, k) \in AnswerType(k)
BY AnswersTyped, AnswerTypes DEF AnswerTo, AnswerType

-----------------------------------------------------------------------------
(* Types: reading, invalidating, and what goes wrong *)

LEMMA IdleReady == Idle \in Handler /\ Ready(Idle)
BY DEF Idle, Handler, Ready, Steps, Value

LEMMA Moves ==
    ASSUME Handled, NEW w \in Worker, NEW t \in Handler, Ready(t), Goto(w, t)
    PROVE  Handled' /\ proc'[w] = t /\ \A v \in Worker \ {w} : proc'[v] = proc[v]
BY DEF Handled, Goto

\* An answer that names a bucket names one the caller can go on with.
LEMMA AnsweredReady ==
    ASSUME NEW p \in Handler, Ready(p), p.pc \in {"lookup", "fill"}, NEW v \in AnswerType(p.key)
    PROVE  /\ Answered(p, v) \in Handler /\ Ready(Answered(p, v))
           /\ Answered(p, v).pc \in {"idle", "lookup", "read"}
           /\ Answered(p, v).pc = "lookup" => Answered(p, v).key \in AdmittedKeys
<1>0. Idle.pc = "idle"
    BY DEF Idle
<1>1. CASE p.op = "get"
    <2>1. Answered(p, v) = Idle
        BY <1>1 DEF Answered
    <2> QED BY <1>0, <2>1, IdleReady
<1>2. CASE p.op = "subscribe" /\ \E t \in Token : p.key = TokenKey(t)
    <2>1. v \in Stored \cup {None} /\ p.user \in User /\ p.key.cache = "bucket_by_token"
        BY <1>2, AnswerTypes DEF TokenKey, Ready
    <2>2. CASE v = None
        BY <1>2, <2>1, <2>2, IdleReady DEF Answered, Idle
    <2>3. CASE v # None
        <3>1. v.id \in Bucket
            BY <2>1, <2>3 DEF Stored
        <3> DEFINE q == [p EXCEPT !.pc = "lookup", !.bucket = v.id, !.key = AdmittedKey(v.id, p.user), !.value = None]
                   r == [p EXCEPT !.pc = "read", !.bucket = v.id, !.key = None, !.value = None]
        <3>2. Answered(p, v) \in {q, r}
            BY <1>2, <2>1, <2>3 DEF Answered
        <3>3. AdmittedKey(v.id, p.user) \in Key /\ AdmittedKey(v.id, p.user) \in AdmittedKeys
            BY <2>1, <3>1, Keys DEF AdmittedKeys
        <3>4. q \in Handler /\ q.pc = "lookup" /\ q.key = AdmittedKey(v.id, p.user)
                /\ q.bucket = v.id /\ q.user = p.user /\ q.op = p.op
            BY <3>1, <3>3, ZenonT(60) DEF Handler, Steps, Value
        <3>5. r \in Handler /\ r.pc = "read" /\ r.bucket = v.id /\ r.user = p.user /\ r.op = p.op
            BY <3>1 DEF Handler, Steps, Value
        <3> HIDE DEF q, r
        <3>6. Ready(q)
            BY <1>2, <2>1, <3>1, <3>3, <3>4 DEF Ready
        <3>7. Ready(r)
            BY <1>2, <2>1, <3>1, <3>5 DEF Ready, ArgTyped, Guarded, Ops
        <3> QED BY <3>2, <3>3, <3>4, <3>5, <3>6, <3>7
    <2> QED BY <2>2, <2>3
<1>3. CASE p.op = "subscribe" /\ p.bucket \in Bucket /\ p.key = AdmittedKey(p.bucket, p.user)
    <2>1. p.user \in User /\ p.key.cache = "is_whitelisted"
        BY <1>3 DEF AdmittedKey, Ready
    <2> DEFINE r == [p EXCEPT !.pc = "read", !.key = None, !.value = None]
    <2>2. Answered(p, v) \in {Idle, r}
        BY <1>3, <2>1 DEF Answered
    <2>3. r \in Handler /\ r.pc = "read" /\ r.bucket = p.bucket /\ r.user = p.user /\ r.op = p.op
        BY DEF Handler, Steps, Value
    <2> HIDE DEF r
    <2>4. Ready(r)
        BY <1>3, <2>1, <2>3 DEF Ready, ArgTyped, Guarded, Ops
    <2> QED BY <2>2, <2>3, <2>4, IdleReady DEF Idle
<1> QED BY <1>1, <1>2, <1>3 DEF Ready

LEMMA TablesStay ==
    ASSUME Tables, issued' \subseteq Token,
           UNCHANGED <<buckets, created, bucket_subscriptions, bucket_whitelists, images>>
    PROVE  Tables'
BY DEF Tables, Subscribers, Exists

LEMMA UnbornApart ==
    /\ Unborn \cap AdmittedKeys = {}
    /\ \A t : TokenKey(t) \notin Unborn
    /\ \A k \in Unborn : k \in Key /\ "bucket" \in DOMAIN k /\ k.bucket \in Bucket \ created
<1>1. Unborn \cap AdmittedKeys = {}
    BY DEF Unborn, IdKey, WhitelistKey, AdmittedKeys, AdmittedKey
<1>2. \A t : TokenKey(t) \notin Unborn
    BY DEF Unborn, IdKey, WhitelistKey, TokenKey
<1>3. \A k \in Unborn : k \in Key /\ "bucket" \in DOMAIN k /\ k.bucket \in Bucket \ created
    <2>1. \A b \in Bucket \ created : /\ "bucket" \in DOMAIN IdKey(b) /\ IdKey(b).bucket = b
                                      /\ "bucket" \in DOMAIN WhitelistKey(b) /\ WhitelistKey(b).bucket = b
        BY DEF IdKey, WhitelistKey
    <2> QED BY <2>1, Keys DEF Unborn
<1> QED BY <1>1, <1>2, <1>3

LEMMA GetKeepsInv ==
    ASSUME Inv, NEW w \in Worker, Get(w)
    PROVE  Inv'
<1>1. PICK k \in watched, u \in User \cup {None} :
          /\ "bucket" \in DOMAIN k => k.bucket \in created
          /\ Goto(w, [Idle EXCEPT !.pc = "lookup", !.op = "get", !.user = u, !.key = k])
    BY DEF Get
<1>2. UNCHANGED <<db, cache, watched, writes, faults, excused, admitted>>
    BY DEF Get
<1>3. k \in Key
    BY CacheAssumption DEF Inv, Counters
<1> DEFINE t == [Idle EXCEPT !.pc = "lookup", !.op = "get", !.user = u, !.key = k]
<1>4. t \in Handler /\ t.pc = "lookup" /\ t.op = "get" /\ t.key = k
    BY <1>3 DEF Idle, Handler, Steps, Ops, Value
<1> HIDE DEF t
<1>5. Ready(t)
    BY <1>3, <1>4 DEF Ready
<1>6. Handled' /\ proc'[w] = t /\ \A v \in Worker \ {w} : proc'[v] = proc[v]
    BY <1>1, <1>4, <1>5, Moves DEF Inv, t
<1>7. k \notin Unborn
    BY <1>1, UnbornApart
<1>8. Unborn' = Unborn
    BY <1>2 DEF Unborn, db
<1>9. Tables'
    BY <1>2, TablesStay DEF Inv, Tables, db
<1>10. Fresh'
    BY <1>2, <1>4, <1>6, <1>7, <1>8 DEF Inv, Fresh
<1> QED BY <1>2, <1>6, <1>9, <1>10 DEF Inv, Cached, Counters

LEMMA LookupKeepsInv ==
    ASSUME Inv, NEW w \in Worker, Lookup(w)
    PROVE  Inv'
<1> DEFINE p == proc[w]
           v == AnswerTo(p.user, p.key)
           t == [p EXCEPT !.pc = "fill", !.value = v]
<1>1. p \in Handler /\ Ready(p) /\ p.pc = "lookup" /\ p.key \in Key
    BY DEF Inv, Handled, Lookup, Ready
<1>2. UNCHANGED <<db, cache, watched, writes, faults, excused, admitted>>
    BY DEF Lookup
<1>3. Unborn' = Unborn /\ Tables' /\ Cached' /\ Counters'
    BY <1>2, TablesStay DEF Inv, Tables, Unborn, Cached, Counters, db
<1>4. p.key \notin Unborn
    BY <1>1 DEF Inv, Fresh
<1>5. CASE cache[p.key] # Miss
    <2> DEFINE a == Answered(p, cache[p.key])
    <2>1. Goto(w, a)
        BY <1>5 DEF Lookup
    <2>2. /\ a \in Handler /\ Ready(a) /\ a.pc \in {"idle", "lookup", "read"}
          /\ a.pc = "lookup" => a.key \in AdmittedKeys
        BY <1>1, <1>5, AnsweredReady DEF Inv, Cached
    <2> HIDE DEF a
    <2>3. Handled' /\ proc'[w] = a /\ \A x \in Worker \ {w} : proc'[x] = proc[x]
        BY <2>1, <2>2, Moves DEF Inv
    <2>4. Fresh'
        BY <1>2, <1>3, <2>2, <2>3, UnbornApart DEF Inv, Fresh
    <2> QED BY <1>3, <2>3, <2>4 DEF Inv
<1>6. CASE cache[p.key] = Miss
    <2>1. v \in AnswerType(p.key)
        BY <1>1, AnswersToTyped DEF Inv
    <2>2. v \in Value
        BY <1>1, <2>1, AnswersAreValues
    <2>3. Goto(w, t)
        BY <1>6 DEF Lookup
    <2> HIDE DEF v
    <2>4. t \in Handler /\ t.pc = "fill" /\ t.key = p.key /\ t.op = p.op /\ t.user = p.user
            /\ t.bucket = p.bucket /\ t.value = v
        BY <1>1, <2>2 DEF Handler, Steps
    <2> HIDE DEF t
    <2>5. Ready(t)
        BY <1>1, <2>1, <2>4 DEF Ready
    <2>6. Handled' /\ proc'[w] = t /\ \A x \in Worker \ {w} : proc'[x] = proc[x]
        BY <2>3, <2>4, <2>5, Moves DEF Inv
    <2>7. Fresh'
        BY <1>2, <1>3, <1>4, <2>4, <2>6 DEF Inv, Fresh
    <2> QED BY <1>3, <2>6, <2>7 DEF Inv
<1> QED BY <1>5, <1>6

LEMMA FillKeepsInv ==
    ASSUME Inv, NEW w \in Worker, Fill(w)
    PROVE  Inv'
<1> DEFINE p == proc[w]
           a == Answered(p, p.value)
<1>1. p \in Handler /\ Ready(p) /\ p.pc = "fill" /\ p.key \in Key /\ p.value \in AnswerType(p.key)
    BY DEF Inv, Handled, Fill, Ready
<1>2. /\ UNCHANGED <<db, watched, writes, faults, admitted>> /\ Goto(w, a)
      /\ cache' = [cache EXCEPT ![p.key] = p.value] /\ excused' \subseteq excused \cup {p.key}
    BY DEF Fill
<1>3. Unborn' = Unborn /\ Tables' /\ Counters'
    BY <1>1, <1>2, TablesStay DEF Inv, Tables, Unborn, Counters, db
<1>4. Cached'
    BY <1>1, <1>2 DEF Inv, Cached
<1>5. /\ a \in Handler /\ Ready(a) /\ a.pc \in {"idle", "lookup", "read"}
      /\ a.pc = "lookup" => a.key \in AdmittedKeys
    BY <1>1, AnsweredReady
<1> HIDE DEF a
<1>6. Handled' /\ proc'[w] = a /\ \A x \in Worker \ {w} : proc'[x] = proc[x]
    BY <1>2, <1>5, Moves DEF Inv
<1>7. Fresh'
    <2>1. p.key \notin Unborn
        BY <1>1 DEF Inv, Fresh
    <2>2. \A k \in Unborn : cache'[k] = Miss
        BY <1>2, <2>1, UnbornApart DEF Inv, Fresh, Cached
    <2>3. \A x \in Worker : proc'[x].pc \in {"lookup", "fill"} => proc'[x].key \notin Unborn
        BY <1>5, <1>6, UnbornApart DEF Inv, Fresh
    <2> QED BY <1>3, <2>2, <2>3 DEF Fresh
<1> QED BY <1>3, <1>4, <1>6, <1>7 DEF Inv

\* Dropping entries loses nothing the invariant speaks of.
LEMMA DropsKeepCached ==
    ASSUME Inv, NEW K, Drop(K)
    PROVE  /\ Cached' /\ (\A k \in Key : cache[k] = Miss => cache'[k] = Miss)
           /\ excused' \subseteq excused
BY DEF Inv, Cached, Drop

\* A handler that moves to a step with no key in hand.
LEMMA KeylessMove ==
    ASSUME Inv, NEW w \in Worker, NEW t \in Handler, Ready(t), Goto(w, t),
           t.pc \notin {"lookup", "fill"}, UNCHANGED <<db, watched>>, Cached',
           \A k \in Key : cache[k] = Miss => cache'[k] = Miss,
           writes' \in 0..MaxWrites, faults' \in 0..MaxFaults,
           excused' \subseteq Key, UNCHANGED admitted
    PROVE  Inv'
<1>1. Unborn' = Unborn /\ Tables' /\ Counters'
    BY TablesStay DEF Inv, Tables, Unborn, Counters, db
<1>2. Handled' /\ proc'[w] = t /\ \A x \in Worker \ {w} : proc'[x] = proc[x]
    BY Moves DEF Inv
<1>3. Fresh'
    BY <1>1, <1>2, UnbornApart DEF Inv, Fresh
<1> QED BY <1>1, <1>2, <1>3 DEF Inv

\* The steps that keep what the handler holds and change where it stands.
LEMMA RetargetedReady ==
    ASSUME NEW p \in Handler, Ready(p), NEW s \in Row \cup {None},
           NEW pc \in {"drop", "redrop", "write"},
           pc = "drop" => p.pc = "read", pc = "redrop" => p.pc = "reread", pc = "write" => p.pc = "drop"
    PROVE  /\ [p EXCEPT !.pc = pc, !.snap = s] \in Handler
           /\ [p EXCEPT !.pc = pc, !.snap = s].pc = pc
           /\ Ready([p EXCEPT !.pc = pc, !.snap = s])
<1> DEFINE t == [p EXCEPT !.pc = pc, !.snap = s]
<1>0. pc \in Steps
    BY DEF Steps
<1>1. t \in Handler
    BY <1>0 DEF Handler
<1>3. t.pc = pc /\ t.op = p.op /\ t.user = p.user /\ t.bucket = p.bucket /\ t.arg = p.arg
    BY DEF Handler
<1> HIDE DEF t
<1>2. Ready(t)
    BY <1>1, <1>3 DEF Ready, ArgTyped
<1> QED BY <1>1, <1>2, <1>3 DEF t

LEMMA InvalidationKeepsInv ==
    ASSUME Inv, NEW w \in Worker, ReadBucket(w) \/ ReadFails(w) \/ DropEntries(w)
    PROVE  Inv'
<1> DEFINE p == proc[w]
<1>1. p \in Handler /\ Ready(p)
    BY DEF Inv, Handled
<1>2. CASE ReadBucket(w)
    <2>1. PICK s \in Row \cup {None}, pc \in {"drop", "redrop"} :
              /\ Goto(w, [p EXCEPT !.pc = pc, !.snap = s])
              /\ pc = "drop" => p.pc = "read" 
              /\ pc = "redrop" => p.pc = "reread"
        <3>1. p.bucket \in Bucket /\ buckets[p.bucket] \in Row \cup {None}
            BY <1>1, <1>2 DEF ReadBucket, Ready, Guarded, Twice, Inv, Tables
        <3> QED BY <1>2, <3>1 DEF ReadBucket
    <2>2. UNCHANGED <<db, cache, watched, writes, faults, excused, admitted>>
        BY <1>2 DEF ReadBucket
    <2>3. /\ Cached' /\ writes' \in 0..MaxWrites /\ faults' \in 0..MaxFaults /\ excused' \subseteq Key
          /\ UNCHANGED <<db, watched, admitted>> /\ \A k \in Key : cache[k] = Miss => cache'[k] = Miss
        BY <2>2 DEF Inv, Cached, Counters
    <2> QED BY <1>1, <2>1, <2>3, RetargetedReady, KeylessMove
<1>3. CASE ReadFails(w)
    <2>1. PICK pc \in {"drop", "redrop"} :
              /\ Goto(w, [p EXCEPT !.pc = pc, !.snap = None])
              /\ pc = "drop" => p.pc = "read" 
              /\ pc = "redrop" => p.pc = "reread"
        BY <1>3 DEF ReadFails
    <2>2. UNCHANGED <<db, cache, watched, writes, admitted>> /\ excused' \subseteq excused \cup Stale
            /\ faults' \in 0..MaxFaults
        BY <1>3, CacheAssumption DEF ReadFails, Fault, Inv, Counters
    <2>3. /\ Cached' /\ writes' \in 0..MaxWrites /\ faults' \in 0..MaxFaults /\ excused' \subseteq Key
          /\ UNCHANGED <<db, watched, admitted>> /\ \A k \in Key : cache[k] = Miss => cache'[k] = Miss
        BY <2>2 DEF Inv, Cached, Counters, Stale
    <2> QED BY <1>1, <2>1, <2>3, RetargetedReady, KeylessMove
<1>4. CASE DropEntries(w)
    <2>1. Drop(BucketKeys(p.bucket, p.snap)) /\ UNCHANGED <<db, watched, writes, faults, admitted>>
        BY <1>4 DEF DropEntries
    <2>2. /\ Cached' /\ writes' \in 0..MaxWrites /\ faults' \in 0..MaxFaults /\ excused' \subseteq Key
          /\ UNCHANGED <<db, watched, admitted>> /\ \A k \in Key : cache[k] = Miss => cache'[k] = Miss
        BY <2>1, DropsKeepCached DEF Inv, Counters
    <2>3. CASE Goto(w, Idle)
        BY <2>2, <2>3, IdleReady, KeylessMove DEF Idle
    <2>4. CASE p.pc = "drop" /\ Goto(w, [p EXCEPT !.pc = "write", !.snap = None])
        BY <1>1, <2>2, <2>4, RetargetedReady, KeylessMove
    <2> QED BY <1>4, <2>3, <2>4 DEF DropEntries
<1> QED BY <1>2, <1>3, <1>4

LEMMA EndingKeepsInv ==
    ASSUME Inv, NEW w \in Worker, Finish(w) \/ StatementFails(w) \/ Disconnect(w)
    PROVE  Inv'
<1>1. Goto(w, Idle) /\ UNCHANGED <<db, watched, writes, admitted>>
    BY DEF Finish, StatementFails, Disconnect, Fault
<1>2. faults' \in 0..MaxFaults
    BY CacheAssumption DEF Finish, StatementFails, Disconnect, Fault, Inv, Counters
<1>3. /\ Cached' /\ (\A k \in Key : cache[k] = Miss => cache'[k] = Miss)
      /\ excused' \subseteq excused \cup Stale
    <2>1. CASE Finish(w)
        BY <2>1, DropsKeepCached DEF Finish
    <2>2. CASE UNCHANGED cache
        BY <2>2 DEF Inv, Cached, Finish, StatementFails, Disconnect, Drop
    <2> QED BY <2>1, <2>2 DEF StatementFails, Disconnect
<1>4. excused' \subseteq Key /\ writes' \in 0..MaxWrites
    BY <1>1, <1>3 DEF Inv, Counters, Stale
<1>5. Idle.pc \notin {"lookup", "fill"} /\ UNCHANGED <<db, watched>> /\ UNCHANGED admitted
    BY <1>1 DEF Idle
<1> QED BY <1>1, <1>2, <1>3, <1>4, <1>5, IdleReady, KeylessMove

LEMMA ExpireKeepsInv ==
    ASSUME Inv, NEW k \in Key, Expire(k)
    PROVE  Inv'
<1>1. UNCHANGED <<db, proc, watched, writes, faults, admitted>> /\ cache' = [cache EXCEPT ![k] = Miss]
        /\ excused' \subseteq excused
    BY DEF Expire
<1>2. Unborn' = Unborn /\ Tables' /\ Counters' /\ Handled'
    BY <1>1, TablesStay DEF Inv, Tables, Unborn, Counters, Handled, db
<1>3. Cached' /\ \A x \in Key : cache[x] = Miss => cache'[x] = Miss
    BY <1>1 DEF Inv, Cached
<1>4. Fresh'
    BY <1>1, <1>2, <1>3, UnbornApart DEF Inv, Fresh
<1> QED BY <1>2, <1>3, <1>4 DEF Inv

\* What the clients may ask for gives a statement what it needs.
LEMMA RequestKeepsInv ==
    ASSUME Inv, NEW w \in Worker, Request(w)
    PROVE  Inv'
<1>1. /\ UNCHANGED <<buckets, created, bucket_subscriptions, bucket_whitelists, images,
                     cache, watched, faults, excused, admitted>>
      /\ writes < MaxWrites /\ writes' = writes + 1
    BY DEF Request
<1>2. Counters' /\ Cached' /\ Unborn' = Unborn
    BY <1>1, CacheAssumption DEF Inv, Counters, Cached, Unborn
<1>3. ASSUME NEW t \in Handler, Ready(t), Goto(w, t), issued' \subseteq Token,
             t.pc \in {"lookup", "fill"} => t.key \notin Unborn
      PROVE  Inv'
    <2>1. Handled' /\ proc'[w] = t /\ \A x \in Worker \ {w} : proc'[x] = proc[x]
        BY <1>3, Moves DEF Inv
    <2>2. Tables'
        BY <1>1, <1>3, TablesStay DEF Inv
    <2>3. Fresh'
        BY <1>1, <1>2, <1>3, <2>1 DEF Inv, Fresh
    <2> QED BY <1>2, <2>1, <2>2, <2>3 DEF Inv
<1>4. issued \subseteq Token /\ created \subseteq Bucket
    BY DEF Inv, Tables
<1>5. PICK u \in User, op \in Ops \ {"get"} :
          \/ /\ op = "create"
             /\ \E n \in Name : Goto(w, [Idle EXCEPT !.pc = "write", !.op = op, !.user = u, !.arg = n])
             /\ UNCHANGED issued
          \/ /\ op = "subscribe"
             /\ \E t \in issued : Goto(w, [Idle EXCEPT !.pc = "lookup", !.op = op, !.user = u, !.key = TokenKey(t)])
             /\ UNCHANGED issued
          \/ \E b \in created, a \in Name \cup Token \cup User \cup BOOLEAN \cup {None} :
                /\ CASE op = "rename"             -> a \in Name
                     [] op = "share"              -> a \in NewToken \cup {None}
                     [] op = "protect"            -> a \in BOOLEAN
                     [] op \in {"allow", "deny"}  -> a \in User
                     [] op \in {"delete", "unsubscribe", "add_image", "delete_image"} -> a = None
                     [] OTHER                     -> FALSE
                /\ issued' = IF op = "share" THEN issued \cup ({a} \ {None}) ELSE issued
                /\ Goto(w, [Idle EXCEPT !.pc = IF op \in Guarded THEN "read" ELSE "write",
                                        !.op = op, !.user = u, !.bucket = b, !.arg = a])
    BY ZenonT(60) DEF Request
<1>6. ASSUME NEW n \in Name, op = "create", UNCHANGED issued,
             Goto(w, [Idle EXCEPT !.pc = "write", !.op = op, !.user = u, !.arg = n])
      PROVE  Inv'
    <2> DEFINE t == [Idle EXCEPT !.pc = "write", !.op = op, !.user = u, !.arg = n]
    <2>1. t \in Handler /\ t.pc = "write" /\ t.op = "create" /\ t.user = u /\ t.arg = n
        BY <1>6 DEF Idle, Handler, Steps, Value
    <2> HIDE DEF t
    <2>2. Ready(t)
        BY <2>1 DEF Ready, ArgTyped, Ops
    <2> QED BY <1>3, <1>4, <1>6, <2>1, <2>2 DEF t
<1>7. ASSUME NEW c \in issued, op = "subscribe", UNCHANGED issued,
             Goto(w, [Idle EXCEPT !.pc = "lookup", !.op = op, !.user = u, !.key = TokenKey(c)])
      PROVE  Inv'
    <2> DEFINE t == [Idle EXCEPT !.pc = "lookup", !.op = op, !.user = u, !.key = TokenKey(c)]
    <2>1. TokenKey(c) \in Key
        BY <1>4, <1>7, Keys
    <2>2. t \in Handler /\ t.pc = "lookup" /\ t.op = "subscribe" /\ t.user = u /\ t.key = TokenKey(c)
        BY <1>7, <2>1 DEF Idle, Handler, Steps, Value
    <2> HIDE DEF t
    <2>3. Ready(t)
        BY <1>4, <1>7, <2>1, <2>2 DEF Ready
    <2> QED BY <1>3, <1>4, <1>7, <2>2, <2>3, UnbornApart DEF t
<1>8. ASSUME NEW b \in created, NEW a \in Name \cup Token \cup User \cup BOOLEAN \cup {None},
             CASE op = "rename"             -> a \in Name
               [] op = "share"              -> a \in NewToken \cup {None}
               [] op = "protect"            -> a \in BOOLEAN
               [] op \in {"allow", "deny"}  -> a \in User
               [] op \in {"delete", "unsubscribe", "add_image", "delete_image"} -> a = None
               [] OTHER                     -> FALSE,
             issued' = IF op = "share" THEN issued \cup ({a} \ {None}) ELSE issued,
             Goto(w, [Idle EXCEPT !.pc = IF op \in Guarded THEN "read" ELSE "write",
                                  !.op = op, !.user = u, !.bucket = b, !.arg = a])
      PROVE  Inv'
    <2> DEFINE t == [Idle EXCEPT !.pc = IF op \in Guarded THEN "read" ELSE "write",
                                 !.op = op, !.user = u, !.bucket = b, !.arg = a]
    <2>1. t \in Handler /\ t.pc = (IF op \in Guarded THEN "read" ELSE "write") /\ t.op = op
            /\ t.user = u /\ t.bucket = b /\ t.arg = a
        BY <1>4 DEF Idle, Handler, Steps, Value
    <2>2. NewToken \subseteq Token
        <3>1. CASE issued = Token
            BY <3>1 DEF NewToken
        <3>2. CASE issued # Token
            <4>1. \E x \in Token : x \notin issued
                BY <1>4, <3>2
            <4> DEFINE x == CHOOSE y \in Token : y \notin issued
            <4>2. x \in Token
                BY <4>1
            <4>3. NewToken = {x}
                BY <3>2 DEF NewToken
            <4> HIDE DEF x
            <4> QED BY <4>2, <4>3
        <3> QED BY <3>1, <3>2
    <2>3. /\ op = "rename" => a \in Name
          /\ op = "share" => a \in Token \cup {None}
          /\ op = "protect" => a \in BOOLEAN
          /\ op \in {"allow", "deny"} => a \in User
          /\ op # "create"
        BY <1>8, <2>2
    <2> HIDE DEF t
    <2>4. Ready(t)
        BY <1>4, <2>1, <2>3 DEF Ready, ArgTyped
    <2>5. issued' \subseteq Token
        BY <1>4, <1>8, <2>3
    <2>6. Goto(w, t)
        BY <1>8 DEF t
    <2> QED BY <1>3, <2>1, <2>4, <2>5, <2>6
<1> QED BY <1>5, <1>6, <1>7, <1>8

-----------------------------------------------------------------------------
(* What a statement changes: the rows of one bucket, and so the answers to *)
(* the keys that reach it                                                  *)

Elsewhere(b) ==
    \A c \in Bucket \ {b} :
        /\ buckets'[c] = buckets[c] /\ images'[c] = images[c]
        /\ \A u \in User : /\ <<u, c>> \in bucket_subscriptions' <=> <<u, c>> \in bucket_subscriptions
                           /\ <<c, u>> \in bucket_whitelists' <=> <<c, u>> \in bucket_whitelists

\* The keys whose answer may show b.
Reach(b) ==
    RowKeys(buckets[b]) \cup {IdKey(b), WhitelistKey(b)} \cup SubscribedKeys
        \cup {AdmittedKey(b, u) : u \in User} \cup {ImagesKey(u, b) : u \in User}
        \cup {NamesKey(u) : u \in Subscribers(b)}

LEMMA RowSame ==
    ASSUME NEW c \in Bucket, buckets'[c] = buckets[c], images'[c] = images[c],
           Subscribers(c)' = Subscribers(c)
    PROVE  StoredBucket(c)' = StoredBucket(c)
BY DEF StoredBucket

\* Two kinds of answers that depend on one bucket only.
LEMMA GateAnswer ==
    ASSUME NEW c, NEW u, <<c, u>> \in bucket_whitelists' <=> <<c, u>> \in bucket_whitelists
    PROVE  Answer(AdmittedKey(c, u))' = Answer(AdmittedKey(c, u))
<1>1. Answer(AdmittedKey(c, u)) = (<<c, u>> \in bucket_whitelists)
    BY Answers DEF AnswersAre
<1>2. Answer(AdmittedKey(c, u))' = (<<c, u>> \in bucket_whitelists')
    BY NextAnswers DEF AnswersAre
<1>3. (<<c, u>> \in bucket_whitelists') = (<<c, u>> \in bucket_whitelists)
    OBVIOUS
<1> QED BY <1>1, <1>2, <1>3, Zenon

LEMMA ImagesAnswer ==
    ASSUME NEW c, NEW u, Exists(c)' <=> Exists(c), images'[c] = images[c],
           Owns(u, c)' <=> Owns(u, c), Visible(u, c)' <=> Visible(u, c),
           u \in Subscribers(c)' <=> u \in Subscribers(c)
    PROVE  Answer(ImagesKey(u, c))' = Answer(ImagesKey(u, c))
<1>1. Answer(ImagesKey(u, c)) =
         IF Exists(c) /\ (Owns(u, c) \/ (u \in Subscribers(c) /\ Visible(u, c))) THEN images[c] ELSE 0
    BY Answers DEF AnswersAre
<1>2. Answer(ImagesKey(u, c))' =
         IF Exists(c)' /\ (Owns(u, c)' \/ (u \in Subscribers(c)' /\ Visible(u, c)')) THEN images'[c] ELSE 0
    BY NextAnswers DEF AnswersAre
<1> QED BY <1>1, <1>2

LEMMA OthersSame ==
    ASSUME NEW b \in Bucket, Elsewhere(b), NEW c \in Bucket \ {b}
    PROVE  /\ StoredBucket(c)' = StoredBucket(c) /\ (Exists(c)' <=> Exists(c))
           /\ Subscribers(c)' = Subscribers(c) /\ OptionBucket(c)' = OptionBucket(c)
           /\ buckets'[c] = buckets[c] /\ images'[c] = images[c]
           /\ \A u \in User : /\ (Owns(u, c)' <=> Owns(u, c)) /\ (Visible(u, c)' <=> Visible(u, c))
                              /\ (u \in Subscribers(c)') <=> (u \in Subscribers(c))
                              /\ (<<c, u>> \in bucket_whitelists') <=> (<<c, u>> \in bucket_whitelists)
<1>1. Subscribers(c)' = Subscribers(c)
    BY DEF Elsewhere, Subscribers
<1>2. StoredBucket(c)' = StoredBucket(c)
    BY <1>1, RowSame DEF Elsewhere
<1>3. (Exists(c)' <=> Exists(c))
    BY DEF Elsewhere, Exists
<1>4. \A u \in User : /\ (Owns(u, c)' <=> Owns(u, c)) /\ (Visible(u, c)' <=> Visible(u, c))
                      /\ (<<c, u>> \in bucket_whitelists') <=> (<<c, u>> \in bucket_whitelists)
    BY DEF Elsewhere, Exists, Owns, Visible
<1> QED BY <1>1, <1>2, <1>3, <1>4 DEF OptionBucket, Elsewhere

LEMMA OnlyWhatReaches ==
    ASSUME NEW b \in Bucket, Elsewhere(b), NEW k \in Key, k \notin Reach(b) \cup Reach(b)',
           Tables, Tables'
    PROVE  Answer(k)' = Answer(k)
<1>1. /\ k \notin RowKeys(buckets[b]) \cup RowKeys(buckets'[b]) /\ k \notin SubscribedKeys
      /\ k # IdKey(b) /\ k # WhitelistKey(b)
      /\ \A u \in User : k # AdmittedKey(b, u) /\ k # ImagesKey(u, b)
      /\ \A u \in Subscribers(b) \cup Subscribers(b)' : k # NamesKey(u)
    BY DEF Reach
<1>2. ASSUME NEW u \in User, k = OwnedKey(u) PROVE Answer(k)' = Answer(k)
    <2>1. ~Owns(u, b) /\ ~Owns(u, b)'
        BY <1>1, <1>2 DEF RowKeys, Owns, Exists
    <2>2. Owned(u)' = Owned(u)
        BY <2>1, OthersSame DEF Owned
    <2>3. \A c \in Owned(u) : StoredBucket(c)' = StoredBucket(c)
        BY <2>1, OthersSame DEF Owned
    <2>4. Answer(k) = {StoredBucket(c) : c \in Owned(u)}
        BY <1>2, Answers DEF AnswersAre
    <2>5. Answer(k)' = {StoredBucket(c)' : c \in Owned(u)'}
        BY <1>2, NextAnswers DEF AnswersAre
    <2> QED BY <2>2, <2>3, <2>4, <2>5
<1>3. ASSUME NEW u \in User, k = NamesKey(u) PROVE Answer(k)' = Answer(k)
    <2>1. ~Owns(u, b) /\ ~Owns(u, b)' /\ u \notin Subscribers(b) /\ u \notin Subscribers(b)'
        BY <1>1, <1>3 DEF RowKeys, Owns, Exists
    <2>2. (Owned(u) \cup SubscribedTo(u))' = Owned(u) \cup SubscribedTo(u)
        BY <2>1, OthersSame DEF Owned, SubscribedTo
    <2>3. \A c \in Owned(u) \cup SubscribedTo(u) : buckets'[c] = buckets[c]
        BY <2>1, OthersSame DEF Owned, SubscribedTo
    <2>4. Answer(k) = {buckets[c].name : c \in Owned(u) \cup SubscribedTo(u)}
        BY <1>3, Answers DEF AnswersAre
    <2>5. Answer(k)' = {buckets'[c].name : c \in (Owned(u) \cup SubscribedTo(u))'}
        BY <1>3, NextAnswers DEF AnswersAre
    <2> QED BY <2>2, <2>3, <2>4, <2>5
<1>4. ASSUME NEW c \in Bucket, k = IdKey(c) PROVE Answer(k)' = Answer(k)
    <2>1. c # b
        BY <1>1, <1>4
    <2> QED BY <1>4, <2>1, OthersSame, Answers, NextAnswers DEF AnswersAre
<1>5. ASSUME NEW t \in Token, k = TokenKey(t) PROVE Answer(k)' = Answer(k)
    <2>1. b \notin Holders(t) /\ b \notin Holders(t)'
        BY <1>1, <1>5, CacheAssumption DEF RowKeys, Holders, Exists
    <2>2. Holders(t)' = Holders(t)
        BY <2>1, OthersSame DEF Holders
    <2>3. Holders(t) # {} => StoredBucket(First(Holders(t)))' = StoredBucket(First(Holders(t)))
        <3> DEFINE c == First(Holders(t))
        <3>1. c' = c
            BY <2>2
        <3>2. Holders(t) # {} => c \in Bucket \ {b}
            BY <2>1, FirstIsMember DEF Holders
        <3> HIDE DEF c
        <3>3. ASSUME NEW x \in Bucket \ {b} PROVE StoredBucket(x)' = StoredBucket(x)
            BY OthersSame
        <3> QED BY <3>1, <3>2, <3>3 DEF StoredBucket, c
    <2> QED BY <1>5, <2>2, <2>3, Answers, NextAnswers DEF AnswersAre
<1>6. ASSUME NEW c \in Bucket, k = WhitelistKey(c) PROVE Answer(k)' = Answer(k)
    <2>1. c # b
        BY <1>1, <1>6
    <2>2. /\ (Exists(c)' <=> Exists(c))
          /\ {u \in User : <<c, u>> \in bucket_whitelists'} = {u \in User : <<c, u>> \in bucket_whitelists}
        BY <2>1, OthersSame
    <2> QED BY <1>6, <2>2, Answers, NextAnswers DEF AnswersAre
<1>7. ASSUME NEW c \in Bucket, NEW u \in User, k = AdmittedKey(c, u) PROVE Answer(k)' = Answer(k)
    <2>1. c # b
        BY <1>1, <1>7
    <2>2. (<<c, u>> \in bucket_whitelists') <=> (<<c, u>> \in bucket_whitelists)
        BY <2>1, OthersSame
    <2> QED BY <1>7, <2>2, GateAnswer
<1>8. ASSUME NEW u \in User, NEW c \in Bucket, k = ImagesKey(u, c) PROVE Answer(k)' = Answer(k)
    <2>1. c # b
        BY <1>1, <1>8
    <2>2. /\ (Exists(c)' <=> Exists(c)) /\ images'[c] = images[c]
          /\ (Owns(u, c)' <=> Owns(u, c)) /\ (Visible(u, c)' <=> Visible(u, c))
          /\ u \in Subscribers(c)' <=> u \in Subscribers(c)
        BY <2>1, OthersSame
    <2> QED BY <1>8, <2>2, ImagesAnswer
<1>9. \A u \in User : k # SubscribedKey(u)
    BY <1>1 DEF SubscribedKeys
<1> QED BY <1>2, <1>3, <1>4, <1>5, <1>6, <1>7, <1>8, <1>9, KeyCases

-----------------------------------------------------------------------------
(* What every statement that goes through has in common *)

LEMMA WroteMoves ==
    ASSUME Inv, NEW w \in Worker, proc[w].pc = "write", Wrote(w)
    PROVE  /\ Handled' /\ proc'[w].pc \in {"reread", "finish"}
           /\ \A x \in Worker \ {w} : proc'[x] = proc[x]
           /\ Pending(w) = {}
           /\ proc[w].op \in Twice => Pending(w)' = BucketKeys(proc[w].bucket, buckets'[proc[w].bucket])
           /\ proc[w].op \notin Twice => Pending(w)' = AfterKeys(proc[w])
<1> DEFINE p == proc[w]
           q == [Idle EXCEPT !.pc = "reread", !.bucket = p.bucket]
           r == [p EXCEPT !.pc = "finish", !.arg = None]
<1>1. p \in Handler /\ Ready(p) /\ p.op \in Ops \ {"get"} /\ p.user \in User
        /\ (p.op # "create" => p.bucket \in Bucket)
    BY DEF Inv, Handled, Ready
<1>2. Pending(w) = {}
    BY DEF Pending
<1>3. CASE p.op \in Twice
    <2>1. p.bucket \in Bucket
        BY <1>1, <1>3 DEF Twice
    <2>2. q \in Handler /\ q.pc = "reread" /\ q.bucket = p.bucket
        BY <2>1 DEF Idle, Handler, Steps, Value
    <2>3. Goto(w, q)
        BY <1>3 DEF Wrote
    <2> HIDE DEF q
    <2>4. Ready(q)
        BY <2>1, <2>2 DEF Ready
    <2>5. Handled' /\ proc'[w] = q /\ \A x \in Worker \ {w} : proc'[x] = proc[x]
        BY <2>2, <2>3, <2>4, Moves DEF Inv
    <2>6. Pending(w)' = BucketKeys(p.bucket, buckets'[p.bucket])
        BY <2>2, <2>5 DEF Pending, BucketKeys, RowKeys
    <2> QED BY <1>2, <1>3, <2>2, <2>5, <2>6
<1>4. CASE p.op \notin Twice
    <2>1. r \in Handler /\ r.pc = "finish" /\ r.bucket = p.bucket /\ r.user = p.user /\ r.op = p.op
        BY <1>1 DEF Handler, Steps
    <2>2. Goto(w, r)
        BY <1>4 DEF Wrote
    <2> HIDE DEF r
    <2>3. Ready(r)
        BY <1>1, <1>4, <2>1 DEF Ready
    <2>4. Handled' /\ proc'[w] = r /\ \A x \in Worker \ {w} : proc'[x] = proc[x]
        BY <2>1, <2>2, <2>3, Moves DEF Inv
    <2>5. AfterKeys(r) = AfterKeys(p)
        BY <2>1 DEF AfterKeys
    <2>6. Pending(w)' = AfterKeys(r)
        BY <2>1, <2>4 DEF Pending, AfterKeys
    <2> QED BY <1>2, <1>4, <2>1, <2>4, <2>5, <2>6
<1> QED BY <1>3, <1>4

LEMMA WriteKeepsInv ==
    ASSUME Inv, NEW w \in Worker, proc[w].pc = "write", UNCHANGED cache, Wrote(w),
           Tables', created \subseteq created', NEW gap, Note(gap)
    PROVE  Inv'
<1>1. Handled' /\ proc'[w].pc \in {"reread", "finish"} /\ \A x \in Worker \ {w} : proc'[x] = proc[x]
    BY WroteMoves
<1>2. Unborn' \subseteq Unborn
    BY DEF Unborn
<1>3. Fresh'
    BY <1>1, <1>2 DEF Inv, Fresh
<1>4. Stale' \subseteq Key /\ Open' \subseteq User \X Bucket
    BY DEF Stale, Open
<1>5. Counters'
    BY <1>4 DEF Inv, Counters, Wrote, Note
<1> QED BY <1>1, <1>3, <1>5 DEF Inv, Cached

\* The other handlers will still drop what they would have, the gap apart.
LEMMA StillPending ==
    ASSUME Inv, NEW x \in Worker, proc'[x] = proc[x], NEW gap,
           \A c \in Bucket : RowKeys(buckets[c]) \subseteq RowKeys(buckets'[c]) \cup gap
    PROVE  Pending(x) \subseteq Pending(x)' \cup gap
<1>1. CASE proc[x].pc = "reread"
    <2>1. proc[x].bucket \in Bucket
        BY <1>1 DEF Inv, Handled, Ready
    <2>2. Pending(x) = BucketKeys(proc[x].bucket, buckets[proc[x].bucket])
        BY <1>1 DEF Pending
    <2>3. Pending(x)' = BucketKeys(proc[x].bucket, buckets'[proc[x].bucket])
        BY <1>1 DEF Pending, BucketKeys, RowKeys
    <2> QED BY <2>1, <2>2, <2>3 DEF BucketKeys
<1>2. CASE proc[x].pc = "redrop"
    <2>1. Pending(x) = BucketKeys(proc[x].bucket, proc[x].snap)
        BY <1>2 DEF Pending
    <2>2. Pending(x)' = BucketKeys(proc[x].bucket, proc[x].snap)
        BY <1>2 DEF Pending, BucketKeys, RowKeys
    <2> QED BY <2>1, <2>2
<1>3. CASE proc[x].pc = "finish"
    <2>1. Pending(x) = AfterKeys(proc[x])
        BY <1>3 DEF Pending
    <2>2. Pending(x)' = AfterKeys(proc[x])
        BY <1>3 DEF Pending, AfterKeys
    <2> QED BY <2>1, <2>2
<1>4. CASE proc[x].pc \notin {"reread", "redrop", "finish"}
    BY <1>4 DEF Pending
<1> QED BY <1>1, <1>2, <1>3, <1>4

\* Nothing goes stale unexplained if every cached answer that the statement
\* changes is in the gap or about to be dropped.
LEMMA WriteExplained ==
    ASSUME Inv, Tables', NoUnexplainedStaleness, NEW w \in Worker, proc[w].pc = "write",
           UNCHANGED cache, Wrote(w), NEW gap, Note(gap), NEW b \in Bucket, Elsewhere(b),
           RowKeys(buckets[b]) \subseteq RowKeys(buckets'[b]) \cup gap,
           \A k \in (Reach(b) \cup Reach(b)') \cap Key :
               cache[k] = Miss \/ Answer(k)' = Answer(k) \/ k \in gap \/ k \in Pending(w)'
    PROVE  NoUnexplainedStaleness'
<1> SUFFICES ASSUME NEW k \in Stale'
             PROVE  k \in excused' \cup UNION {Pending(x)' : x \in Worker}
    BY DEF NoUnexplainedStaleness
<1>1. k \in Key /\ cache[k] # Miss /\ cache[k] # Answer(k)'
    BY DEF Stale
<1>2. CASE k \in gap
    BY <1>2 DEF Note
<1>3. CASE k \in Pending(w)'
    BY <1>3
<1>4. CASE k \notin gap \cup Pending(w)'
    <2>1. Answer(k)' = Answer(k)
        BY <1>1, <1>4, OnlyWhatReaches DEF Inv
    <2>2. k \in Stale
        BY <1>1, <2>1 DEF Stale
    <2>3. CASE k \in excused
        BY <2>3 DEF Note
    <2>4. CASE k \notin excused
        <3>1. PICK x \in Worker : k \in Pending(x)
            BY <2>2, <2>4 DEF NoUnexplainedStaleness
        <3>2. x # w /\ proc'[x] = proc[x]
            BY <3>1, WroteMoves
        <3>3. \A c \in Bucket : RowKeys(buckets[c]) \subseteq RowKeys(buckets'[c]) \cup gap
            BY DEF Elsewhere
        <3>4. k \in Pending(x)'
            BY <1>4, <3>1, <3>2, <3>3, StillPending
        <3> QED BY <3>4
    <2> QED BY <2>3, <2>4
<1> QED BY <1>2, <1>3, <1>4

\* Bucket names are read with their owner and subscribers, and nothing else.
LEMMA NamesAnswer ==
    ASSUME NEW u \in User,
           \A c \in Bucket : /\ Exists(c)' <=> Exists(c)
                             /\ Exists(c) => /\ buckets'[c].owner = buckets[c].owner
                                             /\ buckets'[c].name = buckets[c].name
                             /\ u \in Subscribers(c)' <=> u \in Subscribers(c)
    PROVE  Answer(NamesKey(u))' = Answer(NamesKey(u))
<1>1. (Owned(u) \cup SubscribedTo(u))' = Owned(u) \cup SubscribedTo(u)
    BY DEF Owned, SubscribedTo, Owns
<1>2. \A c \in Owned(u) \cup SubscribedTo(u) : buckets'[c].name = buckets[c].name
    BY DEF Owned, SubscribedTo, Owns
<1>3. Answer(NamesKey(u)) = {buckets[c].name : c \in Owned(u) \cup SubscribedTo(u)}
    BY Answers DEF AnswersAre
<1>4. Answer(NamesKey(u))' = {buckets'[c].name : c \in (Owned(u) \cup SubscribedTo(u))'}
    BY NextAnswers DEF AnswersAre
<1> QED BY <1>1, <1>2, <1>3, <1>4

\* The keys that reach b, one by one.
LEMMA ReachCases ==
    ASSUME NEW b \in Bucket, NEW k \in Reach(b) \cup Reach(b)', NEW P,
           k \in RowKeys(buckets[b]) => P, k \in RowKeys(buckets'[b]) => P,
           k = IdKey(b) => P, k = WhitelistKey(b) => P, k \in SubscribedKeys => P,
           \A u \in User : k = AdmittedKey(b, u) => P,
           \A u \in User : k = ImagesKey(u, b) => P,
           \A u \in Subscribers(b) \cup Subscribers(b)' : k = NamesKey(u) => P
    PROVE  P
BY DEF Reach

-----------------------------------------------------------------------------
(* Steps that write nothing *)

LEMMA AnswersStay ==
    ASSUME UNCHANGED db, NEW k
    PROVE  Answer(k)' = Answer(k)
BY DEF db, Answer, Owned, Owns, Exists, SubscribedTo, Subscribers, StoredBucket, OptionBucket,
       Visible, Holders

\* An entry is as it was and as well accounted for, or gone, or excused, or true.
LEMMA StepExplained ==
    ASSUME NoUnexplainedStaleness, UNCHANGED db, NEW w \in Worker,
           \A x \in Worker \ {w} : proc'[x] = proc[x],
           \A k \in Key :
               \/ cache'[k] = Miss \/ k \in excused' \/ cache'[k] = Answer(k)
               \/ /\ cache'[k] = cache[k]
                  /\ k \notin excused
                  /\ k \in Stale \cap Pending(w) => k \in Pending(w)'
    PROVE  NoUnexplainedStaleness'
<1> SUFFICES ASSUME NEW k \in Stale'
             PROVE  k \in excused' \cup UNION {Pending(x)' : x \in Worker}
    BY DEF NoUnexplainedStaleness
<1>1. k \in Key /\ cache'[k] # Miss /\ cache'[k] # Answer(k)
    BY AnswersStay DEF Stale
<1>2. CASE k \in excused'
    BY <1>2
<1>3. CASE cache'[k] = cache[k] /\ k \notin excused /\ (k \in Stale \cap Pending(w) => k \in Pending(w)')
    <2>1. k \in Stale
        BY <1>1, <1>3 DEF Stale
    <2>2. PICK x \in Worker : k \in Pending(x)
        BY <1>3, <2>1 DEF NoUnexplainedStaleness
    <2>3. CASE x = w
        BY <1>3, <2>1, <2>2, <2>3
    <2>4. CASE x # w
        <3>1. Pending(x)' = Pending(x)
            BY <2>4 DEF Pending, db, BucketKeys, RowKeys, AfterKeys
        <3> QED BY <2>2, <3>1
    <2> QED BY <2>3, <2>4
<1> QED BY <1>1, <1>2, <1>3

LEMMA OthersWait ==
    ASSUME Inv, NEW w \in Worker, NEW t, Goto(w, t)
    PROVE  proc'[w] = t /\ \A x \in Worker \ {w} : proc'[x] = proc[x]
BY DEF Goto, Inv, Handled

LEMMA ReadsExplained ==
    ASSUME Inv, NoUnexplainedStaleness, NEW w \in Worker,
           Get(w) \/ Request(w) \/ Lookup(w) \/ StatementFails(w)
    PROVE  NoUnexplainedStaleness'
<1>1. UNCHANGED <<buckets, created, bucket_subscriptions, bucket_whitelists, images, cache, excused>>
    BY DEF Get, Request, Lookup, StatementFails, db
<1>2. proc[w].pc \in {"idle", "lookup", "write"}
    BY DEF Get, Request, Lookup, StatementFails
<1>3. \A x \in Worker \ {w} : proc'[x] = proc[x]
    <2>1. \E t : Goto(w, t)
        BY DEF Goto, Get, Request, Lookup, StatementFails
    <2> QED BY <2>1, OthersWait
<1>4. Pending(w) = {}
    BY <1>2 DEF Pending
<1>5. \A k : Answer(k)' = Answer(k)
    BY <1>1 DEF Answer, Owned, Owns, Exists, SubscribedTo, Subscribers, StoredBucket, OptionBucket,
                Visible, Holders
<1>6. \A x \in Worker \ {w} : Pending(x)' = Pending(x)
    BY <1>1, <1>3 DEF Pending, BucketKeys, RowKeys, AfterKeys
<1>7. Stale' = Stale
    BY <1>1, <1>5 DEF Stale
<1> QED BY <1>1, <1>4, <1>6, <1>7 DEF NoUnexplainedStaleness

LEMMA FillExplained ==
    ASSUME Inv, NoUnexplainedStaleness, NEW w \in Worker, Fill(w)
    PROVE  NoUnexplainedStaleness'
<1> DEFINE p == proc[w]
<1>1. p.pc = "fill" /\ p.key \in Key /\ UNCHANGED db /\ cache' = [cache EXCEPT ![p.key] = p.value]
        /\ excused' = IF p.value = Answer(p.key) THEN excused \ {p.key} ELSE excused \cup {p.key}
    BY DEF Fill, Inv, Handled, Ready
<1>2. \A x \in Worker \ {w} : proc'[x] = proc[x]
    BY OthersWait DEF Fill
<1>3. Pending(w) = {}
    BY <1>1 DEF Pending
<1>4. ASSUME NEW k \in Key
      PROVE  \/ cache'[k] = Miss \/ k \in excused' \/ cache'[k] = Answer(k)
             \/ /\ cache'[k] = cache[k]
                /\ k \notin excused
                /\ k \in Stale \cap Pending(w) => k \in Pending(w)'
    <2>1. CASE k = p.key
        <3>1. cache'[k] = p.value
            BY <1>1, <2>1 DEF Inv, Cached
        <3> QED BY <1>1, <2>1, <3>1
    <2>2. CASE k # p.key
        <3>1. cache'[k] = cache[k]
            BY <1>1, <2>2 DEF Inv, Cached
        <3> QED BY <1>1, <1>3, <2>2, <3>1
    <2> QED BY <2>1, <2>2
<1> QED BY <1>1, <1>2, <1>4, StepExplained

LEMMA InvalidationExplained ==
    ASSUME Inv, NoUnexplainedStaleness, NEW w \in Worker,
           ReadBucket(w) \/ ReadFails(w) \/ DropEntries(w) \/ Finish(w) \/ Disconnect(w)
    PROVE  NoUnexplainedStaleness'
<1> DEFINE p == proc[w]
<1>1. UNCHANGED db /\ p \in Handler /\ Ready(p)
    BY DEF ReadBucket, ReadFails, DropEntries, Finish, Disconnect, Inv, Handled
<1>2. \A x \in Worker \ {w} : proc'[x] = proc[x]
    <2>1. \E t : Goto(w, t)
        BY DEF Goto, ReadBucket, ReadFails, DropEntries, Finish, Disconnect
    <2> QED BY <2>1, OthersWait
<1>3. ASSUME NEW K, Drop(K), Pending(w) \subseteq K
      PROVE  NoUnexplainedStaleness'
    BY <1>1, <1>2, <1>3, StepExplained DEF Drop
<1>4. ASSUME UNCHANGED cache, excused \subseteq excused',
             Stale \cap Pending(w) \subseteq Pending(w)' \cup excused'
      PROVE  NoUnexplainedStaleness'
    BY <1>1, <1>2, <1>4, StepExplained
<1>5. CASE ReadBucket(w)
    <2>1. CASE p.pc = "read"
        <3>1. Pending(w) = {}
            BY <2>1 DEF Pending
        <3> QED BY <1>4, <1>5, <3>1 DEF ReadBucket
    <2>2. CASE p.pc = "reread"
        <3>1. p.bucket \in Bucket /\ buckets[p.bucket] \in Row \cup {None}
            BY <1>1, <2>2 DEF Ready, Inv, Tables
        <3> DEFINE t == [p EXCEPT !.pc = "redrop", !.snap = buckets[p.bucket]]
        <3>2. t.pc = "redrop" /\ t.bucket = p.bucket /\ t.snap = buckets[p.bucket] 
            BY <1>1, <3>1 DEF Handler
        <3>3. Goto(w, t)
            BY <1>5, <2>2 DEF ReadBucket
        <3> HIDE DEF t
        <3>4. proc'[w] = t
            BY <3>3, OthersWait
        <3>5. Pending(w) = BucketKeys(p.bucket, buckets[p.bucket])
            BY <2>2 DEF Pending
        <3>6. Pending(w)' = BucketKeys(p.bucket, buckets[p.bucket])
            BY <3>2, <3>4 DEF Pending, BucketKeys, RowKeys
        <3> QED BY <1>4, <1>5, <3>5, <3>6 DEF ReadBucket
    <2> QED BY <1>5, <2>1, <2>2 DEF ReadBucket
<1>6. CASE ReadFails(w)
    <2>1. CASE p.pc = "read"
        <3>1. Pending(w) = {}
            BY <2>1 DEF Pending
        <3> QED BY <1>4, <1>6, <2>1, <3>1 DEF ReadFails
    <2>2. CASE p.pc = "reread"
        <3> DEFINE t == [p EXCEPT !.pc = "redrop", !.snap = None]
        <3>1. t.pc = "redrop" /\ t.bucket = p.bucket /\ t.snap = None 
            BY <1>1 DEF Handler
        <3>2. Goto(w, t) /\ excused' = excused \cup (Stale \cap RowKeys(buckets[p.bucket])) /\ UNCHANGED cache
            BY <1>6, <2>2 DEF ReadFails
        <3> HIDE DEF t
        <3>3. proc'[w] = t
            BY <3>2, OthersWait
        <3>4. Pending(w) = BucketKeys(p.bucket, buckets[p.bucket])
            BY <2>2 DEF Pending
        <3>5. Pending(w)' = BucketKeys(p.bucket, None)
            BY <3>1, <3>3 DEF Pending, BucketKeys, RowKeys
        <3>6. BucketKeys(p.bucket, buckets[p.bucket]) \subseteq
                  BucketKeys(p.bucket, None) \cup RowKeys(buckets[p.bucket])
            BY DEF BucketKeys
        <3> QED BY <1>4, <3>2, <3>4, <3>5, <3>6
    <2> QED BY <1>6, <2>1, <2>2 DEF ReadFails
<1>7. CASE DropEntries(w)
    <2>1. Pending(w) \subseteq BucketKeys(p.bucket, p.snap)
        BY <1>7 DEF DropEntries, Pending
    <2> QED BY <1>3, <1>7, <2>1 DEF DropEntries
<1>8. CASE Finish(w)
    <2>1. Pending(w) \subseteq AfterKeys(p)
        BY <1>8 DEF Finish, Pending
    <2> QED BY <1>3, <1>8, <2>1 DEF Finish
<1>9. CASE Disconnect(w)
    BY <1>4, <1>9 DEF Disconnect
<1> QED BY <1>5, <1>6, <1>7, <1>8, <1>9

LEMMA ExpiryExplained ==
    ASSUME Inv, NoUnexplainedStaleness, NEW k \in Key, Expire(k)
    PROVE  NoUnexplainedStaleness'
<1>1. UNCHANGED <<db, proc>> /\ cache' = [cache EXCEPT ![k] = Miss] /\ excused' = excused \ {k}
    BY DEF Expire
<1>2. Stale' \subseteq Stale \ {k}
    BY <1>1, AnswersStay DEF Stale, Inv, Cached
<1>3. \A x \in Worker : Pending(x)' = Pending(x)
    BY <1>1 DEF Pending, db, BucketKeys, RowKeys, AfterKeys
<1> QED BY <1>1, <1>2, <1>3 DEF NoUnexplainedStaleness

\* A statement that fails, or finds nothing to do, ends the request.
LEMMA QuitKeeps ==
    ASSUME Inv, NoUnexplainedStaleness, NEW w \in Worker, proc[w].pc = "write", Goto(w, Idle),
           UNCHANGED <<db, cache, watched, writes, faults, excused, admitted>>
    PROVE  Inv' /\ NoUnexplainedStaleness'
<1>1. Inv'
    BY IdleReady, KeylessMove DEF Idle, Inv, Cached, Counters
<1>2. Pending(w) = {}
    BY DEF Pending
<1>3. NoUnexplainedStaleness'
    BY <1>2, OthersWait, StepExplained
<1> QED BY <1>1, <1>3

-----------------------------------------------------------------------------
(* The statements, one by one: what each changes is in its gap or about to be *)
(* dropped                                                                     *)

\* What a statement keeps of a bucket whose row stays.
LEMMA SubscribersSame ==
    ASSUME UNCHANGED bucket_subscriptions
    PROVE  \A c : Subscribers(c)' = Subscribers(c)
BY DEF Subscribers

LEMMA Writer ==
    ASSUME Inv, NEW w \in Worker, proc[w].pc = "write"
    PROVE  /\ proc[w].user \in User /\ ArgTyped(proc[w])
           /\ proc[w].op # "create" => proc[w].bucket \in Bucket
BY DEF Inv, Handled, Ready

\* A statement that finds no row of its own: 200 or 404, it changes nothing.
LEMMA IdleWriteKeeps ==
    ASSUME Inv, NoUnexplainedStaleness, NEW w \in Worker, proc[w].pc = "write",
           UNCHANGED cache, UNCHANGED db, Wrote(w), NEW gap, Note(gap)
    PROVE  Inv' /\ NoUnexplainedStaleness'
<1>1. Tables' /\ created \subseteq created'
    BY TablesStay DEF db, Inv, Tables
<1>2. Inv'
    BY <1>1, WriteKeepsInv
<1>3. Pending(w) = {} /\ \A x \in Worker \ {w} : proc'[x] = proc[x]
    BY WroteMoves
<1>4. NoUnexplainedStaleness'
    BY <1>3, StepExplained DEF Note
<1> QED BY <1>2, <1>4

LEMMA CreateKeeps ==
    ASSUME Inv, NoUnexplainedStaleness, NEW w \in Worker, CreateBucket(w)
    PROVE  Inv' /\ NoUnexplainedStaleness'
<1> DEFINE p == proc[w]
<1>1. p.pc = "write" /\ p.op = "create" /\ UNCHANGED cache
    BY DEF CreateBucket, Writing
<1>2. p.user \in User /\ p.arg \in Name
    BY <1>1, Writer DEF ArgTyped
<1>3. CASE Goto(w, Idle) /\ UNCHANGED <<db, watched, writes, faults, excused, admitted>>
    BY <1>1, <1>3, QuitKeeps
<1>4. ASSUME NEW b \in Bucket \ created, created' = created \cup {b},
             buckets' = [buckets EXCEPT ![b] = NewBucket(p.user, p.arg)],
             UNCHANGED <<issued, bucket_subscriptions, bucket_whitelists, images>>,
             Wrote(w), Note({})
      PROVE  Inv' /\ NoUnexplainedStaleness'
    <2>1. ~Exists(b) /\ images[b] = 0 /\ Subscribers(b) = {}
        BY DEF Inv, Tables
    <2>2. NewBucket(p.user, p.arg) \in Row
        BY <1>2 DEF NewBucket, Row
    <2>3. buckets'[b] = NewBucket(p.user, p.arg) /\ \A c \in Bucket \ {b} : buckets'[c] = buckets[c]
        BY <1>4 DEF Inv, Tables
    <2>4. Exists(b)' /\ \A c \in Bucket \ {b} : Exists(c)' <=> Exists(c)
        BY <2>2, <2>3, CacheAssumption DEF Exists
    <2>5. \A c : Subscribers(c)' = Subscribers(c)
        BY <1>4, SubscribersSame
    <2>6. Tables'
        <3>1. buckets' \in [Bucket -> Row \cup {None}]
            BY <1>4, <2>2 DEF Inv, Tables
        <3> QED BY <1>4, <2>4, <2>5, <3>1 DEF Inv, Tables
    <2>7. Inv'
        BY <1>1, <1>4, <2>6, WriteKeepsInv
    <2>8. Elsewhere(b)
        BY <1>4, <2>3 DEF Elsewhere
    <2>9. RowKeys(buckets[b]) = {} /\ RowKeys(buckets'[b]) = {OwnedKey(p.user), NamesKey(p.user)}
        <3>1. buckets[b] = None
            BY <2>1 DEF Exists
        <3>2. buckets'[b] # None /\ buckets'[b].owner = p.user /\ buckets'[b].share_token = None
            BY <2>3, <2>4 DEF NewBucket, Exists
        <3> QED BY <3>1, <3>2 DEF RowKeys
    <2>10. Pending(w)' = {OwnedKey(p.user), NamesKey(p.user)}
        BY <1>1, <1>4, WroteMoves DEF AfterKeys, Twice
    <2>11. ASSUME NEW k \in (Reach(b) \cup Reach(b)') \cap Key
           PROVE  cache[k] = Miss \/ Answer(k)' = Answer(k) \/ k \in {} \/ k \in Pending(w)'
        <3>1. ASSUME k = IdKey(b) \/ k = WhitelistKey(b) PROVE cache[k] = Miss
            BY <3>1 DEF Inv, Fresh, Unborn
        <3>2. ASSUME NEW u \in User, k = SubscribedKey(u) PROVE Answer(k)' = Answer(k)
            <4>1. SubscribedTo(u)' = SubscribedTo(u) /\ b \notin SubscribedTo(u)
                BY <2>1, <2>4, <2>5 DEF SubscribedTo
            <4>2. \A c \in SubscribedTo(u) : /\ StoredBucket(c)' = StoredBucket(c)
                                             /\ Visible(u, c)' <=> Visible(u, c)
                BY <2>8, <4>1, OthersSame DEF SubscribedTo
            <4>3. {c \in SubscribedTo(u) : Visible(u, c)}' = {c \in SubscribedTo(u) : Visible(u, c)}
                BY <4>1, <4>2
            <4>4. Answer(k) = {StoredBucket(c) : c \in {c \in SubscribedTo(u) : Visible(u, c)}}
                BY <3>2, Answers DEF AnswersAre
            <4>5. Answer(k)' = {StoredBucket(c)' : c \in {c \in SubscribedTo(u) : Visible(u, c)}'}
                BY <3>2, NextAnswers DEF AnswersAre
            <4> QED BY <4>2, <4>3, <4>4, <4>5
        <3>3. ASSUME NEW u \in User, k = AdmittedKey(b, u) PROVE Answer(k)' = Answer(k)
            BY <1>4, <3>3, GateAnswer
        <3>4. ASSUME NEW u \in User, k = ImagesKey(u, b) PROVE Answer(k)' = Answer(k)
            <4>1. Answer(k) = 0 /\ Answer(k)' = 0
                BY <1>4, <2>1, <3>4, Answers, NextAnswers DEF AnswersAre
            <4> QED BY <4>1
        <3> QED BY <2>1, <2>5, <2>9, <2>10, <3>1, <3>2, <3>3, <3>4, ReachCases DEF SubscribedKeys
    <2>12. NoUnexplainedStaleness'
        BY <1>1, <1>4, <2>6, <2>8, <2>9, <2>11, WriteExplained
    <2> QED BY <2>7, <2>12
<1> QED BY <1>3, <1>4 DEF CreateBucket

\* An UPDATE of b's row that leaves the owner alone.
LEMMA UpdateKeepsTables ==
    ASSUME Inv, NEW b \in Bucket, NEW r \in Row,
           buckets' = IF Exists(b) THEN [buckets EXCEPT ![b] = r] ELSE buckets,
           Exists(b) => r.owner = buckets[b].owner,
           UNCHANGED <<created, issued, bucket_subscriptions, bucket_whitelists, images>>
    PROVE  /\ Tables' /\ Elsewhere(b)
           /\ \A c \in Bucket : Exists(c)' <=> Exists(c)
           /\ Exists(b) => buckets'[b] = r
           /\ ~Exists(b) => buckets' = buckets
           /\ \A c : Subscribers(c)' = Subscribers(c)
           /\ \A u \in User : Owns(u, b)' <=> Owns(u, b)
<1>1. \A c : Subscribers(c)' = Subscribers(c)
    BY SubscribersSame
<1>2. buckets' \in [Bucket -> Row \cup {None}]
    BY DEF Inv, Tables
<1>3. (Exists(b) => buckets'[b] = r) /\ (~Exists(b) => buckets' = buckets)
      /\ \A c \in Bucket \ {b} : buckets'[c] = buckets[c]
    BY DEF Inv, Tables
<1>4. \A c \in Bucket : Exists(c)' <=> Exists(c)
    BY <1>3, CacheAssumption DEF Exists
<1>5. Tables'
    BY <1>1, <1>2, <1>4 DEF Inv, Tables
<1>6. Elsewhere(b)
    BY <1>3 DEF Elsewhere
<1>7. \A u \in User : Owns(u, b)' <=> Owns(u, b)
    BY <1>3, <1>4 DEF Owns
<1> QED BY <1>1, <1>3, <1>4, <1>5, <1>6, <1>7

\* A row's keys are its owner's and its token's.
LEMMA RowKeysOf ==
    ASSUME NEW r, r # None
    PROVE  RowKeys(r) = {OwnedKey(r.owner), NamesKey(r.owner)} \cup {TokenKey(t) : t \in {r.share_token} \ {None}}
BY DEF RowKeys

\* A rename, a new token or a switched whitelist: what the closing invalidation
\* does not reach must be in the gap.
LEMMA UpdateKeeps ==
    ASSUME Inv, NoUnexplainedStaleness, NEW w \in Worker, proc[w].pc = "write", proc[w].op \in Twice,
           UNCHANGED cache, Wrote(w), NEW gap, Note(gap), NEW b \in Bucket, b = proc[w].bucket,
           UNCHANGED <<created, issued, bucket_subscriptions, bucket_whitelists, images>>,
           NEW u \in User, NEW r \in Row,
           buckets' = IF Owns(u, b) THEN [buckets EXCEPT ![b] = r] ELSE buckets,
           Owns(u, b) => /\ r.owner = u
                         /\ RowKeys(buckets[b]) \subseteq RowKeys(r) \cup gap
                         /\ r.name # buckets[b].name => {NamesKey(v) : v \in Subscribers(b)} \subseteq gap
                         /\ r.whitelist_enabled # buckets[b].whitelist_enabled => ImagesKeys \subseteq gap
    PROVE  Inv' /\ NoUnexplainedStaleness'
<1>1. CASE ~Owns(u, b)
    BY <1>1, IdleWriteKeeps DEF db
<1>2. CASE Owns(u, b)
    <2>1. Exists(b) /\ buckets[b].owner = u /\ r.owner = u
        BY <1>2 DEF Owns
    <2>2. /\ Tables' /\ Elsewhere(b) /\ (\A c \in Bucket : Exists(c)' <=> Exists(c))
          /\ buckets'[b] = r /\ (\A c : Subscribers(c)' = Subscribers(c))
          /\ \A v \in User : Owns(v, b)' <=> Owns(v, b)
        BY <1>2, <2>1, UpdateKeepsTables
    <2>3. Pending(w)' = BucketKeys(b, buckets'[b])
        BY WroteMoves
    <2>4. ASSUME NEW v \in User PROVE Answer(ImagesKey(v, b))' = Answer(ImagesKey(v, b)) \/ ImagesKey(v, b) \in gap
        <3>1. CASE r.whitelist_enabled = buckets[b].whitelist_enabled
            <4>1. /\ Visible(v, b)' <=> Visible(v, b)
                  /\ v \in Subscribers(b)' <=> v \in Subscribers(b)
                BY <2>2, <3>1 DEF Visible
            <4>2. /\ Exists(b)' <=> Exists(b)
                  /\ Owns(v, b)' <=> Owns(v, b)
                  /\ images'[b] = images[b]
                BY <2>2
            <4> QED BY <4>1, <4>2, ImagesAnswer
        <3>2. CASE ImagesKeys \subseteq gap
            BY <3>2 DEF ImagesKeys
        <3> QED BY <1>2, <3>1, <3>2
    <2>5. ASSUME NEW v \in Subscribers(b) PROVE Answer(NamesKey(v))' = Answer(NamesKey(v)) \/ NamesKey(v) \in gap
        <3>1. CASE r.name = buckets[b].name
            <4>1. \A c \in Bucket : /\ Exists(c)' <=> Exists(c)
                                    /\ buckets'[c].owner = buckets[c].owner
                                    /\ buckets'[c].name = buckets[c].name
                                    /\ v \in Subscribers(c)' <=> v \in Subscribers(c)
                BY <2>1, <2>2, <3>1 DEF Elsewhere
            <4>2. v \in User
                BY DEF Subscribers
            <4> QED BY <4>1, <4>2, NamesAnswer
        <3>2. CASE {NamesKey(x) : x \in Subscribers(b)} \subseteq gap
            BY <3>2
        <3> QED BY <1>2, <3>1, <3>2
    <2>6. RowKeys(buckets[b]) \subseteq RowKeys(buckets'[b]) \cup gap
        BY <1>2, <2>2
    <2>7. ASSUME NEW k \in (Reach(b) \cup Reach(b)') \cap Key
          PROVE  Answer(k)' = Answer(k) \/ k \in gap \/ k \in Pending(w)'
        <3>1. \A v \in User : AdmittedKey(b, v) \in Pending(w)'
            BY <2>3 DEF BucketKeys, AdmittedKeys
        <3>2. /\ IdKey(b) \in Pending(w)' /\ WhitelistKey(b) \in Pending(w)'
              /\ SubscribedKeys \subseteq Pending(w)' /\ RowKeys(buckets'[b]) \subseteq Pending(w)'
            BY <2>3 DEF BucketKeys
        <3>3. Subscribers(b)' = Subscribers(b)
            BY <2>2
        <3> DEFINE P == Answer(k)' = Answer(k) \/ k \in gap \/ k \in Pending(w)'
        <3>4. k \in RowKeys(buckets[b]) \cup RowKeys(buckets'[b]) => P
            BY <2>6, <3>2
        <3>5. k \in {IdKey(b), WhitelistKey(b)} \cup SubscribedKeys => P
            BY <3>2
        <3>6. \A v \in User : k = AdmittedKey(b, v) \/ k = ImagesKey(v, b) => P
            BY <2>4, <3>1
        <3>7. \A v \in Subscribers(b) \cup Subscribers(b)' : k = NamesKey(v) => P
            BY <2>5, <3>3
        <3> HIDE DEF P
        <3>8. P
            BY <3>4, <3>5, <3>6, <3>7, ReachCases
        <3> QED BY <3>8 DEF P
    <2>8. Inv'
        BY <2>2, WriteKeepsInv
    <2>9. NoUnexplainedStaleness'
        BY <2>2, <2>6, <2>7, WriteExplained
    <2> QED BY <2>8, <2>9
<1> QED BY <1>1, <1>2

LEMMA UpdatesKeep ==
    ASSUME Inv, NoUnexplainedStaleness, NEW w \in Worker,
           RenameBucket(w) \/ SetShareToken(w) \/ SetWhitelistEnabled(w)
    PROVE  Inv' /\ NoUnexplainedStaleness'
<1>1. PICK b, u, a : b = proc[w].bucket /\ u = proc[w].user /\ a = proc[w].arg
    OBVIOUS
<1>2. proc[w].pc = "write" /\ proc[w].op \in {"rename", "share", "protect"} /\ UNCHANGED cache
        /\ proc[w].op \in Twice
    BY DEF RenameBucket, SetShareToken, SetWhitelistEnabled, Writing, Twice
<1>3. u \in User /\ b \in Bucket
    BY <1>1, <1>2, Writer
<1>4. CASE Goto(w, Idle) /\ UNCHANGED <<db, watched, writes, faults, excused, admitted>>
    BY <1>2, <1>4, QuitKeeps
<1>5. PICK row : row = buckets[b]
    OBVIOUS
<1>6. Owns(u, b) => row \in Row /\ row # None /\ row.owner = u
    BY <1>3, <1>5 DEF Owns, Exists, Inv, Tables
<1>7. ASSUME ~Owns(u, b), UNCHANGED <<db, cache>>, Wrote(w), NEW gap, Note(gap)
      PROVE  Inv' /\ NoUnexplainedStaleness'
    BY <1>2, <1>7, IdleWriteKeeps
<1>8. ASSUME RenameBucket(w),
             buckets' = IF Owns(u, b) THEN [buckets EXCEPT ![b].name = a] ELSE buckets,
             UNCHANGED <<created, issued, bucket_subscriptions, bucket_whitelists, images>>,
             Wrote(w), Note({NamesKey(v) : v \in Subscribers(b)})
      PROVE  Inv' /\ NoUnexplainedStaleness'
    <2> DEFINE r == [row EXCEPT !.name = a]
               gap == {NamesKey(v) : v \in Subscribers(b)}
    <2>1. a \in Name
        BY <1>1, <1>2, <1>8, Writer DEF ArgTyped, RenameBucket, Writing
    <2>2. /\ buckets' = IF Owns(u, b) THEN [buckets EXCEPT ![b].name = a] ELSE buckets
          /\ UNCHANGED <<created, issued, bucket_subscriptions, bucket_whitelists, images>>
          /\ Wrote(w) /\ Note(gap)
        BY <1>8
    <2>3. CASE Owns(u, b)
        <3>1. r \in Row /\ r.owner = u /\ r.share_token = row.share_token
                /\ r.whitelist_enabled = row.whitelist_enabled
            BY <1>6, <2>1, <2>3 DEF Row
        <3>2. buckets' = [buckets EXCEPT ![b] = r]
            BY <1>5, <2>2, <2>3
        <3> HIDE DEF r
        <3>3. RowKeys(row) = RowKeys(r)
            <4>1. r # None /\ row # None
                BY <1>6, <2>3, <3>1, CacheAssumption
            <4>2. row.owner = r.owner /\ row.share_token = r.share_token
                BY <1>6, <2>3, <3>1
            <4> QED BY <4>1, <4>2, RowKeysOf
        <3>4. {NamesKey(v) : v \in Subscribers(b)} \subseteq gap
            OBVIOUS
        <3> HIDE DEF gap
        <3> QED BY <1>1, <1>2, <1>3, <1>5, <2>2, <2>3, <3>1, <3>2, <3>3, <3>4, UpdateKeeps
    <2>4. CASE ~Owns(u, b)
        BY <1>2, <1>7, <2>2, <2>4 DEF db
    <2> QED BY <2>3, <2>4
<1>9. CASE SetShareToken(w)
    <2> DEFINE r == [row EXCEPT !.share_token = a]
               gap == RowKeys(row) \cap {TokenKey(t) : t \in Token}
    <2>1. a \in Token \cup {None}
        BY <1>1, <1>2, <1>9, Writer DEF ArgTyped, SetShareToken, Writing
    <2>2. /\ buckets' = IF Owns(u, b) THEN [buckets EXCEPT ![b].share_token = a] ELSE buckets
          /\ UNCHANGED <<created, issued, bucket_subscriptions, bucket_whitelists, images>>
          /\ Wrote(w) /\ Note(gap)
        BY <1>1, <1>5, <1>9 DEF SetShareToken
    <2>3. CASE Owns(u, b)
        <3>1. r \in Row /\ r.owner = u /\ r.name = row.name
                /\ r.whitelist_enabled = row.whitelist_enabled
            BY <1>6, <2>1, <2>3 DEF Row
        <3>2. buckets' = [buckets EXCEPT ![b] = r]
            BY <1>5, <2>2, <2>3
        <3> HIDE DEF r
        <3>3. RowKeys(row) \subseteq RowKeys(r) \cup gap
            <4>1. RowKeys(row) = {OwnedKey(u), NamesKey(u)}
                                   \cup {TokenKey(t) : t \in {row.share_token} \ {None}}
                BY <1>6, <2>3 DEF RowKeys
            <4>2. {OwnedKey(u), NamesKey(u)} \subseteq RowKeys(r)
                BY <3>1, CacheAssumption DEF RowKeys
            <4>3. \A t \in {row.share_token} \ {None} : t \in Token
                BY <1>6, <2>3 DEF Row
            <4> QED BY <4>1, <4>2, <4>3
        <3> HIDE DEF gap
        <3> QED BY <1>1, <1>2, <1>3, <1>5, <2>2, <2>3, <3>1, <3>2, <3>3, UpdateKeeps
    <2>4. CASE ~Owns(u, b)
        BY <1>2, <1>7, <2>2, <2>4 DEF db
    <2> QED BY <2>3, <2>4
<1>10. CASE SetWhitelistEnabled(w)
    <2> DEFINE r == [row EXCEPT !.whitelist_enabled = a]
    <2>1. a \in BOOLEAN
        BY <1>1, <1>2, <1>10, Writer DEF ArgTyped, SetWhitelistEnabled, Writing
    <2>2. /\ buckets' = IF Owns(u, b) THEN [buckets EXCEPT ![b].whitelist_enabled = a] ELSE buckets
          /\ UNCHANGED <<created, issued, bucket_subscriptions, bucket_whitelists, images>>
          /\ Wrote(w) /\ Note(ImagesKeys)
        BY <1>1, <1>10 DEF SetWhitelistEnabled
    <2>3. CASE Owns(u, b)
        <3>1. r \in Row /\ r.owner = u /\ r.name = row.name /\ r.share_token = row.share_token
            BY <1>6, <2>1, <2>3 DEF Row
        <3>2. buckets' = [buckets EXCEPT ![b] = r]
            BY <1>5, <2>2, <2>3
        <3> HIDE DEF r
        <3>3. RowKeys(row) = RowKeys(r)
            <4>1. r # None /\ row # None
                BY <1>6, <2>3, <3>1, CacheAssumption
            <4>2. row.owner = r.owner /\ row.share_token = r.share_token
                BY <1>6, <2>3, <3>1
            <4> QED BY <4>1, <4>2, RowKeysOf
        <3> QED BY <1>1, <1>2, <1>3, <1>5, <2>2, <2>3, <3>1, <3>2, <3>3, UpdateKeeps
    <2>4. CASE ~Owns(u, b)
        BY <1>2, <1>7, <2>2, <2>4 DEF db
    <2> QED BY <2>3, <2>4
<1> QED BY <1>1, <1>2, <1>4, <1>8, <1>9, <1>10 DEF RenameBucket

LEMMA DeleteKeeps ==
    ASSUME Inv, NoUnexplainedStaleness, NEW w \in Worker, DeleteBucket(w)
    PROVE  Inv' /\ NoUnexplainedStaleness'
<1>1. PICK b, u, gap : /\ b = proc[w].bucket /\ u = proc[w].user
                       /\ gap = RowKeys(buckets[b]) \cup {NamesKey(v) : v \in Subscribers(b)} \cup ImagesKeys
    OBVIOUS
<1>2. proc[w].pc = "write" /\ proc[w].op = "delete" /\ UNCHANGED cache /\ proc[w].op \in Twice
    BY DEF DeleteBucket, Writing, Twice
<1>3. u \in User /\ b \in Bucket
    BY <1>1, <1>2, Writer
<1>4. Wrote(w) /\ Note(gap) /\ UNCHANGED <<created, issued>>
    BY <1>1 DEF DeleteBucket
<1>5. CASE ~Owns(u, b)
    BY <1>1, <1>2, <1>4, <1>5, IdleWriteKeeps DEF DeleteBucket, db
<1>6. CASE Owns(u, b)
    <2>1. /\ buckets' = [buckets EXCEPT ![b] = None]
          /\ bucket_subscriptions' = {s \in bucket_subscriptions : s[2] # b}
          /\ bucket_whitelists' = {e \in bucket_whitelists : e[1] # b}
          /\ images' = [images EXCEPT ![b] = 0]
        BY <1>1, <1>6 DEF DeleteBucket
    <2>2. /\ buckets' \in [Bucket -> Row \cup {None}] /\ images' \in [Bucket -> Nat]
          /\ buckets'[b] = None /\ images'[b] = 0
          /\ \A c \in Bucket \ {b} : buckets'[c] = buckets[c] /\ images'[c] = images[c]
        BY <1>3, <2>1 DEF Inv, Tables
    <2>3. \A c \in Bucket, v \in User :
              /\ <<v, c>> \in bucket_subscriptions' <=> <<v, c>> \in bucket_subscriptions /\ c # b
              /\ <<c, v>> \in bucket_whitelists' <=> <<c, v>> \in bucket_whitelists /\ c # b
        BY <2>1
    <2>4. \A c \in Bucket : Subscribers(c)' = IF c = b THEN {} ELSE Subscribers(c)
        BY <2>3 DEF Subscribers
    <2>5. ~Exists(b)' /\ \A c \in Bucket \ {b} : Exists(c)' <=> Exists(c)
        BY <2>2 DEF Exists
    <2>6. Tables'
        <3>1. \A c \in Bucket : IsFiniteSet(Subscribers(c)')
            <4> SUFFICES ASSUME NEW c \in Bucket PROVE IsFiniteSet(Subscribers(c)')
                OBVIOUS
            <4>1. CASE c = b
                <5>1. Subscribers(c)' = {}
                    BY <2>4, <4>1
                <5> QED BY <5>1, FS_EmptySet
            <4>2. CASE c # b
                <5>1. Subscribers(c)' = Subscribers(c)
                    BY <2>4, <4>2
                <5> QED BY <5>1 DEF Inv, Tables
            <4> QED BY <4>1, <4>2
        <3>2. \A c \in Bucket : ~Exists(c)' => images'[c] = 0 /\ Subscribers(c)' = {}
            BY <2>2, <2>4, <2>5 DEF Inv, Tables
        <3>3. \A e \in bucket_whitelists' : Exists(e[1])'
            BY <2>1, <2>5 DEF Inv, Tables
        <3>4. \A c \in Bucket \ created : ~Exists(c)'
            BY <2>5 DEF Inv, Tables
        <3>5. bucket_subscriptions' \subseteq User \X Bucket /\ bucket_whitelists' \subseteq Bucket \X User
            BY <2>1 DEF Inv, Tables
        <3> QED BY <1>4, <2>2, <3>1, <3>2, <3>3, <3>4, <3>5 DEF Inv, Tables
    <2>7. Elsewhere(b)
        BY <2>2, <2>3 DEF Elsewhere
    <2>8. Inv'
        BY <1>2, <1>4, <2>6, WriteKeepsInv
    <2>9. Pending(w)' = BucketKeys(b, None)
        BY <1>1, <1>2, <1>4, <2>2, WroteMoves
    <2>10. RowKeys(buckets[b]) \subseteq gap /\ RowKeys(buckets'[b]) = {}
        BY <1>1, <2>2 DEF RowKeys
    <2>11. ASSUME NEW k \in (Reach(b) \cup Reach(b)') \cap Key PROVE k \in gap \/ k \in Pending(w)'
        <3>1. /\ IdKey(b) \in Pending(w)' /\ WhitelistKey(b) \in Pending(w)'
              /\ SubscribedKeys \subseteq Pending(w)' /\ AdmittedKeys \subseteq Pending(w)'
            BY <2>9 DEF BucketKeys
        <3>2. \A v \in User : AdmittedKey(b, v) \in AdmittedKeys /\ ImagesKey(v, b) \in ImagesKeys
            BY <1>3 DEF AdmittedKeys, ImagesKeys
        <3>3. ImagesKeys \subseteq gap /\ \A v \in Subscribers(b) : NamesKey(v) \in gap
            BY <1>1
        <3>4. Subscribers(b)' = {}
            BY <1>3, <2>4
        <3> QED BY <1>3, <2>10, <3>1, <3>2, <3>3, <3>4, ReachCases, ZenonT(60)
    <2>12. NoUnexplainedStaleness'
        BY <1>2, <1>3, <1>4, <2>6, <2>7, <2>10, <2>11, WriteExplained
    <2> QED BY <2>8, <2>12
<1> QED BY <1>5, <1>6

\* One pair comes or goes.
LEMMA SubscriptionKeeps ==
    ASSUME Inv, NoUnexplainedStaleness, NEW w \in Worker, Subscribe(w) \/ Unsubscribe(w)
    PROVE  Inv' /\ NoUnexplainedStaleness'
<1>1. PICK b, u, gap : /\ b = proc[w].bucket /\ u = proc[w].user
                       /\ gap = SubscriptionGap(u, b)
    OBVIOUS
<1>2. proc[w].pc = "write" /\ proc[w].op \in {"subscribe", "unsubscribe"} /\ UNCHANGED cache
        /\ proc[w].op \notin Twice
    BY DEF Subscribe, Unsubscribe, Writing, Twice
<1>3. u \in User /\ b \in Bucket
    BY <1>1, <1>2, Writer
<1>4. CASE Goto(w, Idle) /\ UNCHANGED <<db, watched, writes, faults, excused, admitted>>
    BY <1>2, <1>4, QuitKeeps
<1>5. ASSUME \/ Exists(b) /\ bucket_subscriptions' = bucket_subscriptions \cup {<<u, b>>}
             \/ bucket_subscriptions' = bucket_subscriptions \ {<<u, b>>},
             UNCHANGED <<buckets, created, issued, bucket_whitelists, images>>,
             Wrote(w), Note(gap)
      PROVE  Inv' /\ NoUnexplainedStaleness'
    <2>1. \A c \in Bucket, v \in User :
              c # b \/ v # u => (v \in Subscribers(c)' <=> v \in Subscribers(c))
        BY <1>5 DEF Subscribers
    <2>2. \A c \in Bucket : Subscribers(c)' \subseteq Subscribers(c) \cup {u}
        BY <1>5 DEF Subscribers
    <2>3. \A c \in Bucket : /\ Exists(c)' <=> Exists(c)
                            /\ \A v \in User : (Owns(v, c)' <=> Owns(v, c)) /\ (Visible(v, c)' <=> Visible(v, c))
        BY <1>5 DEF Exists, Owns, Visible
    <2>4. Tables'
        <3>1. \A c \in Bucket : IsFiniteSet(Subscribers(c)')
            <4> SUFFICES ASSUME NEW c \in Bucket PROVE IsFiniteSet(Subscribers(c)')
                OBVIOUS
            <4>1. IsFiniteSet(Subscribers(c) \cup {u})
                BY FS_AddElement DEF Inv, Tables
            <4> QED BY <2>2, <4>1, FS_Subset
        <3>2. \A c \in Bucket : ~Exists(c)' => images'[c] = 0 /\ Subscribers(c)' = {}
            <4> SUFFICES ASSUME NEW c \in Bucket, ~Exists(c)' PROVE images'[c] = 0 /\ Subscribers(c)' = {}
                OBVIOUS
            <4>1. ~Exists(c) /\ images'[c] = 0 /\ Subscribers(c) = {}
                BY <1>5, <2>3 DEF Inv, Tables
            <4>2. Subscribers(c)' = {}
                BY <1>5, <4>1 DEF Subscribers
            <4> QED BY <4>1, <4>2
        <3>3. bucket_subscriptions' \subseteq User \X Bucket
            BY <1>3, <1>5 DEF Inv, Tables
        <3> QED BY <1>5, <2>3, <3>1, <3>2, <3>3 DEF Inv, Tables
    <2>5. Elsewhere(b)
        BY <1>5, <2>1 DEF Elsewhere, Subscribers
    <2>6. Inv'
        BY <1>2, <1>5, <2>4, WriteKeepsInv
    <2>7. Pending(w)' = {SubscribedKey(u)}
        BY <1>1, <1>2, <1>5, WroteMoves DEF AfterKeys
    <2>8. /\ IdKey(b) \in gap /\ NamesKey(u) \in gap /\ ImagesKey(u, b) \in gap
          /\ RowKeys(buckets[b]) \subseteq gap /\ SubscribedKeys \subseteq gap \cup {SubscribedKey(u)}
        <3>1. SubscribedKey(u) \notin RowKeys(buckets[b]) \cup {IdKey(b), NamesKey(u), ImagesKey(u, b)}
            BY DEF RowKeys, SubscribedKey, OwnedKey, NamesKey, TokenKey, IdKey, ImagesKey
        <3> QED BY <1>1, <3>1 DEF SubscriptionGap
    <2>9. ASSUME NEW k \in (Reach(b) \cup Reach(b)') \cap Key
          PROVE  Answer(k)' = Answer(k) \/ k \in gap \/ k \in Pending(w)'
        <3> DEFINE P == Answer(k)' = Answer(k) \/ k \in gap \/ k \in Pending(w)'
        <3>1. k \in RowKeys(buckets[b]) \cup RowKeys(buckets'[b]) => P
            BY <1>5, <2>8
        <3>2. k \in {IdKey(b)} \cup SubscribedKeys => P
            BY <2>7, <2>8
        <3>3. k = WhitelistKey(b) => P
            <4>1. Answer(WhitelistKey(b)) = IF Exists(b) THEN {v \in User : <<b, v>> \in bucket_whitelists} ELSE None
                BY Answers DEF AnswersAre
            <4>2. Answer(WhitelistKey(b))' = IF Exists(b)' THEN {v \in User : <<b, v>> \in bucket_whitelists'} ELSE None
                BY NextAnswers DEF AnswersAre
            <4>3. UNCHANGED bucket_whitelists /\ (Exists(b)' <=> Exists(b))
                BY <1>3, <1>5, <2>3
            <4> QED BY <4>1, <4>2, <4>3
        <3>4. \A v \in User : k = AdmittedKey(b, v) => P
            BY <1>5, GateAnswer
        <3>5. \A v \in User : k = ImagesKey(v, b) => P
            <4> SUFFICES ASSUME NEW v \in User, v # u PROVE Answer(ImagesKey(v, b))' = Answer(ImagesKey(v, b))
                BY <2>8
            <4>1. /\ Exists(b)' <=> Exists(b)
                  /\ Owns(v, b)' <=> Owns(v, b)
                  /\ Visible(v, b)' <=> Visible(v, b)
                  /\ images'[b] = images[b]
                  /\ v \in Subscribers(b)' <=> v \in Subscribers(b)
                BY <1>3, <1>5, <2>1, <2>3
            <4> QED BY <4>1, ImagesAnswer
        <3>6. \A v \in Subscribers(b) \cup Subscribers(b)' : k = NamesKey(v) => P
            <4> SUFFICES ASSUME NEW v \in User, v # u PROVE Answer(NamesKey(v))' = Answer(NamesKey(v))
                BY <2>8 DEF Subscribers
            <4> QED BY <1>5, <2>1, <2>3, NamesAnswer
        <3> HIDE DEF P
        <3>7. P
            BY <1>3, <3>1, <3>2, <3>3, <3>4, <3>5, <3>6, ReachCases
        <3> QED BY <3>7 DEF P
    <2>10. NoUnexplainedStaleness'
        BY <1>2, <1>3, <1>5, <2>4, <2>5, <2>8, <2>9, WriteExplained
    <2> QED BY <2>6, <2>10
<1>6. CASE Subscribe(w)
    BY <1>1, <1>4, <1>5, <1>6 DEF Subscribe
<1>7. CASE Unsubscribe(w)
    BY <1>1, <1>5, <1>7 DEF Unsubscribe
<1> QED BY <1>6, <1>7

\* The owner's list of those let in: bucket entries do not show it.
LEMMA WhitelistKeeps ==
    ASSUME Inv, NoUnexplainedStaleness, NEW w \in Worker, EditWhitelist(w)
    PROVE  Inv' /\ NoUnexplainedStaleness'
<1>1. PICK b, u, a, gap : /\ b = proc[w].bucket /\ u = proc[w].user /\ a = proc[w].arg
                          /\ gap = {SubscribedKey(a), ImagesKey(a, b)}
    OBVIOUS
<1>2. proc[w].pc = "write" /\ proc[w].op \in {"allow", "deny"} /\ UNCHANGED cache
        /\ proc[w].op \notin Twice
    BY DEF EditWhitelist, Writing, Twice
<1>3. u \in User /\ b \in Bucket /\ a \in User
    BY <1>1, <1>2, Writer DEF ArgTyped
<1>4. CASE Goto(w, Idle) /\ UNCHANGED <<db, watched, writes, faults, excused, admitted>>
    BY <1>2, <1>4, QuitKeeps
<1>5. ASSUME \/ UNCHANGED bucket_whitelists
             \/ Exists(b) /\ bucket_whitelists' = bucket_whitelists \cup {<<b, a>>}
             \/ bucket_whitelists' = bucket_whitelists \ {<<b, a>>},
             UNCHANGED <<buckets, created, issued, bucket_subscriptions, images>>,
             Wrote(w), Note(gap)
      PROVE  Inv' /\ NoUnexplainedStaleness'
    <2>1. \A c \in Bucket, v \in User :
              c # b \/ v # a => (<<c, v>> \in bucket_whitelists' <=> <<c, v>> \in bucket_whitelists)
        BY <1>5
    <2>2. \A c : Subscribers(c)' = Subscribers(c)
        BY <1>5, SubscribersSame
    <2>3. \A c \in Bucket : /\ Exists(c)' <=> Exists(c)
                            /\ StoredBucket(c)' = StoredBucket(c)
                            /\ \A v \in User : Owns(v, c)' <=> Owns(v, c)
        BY <1>5, <2>2, RowSame DEF Exists, Owns
    <2>4. Tables'
        <3>1. bucket_whitelists' \subseteq Bucket \X User
            BY <1>3, <1>5 DEF Inv, Tables
        <3>2. \A e \in bucket_whitelists' : Exists(e[1])'
            BY <1>3, <1>5, <2>3 DEF Inv, Tables
        <3> QED BY <1>5, <2>2, <2>3, <3>1, <3>2 DEF Inv, Tables
    <2>5. Elsewhere(b)
        BY <1>5, <2>1 DEF Elsewhere
    <2>6. Inv'
        BY <1>2, <1>5, <2>4, WriteKeepsInv
    <2>7. Pending(w)' = {WhitelistKey(b)} \cup AdmittedKeys
        BY <1>1, <1>2, <1>5, WroteMoves DEF AfterKeys
    <2>8. ASSUME NEW k \in (Reach(b) \cup Reach(b)') \cap Key
          PROVE  Answer(k)' = Answer(k) \/ k \in gap \/ k \in Pending(w)'
        <3> DEFINE P == Answer(k)' = Answer(k) \/ k \in gap \/ k \in Pending(w)'
        <3>1. ASSUME NEW v \in User PROVE /\ Answer(OwnedKey(v))' = Answer(OwnedKey(v))
                                         /\ Answer(NamesKey(v))' = Answer(NamesKey(v))
            <4>1. Owned(v)' = Owned(v)
                BY <2>3 DEF Owned
            <4>2. \A c \in Owned(v) : StoredBucket(c)' = StoredBucket(c)
                BY <2>3 DEF Owned
            <4>3. Answer(OwnedKey(v)) = {StoredBucket(c) : c \in Owned(v)}
                BY Answers DEF AnswersAre
            <4>4. Answer(OwnedKey(v))' = {StoredBucket(c)' : c \in Owned(v)'}
                BY NextAnswers DEF AnswersAre
            <4>5. Answer(NamesKey(v))' = Answer(NamesKey(v))
                BY <1>5, <2>2, <2>3, NamesAnswer
            <4> QED BY <4>1, <4>2, <4>3, <4>4, <4>5
        <3>2. ASSUME NEW t PROVE Answer(TokenKey(t))' = Answer(TokenKey(t))
            <4>1. Holders(t)' = Holders(t)
                BY <1>5, <2>3 DEF Holders
            <4>2. Holders(t) # {} => StoredBucket(First(Holders(t)))' = StoredBucket(First(Holders(t)))
                <5> DEFINE c == First(Holders(t))
                <5>1. c' = c
                    BY <4>1
                <5>2. Holders(t) # {} => c \in Bucket
                    BY FirstIsMember DEF Holders
                <5> HIDE DEF c
                <5>3. ASSUME NEW x \in Bucket PROVE StoredBucket(x)' = StoredBucket(x)
                    BY <2>3
                <5> QED BY <5>1, <5>2, <5>3 DEF StoredBucket, c
            <4> QED BY <4>1, <4>2, Answers, NextAnswers DEF AnswersAre
        <3>3. k \in RowKeys(buckets[b]) => P
            <4> SUFFICES ASSUME k \in RowKeys(buckets[b]) PROVE Answer(k)' = Answer(k)
                OBVIOUS
            <4>1. buckets[b] \in Row
                BY <1>3 DEF Inv, Tables, RowKeys
            <4>2. buckets[b].owner \in User
                BY <4>1 DEF Row
            <4> QED BY <3>1, <3>2, <4>2 DEF RowKeys
        <3>4. k \in RowKeys(buckets'[b]) => P
            BY <1>5, <3>3
        <3>5. k = IdKey(b) => P
            <4>1. OptionBucket(b)' = OptionBucket(b)
                BY <1>3, <2>3 DEF OptionBucket
            <4>2. Answer(IdKey(b)) = OptionBucket(b) /\ Answer(IdKey(b))' = OptionBucket(b)'
                BY Answers, NextAnswers DEF AnswersAre
            <4> QED BY <4>1, <4>2
        <3>6. k = WhitelistKey(b) => P
            BY <2>7
        <3>7. k \in SubscribedKeys => P
            <4> SUFFICES ASSUME NEW v \in User, v # a, k = SubscribedKey(v) PROVE Answer(k)' = Answer(k)
                BY <1>1 DEF SubscribedKeys
            <4>1. SubscribedTo(v)' = SubscribedTo(v)
                BY <2>2, <2>3 DEF SubscribedTo
            <4>2. \A c \in SubscribedTo(v) : /\ StoredBucket(c)' = StoredBucket(c)
                                             /\ Visible(v, c)' <=> Visible(v, c)
                BY <1>5, <2>1, <2>3 DEF SubscribedTo, Visible
            <4>3. {c \in SubscribedTo(v) : Visible(v, c)}' = {c \in SubscribedTo(v) : Visible(v, c)}
                BY <4>1, <4>2
            <4>4. Answer(k) = {StoredBucket(c) : c \in {c \in SubscribedTo(v) : Visible(v, c)}}
                BY Answers DEF AnswersAre
            <4>5. Answer(k)' = {StoredBucket(c)' : c \in {c \in SubscribedTo(v) : Visible(v, c)}'}
                BY NextAnswers DEF AnswersAre
            <4> QED BY <4>2, <4>3, <4>4, <4>5
        <3>8. \A v \in User : k = AdmittedKey(b, v) => P
            BY <1>3, <2>7 DEF AdmittedKeys
        <3>9. \A v \in User : k = ImagesKey(v, b) => P
            <4> SUFFICES ASSUME NEW v \in User, v # a PROVE Answer(ImagesKey(v, b))' = Answer(ImagesKey(v, b))
                BY <1>1
            <4>1. /\ Exists(b)' <=> Exists(b)
                  /\ Owns(v, b)' <=> Owns(v, b)
                  /\ Visible(v, b)' <=> Visible(v, b)
                  /\ images'[b] = images[b]
                  /\ v \in Subscribers(b)' <=> v \in Subscribers(b)
                BY <1>3, <1>5, <2>1, <2>2, <2>3 DEF Visible
            <4> QED BY <4>1, ImagesAnswer
        <3>10. \A v \in Subscribers(b) \cup Subscribers(b)' : k = NamesKey(v) => P
            BY <2>2, <3>1 DEF Subscribers
        <3> HIDE DEF P
        <3>11. P
            BY <1>3, <3>3, <3>4, <3>5, <3>6, <3>7, <3>8, <3>9, <3>10, ReachCases
        <3> QED BY <3>11 DEF P
    <2>9. RowKeys(buckets[b]) \subseteq RowKeys(buckets'[b]) \cup gap
        BY <1>5
    <2>10. NoUnexplainedStaleness'
        BY <1>2, <1>3, <1>5, <2>4, <2>5, <2>8, <2>9, WriteExplained
    <2> QED BY <2>6, <2>10
<1>6. ASSUME bucket_whitelists' = IF ~Owns(u, b) THEN bucket_whitelists
                                  ELSE IF proc[w].op = "allow" THEN bucket_whitelists \cup {<<b, a>>}
                                  ELSE bucket_whitelists \ {<<b, a>>},
             UNCHANGED <<buckets, created, issued, bucket_subscriptions, images>>,
             Wrote(w), Note(gap)
      PROVE  Inv' /\ NoUnexplainedStaleness'
    BY <1>5, <1>6 DEF Owns
<1> QED BY <1>1, <1>4, <1>6 DEF EditWhitelist

\* A bucket gains or loses an image.
LEMMA ImagesKeep ==
    ASSUME Inv, NoUnexplainedStaleness, NEW w \in Worker, EditImages(w)
    PROVE  Inv' /\ NoUnexplainedStaleness'
<1>1. PICK b, u, gap : /\ b = proc[w].bucket /\ u = proc[w].user
                       /\ gap = RowKeys(buckets[b]) \cup {IdKey(b)} \cup SubscribedKeys
    OBVIOUS
<1>2. proc[w].pc = "write" /\ proc[w].op \in {"add_image", "delete_image"} /\ UNCHANGED cache
        /\ proc[w].op \notin Twice
    BY DEF EditImages, Writing, Twice
<1>3. u \in User /\ b \in Bucket
    BY <1>1, <1>2, Writer
<1>4. CASE Goto(w, Idle) /\ UNCHANGED <<db, watched, writes, faults, excused, admitted>>
    BY <1>2, <1>4, QuitKeeps
<1>5. ASSUME NEW n \in Nat,
             images' = images \/ (Exists(b) /\ images' = [images EXCEPT ![b] = n]),
             UNCHANGED <<buckets, created, issued, bucket_subscriptions, bucket_whitelists>>,
             Wrote(w), Note(gap)
      PROVE  Inv' /\ NoUnexplainedStaleness'
    <2>1. \A c : Subscribers(c)' = Subscribers(c)
        BY <1>5, SubscribersSame
    <2>2. \A c \in Bucket : /\ Exists(c)' <=> Exists(c)
                            /\ c # b => images'[c] = images[c]
        BY <1>5 DEF Exists, Inv, Tables
    <2>3. Tables'
        <3>1. images' \in [Bucket -> Nat] /\ (~Exists(b) => images' = images)
            BY <1>5 DEF Inv, Tables
        <3> QED BY <1>5, <2>1, <2>2, <3>1 DEF Inv, Tables
    <2>4. Elsewhere(b)
        BY <1>5, <2>2 DEF Elsewhere
    <2>5. Inv'
        BY <1>2, <1>5, <2>3, WriteKeepsInv
    <2>6. Pending(w)' = ImagesKeys
        BY <1>2, <1>5, WroteMoves DEF AfterKeys
    <2>7. ASSUME NEW k \in (Reach(b) \cup Reach(b)') \cap Key
          PROVE  Answer(k)' = Answer(k) \/ k \in gap \/ k \in Pending(w)'
        <3> DEFINE P == Answer(k)' = Answer(k) \/ k \in gap \/ k \in Pending(w)'
        <3>1. k \in RowKeys(buckets[b]) \cup RowKeys(buckets'[b]) \cup {IdKey(b)} \cup SubscribedKeys => P
            BY <1>1, <1>5
        <3>2. k = WhitelistKey(b) => P
            <4>1. Answer(WhitelistKey(b)) = IF Exists(b) THEN {v \in User : <<b, v>> \in bucket_whitelists} ELSE None
                BY Answers DEF AnswersAre
            <4>2. Answer(WhitelistKey(b))' = IF Exists(b)' THEN {v \in User : <<b, v>> \in bucket_whitelists'} ELSE None
                BY NextAnswers DEF AnswersAre
            <4>3. UNCHANGED bucket_whitelists /\ (Exists(b)' <=> Exists(b))
                BY <1>3, <1>5, <2>2
            <4> QED BY <4>1, <4>2, <4>3
        <3>3. \A v \in User : k = AdmittedKey(b, v) => P
            BY <1>5, GateAnswer
        <3>4. \A v \in User : k = ImagesKey(v, b) => P
            BY <1>3, <2>6 DEF ImagesKeys
        <3>5. \A v \in Subscribers(b) \cup Subscribers(b)' : k = NamesKey(v) => P
            <4> SUFFICES ASSUME NEW v \in User PROVE Answer(NamesKey(v))' = Answer(NamesKey(v))
                BY <2>1 DEF Subscribers
            <4> QED BY <1>5, <2>1, <2>2, NamesAnswer
        <3> HIDE DEF P
        <3>6. P
            BY <1>3, <3>1, <3>2, <3>3, <3>4, <3>5, ReachCases
        <3> QED BY <3>6 DEF P
    <2>8. RowKeys(buckets[b]) \subseteq RowKeys(buckets'[b]) \cup gap
        BY <1>5
    <2>9. NoUnexplainedStaleness'
        BY <1>2, <1>3, <1>5, <2>3, <2>4, <2>7, <2>8, WriteExplained
    <2> QED BY <2>5, <2>9
<1>6. images[b] \in Nat /\ images[b] + 1 \in Nat /\ ImagesLeft(b) \in Nat
    BY <1>3 DEF ImagesLeft, Inv, Tables
<1>7. CASE proc[w].op = "add_image"
    <2>1. CASE Owns(u, b)
        BY <1>1, <1>5, <1>6, <1>7, <2>1 DEF EditImages, Owns
    <2>2. CASE ~Owns(u, b)
        BY <1>1, <1>4, <1>7, <2>2 DEF EditImages
    <2> QED BY <2>1, <2>2
<1>8. CASE proc[w].op = "delete_image"
    BY <1>1, <1>5, <1>6, <1>8 DEF EditImages, Owns
<1> QED BY <1>2, <1>7, <1>8

-----------------------------------------------------------------------------
(* Types and staleness *)

LEMMA InitKeeps == Init => Inv /\ NoUnexplainedStaleness
<1> SUFFICES ASSUME Init PROVE Inv /\ NoUnexplainedStaleness
    OBVIOUS
<1>1. PICK rows \in [Stock -> {[NewBucket(u, n) EXCEPT !.share_token = t] :
                                 u \in User, n \in Name, t \in StockToken}] :
          /\ buckets = [b \in Bucket |-> IF b \in Stock THEN rows[b] ELSE None]
          /\ issued = {rows[b].share_token : b \in Stock} \ {None}
    BY DEF Init
<1>2. {[NewBucket(u, n) EXCEPT !.share_token = t] : u \in User, n \in Name, t \in StockToken} \subseteq Row
    <2> DEFINE T(u, n, t) == [NewBucket(u, n) EXCEPT !.share_token = t]
    <2>1. ASSUME NEW u \in User, NEW n \in Name, NEW t \in StockToken PROVE T(u, n, t) \in Row
        <3>1. t \in Token \cup {None}
            BY CacheAssumption
        <3>2. NewBucket(u, n) \in Row
            BY DEF NewBucket, Row
        <3> QED BY <3>1, <3>2 DEF Row
    <2> HIDE DEF T
    <2>2. {T(u, n, t) : u \in User, n \in Name, t \in StockToken} \subseteq Row
        BY <2>1
    <2> QED BY <2>2 DEF T
<1>3. \A b \in Stock : rows[b] \in Row
    BY <1>1, <1>2
<1>4. buckets \in [Bucket -> Row \cup {None}] /\ \A b \in Bucket \ Stock : buckets[b] = None
    BY <1>1, <1>3
<1>5. issued \subseteq Token
    BY <1>1, <1>3 DEF Row
<1>6. \A b \in Bucket : Subscribers(b) = {}
    BY DEF Init, Subscribers
<1>7. Tables
    <2>1. \A b \in Bucket : IsFiniteSet(Subscribers(b))
        BY <1>6, FS_EmptySet
    <2>2. created = Stock /\ bucket_subscriptions = {} /\ bucket_whitelists = {}
            /\ images = [b \in Bucket |-> 0]
        BY DEF Init
    <2> QED BY <1>4, <1>5, <1>6, <2>1, <2>2, CacheAssumption DEF Tables, Exists
<1>8. Handled
    BY IdleReady DEF Init, Handled
<1>9. Cached
    BY DEF Init, Cached
<1>10. Fresh
    BY UnbornApart DEF Init, Fresh, Idle
<1>11. Counters
    BY CacheAssumption DEF Init, Counters, Open
<1>12. Stale = {}
    BY DEF Init, Stale
<1> QED BY <1>7, <1>8, <1>9, <1>10, <1>11, <1>12 DEF Inv, NoUnexplainedStaleness

LEMMA WritesKeep ==
    ASSUME Inv, NoUnexplainedStaleness, NEW w \in Worker, Write(w)
    PROVE  Inv' /\ NoUnexplainedStaleness'
BY CreateKeeps, UpdatesKeep, DeleteKeeps, SubscriptionKeeps, WhitelistKeeps, ImagesKeep DEF Write

LEMMA StepKeeps ==
    ASSUME Inv, NoUnexplainedStaleness, [Next]_vars
    PROVE  Inv' /\ NoUnexplainedStaleness'
<1>1. ASSUME NEW w \in Worker, Get(w) \/ Request(w) \/ Lookup(w) \/ StatementFails(w)
      PROVE  Inv' /\ NoUnexplainedStaleness'
    BY <1>1, GetKeepsInv, RequestKeepsInv, LookupKeepsInv, EndingKeepsInv, ReadsExplained
<1>2. ASSUME NEW w \in Worker, Fill(w)
      PROVE  Inv' /\ NoUnexplainedStaleness'
    BY <1>2, FillKeepsInv, FillExplained
<1>3. ASSUME NEW w \in Worker, ReadBucket(w) \/ ReadFails(w) \/ DropEntries(w) \/ Finish(w) \/ Disconnect(w)
      PROVE  Inv' /\ NoUnexplainedStaleness'
    BY <1>3, InvalidationKeepsInv, EndingKeepsInv, InvalidationExplained
<1>4. ASSUME NEW k \in Key, Expire(k)
      PROVE  Inv' /\ NoUnexplainedStaleness'
    BY <1>4, ExpireKeepsInv, ExpiryExplained
<1>5. CASE UNCHANGED vars
    <2>1. UNCHANGED db /\ UNCHANGED <<cache, proc, watched, writes, faults, excused, admitted>>
        BY <1>5 DEF vars, db
    <2>2. Inv'
        BY <2>1, TablesStay DEF Inv, Tables, Handled, Cached, Fresh, Unborn, Counters, db
    <2>3. \A k : Answer(k)' = Answer(k)
        BY <2>1, AnswersStay
    <2>4. Stale' = Stale
        BY <2>1, <2>3 DEF Stale
    <2>5. \A w \in Worker : Pending(w)' = Pending(w)
        BY <2>1 DEF Pending, BucketKeys, RowKeys, AfterKeys, db
    <2> QED BY <2>1, <2>2, <2>4, <2>5 DEF NoUnexplainedStaleness
<1> QED BY <1>1, <1>2, <1>3, <1>4, <1>5, WritesKeep DEF Next, Serve

LEMMA CacheInvariant == Spec => [](Inv /\ NoUnexplainedStaleness)
<1>1. Inv /\ NoUnexplainedStaleness /\ [Next]_vars => (Inv /\ NoUnexplainedStaleness)'
    BY StepKeeps
<1> QED BY <1>1, InitKeeps, PTL DEF Spec

\* Every variable keeps its type: above all, what is cached under a key and
\* what a handler is about to cache there is an answer to that key's query.
THEOREM CacheTypes == Spec => []TypeOK
<1>1. Inv => TypeOK
    BY DEF Inv, Tables, Handled, Handler, Cached, Counters, TypeOK
<1> QED BY <1>1, CacheInvariant, PTL

\* With any number of users, buckets, handlers and requests, an entry that
\* differs from the database is one that a handler past its statement has yet to
\* drop, or one whose staleness has a named cause: a write overtook the answer,
\* the code drops the key before the statement only or not at all, an
\* invalidation failed to read its row, or its handler was lost.
THEOREM EveryStaleEntryExplained == Spec => []NoUnexplainedStaleness
BY CacheInvariant, PTL

-----------------------------------------------------------------------------
(* Who becomes a subscriber *)

LEMMA AdmitsForGood ==
    ASSUME admitted \subseteq admitted', NEW k, NEW v, Admits(k, v)
    PROVE  Admits(k, v)'
BY DEF Admits

\* What the database answers lets in only those it is open to.
LEMMA AnswersAdmit ==
    ASSUME Inv, Open \subseteq admitted, NEW k \in Key, NEW u
    PROVE  Admits(k, AnswerTo(u, k))
<1>1. \A b \in Bucket, v \in User : <<b, v>> \in bucket_whitelists => <<v, b>> \in admitted
    BY DEF Inv, Tables, Open
<1>2. ASSUME NEW b \in Bucket, NEW v \in User, k = AdmittedKey(b, v), AnswerTo(u, k) = TRUE
      PROVE  <<v, b>> \in admitted
    <2>1. AnswerTo(u, k) = Answer(k)
        BY <1>2 DEF AnswerTo, AdmittedKey
    <2>2. Answer(k) = (<<b, v>> \in bucket_whitelists)
        BY <1>2, Answers DEF AnswersAre
    <2>3. <<b, v>> \in bucket_whitelists
        BY <1>2, <2>1, <2>2, Zenon
    <2> QED BY <1>1, <2>3
<1>3. ASSUME NEW t \in Token, k = TokenKey(t), AnswerTo(u, k) # None
      PROVE  AnswerTo(u, k).row.whitelist_enabled \/ \A v \in User : <<v, AnswerTo(u, k).id>> \in admitted
    <2>1. AnswerTo(u, k) = Answer(k)
        BY <1>3 DEF AnswerTo, TokenKey
    <2>2. Holders(t) # {} /\ Answer(k) = StoredBucket(First(Holders(t)))
        BY <1>3, <2>1, Answers DEF AnswersAre
    <2>3. PICK b \in Holders(t) : Answer(k) = StoredBucket(b)
        BY <2>2, FirstIsMember
    <2>4. b \in Bucket /\ Exists(b) /\ buckets[b].share_token = t /\ t # None
        BY <2>3, CacheAssumption DEF Holders
    <2>5. Answer(k).id = b /\ Answer(k).row = buckets[b]
        BY <2>3 DEF StoredBucket
    <2> QED BY <2>1, <2>4, <2>5 DEF Open
<1> QED BY <1>2, <1>3 DEF Admits

\* A handler goes on to its write only past a gate that was once open to it.
LEMMA AnsweredAdmitted ==
    ASSUME NEW p \in Handler, Ready(p), p.pc \in {"lookup", "fill"}, NEW v \in AnswerType(p.key),
           Admits(p.key, v), Answered(p, v).op = "subscribe", Answered(p, v).pc \in {"read", "drop", "write"}
    PROVE  <<Answered(p, v).user, Answered(p, v).bucket>> \in admitted
<1>1. p.op = "subscribe" /\ p.user \in User
    <2>1. Answered(p, v) # Idle
        BY DEF Idle
    <2> QED BY <2>1 DEF Answered, Ready
<1>2. CASE \E t \in Token : p.key = TokenKey(t)
    <2>1. p.key.cache = "bucket_by_token"
        BY <1>2 DEF TokenKey
    <2>2. v \in Stored \cup {None}
        BY <1>2, AnswerTypes
    <2>3. v # None
        BY <1>1, <2>1 DEF Answered, Idle
    <2>4. ~v.row.whitelist_enabled
        BY <1>1, <2>1, <2>3 DEF Answered, Handler
    <2>5. Answered(p, v) = [p EXCEPT !.pc = "read", !.bucket = v.id, !.key = None, !.value = None]
        BY <1>1, <2>1, <2>3, <2>4 DEF Answered
    <2>6. Answered(p, v).user = p.user /\ Answered(p, v).bucket = v.id
        BY <2>5 DEF Handler
    <2> QED BY <1>1, <1>2, <2>3, <2>4, <2>6 DEF Admits
<1>3. CASE p.bucket \in Bucket /\ p.key = AdmittedKey(p.bucket, p.user)
    <2>1. p.key.cache = "is_whitelisted"
        BY <1>3 DEF AdmittedKey
    <2>2. v \in BOOLEAN
        BY <1>3, AnswerTypes
    <2>3. v = TRUE
        <3>1. CASE v = FALSE
            BY <1>1, <2>1, <3>1 DEF Answered, Idle
        <3> QED BY <2>2, <3>1
    <2>4. Answered(p, v) = [p EXCEPT !.pc = "read", !.key = None, !.value = None]
        BY <1>1, <2>1, <2>3 DEF Answered
    <2>5. Answered(p, v).user = p.user /\ Answered(p, v).bucket = p.bucket
        BY <2>4 DEF Handler
    <2> QED BY <1>1, <1>3, <2>3, <2>5 DEF Admits
<1> QED BY <1>1, <1>2, <1>3 DEF Ready

\* One handler moves; what the gates need of it.
LEMMA MoveKeepsGates ==
    ASSUME Inv, Gates, NEW w \in Worker, \A x \in Worker \ {w} : proc'[x] = proc[x],
           admitted \subseteq admitted', Open' \subseteq admitted', bucket_subscriptions' \subseteq admitted',
           \A k \in Key : cache'[k] = Miss \/ cache'[k] = cache[k] \/ Admits(k, cache'[k]),
           proc'[w].pc = "fill" => Admits(proc'[w].key, proc'[w].value),
           proc'[w].op = "subscribe" /\ proc'[w].pc \in {"read", "drop", "write"} =>
               <<proc'[w].user, proc'[w].bucket>> \in admitted'
    PROVE  Gates'
<1>1. ASSUME NEW k \in Key, cache'[k] # Miss PROVE Admits(k, cache[k])' 
    <2>1. PICK v : v = cache'[k]
        OBVIOUS
    <2>2. Admits(k, v)
        BY <1>1, <2>1 DEF Gates
    <2>3. Admits(k, v)'
        BY <2>2, AdmitsForGood
    <2> QED BY <2>1, <2>3 DEF Admits
<1>2. ASSUME NEW x \in Worker, proc'[x].pc = "fill" PROVE Admits(proc[x].key, proc[x].value)'
    <2>1. PICK k, v : k = proc'[x].key /\ v = proc'[x].value
        OBVIOUS
    <2>2. Admits(k, v)
        BY <1>2, <2>1 DEF Gates
    <2>3. Admits(k, v)'
        BY <2>2, AdmitsForGood
    <2> QED BY <2>1, <2>3 DEF Admits
<1>3. \A x \in Worker : proc'[x].op = "subscribe" /\ proc'[x].pc \in {"read", "drop", "write"} =>
          <<proc'[x].user, proc'[x].bucket>> \in admitted'
    BY DEF Gates
<1> QED BY <1>1, <1>2, <1>3 DEF Gates

LEMMA OpenStays ==
    ASSUME UNCHANGED <<buckets, bucket_whitelists>>
    PROVE  Open' = Open
BY DEF Open, Exists

\* Reading goes through the gates, and everything short of a statement leaves
\* them where they are.
LEMMA ReadsKeepGates ==
    ASSUME Inv, Gates, NEW w \in Worker, Lookup(w) \/ Fill(w)
    PROVE  Gates'
<1> DEFINE p == proc[w]
<1>1. p \in Handler /\ Ready(p) /\ p.key \in Key /\ p.pc \in {"lookup", "fill"}
    BY DEF Inv, Handled, Ready, Lookup, Fill
<1>2. UNCHANGED <<buckets, bucket_subscriptions, bucket_whitelists, admitted>>
    BY DEF Lookup, Fill, db
<1>3. /\ admitted \subseteq admitted' /\ Open' \subseteq admitted' /\ bucket_subscriptions' \subseteq admitted'
    BY <1>2, OpenStays DEF Gates
<1>4. ASSUME NEW v \in AnswerType(p.key), Admits(p.key, v), Goto(w, Answered(p, v)),
             \A k \in Key : cache'[k] = cache[k] \/ (k = p.key /\ cache'[k] = v)
      PROVE  Gates'
    <2> DEFINE a == Answered(p, v)
    <2>1. a.pc \in {"idle", "lookup", "read"}
        BY <1>1, AnsweredReady
    <2>2. a.op = "subscribe" /\ a.pc \in {"read", "drop", "write"} => <<a.user, a.bucket>> \in admitted
        BY <1>1, <1>4, AnsweredAdmitted
    <2>3. Goto(w, a)
        BY <1>4
    <2> HIDE DEF a
    <2>4. proc'[w] = a /\ \A x \in Worker \ {w} : proc'[x] = proc[x]
        BY <2>3, OthersWait
    <2>5. \A k \in Key : cache'[k] = Miss \/ cache'[k] = cache[k] \/ Admits(k, cache'[k])
        BY <1>4
    <2> QED BY <1>2, <1>3, <2>1, <2>2, <2>4, <2>5, MoveKeepsGates
<1>5. CASE Lookup(w) /\ cache[p.key] # Miss
    <2>1. cache[p.key] \in AnswerType(p.key) /\ Admits(p.key, cache[p.key])
        BY <1>1, <1>5 DEF Inv, Cached, Gates
    <2>2. Goto(w, Answered(p, cache[p.key])) /\ UNCHANGED cache
        BY <1>5 DEF Lookup
    <2> QED BY <1>4, <2>1, <2>2
<1>6. CASE Lookup(w) /\ cache[p.key] = Miss
    <2> DEFINE v == AnswerTo(p.user, p.key)
               a == [p EXCEPT !.pc = "fill", !.value = v]
    <2>1. Goto(w, a) /\ UNCHANGED cache
        BY <1>6 DEF Lookup
    <2>2. a.pc = "fill" /\ a.key = p.key /\ a.value = v
        BY <1>1 DEF Handler
    <2>3. Admits(p.key, v)
        BY <1>1, AnswersAdmit DEF Gates
    <2> HIDE DEF a, v
    <2>4. proc'[w] = a /\ \A x \in Worker \ {w} : proc'[x] = proc[x]
        BY <2>1, OthersWait
    <2>5. Admits(proc'[w].key, proc'[w].value)
        BY <2>2, <2>3, <2>4
    <2>6. proc'[w].pc \notin {"read", "drop", "write"}
        BY <2>2, <2>4
    <2>7. \A k \in Key : cache'[k] = cache[k]
        BY <2>1
    <2> QED BY <1>3, <2>4, <2>5, <2>6, <2>7, MoveKeepsGates
<1>7. CASE Fill(w)
    <2>1. p.value \in AnswerType(p.key) /\ Admits(p.key, p.value)
        BY <1>1, <1>7 DEF Gates, Fill, Ready
    <2>2. Goto(w, Answered(p, p.value)) /\ cache' = [cache EXCEPT ![p.key] = p.value]
        BY <1>7 DEF Fill
    <2>3. \A k \in Key : cache'[k] = cache[k] \/ (k = p.key /\ cache'[k] = p.value)
        BY <1>1, <2>2 DEF Inv, Cached
    <2> QED BY <1>4, <2>1, <2>2, <2>3
<1> QED BY <1>5, <1>6, <1>7

LEMMA InvalidationKeepsGates ==
    ASSUME Inv, Gates, NEW w \in Worker,
           \/ Get(w) \/ Request(w) \/ ReadBucket(w) \/ ReadFails(w) \/ DropEntries(w)
           \/ Finish(w) \/ StatementFails(w) \/ Disconnect(w)
    PROVE  Gates'
<1> DEFINE p == proc[w]
<1>1. p \in Handler
    BY DEF Inv, Handled
<1>2. UNCHANGED <<buckets, bucket_subscriptions, bucket_whitelists, admitted>>
    BY DEF Get, Request, ReadBucket, ReadFails, DropEntries, Finish, StatementFails, Disconnect, db
<1>3. /\ admitted \subseteq admitted' /\ Open' \subseteq admitted' /\ bucket_subscriptions' \subseteq admitted'
    BY <1>2, OpenStays DEF Gates
<1>4. \A k \in Key : cache'[k] = Miss \/ cache'[k] = cache[k]
    BY DEF Get, Request, ReadBucket, ReadFails, DropEntries, Finish, StatementFails, Disconnect, Drop
<1>5. ASSUME NEW t, Goto(w, t), t.pc # "fill",
             t.op = "subscribe" /\ t.pc \in {"read", "drop", "write"} => <<t.user, t.bucket>> \in admitted
      PROVE  Gates'
    <2>1. proc'[w] = t /\ \A x \in Worker \ {w} : proc'[x] = proc[x]
        BY <1>5, OthersWait
    <2> QED BY <1>2, <1>3, <1>4, <1>5, <2>1, MoveKeepsGates
<1>6. CASE Goto(w, Idle)
    BY <1>5, <1>6 DEF Idle
<1>7. CASE Get(w)
    <2>1. PICK k, u : Goto(w, [Idle EXCEPT !.pc = "lookup", !.op = "get", !.user = u, !.key = k])
        BY <1>7 DEF Get
    <2>2. [Idle EXCEPT !.pc = "lookup", !.op = "get", !.user = u, !.key = k].pc = "lookup"
        BY DEF Idle
    <2> QED BY <1>5, <2>1, <2>2
<1>8. CASE Request(w)
    <2>1. ASSUME NEW u, NEW op, NEW n,
                 op = "create", Goto(w, [Idle EXCEPT !.pc = "write", !.op = op, !.user = u, !.arg = n])
          PROVE  Gates'
        <3>1. [Idle EXCEPT !.pc = "write", !.op = op, !.user = u, !.arg = n].op = "create"
              /\ [Idle EXCEPT !.pc = "write", !.op = op, !.user = u, !.arg = n].pc = "write"
            BY <2>1 DEF Idle
        <3> QED BY <1>5, <2>1, <3>1
    <2>2. ASSUME NEW u, NEW op, NEW t,
                 Goto(w, [Idle EXCEPT !.pc = "lookup", !.op = op, !.user = u, !.key = TokenKey(t)])
          PROVE  Gates'
        <3>1. [Idle EXCEPT !.pc = "lookup", !.op = op, !.user = u, !.key = TokenKey(t)].pc = "lookup"
            BY DEF Idle
        <3> QED BY <1>5, <2>2, <3>1
    <2>3. ASSUME NEW u, NEW op \in Ops, NEW b, NEW a, op # "subscribe",
                 Goto(w, [Idle EXCEPT !.pc = IF op \in Guarded THEN "read" ELSE "write",
                                      !.op = op, !.user = u, !.bucket = b, !.arg = a])
          PROVE  Gates'
        <3> DEFINE t == [Idle EXCEPT !.pc = IF op \in Guarded THEN "read" ELSE "write",
                                     !.op = op, !.user = u, !.bucket = b, !.arg = a]
        <3>1. t.pc \in {"read", "write"} /\ t.op = op
            BY DEF Idle
        <3>2. Goto(w, t)
            BY <2>3
        <3> HIDE DEF t
        <3> QED BY <1>5, <2>3, <3>1, <3>2
    <2>4. PICK u \in User, op \in Ops \ {"get"} :
          \/ /\ op = "create"
             /\ \E n \in Name : Goto(w, [Idle EXCEPT !.pc = "write", !.op = op, !.user = u, !.arg = n])
          \/ \E t \in issued : Goto(w, [Idle EXCEPT !.pc = "lookup", !.op = op, !.user = u, !.key = TokenKey(t)])
          \/ \E b \in created, a \in Name \cup Token \cup User \cup BOOLEAN \cup {None} :
                /\ CASE op = "rename"             -> a \in Name
                     [] op = "share"              -> a \in NewToken \cup {None}
                     [] op = "protect"            -> a \in BOOLEAN
                     [] op \in {"allow", "deny"}  -> a \in User
                     [] op \in {"delete", "unsubscribe", "add_image", "delete_image"} -> a = None
                     [] OTHER                     -> FALSE
                /\ Goto(w, [Idle EXCEPT !.pc = IF op \in Guarded THEN "read" ELSE "write",
                                        !.op = op, !.user = u, !.bucket = b, !.arg = a])
        BY <1>8, ZenonT(60) DEF Request
    <2>5. CASE op = "subscribe"
        <3>1. PICK t \in issued : Goto(w, [Idle EXCEPT !.pc = "lookup", !.op = op, !.user = u, !.key = TokenKey(t)])
            BY <2>4, <2>5
        <3> QED BY <2>2, <3>1
    <2>6. CASE op # "subscribe"
        <3> QED BY <2>1, <2>2, <2>3, <2>4, <2>6
    <2> QED BY <2>5, <2>6
<1>9. ASSUME NEW pc \in {"drop", "write", "redrop"}, NEW s, Goto(w, [p EXCEPT !.pc = pc, !.snap = s]),
             pc = "drop" => p.pc = "read", pc = "write" => p.pc = "drop"
      PROVE  Gates'
    <2> DEFINE t == [p EXCEPT !.pc = pc, !.snap = s]
    <2>1. t.pc = pc /\ t.op = p.op /\ t.user = p.user /\ t.bucket = p.bucket
        BY <1>1 DEF Handler
    <2>2. Goto(w, t)
        BY <1>9
    <2> HIDE DEF t
    <2> QED BY <1>5, <1>9, <2>1, <2>2 DEF Gates
<1>10. CASE ReadBucket(w) \/ ReadFails(w)
    BY <1>9, <1>10 DEF ReadBucket, ReadFails
<1>11. CASE DropEntries(w)
    BY <1>6, <1>9, <1>11 DEF DropEntries
<1> QED BY <1>6, <1>7, <1>8, <1>10, <1>11 DEF Finish, StatementFails, Disconnect

LEMMA WritesKeepGates ==
    ASSUME Inv, Gates, NEW w \in Worker, Write(w)
    PROVE  Gates'
<1>1. UNCHANGED cache /\ proc[w].pc = "write"
    BY DEF Write, CreateBucket, RenameBucket, DeleteBucket, SetShareToken, SetWhitelistEnabled,
           Subscribe, Unsubscribe, EditWhitelist, EditImages, Writing
<1>2. \/ UNCHANGED <<buckets, bucket_whitelists, admitted>> /\ Goto(w, Idle)
      \/ Wrote(w) /\ admitted' = admitted \cup Open'
    BY DEF Write, CreateBucket, RenameBucket, DeleteBucket, SetShareToken, SetWhitelistEnabled,
           Subscribe, Unsubscribe, EditWhitelist, EditImages, Note, db
<1>3. admitted \subseteq admitted' /\ Open' \subseteq admitted'
    BY <1>2, OpenStays DEF Gates
<1>4. bucket_subscriptions' \subseteq admitted'
    <2>1. CASE Subscribe(w)
        <3>1. <<proc[w].user, proc[w].bucket>> \in admitted
            BY <2>1 DEF Subscribe, Writing, Gates
        <3>2. bucket_subscriptions' \subseteq bucket_subscriptions \cup {<<proc[w].user, proc[w].bucket>>}
            BY <2>1 DEF Subscribe, db
        <3> QED BY <1>3, <3>1, <3>2 DEF Gates
    <2>2. CASE bucket_subscriptions' \subseteq bucket_subscriptions
        BY <1>3, <2>2 DEF Gates
    <2> QED BY <2>1, <2>2 DEF Write, CreateBucket, RenameBucket, DeleteBucket, SetShareToken,
               SetWhitelistEnabled, Unsubscribe, EditWhitelist, EditImages, db
<1>5. proc'[w].pc \in {"idle", "reread", "finish"} /\ \A x \in Worker \ {w} : proc'[x] = proc[x]
    <2>1. CASE Goto(w, Idle)
        BY <2>1, OthersWait DEF Idle
    <2>2. CASE Wrote(w)
        BY <1>1, <2>2, WroteMoves
    <2> QED BY <1>2, <2>1, <2>2
<1> QED BY <1>1, <1>3, <1>4, <1>5, MoveKeepsGates

\* subscribe_bucket decides on two answers that may both be old by the time it
\* writes, whatever the other handlers, expiries and lost requests did between:
\* whoever it subscribes was on the whitelist, or the bucket was shared without
\* one, at some time before.
THEOREM SubscribersWereLetIn == Spec => []SubscribersWereAdmitted
<1>1. Init => Gates
    BY UnbornApart DEF Init, Gates, Idle
<1>2. ASSUME Inv, Gates, [Next]_vars
      PROVE  Gates'
    <2>1. ASSUME NEW w \in Worker, Serve(w) PROVE Gates'
        BY <1>2, <2>1, ReadsKeepGates, InvalidationKeepsGates, WritesKeepGates DEF Serve
    <2>2. ASSUME NEW w \in Worker, Get(w) \/ Request(w) \/ ReadFails(w) \/ StatementFails(w) \/ Disconnect(w)
          PROVE  Gates'
        BY <1>2, <2>2, InvalidationKeepsGates
    <2>3. ASSUME UNCHANGED <<buckets, bucket_subscriptions, bucket_whitelists, admitted, proc>>,
                 \A k \in Key : cache'[k] = Miss \/ cache'[k] = cache[k]
          PROVE  Gates'
        <3>1. Open' = Open
            BY <2>3, OpenStays
        <3>2. \A k \in Key : cache'[k] # Miss => Admits(k, cache[k])'
            <4> SUFFICES ASSUME NEW k \in Key, cache'[k] # Miss PROVE Admits(k, cache[k])'
                OBVIOUS
            <4>1. Admits(k, cache[k]) /\ cache'[k] = cache[k]
                BY <1>2, <2>3 DEF Gates
            <4> QED BY <2>3, <4>1 DEF Admits
        <3>3. \A x \in Worker : proc'[x].pc = "fill" => Admits(proc[x].key, proc[x].value)'
            BY <1>2, <2>3 DEF Gates, Admits
        <3> QED BY <1>2, <2>3, <3>1, <3>2, <3>3 DEF Gates
    <2>4. ASSUME NEW k \in Key, Expire(k) PROVE Gates'
        <3>1. cache' = [cache EXCEPT ![k] = Miss] /\ DOMAIN cache = Key
            BY <1>2, <2>4 DEF Expire, Inv, Cached
        <3>2. \A x \in Key : cache'[x] = Miss \/ cache'[x] = cache[x]
            BY <3>1
        <3> QED BY <2>3, <2>4, <3>2 DEF Expire, db
    <2>5. CASE UNCHANGED vars
        BY <2>3, <2>5 DEF vars
    <2> QED BY <1>2, <2>1, <2>2, <2>4, <2>5 DEF Next
<1>3. Gates => SubscribersWereAdmitted
    BY DEF Gates, SubscribersWereAdmitted
<1> QED BY <1>1, <1>2, <1>3, CacheInvariant, PTL DEF Spec

=============================================================================
