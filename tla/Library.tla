-------------------------------- MODULE Library --------------------------------
(***************************************************************************)
(* Buckets, the images in them and what users write on them: the requests   *)
(* that write the tables buckets and images (api/images.rs,                 *)
(* repositories/images.rs, api/buckets.rs), the two Discord commands that   *)
(* add an image (discord/interactions.rs), and export and import            *)
(* (services/account.rs, repositories/users.rs).  Accounts stay: Accounts   *)
(* models their deletion.                                                   *)
(*                                                                          *)
(* A SQL transaction is one step; a request that awaits between statements  *)
(* takes one step per statement, and others run in between.  A request the  *)
(* server refuses before its first write changes nothing and is left out.   *)
(* Titles and favourites are written like the random weight and read by     *)
(* nothing here; tags and notes are kept by who wrote them.                 *)
(*                                                                          *)
(* update_image reads the row through a cache (repositories/cached.rs).  A   *)
(* write drops its entries after its transaction, in a step of its own where *)
(* an entry may now hold older notes than the row: after an update and a     *)
(* move.  The other writes leave no notes of the user's, and drop as they    *)
(* write.  Entries expire, so any read may miss; that a row is not there is  *)
(* answered with a refusal, remembered or not.                               *)
(***************************************************************************)
EXTENDS Naturals, FiniteSets

CONSTANTS
    User, Bucket, Image, \* ids; a UUID is never drawn twice
    Name,          \* bucket names after trim and to_lowercase
    Inbox,         \* the name the Discord message command adds to
    Link,          \* image URLs
    Worker,        \* requests in flight that take more than one step
    None,          \* SQL NULL; a row not yet inserted
    Gone,          \* a row deleted
    Keep,          \* a field a PATCH does not name
    Stocks,        \* the tables a server may start over
    Posts,         \* bound: what the links clients send resolve to
    Patches,       \* bound: the changes they ask for
    Traffics       \* bound: which requests a behaviour's clients send, how many, over which tables

Requests == {"create_image", "upload_image", "add_to_bucket", "add_to_inbox", "update_image",
             "bulk_update_images", "delete_images", "move_images", "create_bucket",
             "rename_bucket", "delete_bucket", "admit", "export", "import", "pick", "draw"}

BucketRow == [owner: User, name: Name]
Words     == [notes: {None, "own", "auto"}, tags: SUBSET {"own", "social"}, enabled: BOOLEAN]
ImageRow  == [owner: User, bucket: Bucket, url: Link, words: Words]
Entry     == [name: Name, image: Image, url: Link, words: Words]
Reading   == [user: User, bucket: Bucket, image: Image, notes: {None, "own", "auto"}, late: BOOLEAN]
\* What a link resolves to: the URL to store, and what the post it led to says.
TwitterMedia == [url: Link, notes: {None, "auto"}, tags: {{}, {"social"}}]
BlueskyMedia == [url: Link, notes: {"auto"}, tags: {{}, {"social"}}]
PlainMedia   == [url: Link, notes: {None}, tags: {{}}]
Media        == TwitterMedia \cup BlueskyMedia \cup PlainMedia
Patch     == [media: Media \cup {None}, notes: {Keep, None, "own"}, tags: {Keep, {}, {"own"}},
              enabled: {Keep, TRUE, FALSE}]

ASSUME LibraryAssumption ==
    /\ Inbox \in Name /\ Posts \subseteq Media /\ Patches \subseteq Patch
    /\ None \notin User \cup Bucket \cup Image \cup BucketRow \cup ImageRow \cup Media
    /\ None \notin {"own", "auto"}
    /\ Gone \notin BucketRow \cup ImageRow \cup {None}
    /\ \A v \in {None, "own"} : Keep # v
    /\ \A v \in {{}, {"own"}} : Keep # v
    /\ \A v \in BOOLEAN : Keep # v
    /\ Traffics \subseteq [kinds: SUBSET Requests, most: Nat, over: SUBSET Stocks]

\* The tables of a server that ran before are as it may leave them.
ASSUME StocksAssumption ==
    \A s \in Stocks :
        /\ s.buckets \in [Bucket -> BucketRow \cup {None, Gone}]
        /\ s.images \in [Image -> ImageRow \cup {None, Gone}]
        /\ s.readers \in SUBSET (User \X Bucket)
        /\ \A b, c \in Bucket : s.buckets[b] = s.buckets[c] => b = c \/ s.buckets[b] \in {None, Gone}
        /\ \A i \in Image : s.images[i] \in ImageRow =>
              /\ s.buckets[s.images[i].bucket] \in BucketRow
              /\ s.buckets[s.images[i].bucket].owner = s.images[i].owner

VARIABLES
    buckets,   \* id -> row, None or Gone
    images,    \* id -> row, None or Gone
    readers,   \* pairs <<user, bucket>>: subscribed, and let in by the whitelist
    proc,      \* where each request stands
    cached,    \* the cache behind get_for_owner
    file,      \* the last export a client downloaded, or None
    kinds,     \* the requests this behaviour's clients send
    left,      \* how many they have yet to send
    during     \* history: what others did while a request was in flight

tables == <<buckets, images, readers>>
vars   == <<buckets, images, readers, proc, cached, file, kinds, left, during>>

Idle == [pc |-> "idle", user |-> None, bucket |-> None, image |-> None, media |-> None,
         patch |-> None, existing |-> None, late |-> FALSE, due |-> {}, todo |-> {},
         names |-> {}, listed |-> {}, held |-> {}]

Stored(t, x)  == t[x] \notin {None, Gone}
Owns(u, b)    == Stored(buckets, b) /\ buckets[b].owner = u
OwnBuckets(u) == {b \in Bucket : Owns(u, b)}
Named(u, n)   == {b \in OwnBuckets(u) : buckets[b].name = n}
Images        == {i \in Image : Stored(images, i)}
\* WHERE owner_user_id = ? AND bucket_id = ? AND id = ?
Matches(u, b, i) == Stored(images, i) /\ images[i].owner = u /\ images[i].bucket = b
Fresh(t, S)   == {x \in S : t[x] = None}

NewRow(u, b, url, tags) ==
    [owner |-> u, bucket |-> b, url |-> url,
     words |-> [notes |-> None, tags |-> tags, enabled |-> TRUE]]

Init ==
    /\ proc = [w \in Worker |-> Idle]
    /\ cached = {}
    /\ file = None
    /\ \E t \in Traffics :
          /\ kinds = t.kinds /\ left = t.most
          /\ \E s \in t.over : buckets = s.buckets /\ images = s.images /\ readers = s.readers
    /\ during = [w \in Worker |-> {}]

-----------------------------------------------------------------------------
(* The frame of a step *)

\* A client sends a request of this kind.
Sent(kind) == kind \in kinds /\ left > 0 /\ left' = left - 1 /\ UNCHANGED kinds

Begin(w, p) == proc[w].pc = "idle" /\ proc' = [proc EXCEPT ![w] = p]
At(w, pc)   == proc[w].pc = pc
Goto(w, pc) == proc' = [proc EXCEPT ![w] = IF pc = "idle" THEN Idle ELSE [@ EXCEPT !.pc = pc]]

\* Every request that waits through this step is crossed by its events.
Crossing(events) ==
    during' = [w \in Worker |-> IF proc'[w].pc = "idle" THEN {}
                                ELSE IF proc'[w] # proc[w] THEN during[w]
                                ELSE during[w] \cup events]
Edited(i) == {<<"edited", i>>}
Moved(S)  == {<<"moved", x>> : x \in S}
Quiet     == {}

\* The rest of a step: of a request that is one transaction, of the first step
\* of one that is not, and of its later steps.
Atomic(events)  == UNCHANGED <<proc, cached, file>> /\ Crossing(events)
Opens(events)   == UNCHANGED <<cached, file>> /\ Crossing(events)
Resumes(events) == UNCHANGED <<kinds, left, cached, file>> /\ Crossing(events)

\* The key an entry is under, and a request asks for; the drop of some keys, and
\* whether a request has yet to drop one.
Key(x)  == <<x.user, x.bucket, x.image>>
Drop(K) == cached' = {e \in cached : Key(e) \notin K}
Due(k)  == \E w \in Worker : k \in proc[w].due
\* Mutant: nothing is dropped after the transaction.
DropsNothing(K) == [Idle EXCEPT !.pc = "drop"]
\* A request that has written and has yet to drop.
Drops(K) == [Idle EXCEPT !.pc = "drop", !.due = K]

-----------------------------------------------------------------------------
(* Adding images *)

Insert(i, u, b, url, tags) ==
    /\ Owns(u, b)
    /\ images' = [images EXCEPT ![i] = NewRow(u, b, url, tags)]

\* The link is resolved before anything is read; then the row, then its notes.
CreateImage(w) ==
    /\ Sent("create_image")
    /\ \E u \in User, b \in Bucket, m \in Posts, own \in {{}, {"own"}}, i \in Fresh(images, Image) :
           /\ Insert(i, u, b, m.url, own \cup m.tags)
           /\ IF m.notes = None THEN UNCHANGED proc
              ELSE Begin(w, [Idle EXCEPT !.pc = "notes", !.user = u, !.bucket = b, !.image = i,
                                         !.media = [m EXCEPT !.tags = {}]])
           /\ Opens(Quiet)
           /\ UNCHANGED <<buckets, readers>>

\* The bucket's owner is read before the upload and again by the INSERT, and never changes.
UploadImage ==
    /\ Sent("upload_image")
    /\ \E u \in User, b \in Bucket, url \in Link, i \in Fresh(images, Image) :
          Insert(i, u, b, url, {})
    /\ Atomic(Quiet)
    /\ UNCHANGED <<buckets, readers>>

\* /bucket add: the bucket is looked up by name after the link is resolved.
AddToBucket(w) ==
    /\ Sent("add_to_bucket")
    /\ \E u \in User, n \in Name, m \in Posts : \E b \in Named(u, n) :
           /\ Begin(w, [Idle EXCEPT !.pc = "insert", !.user = u, !.bucket = b, !.media = m])
           /\ Opens(Quiet)
           /\ UNCHANGED tables

\* INSERT ... ON CONFLICT DO NOTHING: a conflict leaves the lookup for the next step.
CreateInbox(w) ==
    /\ Sent("add_to_inbox")
    /\ \E u \in User, m \in Posts :
           LET p == [Idle EXCEPT !.user = u, !.media = m] IN
           /\ IF Named(u, Inbox) # {}
              THEN Begin(w, [p EXCEPT !.pc = "find"]) /\ UNCHANGED buckets
              ELSE \E b \in Fresh(buckets, Bucket) :
                      /\ buckets' = [buckets EXCEPT ![b] = [owner |-> u, name |-> Inbox]]
                      /\ Begin(w, [p EXCEPT !.pc = "insert", !.bucket = b])
           /\ Opens(Quiet)
           /\ UNCHANGED <<images, readers>>

\* Mutant: the conflict ends the request.
ConflictFails(w) ==
    At(w, "find") /\ Goto(w, "idle") /\ Resumes(Quiet) /\ UNCHANGED tables

FindInbox(w) ==
    /\ At(w, "find")
    /\ \/ \E b \in Named(proc[w].user, Inbox) :
             proc' = [proc EXCEPT ![w].pc = "insert", ![w].bucket = b]
       \/ Named(proc[w].user, Inbox) = {} /\ Goto(w, "idle")
    /\ Resumes(Quiet) /\ UNCHANGED tables

\* The rest of a row the Discord commands add comes in two more statements.
AfterInsert(m) == IF m.notes # None THEN "notes" ELSE IF m.tags # {} THEN "tags" ELSE "idle"
AfterNotes(m)  == IF m.tags # {} THEN "tags" ELSE "idle"

InsertAdded(w) ==
    LET p == proc[w] IN
    /\ At(w, "insert")
    /\ \/ \E i \in Fresh(images, Image) :
             /\ Insert(i, p.user, p.bucket, p.media.url, {})
             /\ proc' = [proc EXCEPT ![w] = IF AfterInsert(p.media) = "idle" THEN Idle
                                            ELSE [p EXCEPT !.pc = AfterInsert(p.media), !.image = i]]
       \/ ~Owns(p.user, p.bucket) /\ Goto(w, "idle") /\ UNCHANGED images
    /\ Resumes(Quiet) /\ UNCHANGED <<buckets, readers>>

\* update_notes, its failure ignored.
WriteNotes(w) ==
    LET p == proc[w] IN
    /\ At(w, "notes")
    /\ images' = IF Matches(p.user, p.bucket, p.image)
                 THEN [images EXCEPT ![p.image].words.notes = p.media.notes] ELSE images
    /\ Drop({Key(p)})
    /\ Goto(w, AfterNotes(p.media)) /\ Crossing(Quiet)
    /\ UNCHANGED <<buckets, readers, kinds, left, file>>

WriteTags(w) ==
    LET p == proc[w] IN
    /\ At(w, "tags")
    /\ images' = IF Matches(p.user, p.bucket, p.image)
                 THEN [images EXCEPT ![p.image].words.tags = p.media.tags] ELSE images
    /\ Drop({Key(p)})
    /\ Goto(w, "idle") /\ Crossing(Quiet)
    /\ UNCHANGED <<buckets, readers, kinds, left, file>>

-----------------------------------------------------------------------------
(* Changing, moving and deleting images *)

\* Mutant: a post's words fill the notes whatever is there.
PostAlwaysFills(explicit, auto, existing) ==
    IF explicit # Keep THEN explicit ELSE IF auto # None THEN auto ELSE Keep

\* What the request says wins; a post's words only fill notes found empty.
NotesPatch(explicit, auto, existing) ==
    IF explicit # Keep THEN explicit
    ELSE IF auto # None /\ existing = None THEN auto ELSE Keep

\* A new link brings its post's tags, and they replace the row's with the request's.
TagsPatch(p) ==
    IF p.media = None THEN p.tags
    ELSE (IF p.tags = Keep THEN {} ELSE p.tags) \cup p.media.tags

Patched(new, old) == IF new = Keep THEN old ELSE new

\* A miss: the row is read, and stored in the next step.
ReadExisting(w) ==
    /\ Sent("update_image")
    /\ \E u \in User, b \in Bucket, i \in Image, p \in Patches :
           /\ Matches(u, b, i)
           /\ Begin(w, [Idle EXCEPT !.pc = "fill", !.user = u, !.bucket = b, !.image = i,
                                    !.patch = p, !.existing = images[i].words.notes])
           /\ Opens(Quiet)
           /\ UNCHANGED tables

\* late is history: the image was edited or moved after it was read.
ReadingOf(w) ==
    LET p == proc[w] IN
    [user |-> p.user, bucket |-> p.bucket, image |-> p.image, notes |-> p.existing,
     late |-> during[w] \cap (Edited(p.image) \cup Moved({p.image})) # {}]

\* After its read a request may be refused for its title, its weight or its link.
FillExisting(w) ==
    /\ At(w, "fill")
    /\ cached' = {e \in cached : Key(e) # Key(proc[w])} \cup {ReadingOf(w)}
    /\ Goto(w, "patch") \/ Goto(w, "idle")
    /\ Crossing(Quiet)
    /\ UNCHANGED <<tables, kinds, left, file>>

\* A hit.  An edit whose request has yet to drop the entry crosses this one, too.
RecallExisting(w) ==
    /\ Sent("update_image")
    /\ \E e \in cached, p \in Patches :
           /\ Begin(w, [Idle EXCEPT !.pc = "patch", !.user = e.user, !.bucket = e.bucket,
                                    !.image = e.image, !.patch = p, !.existing = e.notes,
                                    !.late = e.late])
           /\ during' = [x \in Worker |-> IF x # w THEN during[x]
                                         ELSE IF Due(Key(e)) THEN Edited(e.image) ELSE Quiet]
           /\ UNCHANGED <<tables, cached, file>>

\* Resolving a new link takes seconds; then update_metadata_partial in one
\* transaction, and the drop, whether it found the row or not.
UpdateImage(w) ==
    LET p == proc[w]  m == p.patch.media
        auto  == IF m = None THEN None ELSE m.notes
        notes == NotesPatch(p.patch.notes, auto, p.existing)
        row   == images[p.image]
    IN
    /\ At(w, "patch")
    /\ images' = IF ~Matches(p.user, p.bucket, p.image) THEN images
                 ELSE [images EXCEPT ![p.image] =
                         [row EXCEPT !.url = IF m = None THEN @ ELSE m.url,
                                     !.words = [notes   |-> Patched(notes, @.notes),
                                                tags    |-> Patched(TagsPatch(p.patch), @.tags),
                                                enabled |-> Patched(p.patch.enabled, @.enabled)]]]
    /\ proc' = [proc EXCEPT ![w] = Drops({Key(p)})]
    /\ Resumes(IF p.patch.notes = "own" \/ p.patch.tags = {"own"} THEN Edited(p.image) ELSE Quiet)
    /\ UNCHANGED <<buckets, readers>>

DropEntries(w) ==
    /\ At(w, "drop")
    /\ Drop(proc[w].due)
    /\ Goto(w, "idle") /\ Crossing(Quiet)
    /\ UNCHANGED <<tables, kinds, left, file>>

\* The images of u in bucket b.
Matching(u, b) == {i \in Images : Matches(u, b, i)}

Edit(S, enabled, add, remove) ==
    [i \in Image |-> IF i \notin S THEN images[i]
                     ELSE [images[i] EXCEPT !.words.enabled = Patched(enabled, @),
                                            !.words.tags = (@ \ remove) \cup add]]

\* All the images or none: one that does not match rolls the transaction back.
BulkUpdateImages ==
    /\ Sent("bulk_update_images")
    /\ \E u \in User, b \in Bucket :
       \E S \in SUBSET Matching(u, b) \ {{}}, enabled \in {Keep, TRUE, FALSE},
          add \in {{}, {"own"}}, remove \in SUBSET {"own", "social"} :
           /\ enabled # Keep \/ add \cup remove # {}
           /\ images' = Edit(S, enabled, add, remove)
           /\ Drop({u} \X {b} \X S) /\ UNCHANGED <<proc, file>>
           /\ Crossing(IF add = {} THEN Quiet ELSE UNION {Edited(i) : i \in S})
    /\ UNCHANGED <<buckets, readers>>

\* Those named that match; the others are skipped.
DeleteImages ==
    /\ Sent("delete_images")
    /\ \E u \in User, b \in Bucket : \E S \in SUBSET Matching(u, b) \ {{}} :
           /\ images' = [i \in Image |-> IF i \in S THEN Gone ELSE images[i]]
           /\ Drop({u} \X {b} \X S) /\ UNCHANGED <<proc, file>>
           /\ Crossing(Moved(S))
    /\ UNCHANGED <<buckets, readers>>

Relocate(S, c) ==
    [i \in Image |-> IF i \in S THEN [images[i] EXCEPT !.bucket = c] ELSE images[i]]

\* Mutant: the new bucket's owner is not asked for.
MoveAnywhere(w) ==
    /\ Sent("move_images")
    /\ \E u \in User, b, c \in Bucket : \E S \in SUBSET Matching(u, b) \ {{}} :
           /\ Stored(buckets, c)
           /\ images' = Relocate(S, c)
           /\ Begin(w, Drops({u} \X {b, c} \X S))
           /\ Opens(Moved(S))
    /\ UNCHANGED <<buckets, readers>>

MoveImages(w) ==
    /\ Sent("move_images")
    /\ \E u \in User, b, c \in Bucket : \E S \in SUBSET Matching(u, b) \ {{}} :
           /\ Owns(u, c)
           /\ images' = Relocate(S, c)
           /\ Begin(w, Drops({u} \X {b, c} \X S))
           /\ Opens(Moved(S))
    /\ UNCHANGED <<buckets, readers>>

-----------------------------------------------------------------------------
(* Buckets *)

CreateBucket ==
    /\ Sent("create_bucket")
    /\ \E u \in User, n \in Name, b \in Fresh(buckets, Bucket) :
          /\ Named(u, n) = {}
          /\ buckets' = [buckets EXCEPT ![b] = [owner |-> u, name |-> n]]
    /\ Atomic(Quiet)
    /\ UNCHANGED <<images, readers>>

\* Mutant: no constraint on the folded name.
RenameToAnyName ==
    /\ Sent("rename_bucket")
    /\ \E u \in User, b \in Bucket, n \in Name :
           /\ Owns(u, b)
           /\ buckets' = [buckets EXCEPT ![b].name = n]
           /\ Atomic(Moved({b}))
    /\ UNCHANGED <<images, readers>>

\* UNIQUE(owner_user_id, name_folded) refuses another bucket's name.
RenameBucket ==
    /\ Sent("rename_bucket")
    /\ \E u \in User, b \in Bucket, n \in Name :
           /\ Owns(u, b) /\ Named(u, n) \subseteq {b}
           /\ buckets' = [buckets EXCEPT ![b].name = n]
           /\ Atomic(Moved({b}))
           /\ UNCHANGED <<images, readers>>

\* Mutant: the images stay.
DeleteBucketOnly ==
    /\ Sent("delete_bucket")
    /\ \E u \in User, b \in Bucket :
           /\ Owns(u, b)
           /\ buckets' = [buckets EXCEPT ![b] = Gone]
           /\ readers' = {a \in readers : a[2] # b}
           /\ Atomic(Moved({b}))
    /\ UNCHANGED images

\* ON DELETE CASCADE takes the images and the subscriptions along.
DeleteBucket ==
    /\ Sent("delete_bucket")
    /\ \E u \in User, b \in Bucket :
           LET inside == {i \in Images : images[i].bucket = b} IN
           /\ Owns(u, b)
           /\ buckets' = [buckets EXCEPT ![b] = Gone]
           /\ images' = [i \in Image |-> IF i \in inside THEN Gone ELSE images[i]]
           /\ readers' = {a \in readers : a[2] # b}
           /\ Atomic(Moved(inside \cup {b}))

\* A user subscribes or leaves, or the owner's whitelist lets one in or shuts one out.
AdmitOrExpel ==
    /\ Sent("admit")
    /\ \E u \in User, b \in Bucket :
          /\ Stored(buckets, b) /\ ~Owns(u, b)
          /\ readers' = IF <<u, b>> \in readers THEN readers \ {<<u, b>>} ELSE readers \cup {<<u, b>>}
    /\ Atomic(Quiet)
    /\ UNCHANGED <<buckets, images>>

-----------------------------------------------------------------------------
(* Reading *)

CanRead(u, b) == Stored(buckets, b) /\ (Owns(u, b) \/ <<u, b>> \in readers)

\* list_for_bucket asks for the image's owner, or for a subscription to its bucket.
Listed(u, b) ==
    {i \in Images : images[i].bucket = b /\ (images[i].owner = u \/ <<u, b>> \in readers)}

\* search_for_user without filters: the image's owner must be the bucket's.
Found(u) ==
    {i \in Images : LET r == images[i] IN
        /\ Stored(buckets, r.bucket) /\ buckets[r.bucket].owner = r.owner
        /\ r.owner = u \/ <<u, r.bucket>> \in readers}

-----------------------------------------------------------------------------
(* Export and import *)

Entries(b, name, S) ==
    {[name |-> name, image |-> i, url |-> images[i].url, words |-> images[i].words] : i \in S}

\* list_for_user; held is history: what the user has as the export begins.
ExportStart(w) ==
    /\ Sent("export")
    /\ \E u \in User :
           /\ Begin(w, [Idle EXCEPT !.pc = "export", !.user = u,
                                    !.todo = {[id |-> b, name |-> buckets[b].name] : b \in OwnBuckets(u)},
                                    !.held = {<<i, buckets[images[i].bucket].name>> :
                                              i \in {j \in Images : images[j].owner = u}}])
           /\ Opens(Quiet)
           /\ UNCHANGED tables

ExportBucket(w) ==
    LET p == proc[w] IN
    /\ At(w, "export")
    /\ \E b \in p.todo :
          proc' = [proc EXCEPT ![w].todo = @ \ {b},
                               ![w].listed = @ \cup Entries(b.id, b.name, Listed(p.user, b.id)),
                               ![w].names = @ \cup {b.name}]
    /\ Resumes(Quiet) /\ UNCHANGED tables

\* Mutant: the export ends one bucket early.
ExportStopsEarly(w) ==
    LET p == proc[w] IN
    /\ At(w, "export") /\ Cardinality(p.todo) <= 1
    /\ file' = [into |-> None, names |-> p.names, entries |-> p.listed,
                held |-> {h \in p.held : <<"moved", h[1]>> \notin during[w]}]
    /\ Goto(w, "idle") /\ Crossing(Quiet)
    /\ UNCHANGED <<tables, cached, kinds, left>>

ExportDone(w) ==
    LET p == proc[w] IN
    /\ At(w, "export") /\ p.todo = {}
    /\ file' = [into |-> None, names |-> p.names, entries |-> p.listed,
                held |-> {h \in p.held : <<"moved", h[1]>> \notin during[w]}]
    /\ Goto(w, "idle") /\ Crossing(Quiet)
    /\ UNCHANGED <<tables, cached, kinds, left>>

\* What u has not: names without a bucket, and per bucket the URLs not in it.
NewNames(u)  == {n \in file.names : Named(u, n) = {}}
\* Mutant: a URL in any bucket of the user's counts as held.
HoldsAnywhere(u, n, url) == \E i \in Images : images[i].owner = u /\ images[i].url = url

Holds(u, n, url) ==
    \E i \in Images : images[i].owner = u /\ images[i].bucket \in Named(u, n) /\ images[i].url = url

NewPairs(u)  == {<<e.name, e.url>> : e \in {x \in file.entries : ~Holds(u, x.name, x.url)}}

\* ids is the new bucket of each new name, the others being there.
AddBuckets(u, ids) ==
    [b \in Bucket |-> IF \E n \in DOMAIN ids : ids[n] = b
                      THEN [owner |-> u, name |-> CHOOSE n \in DOMAIN ids : ids[n] = b]
                      ELSE buckets[b]]

BucketFor(u, n, ids) == IF n \in DOMAIN ids THEN ids[n] ELSE CHOOSE c \in Named(u, n) : TRUE

\* rows is the new image of each name and URL.
AddImages(u, ids, rows, first) ==
    [i \in Image |->
        IF \E p \in DOMAIN rows : rows[p] = i
        THEN LET p == CHOOSE q \in DOMAIN rows : rows[q] = i
             IN [owner |-> u, bucket |-> BucketFor(u, p[1], ids), url |-> p[2], words |-> first[p].words]
        ELSE images[i]]

\* One transaction; of the entries for one URL in one bucket the first goes in.
\* into is history: who imported the file last, and by which request.
ImportUserData ==
    /\ Sent("import") /\ file # None
    /\ \E u \in User :
       \E ids \in [NewNames(u) -> Fresh(buckets, Bucket)], rows \in [NewPairs(u) -> Fresh(images, Image)],
          first \in [NewPairs(u) -> file.entries] :
            /\ \A m, n \in NewNames(u) : m # n => ids[m] # ids[n]
            /\ \A p, q \in NewPairs(u) : p # q => rows[p] # rows[q]
            /\ \A p \in NewPairs(u) : <<first[p].name, first[p].url>> = p
            /\ buckets' = AddBuckets(u, ids)
            /\ images' = AddImages(u, ids, rows, first)
            /\ file' = [file EXCEPT !.into = <<u, left>>]
    /\ UNCHANGED <<readers, proc, cached>> /\ Crossing(Quiet)

-----------------------------------------------------------------------------
Next ==
    \/ \E w \in Worker : \/ CreateImage(w) \/ AddToBucket(w) \/ CreateInbox(w) \/ FindInbox(w)
                         \/ InsertAdded(w) \/ WriteNotes(w) \/ WriteTags(w)
                         \/ ReadExisting(w) \/ FillExisting(w) \/ RecallExisting(w)
                         \/ UpdateImage(w) \/ MoveImages(w) \/ DropEntries(w)
                         \/ ExportStart(w) \/ ExportBucket(w) \/ ExportDone(w)
    \/ UploadImage \/ BulkUpdateImages \/ DeleteImages
    \/ CreateBucket \/ RenameBucket \/ DeleteBucket \/ AdmitOrExpel
    \/ ImportUserData

Spec == Init /\ [][Next]_vars

-----------------------------------------------------------------------------
(* Properties *)

IdsOf(t) == {x \in DOMAIN t : t[x] \notin {None, Gone}}

\* Every value has its type; a user's buckets have different names.
TypeOK ==
    /\ buckets \in [Bucket -> BucketRow \cup {None, Gone}]
    /\ images \in [Image -> ImageRow \cup {None, Gone}]
    /\ readers \in SUBSET (User \X Bucket)
    /\ \A u \in User, n \in Name : \A b, c \in Named(u, n) : b = c
    /\ cached \subseteq Reading
    /\ kinds \subseteq Requests /\ left \in Nat

\* Every image is in a bucket of its owner, whatever moves, deletions, imports
\* and late inserts cross: the schema ties an image to a bucket and to a user,
\* and nothing in it ties the two together.
ImageInOwnersBucket == \A i \in Images : Owns(images[i].owner, images[i].bucket)

\* The listing of a bucket, the search and the check before a send let the same
\* users at the same images, though each writes the rule out for itself.
ReadersAgree ==
    \A u \in User :
        /\ Found(u) = UNION {Listed(u, b) : b \in Bucket}
        /\ \A b \in Bucket : Listed(u, b) # {} => CanRead(u, b)

\* An entry shows an image that is there under the bucket it is in, and with the
\* notes the user wrote, unless an edit or a move overtook the entry on its way in
\* or a request has yet to drop it.
StaleReadingsExplained ==
    \A e \in cached : Stored(images, e.image) =>
        \/ e.late \/ Due(Key(e))
        \/ /\ Matches(e.user, e.bucket, e.image)
           /\ images[e.image].words.notes = "own" => e.notes = "own"

\* What a post says replaces what the user wrote on the image only when the request
\* that wrote it and the replacing one were in flight together, or the replacing one
\* went by an entry of the cache that an edit or a move overtook on its way in; a
\* PATCH with a new link and no tags is the one that drops the user's tags of before.
OwnWordsKept ==
    [][\A i \in Image : Stored(images, i) /\ images'[i] \notin {None, Gone} =>
        LET old == images[i].words  new == images'[i].words
            Crossed(w) == proc[w].image = i /\ (<<"edited", i>> \in during[w] \/ proc[w].late)
        IN /\ old.notes = "own" /\ new.notes = "auto" => \E w \in Worker : Crossed(w)
           /\ "own" \in old.tags \ new.tags /\ "social" \in new.tags \ old.tags =>
                \E w \in Worker : \/ Crossed(w)
                                  \/ proc[w].image = i /\ proc[w].pc = "patch" /\ proc[w].patch.tags # {"own"}
      ]_vars

\* An add to the Inbox whose link resolved gives up only when the user deleted or
\* renamed the bucket meanwhile, however many adds create the Inbox at once.
InboxAddLands ==
    [][\A w \in Worker :
        /\ proc[w].pc \in {"find", "insert"} /\ proc'[w] = Idle /\ images' = images
        => \E e \in during[w] : e[1] = "moved" /\ e[2] \in Bucket]_vars

\* An export lists every image the user kept in place throughout exactly once,
\* under the name its bucket had.
ExportComplete ==
    file # None => \A h \in file.held :
        /\ \E e \in file.entries : e.image = h[1] /\ e.name = h[2]
        /\ Cardinality({e \in file.entries : e.image = h[1]}) = 1

Copies(t, b, u, n, url) ==
    Cardinality({i \in IdsOf(t) : /\ t[i].owner = u /\ t[i].url = url
                                  /\ b[t[i].bucket] = [owner |-> u, name |-> n]})

\* An import leaves every URL of the file in the user's bucket of that name, adds
\* none that was there and none twice, and touches nothing else.
ImportRestores ==
    [][file # None /\ file'.into # file.into /\ file'.into # None =>
        /\ \A i \in Images : images'[i] = images[i]
        /\ \A n \in Name, url \in Link :
             LET u      == file'.into[1]
                 before == Copies(images, buckets, u, n, url)
                 listed == \E e \in file.entries : e.name = n /\ e.url = url
             IN Copies(images', buckets', u, n, url) = IF listed /\ before = 0 THEN 1 ELSE before
      ]_vars
=============================================================================
