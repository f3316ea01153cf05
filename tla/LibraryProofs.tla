----------------------------- MODULE LibraryProofs -----------------------------
(***************************************************************************)
(* Proofs about Library, as its steps occur among those of Sends: types,    *)
(* whose bucket an image is in, who may look at it, and what becomes of     *)
(* requests that others cross.                                              *)
(***************************************************************************)
EXTENDS Sends, FiniteSetTheorems, TLAPS

-----------------------------------------------------------------------------
(* The invariant *)

Notes    == {None, "own", "auto"}
AllTags  == SUBSET {"own", "social"}
AnyMedia == [url: Link, notes: {None, "auto"}, tags: SUBSET {"social"}]
ToList   == [id: Bucket, name: Name]

Request ==
    [pc: {"idle", "find", "insert", "notes", "tags", "fill", "patch", "drop", "export"},
     user: User \cup {None}, bucket: Bucket \cup {None}, image: Image \cup {None},
     media: AnyMedia \cup {None}, patch: Patch \cup {None}, existing: Notes,
     late: BOOLEAN, due: SUBSET (User \X Bucket \X Image),
     todo: SUBSET ToList, names: SUBSET Name, listed: SUBSET Entry, held: SUBSET (Image \X Name)]

Export == [into: (User \X Nat) \cup {None}, names: SUBSET Name, entries: SUBSET Entry,
           held: SUBSET (Image \X Name)]

\* What a request holds at each of its steps.
Ready(p) ==
    /\ p.pc \notin {"idle", "drop"} => p.user \in User
    /\ p.pc \in {"insert", "notes", "tags", "fill", "patch"} => p.bucket \in Bucket
    /\ p.pc \in {"notes", "tags", "fill", "patch"} => p.image \in Image
    /\ p.pc \in {"find", "insert", "notes", "tags"} => p.media \in AnyMedia
    /\ p.pc \in {"fill", "patch"} => p.patch \in Patch
    /\ p.pc = "fill" => ~p.late
    /\ p.pc # "drop" => p.due = {}
    /\ \A e \in p.listed : e.name \in p.names

Requested == proc \in [Worker -> Request] /\ \A w \in Worker : Ready(proc[w])

Downloaded ==
    /\ file \in Export \cup {None}
    /\ file # None => \A e \in file.entries : e.name \in file.names

BucketsOK == buckets \in [Bucket -> BucketRow \cup {None, Gone}]
ImagesOK  == images \in [Image -> ImageRow \cup {None, Gone}]
NamesOK   == \A u \in User, n \in Name : \A b, c \in Named(u, n) : b = c

Tables == BucketsOK /\ ImagesOK /\ NamesOK /\ ImageInOwnersBucket /\ readers \in SUBSET (User \X Bucket)

Inv == Tables /\ Requested /\ cached \subseteq Reading /\ Downloaded /\ kinds \subseteq Requests /\ left \in Nat

LEMMA InvGivesTypes == Inv => TypeOK /\ ImageInOwnersBucket
BY DEF Inv, Tables, BucketsOK, ImagesOK, NamesOK, TypeOK

\* A row is a row of its table.
LEMMA StoredRows ==
    ASSUME Tables
    PROVE  /\ \A b \in Bucket : Stored(buckets, b) <=> buckets[b] \in BucketRow
           /\ \A i \in Image : Stored(images, i) <=> images[i] \in ImageRow
BY LibraryAssumption DEF Tables, BucketsOK, ImagesOK, Stored

\* The steps of Sends that are none of Library.
Aside == UNCHANGED <<tables, proc, cached, file, kinds, during>> /\ left' \in Nat

LEMMA SendsSteps ==
    ASSUME left \in Nat, [SendsNext]_allVars
    PROVE  [Next]_vars \/ Aside
<1>1. CASE LibraryStep
  BY <1>1 DEF LibraryStep
<1>2. CASE Tick
  BY <1>2 DEF Tick
<1>3. ASSUME NEW s \in Sender, PickDebounce(s) \/ DrawStart(s) PROVE Aside
  <2>1. Sent("pick") \/ Sent("draw")
    BY <1>3 DEF PickDebounce, DrawStart
  <2>2. left' \in Nat /\ UNCHANGED kinds
    BY <2>1 DEF Sent
  <2> QED
    BY <1>3, <2>2 DEF PickDebounce, DrawStart, Aside
<1>4. ASSUME NEW s \in Sender, PickCount(s) \/ PickRecord(s) \/ DrawFind(s) \/ DrawList(s)
                               \/ DrawRecent(s) \/ DrawRecord(s)
      PROVE  UNCHANGED vars
  BY <1>4 DEF PickCount, PickRecord, DrawFind, DrawList, DrawRecent, DrawRecord
<1>5. CASE UNCHANGED allVars
  BY <1>5 DEF allVars
<1> QED
  BY <1>1, <1>2, <1>3, <1>4, <1>5 DEF SendsNext

-----------------------------------------------------------------------------
(* What the kinds of writes do to the tables *)

\* Rows are inserted into buckets of their owner, deleted, or changed in place.
LEMMA RowsChange ==
    ASSUME Tables, UNCHANGED buckets, readers' \in SUBSET (User \X Bucket),
           images' \in [Image -> ImageRow \cup {None, Gone}],
           \A i \in Image : \/ images'[i] \in {images[i], None, Gone}
                            \/ Owns(images'[i].owner, images'[i].bucket)
                            \/ /\ Stored(images, i)
                               /\ images'[i].owner = images[i].owner
                               /\ images'[i].bucket = images[i].bucket
    PROVE  Tables'
<1>1. BucketsOK' /\ ImagesOK' /\ NamesOK'
  BY DEF Tables, BucketsOK, ImagesOK, NamesOK, Named, OwnBuckets, Owns, Stored
<1>2. \A i \in Image : images'[i] \notin {None, Gone} => Owns(images'[i].owner, images'[i].bucket)
  BY DEF Tables, ImageInOwnersBucket, Images, Stored
<1>3. ImageInOwnersBucket'
  BY <1>2 DEF ImageInOwnersBucket, Images, Owns, Stored
<1> QED
  BY <1>1, <1>3 DEF Tables

LEMMA InsertKeepsTables ==
    ASSUME Tables, NEW i \in Image, NEW u \in User, NEW b \in Bucket, NEW url \in Link,
           NEW tags \in AllTags, Insert(i, u, b, url, tags), UNCHANGED <<buckets, readers>>
    PROVE  Tables'
<1>1. NewRow(u, b, url, tags) \in ImageRow
  BY DEF NewRow, ImageRow, Words, AllTags
<1>2. images' = [images EXCEPT ![i] = NewRow(u, b, url, tags)] /\ Owns(u, b)
  BY DEF Insert
<1>3. images' \in [Image -> ImageRow \cup {None, Gone}]
  BY <1>1, <1>2 DEF Tables, ImagesOK
<1>4. images'[i].owner = u /\ images'[i].bucket = b /\ \A j \in Image \ {i} : images'[j] = images[j]
  BY <1>2 DEF Tables, ImagesOK, NewRow
<1> QED
  BY <1>2, <1>3, <1>4, RowsChange DEF Tables

LEMMA BucketAdded ==
    ASSUME Tables, NEW u \in User, NEW n \in Name, NEW b \in Fresh(buckets, Bucket), Named(u, n) = {},
           buckets' = [buckets EXCEPT ![b] = [owner |-> u, name |-> n]], UNCHANGED <<images, readers>>
    PROVE  Tables' /\ Owns(u, b)'
<1>1. b \in Bucket /\ buckets[b] = None
  BY DEF Fresh
<1>2. [owner |-> u, name |-> n] \in BucketRow
  BY DEF BucketRow
<1>3. BucketsOK' /\ buckets'[b] = [owner |-> u, name |-> n] /\ \A c \in Bucket \ {b} : buckets'[c] = buckets[c]
  BY <1>1, <1>2 DEF Tables, BucketsOK
<1>4. Owns(u, b)'
  BY <1>2, <1>3, LibraryAssumption DEF Owns, Stored
<1>5. NamesOK'
  <2> SUFFICES ASSUME NEW v \in User, NEW m \in Name, NEW c \in Named(v, m)', NEW d \in Named(v, m)'
               PROVE  c = d
    BY DEF NamesOK
  <2>1. /\ c \in Bucket /\ buckets'[c].owner = v /\ buckets'[c].name = m /\ buckets'[c] \notin {None, Gone}
        /\ d \in Bucket /\ buckets'[d].owner = v /\ buckets'[d].name = m /\ buckets'[d] \notin {None, Gone}
    BY DEF Named, OwnBuckets, Owns, Stored
  <2>2. ASSUME NEW x \in Bucket, x # b, buckets'[x].owner = v, buckets'[x].name = m,
               buckets'[x] \notin {None, Gone}
        PROVE  x \in Named(v, m)
    BY <1>3, <2>2 DEF Named, OwnBuckets, Owns, Stored
  <2>3. CASE c = b \/ d = b
    <3>1. v = u /\ m = n
      BY <1>3, <2>1, <2>3
    <3> QED
      BY <2>1, <2>2, <2>3, <3>1
  <2>4. CASE c # b /\ d # b
    BY <2>1, <2>2, <2>4 DEF Tables, NamesOK
  <2> QED
    BY <2>3, <2>4
<1>6. ImageInOwnersBucket'
  BY <1>1, <1>3 DEF Tables, ImageInOwnersBucket, Images, Owns, Stored
<1> QED
  BY <1>3, <1>4, <1>5, <1>6 DEF Tables, ImagesOK

\* A row is rewritten, its owner and bucket excepted.
LEMMA RewriteKeepsTables ==
    ASSUME Tables, NEW i \in Image, Stored(images, i), UNCHANGED <<buckets, readers>>,
           NEW row \in ImageRow, row.owner = images[i].owner, row.bucket = images[i].bucket,
           images' = [images EXCEPT ![i] = row]
    PROVE  Tables'
<1>1. images' \in [Image -> ImageRow \cup {None, Gone}]
  BY DEF Tables, ImagesOK
<1>2. images'[i] = row /\ \A j \in Image \ {i} : images'[j] = images[j]
  BY DEF Tables, ImagesOK
<1> QED
  BY <1>1, <1>2, RowsChange DEF Tables

LEMMA WordsOf == ASSUME Tables, NEW i \in Image, Stored(images, i)
                 PROVE  /\ images[i].words \in Words /\ images[i].url \in Link
                        /\ images[i].words.notes \in Notes /\ images[i].words.tags \in AllTags
                        /\ images[i].words.enabled \in BOOLEAN
BY StoredRows DEF ImageRow, Words, Notes, AllTags

LEMMA PostsAreMedia == \A m \in Posts : m \in AnyMedia /\ [m EXCEPT !.tags = {}] \in AnyMedia
<1>1. Posts \subseteq Media
  BY LibraryAssumption
<1>2. \A m \in Media : m \in AnyMedia
  BY DEF Media, TwitterMedia, BlueskyMedia, PlainMedia, AnyMedia
<1>3. \A m \in AnyMedia : [m EXCEPT !.tags = {}] \in AnyMedia
  BY DEF AnyMedia
<1> QED
  BY <1>1, <1>2, <1>3

-----------------------------------------------------------------------------
(* Each action keeps the tables in order *)

LEMMA CreateImageTables == ASSUME Inv, NEW w \in Worker, CreateImage(w) PROVE Tables'
<1>1. PICK u \in User, b \in Bucket, m \in Posts, own \in {{}, {"own"}}, i \in Fresh(images, Image) :
        Insert(i, u, b, m.url, own \cup m.tags) /\ UNCHANGED <<buckets, readers>>
  BY DEF CreateImage
<1>2. i \in Image /\ m.url \in Link /\ own \cup m.tags \in AllTags
  BY PostsAreMedia DEF Fresh, AnyMedia, AllTags
<1> QED
  BY <1>1, <1>2, InsertKeepsTables DEF Inv

LEMMA UploadImageTables == ASSUME Inv, UploadImage PROVE Tables'
<1>1. PICK u \in User, b \in Bucket, url \in Link, i \in Fresh(images, Image) : Insert(i, u, b, url, {})
  BY DEF UploadImage
<1>2. i \in Image /\ {} \in AllTags /\ UNCHANGED <<buckets, readers>>
  BY DEF Fresh, AllTags, UploadImage
<1> QED
  BY <1>1, <1>2, InsertKeepsTables DEF Inv

LEMMA InsertAddedTables == ASSUME Inv, NEW w \in Worker, InsertAdded(w) PROVE Tables'
<1>1. UNCHANGED <<buckets, readers>>
  BY DEF InsertAdded
<1>2. CASE UNCHANGED images
  BY <1>1, <1>2, RowsChange DEF Inv, Tables, ImagesOK
<1>3. CASE ~UNCHANGED images
  <2>1. PICK i \in Fresh(images, Image) : Insert(i, proc[w].user, proc[w].bucket, proc[w].media.url, {})
    BY <1>3 DEF InsertAdded
  <2>2. /\ proc[w].user \in User /\ proc[w].bucket \in Bucket /\ proc[w].media.url \in Link
        /\ i \in Image /\ {} \in AllTags
    BY DEF InsertAdded, At, Inv, Requested, Ready, AnyMedia, Fresh, AllTags
  <2> QED
    BY <1>1, <2>1, <2>2, InsertKeepsTables DEF Inv
<1> QED
  BY <1>2, <1>3

LEMMA CreateInboxTables == ASSUME Inv, NEW w \in Worker, CreateInbox(w) PROVE Tables'
<1>1. PICK u \in User :
        \/ UNCHANGED buckets
        \/ /\ Named(u, Inbox) = {}
           /\ \E b \in Fresh(buckets, Bucket) : buckets' = [buckets EXCEPT ![b] = [owner |-> u, name |-> Inbox]]
  BY DEF CreateInbox
<1>2. UNCHANGED <<images, readers>> /\ Inbox \in Name
  BY LibraryAssumption DEF CreateInbox
<1>3. CASE UNCHANGED buckets
  BY <1>2, <1>3, RowsChange DEF Inv, Tables, ImagesOK
<1> QED
  BY <1>1, <1>2, <1>3, BucketAdded DEF Inv

LEMMA CreateBucketTables == ASSUME Inv, CreateBucket PROVE Tables'
BY BucketAdded DEF CreateBucket, Inv

LEMMA WriteNotesTables == ASSUME Inv, NEW w \in Worker, WriteNotes(w) PROVE Tables'
<1> DEFINE i == proc[w].image  row == [images[i] EXCEPT !.words.notes = proc[w].media.notes]
<1>1. i \in Image /\ proc[w].media.notes \in {None, "auto"} /\ UNCHANGED <<buckets, readers>>
  BY DEF WriteNotes, At, Inv, Requested, Ready, AnyMedia
<1>2. CASE UNCHANGED images
  BY <1>1, <1>2, RowsChange DEF Inv, Tables, ImagesOK
<1>3. CASE Stored(images, i) /\ images' = [images EXCEPT ![i].words.notes = proc[w].media.notes]
  <2>1. images[i] \in ImageRow
    BY <1>1, <1>3, StoredRows DEF Inv
  <2>2. row \in ImageRow /\ row.owner = images[i].owner /\ row.bucket = images[i].bucket
    BY <1>1, <2>1 DEF ImageRow, Words
  <2>3. images' = [images EXCEPT ![i] = row]
    BY <1>1, <1>3, <2>1 DEF Inv, Tables, ImagesOK
  <2> HIDE DEF i, row
  <2> QED
    BY <1>1, <1>3, <2>1, <2>2, <2>3, RewriteKeepsTables DEF Inv
<1> QED
  BY <1>2, <1>3 DEF WriteNotes, Matches

LEMMA WriteTagsTables == ASSUME Inv, NEW w \in Worker, WriteTags(w) PROVE Tables'
<1> DEFINE i == proc[w].image  row == [images[i] EXCEPT !.words.tags = proc[w].media.tags]
<1>1. i \in Image /\ proc[w].media.tags \in SUBSET {"social"} /\ UNCHANGED <<buckets, readers>>
  BY DEF WriteTags, At, Inv, Requested, Ready, AnyMedia
<1>2. CASE UNCHANGED images
  BY <1>1, <1>2, RowsChange DEF Inv, Tables, ImagesOK
<1>3. CASE Stored(images, i) /\ images' = [images EXCEPT ![i].words.tags = proc[w].media.tags]
  <2>1. images[i] \in ImageRow
    BY <1>1, <1>3, StoredRows DEF Inv
  <2>2. row \in ImageRow /\ row.owner = images[i].owner /\ row.bucket = images[i].bucket
    BY <1>1, <2>1 DEF ImageRow, Words
  <2>3. images' = [images EXCEPT ![i] = row]
    BY <1>1, <1>3, <2>1 DEF Inv, Tables, ImagesOK
  <2> HIDE DEF i, row
  <2> QED
    BY <1>1, <1>3, <2>1, <2>2, <2>3, RewriteKeepsTables DEF Inv
<1> QED
  BY <1>2, <1>3 DEF WriteTags, Matches

\* What a PATCH makes of the fields.
LEMMA PatchedWords ==
    ASSUME NEW q \in Patch, NEW old \in Words, NEW existing
    PROVE  LET m    == q.media
               auto == IF m = None THEN None ELSE m.notes
           IN [notes   |-> Patched(NotesPatch(q.notes, auto, existing), old.notes),
               tags    |-> Patched(TagsPatch(q), old.tags),
               enabled |-> Patched(q.enabled, old.enabled)] \in Words
<1> DEFINE m == q.media
           auto == IF m = None THEN None ELSE m.notes
<1>0. q.media # None => q.media \in AnyMedia
  BY DEF Patch, Media, TwitterMedia, BlueskyMedia, PlainMedia, AnyMedia
<1>1. auto \in {None, "auto"}
  BY <1>0 DEF AnyMedia
<1>2. q.notes \in {Keep, None, "own"} /\ q.tags \in {Keep, {}, {"own"}} /\ q.enabled \in {Keep, TRUE, FALSE}
  BY DEF Patch
<1>3. old.notes \in Notes /\ old.tags \in AllTags /\ old.enabled \in BOOLEAN
  BY DEF Words, Notes, AllTags
<1>4. Patched(NotesPatch(q.notes, auto, existing), old.notes) \in Notes
  <2> HIDE DEF auto
  <2> QED
    BY <1>1, <1>2, <1>3 DEF Patched, NotesPatch, Notes
<1>5. Patched(TagsPatch(q), old.tags) \in AllTags
  BY <1>0, <1>2, <1>3 DEF Patched, TagsPatch, AllTags, AnyMedia
<1>6. Patched(q.enabled, old.enabled) \in BOOLEAN
  BY <1>2, <1>3 DEF Patched
<1> HIDE DEF auto
<1>7. [notes   |-> Patched(NotesPatch(q.notes, auto, existing), old.notes),
       tags    |-> Patched(TagsPatch(q), old.tags),
       enabled |-> Patched(q.enabled, old.enabled)] \in [notes: Notes, tags: AllTags, enabled: BOOLEAN]
  BY <1>4, <1>5, <1>6
<1> QED
  BY <1>7 DEF auto, Words, Notes, AllTags

LEMMA UpdateImageTables == ASSUME Inv, NEW w \in Worker, UpdateImage(w) PROVE Tables'
<1> DEFINE p   == proc[w]
           i   == p.image
           m   == p.patch.media
           new == [notes   |-> Patched(NotesPatch(p.patch.notes, IF m = None THEN None ELSE m.notes,
                                                  p.existing), images[i].words.notes),
                   tags    |-> Patched(TagsPatch(p.patch), images[i].words.tags),
                   enabled |-> Patched(p.patch.enabled, images[i].words.enabled)]
           url == IF m = None THEN images[i].url ELSE m.url
           row == [images[i] EXCEPT !.url = url, !.words = new]
<1>1. i \in Image /\ p.patch \in Patch /\ UNCHANGED <<buckets, readers>>
  BY DEF UpdateImage, At, Inv, Requested, Ready
<1>2. CASE UNCHANGED images
  BY <1>1, <1>2, RowsChange DEF Inv, Tables, ImagesOK
<1>3. CASE Stored(images, i) /\ images' = [images EXCEPT ![i] = row]
  <2>1. images[i] \in ImageRow /\ images[i].words \in Words /\ images[i].url \in Link
    BY <1>1, <1>3, StoredRows, WordsOf DEF Inv
  <2>2. new \in Words
    BY <1>1, <2>1, PatchedWords
  <2>3. url \in Link
    BY <1>1, <2>1 DEF Patch, Media, TwitterMedia, BlueskyMedia, PlainMedia
  <2> HIDE DEF i, new, url
  <2>4. row \in ImageRow /\ row.owner = images[i].owner /\ row.bucket = images[i].bucket
    BY <2>1, <2>2, <2>3 DEF ImageRow
  <2> HIDE DEF row
  <2> QED
    BY <1>1, <1>3, <2>4, RewriteKeepsTables DEF Inv
<1>4. \/ UNCHANGED images
      \/ Stored(images, i) /\ images' = [images EXCEPT ![i] = row]
  BY DEF UpdateImage, Matches
<1> QED
  BY <1>2, <1>3, <1>4

EditRow(old, e, t) == [old EXCEPT !.words.enabled = e, !.words.tags = t]

LEMMA EditedRow ==
    ASSUME NEW old \in ImageRow, NEW e \in BOOLEAN, NEW t \in AllTags
    PROVE  /\ EditRow(old, e, t) \in ImageRow
           /\ EditRow(old, e, t).owner = old.owner /\ EditRow(old, e, t).bucket = old.bucket
           /\ EditRow(old, e, t).words.notes = old.words.notes /\ EditRow(old, e, t).words.tags = t
<1> DEFINE words == [old.words EXCEPT !.enabled = e, !.tags = t]
<1>1. EditRow(old, e, t) = [old EXCEPT !.words = words]
  BY DEF EditRow, ImageRow, Words
<1>2. words \in Words /\ words.notes = old.words.notes /\ words.tags = t
  BY DEF ImageRow, Words, AllTags
<1> HIDE DEF words
<1> QED
  BY <1>1, <1>2 DEF ImageRow

LEMMA BulkUpdateTables == ASSUME Inv, BulkUpdateImages PROVE Tables'
<1>0. PICK u \in User, b \in Bucket :
        \E S \in SUBSET Matching(u, b) \ {{}}, enabled \in {Keep, TRUE, FALSE},
           add \in {{}, {"own"}}, remove \in SUBSET {"own", "social"} :
           images' = Edit(S, enabled, add, remove)
  BY ZenonT(60) DEF BulkUpdateImages
<1>1. PICK S \in SUBSET Matching(u, b), enabled \in {Keep, TRUE, FALSE},
           add \in {{}, {"own"}}, remove \in SUBSET {"own", "social"} :
        images' = Edit(S, enabled, add, remove)
  BY <1>0
<1>2. UNCHANGED <<buckets, readers>>
  BY DEF BulkUpdateImages
<1>3. ASSUME NEW i \in S
      PROVE  /\ Stored(images, i) /\ images'[i] \in ImageRow
             /\ images'[i].owner = images[i].owner /\ images'[i].bucket = images[i].bucket
  <2>1. i \in Image /\ Stored(images, i)
    BY DEF Matching, Images
  <2>2. /\ images[i] \in ImageRow /\ images[i].words \in Words
        /\ images[i].words.tags \in AllTags /\ images[i].words.enabled \in BOOLEAN
    BY <2>1, StoredRows, WordsOf DEF Inv
  <2> DEFINE e == Patched(enabled, images[i].words.enabled)
             t == (images[i].words.tags \ remove) \cup add
  <2>3. images'[i] = EditRow(images[i], e, t)
    BY <1>1, <2>1 DEF Edit, EditRow
  <2>4. e \in BOOLEAN
    BY <2>2 DEF Patched
  <2>5. t \in AllTags
    BY <2>2 DEF AllTags
  <2> HIDE DEF e, t
  <2> QED
    BY <2>1, <2>2, <2>3, <2>4, <2>5, EditedRow
<1>4. \A i \in Image \ S : images'[i] = images[i]
  BY <1>1 DEF Edit
<1>5. images' \in [Image -> ImageRow \cup {None, Gone}]
  <2>1. \A i \in Image : images'[i] \in ImageRow \cup {None, Gone}
    BY <1>3, <1>4 DEF Inv, Tables, ImagesOK
  <2>2. images' = [i \in Image |-> images'[i]]
    BY <1>1 DEF Edit
  <2> QED
    BY <2>1, <2>2
<1> QED
  BY <1>2, <1>3, <1>4, <1>5, RowsChange DEF Inv, Tables

LEMMA DeleteImagesTables == ASSUME Inv, DeleteImages PROVE Tables'
<1>1. PICK S \in SUBSET Image : images' = [i \in Image |-> IF i \in S THEN Gone ELSE images[i]]
  BY DEF DeleteImages, Matching, Images
<1>2. images' \in [Image -> ImageRow \cup {None, Gone}]
  BY <1>1 DEF Inv, Tables, ImagesOK
<1> QED
  BY <1>1, <1>2, RowsChange DEF DeleteImages, Inv, Tables

LEMMA MoveImagesTables == ASSUME Inv, NEW w \in Worker, MoveImages(w) PROVE Tables'
<1>0. PICK u \in User, b \in Bucket, c \in Bucket :
        \E S \in SUBSET Matching(u, b) \ {{}} : Owns(u, c) /\ images' = Relocate(S, c)
  BY DEF MoveImages
<1>1. PICK S \in SUBSET Matching(u, b) : Owns(u, c) /\ images' = Relocate(S, c)
  BY <1>0
<1>2. ASSUME NEW i \in S
      PROVE  i \in Image /\ images'[i] \in ImageRow /\ images'[i].owner = u /\ images'[i].bucket = c
  <2>1. i \in Image /\ Stored(images, i) /\ images[i].owner = u
    BY DEF Matching, Matches, Images
  <2>2. images[i] \in ImageRow /\ images'[i] = [images[i] EXCEPT !.bucket = c]
    BY <1>1, <2>1, StoredRows DEF Inv, Relocate
  <2> QED
    BY <2>1, <2>2 DEF ImageRow
<1>3. \A i \in Image \ S : images'[i] = images[i]
  BY <1>1 DEF Relocate
<1>4. images' \in [Image -> ImageRow \cup {None, Gone}]
  BY <1>1, <1>2, <1>3 DEF Relocate, Inv, Tables, ImagesOK
<1> QED
  BY <1>1, <1>2, <1>3, <1>4, RowsChange DEF MoveImages, Inv, Tables

LEMMA RenameBucketTables == ASSUME Inv, RenameBucket PROVE Tables'
<1>1. PICK u \in User, b \in Bucket, n \in Name :
        Owns(u, b) /\ Named(u, n) \subseteq {b} /\ buckets' = [buckets EXCEPT ![b].name = n]
  BY DEF RenameBucket
<1>2. UNCHANGED <<images, readers>>
  BY DEF RenameBucket
<1>3. buckets[b] \in BucketRow /\ buckets[b].owner = u
  BY <1>1, StoredRows DEF Owns, Inv
<1>4. buckets'[b] = [buckets[b] EXCEPT !.name = n] /\ \A c \in Bucket \ {b} : buckets'[c] = buckets[c]
  BY <1>1 DEF Inv, Tables, BucketsOK
<1>5. buckets'[b] \in BucketRow /\ buckets'[b].owner = u /\ buckets'[b].name = n
  BY <1>3, <1>4 DEF BucketRow
<1>6. BucketsOK'
  BY <1>1, <1>4, <1>5 DEF Inv, Tables, BucketsOK
<1>7. NamesOK'
  <2> SUFFICES ASSUME NEW v \in User, NEW m \in Name, NEW c \in Named(v, m)', NEW d \in Named(v, m)'
               PROVE  c = d
    BY DEF NamesOK
  <2>1. /\ c \in Bucket /\ buckets'[c].owner = v /\ buckets'[c].name = m /\ buckets'[c] \notin {None, Gone}
        /\ d \in Bucket /\ buckets'[d].owner = v /\ buckets'[d].name = m /\ buckets'[d] \notin {None, Gone}
    BY DEF Named, OwnBuckets, Owns, Stored
  <2>2. ASSUME NEW x \in Bucket, x # b, buckets'[x].owner = v, buckets'[x].name = m,
               buckets'[x] \notin {None, Gone}
        PROVE  x \in Named(v, m)
    BY <1>4, <2>2 DEF Named, OwnBuckets, Owns, Stored
  <2>3. CASE c = b \/ d = b
    <3>1. v = u /\ m = n
      BY <1>5, <2>1, <2>3
    <3> QED
      BY <1>1, <2>1, <2>2, <2>3, <3>1
  <2>4. CASE c # b /\ d # b
    BY <2>1, <2>2, <2>4 DEF Inv, Tables, NamesOK
  <2> QED
    BY <2>3, <2>4
<1>8. ImageInOwnersBucket'
  <2> SUFFICES ASSUME NEW i \in Images PROVE Owns(images[i].owner, images[i].bucket)'
    BY <1>2 DEF ImageInOwnersBucket, Images, Stored
  <2>1. Owns(images[i].owner, images[i].bucket) /\ images[i].bucket \in Bucket
    BY StoredRows DEF Inv, Tables, ImageInOwnersBucket, Images, ImageRow
  <2>2. CASE images[i].bucket = b
    <3>1. Owns(u, b)'
      BY <1>5, LibraryAssumption DEF Owns, Stored
    <3> QED
      BY <1>2, <1>3, <2>1, <2>2, <3>1 DEF Owns
  <2>3. CASE images[i].bucket # b
    BY <1>2, <1>4, <2>1, <2>3 DEF Owns, Stored
  <2> QED
    BY <2>2, <2>3
<1> QED
  BY <1>2, <1>6, <1>7, <1>8 DEF Inv, Tables, ImagesOK

LEMMA DeleteBucketTables == ASSUME Inv, DeleteBucket PROVE Tables'
<1>1. PICK b \in Bucket :
        /\ buckets' = [buckets EXCEPT ![b] = Gone]
        /\ images' = [i \in Image |-> IF i \in {j \in Images : images[j].bucket = b} THEN Gone ELSE images[i]]
        /\ readers' = {a \in readers : a[2] # b}
  BY DEF DeleteBucket
<1>2. BucketsOK' /\ buckets'[b] = Gone /\ \A c \in Bucket \ {b} : buckets'[c] = buckets[c]
  BY <1>1 DEF Inv, Tables, BucketsOK
<1>3. ImagesOK'
  BY <1>1 DEF Inv, Tables, ImagesOK
<1>4. \A i \in Image : images'[i] \notin {None, Gone} =>
                        Stored(images, i) /\ images'[i] = images[i] /\ images[i].bucket # b
  BY <1>1 DEF Images, Stored
<1>5. ImageInOwnersBucket'
  <2> SUFFICES ASSUME NEW i \in Images' PROVE Owns(images[i].owner, images[i].bucket)'
    BY DEF ImageInOwnersBucket
  <2>1. i \in Images /\ images'[i] = images[i] /\ images[i].bucket # b
    BY <1>4 DEF Images, Stored
  <2>2. Owns(images[i].owner, images[i].bucket) /\ images[i].bucket \in Bucket
    BY <2>1, StoredRows DEF Inv, Tables, ImageInOwnersBucket, Images, ImageRow
  <2> QED
    BY <1>2, <2>1, <2>2 DEF Owns, Stored
<1>6. NamesOK'
  BY <1>2 DEF Inv, Tables, NamesOK, Named, OwnBuckets, Owns, Stored
<1> QED
  BY <1>1, <1>2, <1>3, <1>5, <1>6 DEF Inv, Tables

LEMMA AdmitTables == ASSUME Inv, AdmitOrExpel PROVE Tables'
<1>1. readers' \in SUBSET (User \X Bucket) /\ UNCHANGED <<buckets, images>>
  BY DEF AdmitOrExpel, Inv, Tables
<1> QED
  BY <1>1, RowsChange DEF Inv, Tables, ImagesOK

LEMMA ImportTables == ASSUME Inv, ImportUserData PROVE Tables'
<1>1. PICK u \in User :
        \E ids \in [NewNames(u) -> Fresh(buckets, Bucket)], rows \in [NewPairs(u) -> Fresh(images, Image)],
           first \in [NewPairs(u) -> file.entries] :
           /\ \A m, n \in NewNames(u) : m # n => ids[m] # ids[n]
           /\ buckets' = AddBuckets(u, ids)
           /\ images' = AddImages(u, ids, rows, first)
  BY DEF ImportUserData
<1>2. PICK ids \in [NewNames(u) -> Fresh(buckets, Bucket)], rows \in [NewPairs(u) -> Fresh(images, Image)],
           first \in [NewPairs(u) -> file.entries] :
        /\ \A m, n \in NewNames(u) : m # n => ids[m] # ids[n]
        /\ buckets' = AddBuckets(u, ids)
        /\ images' = AddImages(u, ids, rows, first)
  BY <1>1
<1>3. file \in Export /\ UNCHANGED readers /\ \A e \in file.entries : e.name \in file.names
  BY DEF ImportUserData, Inv, Downloaded
<1>4. \A n \in NewNames(u) : n \in Name /\ ids[n] \in Bucket /\ buckets[ids[n]] = None /\ Named(u, n) = {}
  BY <1>3 DEF NewNames, Export, Fresh
\* A bucket is an old one as it was, or the new one of a new name.
<1>5. ASSUME NEW b \in Bucket
      PROVE  \/ buckets'[b] = buckets[b]
             \/ \E n \in NewNames(u) : ids[n] = b /\ buckets[b] = None /\ buckets'[b] = [owner |-> u, name |-> n]
  <2>1. CASE \A n \in NewNames(u) : ids[n] # b
    BY <1>2, <2>1 DEF AddBuckets
  <2>2. ASSUME NEW n \in NewNames(u), ids[n] = b
        PROVE  buckets'[b] = [owner |-> u, name |-> n] /\ buckets[b] = None
    <3>1. (CHOOSE m \in DOMAIN ids : ids[m] = b) = n
      BY <1>2, <2>2
    <3> QED
      BY <1>2, <1>4, <2>2, <3>1 DEF AddBuckets
  <2> QED
    BY <2>1, <2>2
<1>6. \A n \in NewNames(u) : buckets'[ids[n]] = [owner |-> u, name |-> n]
  <2> SUFFICES ASSUME NEW n \in NewNames(u) PROVE buckets'[ids[n]] = [owner |-> u, name |-> n]
    OBVIOUS
  <2>1. (CHOOSE m \in DOMAIN ids : ids[m] = ids[n]) = n
    BY <1>2
  <2> QED
    BY <1>2, <1>4, <2>1 DEF AddBuckets
<1>7. \A b \in Bucket : Stored(buckets, b) => buckets'[b] = buckets[b]
  BY <1>5 DEF Stored
<1>8. BucketsOK'
  <2>1. ASSUME NEW b \in Bucket PROVE buckets'[b] \in BucketRow \cup {None, Gone}
    <3>1. buckets[b] \in BucketRow \cup {None, Gone}
      BY DEF Inv, Tables, BucketsOK
    <3>2. \A n \in NewNames(u) : [owner |-> u, name |-> n] \in BucketRow
      BY <1>4 DEF BucketRow
    <3> QED
      BY <1>5, <3>1, <3>2, ZenonT(60)
  <2>2. buckets' = [b \in Bucket |-> buckets'[b]]
    BY <1>2 DEF AddBuckets
  <2> QED
    BY <2>1, <2>2 DEF BucketsOK
<1>9. NamesOK'
  <2> SUFFICES ASSUME NEW v \in User, NEW m \in Name, NEW c \in Named(v, m)', NEW d \in Named(v, m)'
               PROVE  c = d
    BY DEF NamesOK
  <2>1. /\ c \in Bucket /\ buckets'[c].owner = v /\ buckets'[c].name = m /\ buckets'[c] \notin {None, Gone}
        /\ d \in Bucket /\ buckets'[d].owner = v /\ buckets'[d].name = m /\ buckets'[d] \notin {None, Gone}
    BY DEF Named, OwnBuckets, Owns, Stored
  <2>2. ASSUME NEW x \in Bucket, buckets'[x].owner = v, buckets'[x].name = m, buckets'[x] \notin {None, Gone}
        PROVE  \/ x \in Named(v, m)
               \/ v = u /\ m \in NewNames(u) /\ ids[m] = x
    <3>1. CASE buckets'[x] = buckets[x]
      BY <2>2, <3>1 DEF Named, OwnBuckets, Owns, Stored
    <3>2. ASSUME NEW n \in NewNames(u), ids[n] = x, buckets'[x] = [owner |-> u, name |-> n]
          PROVE  v = u /\ m = n
      BY <2>2, <3>2
    <3> QED
      BY <1>5, <3>1, <3>2
  <2>3. CASE v = u /\ m \in NewNames(u)
    BY <1>4, <2>1, <2>2, <2>3
  <2>4. CASE ~(v = u /\ m \in NewNames(u))
    BY <2>1, <2>2, <2>4 DEF Inv, Tables, NamesOK
  <2> QED
    BY <2>3, <2>4
\* A row is an old one as it was, or a new one in a bucket of u.
<1>10. ASSUME NEW i \in Image
       PROVE  \/ images'[i] = images[i]
              \/ /\ images'[i] \in ImageRow
                 /\ images'[i].bucket \in Bucket
                 /\ buckets'[images'[i].bucket] \in BucketRow
                 /\ buckets'[images'[i].bucket].owner = images'[i].owner
  <2>1. CASE \A p \in NewPairs(u) : rows[p] # i
    BY <1>2, <2>1 DEF AddImages
  <2>2. CASE \E p \in NewPairs(u) : rows[p] = i
    <3> DEFINE p == CHOOSE q \in DOMAIN rows : rows[q] = i
               b == BucketFor(u, p[1], ids)
    <3>1. p \in NewPairs(u)
      BY <1>2, <2>2
    <3>2. images'[i] = [owner |-> u, bucket |-> b, url |-> p[2], words |-> first[p].words]
      BY <1>2, <2>2 DEF AddImages
    <3> HIDE DEF p
    <3>3. PICK e \in file.entries : p = <<e.name, e.url>>
      BY <3>1 DEF NewPairs
    <3>4. p[1] \in file.names /\ p[2] \in Link /\ first[p].words \in Words
      BY <1>2, <1>3, <3>1, <3>3 DEF Export, Entry
    <3>5. b \in Bucket /\ buckets'[b] \in BucketRow /\ buckets'[b].owner = u
      <4>1. CASE p[1] \in NewNames(u)
        <5>1. b = ids[p[1]]
          BY <1>2, <4>1 DEF BucketFor
        <5>2. p[1] \in Name /\ ids[p[1]] \in Bucket
          BY <1>4, <4>1
        <5>3. buckets'[b] = [owner |-> u, name |-> p[1]]
          BY <1>6, <4>1, <5>1
        <5> QED
          BY <5>1, <5>2, <5>3 DEF BucketRow
      <4>2. CASE p[1] \notin NewNames(u)
        <5>1. Named(u, p[1]) # {}
          BY <3>4, <4>2 DEF NewNames
        <5>2. b \in Named(u, p[1])
          BY <1>2, <4>2, <5>1 DEF BucketFor
        <5>3. b \in Bucket /\ Stored(buckets, b) /\ buckets[b].owner = u
          BY <5>2 DEF Named, OwnBuckets, Owns
        <5> QED
          BY <1>7, <5>3, StoredRows DEF Inv
      <4> QED
        BY <4>1, <4>2
    <3> HIDE DEF b
    <3> QED
      BY <3>2, <3>4, <3>5 DEF ImageRow
  <2> QED
    BY <2>1, <2>2
<1>11. ImagesOK'
  <2>1. \A i \in Image : images'[i] \in ImageRow \cup {None, Gone}
    BY <1>10 DEF Inv, Tables, ImagesOK
  <2>2. images' = [i \in Image |-> images'[i]]
    BY <1>2 DEF AddImages
  <2> QED
    BY <2>1, <2>2 DEF ImagesOK
<1>12. ImageInOwnersBucket'
  <2> SUFFICES ASSUME NEW i \in Images' PROVE Owns(images[i].owner, images[i].bucket)'
    BY DEF ImageInOwnersBucket
  <2>1. i \in Image /\ images'[i] \notin {None, Gone}
    BY DEF Images, Stored
  <2>2. CASE images'[i] = images[i]
    <3>1. Owns(images[i].owner, images[i].bucket) /\ images[i].bucket \in Bucket
      BY <2>1, <2>2, StoredRows DEF Inv, Tables, ImageInOwnersBucket, Images, ImageRow, Stored
    <3> QED
      BY <1>7, <2>2, <3>1 DEF Owns, Stored
  <2>3. CASE images'[i] # images[i]
    BY <1>10, <2>1, <2>3, LibraryAssumption DEF Owns, Stored
  <2> QED
    BY <2>2, <2>3
<1> QED
  BY <1>3, <1>8, <1>9, <1>11, <1>12 DEF Inv, Tables

-----------------------------------------------------------------------------
(* The requests in flight *)

Pcs == {"idle", "find", "insert", "notes", "tags", "fill", "patch", "drop", "export"}

LEMMA IdleIsReady == Idle \in Request /\ Ready(Idle)
BY DEF Idle, Request, Ready, Notes, AnyMedia

LEMMA Replaced ==
    ASSUME Requested, NEW w \in Worker, NEW p \in Request, Ready(p), proc' = [proc EXCEPT ![w] = p]
    PROVE  Requested'
<1>1. proc' \in [Worker -> Request]
  BY DEF Requested
<1>2. proc'[w] = p /\ \A x \in Worker \ {w} : proc'[x] = proc[x]
  BY DEF Requested
<1> QED
  BY <1>1, <1>2 DEF Requested

LEMMA WentOn ==
    ASSUME Requested, NEW w \in Worker, NEW pc \in Pcs, Goto(w, pc),
           pc # "idle" => Ready([proc[w] EXCEPT !.pc = pc])
    PROVE  Requested'
<1>1. CASE pc = "idle"
  BY <1>1, IdleIsReady, Replaced DEF Goto
<1>2. CASE pc # "idle"
  <2>1. proc' = [proc EXCEPT ![w] = [proc[w] EXCEPT !.pc = pc]]
    BY <1>2 DEF Goto, Requested
  <2>2. [proc[w] EXCEPT !.pc = pc] \in Request
    BY DEF Requested, Request, Pcs
  <2> QED
    BY <1>2, <2>1, <2>2, Replaced
<1> QED
  BY <1>1, <1>2

LEMMA CreateImageRequests == ASSUME Inv, NEW w \in Worker, CreateImage(w) PROVE Requested'
<1>1. PICK u \in User, b \in Bucket, m \in Posts, i \in Image :
        \/ UNCHANGED proc
        \/ Begin(w, [Idle EXCEPT !.pc = "notes", !.user = u, !.bucket = b, !.image = i,
                                 !.media = [m EXCEPT !.tags = {}]])
  BY DEF CreateImage, Fresh
<1> DEFINE media == [m EXCEPT !.tags = {}]
           p == [Idle EXCEPT !.pc = "notes", !.user = u, !.bucket = b, !.image = i, !.media = media]
<1>2. media \in AnyMedia
  BY PostsAreMedia
<1> HIDE DEF media
<1>3. p \in Request /\ Ready(p)
  BY <1>2 DEF Idle, Request, Ready, Notes
<1>4. CASE UNCHANGED proc
  BY <1>4 DEF Inv, Requested
<1>5. CASE Begin(w, p)
  <2> HIDE DEF p
  <2> QED
    BY <1>3, <1>5, Replaced DEF Begin, Inv
<1> QED
  BY <1>1, <1>4, <1>5 DEF media

LEMMA AddToBucketRequests == ASSUME Inv, NEW w \in Worker, AddToBucket(w) PROVE Requested'
<1>1. PICK u \in User, b \in Bucket, m \in Posts :
        Begin(w, [Idle EXCEPT !.pc = "insert", !.user = u, !.bucket = b, !.media = m])
  BY DEF AddToBucket, Named, OwnBuckets
<1> DEFINE p == [Idle EXCEPT !.pc = "insert", !.user = u, !.bucket = b, !.media = m]
<1>2. p \in Request /\ Ready(p)
  BY PostsAreMedia DEF Idle, Request, Ready, Notes
<1> HIDE DEF p
<1> QED
  BY <1>1, <1>2, Replaced DEF Begin, Inv, p

LEMMA CreateInboxRequests == ASSUME Inv, NEW w \in Worker, CreateInbox(w) PROVE Requested'
<1>1. PICK u \in User, m \in Posts :
        LET q == [Idle EXCEPT !.user = u, !.media = m] IN
        \/ Begin(w, [q EXCEPT !.pc = "find"])
        \/ \E b \in Bucket : Begin(w, [q EXCEPT !.pc = "insert", !.bucket = b])
  BY DEF CreateInbox, Fresh
<1> DEFINE q == [Idle EXCEPT !.user = u, !.media = m]
           p == [q EXCEPT !.pc = "find"]
           r(b) == [q EXCEPT !.pc = "insert", !.bucket = b]
<1>2. p \in Request /\ Ready(p)
  BY PostsAreMedia DEF Idle, Request, Ready, Notes
<1>3. \A b \in Bucket : r(b) \in Request /\ Ready(r(b))
  BY PostsAreMedia DEF Idle, Request, Ready, Notes
<1> HIDE DEF p, r
<1> QED
  BY <1>1, <1>2, <1>3, Replaced DEF Begin, Inv, p, r

LEMMA FindInboxRequests == ASSUME Inv, NEW w \in Worker, FindInbox(w) PROVE Requested'
<1>1. CASE Goto(w, "idle")
  BY <1>1, WentOn DEF Inv, Pcs
<1>2. ASSUME NEW b \in Named(proc[w].user, Inbox),
             proc' = [proc EXCEPT ![w].pc = "insert", ![w].bucket = b]
      PROVE  Requested'
  <2> DEFINE p == [proc[w] EXCEPT !.pc = "insert", !.bucket = b]
  <2>1. b \in Bucket /\ proc[w] \in Request /\ Ready(proc[w]) /\ proc[w].pc = "find"
    BY DEF Named, OwnBuckets, FindInbox, At, Inv, Requested
  <2>2. p \in Request
    BY <2>1 DEF Request
  <2>3. Ready(p)
    BY <2>1 DEF Request, Ready
  <2>4. proc' = [proc EXCEPT ![w] = p]
    BY <1>2, <2>1 DEF Request
  <2> HIDE DEF p
  <2> QED
    BY <2>2, <2>3, <2>4, Replaced DEF Inv
<1> QED
  BY <1>1, <1>2 DEF FindInbox

LEMMA InsertAddedRequests == ASSUME Inv, NEW w \in Worker, InsertAdded(w) PROVE Requested'
<1>1. CASE Goto(w, "idle")
  BY <1>1, WentOn DEF Inv, Pcs
<1>2. ASSUME NEW i \in Image,
             proc' = [proc EXCEPT ![w] = IF AfterInsert(proc[w].media) = "idle" THEN Idle
                          ELSE [proc[w] EXCEPT !.pc = AfterInsert(proc[w].media), !.image = i]]
      PROVE  Requested'
  <2> DEFINE pc == AfterInsert(proc[w].media)
             p  == [proc[w] EXCEPT !.pc = pc, !.image = i]
  <2>1. proc[w] \in Request /\ Ready(proc[w]) /\ proc[w].pc = "insert"
    BY DEF InsertAdded, At, Inv, Requested
  <2>2. pc \in {"notes", "tags", "idle"}
    BY DEF AfterInsert
  <2> HIDE DEF pc
  <2>3. p \in Request
    BY <2>1, <2>2 DEF Request
  <2>4. pc # "idle" => Ready(p)
    BY <2>1, <2>2 DEF Request, Ready
  <2>5. proc' = [proc EXCEPT ![w] = IF pc = "idle" THEN Idle ELSE p]
    BY <1>2 DEF pc
  <2> HIDE DEF p
  <2> QED
    BY <2>3, <2>4, <2>5, Replaced, IdleIsReady DEF Inv
<1> QED
  BY <1>1, <1>2 DEF InsertAdded, Fresh

LEMMA WriteNotesRequests == ASSUME Inv, NEW w \in Worker, WriteNotes(w) PROVE Requested'
<1>1. proc[w] \in Request /\ Ready(proc[w]) /\ proc[w].pc = "notes"
  BY DEF WriteNotes, At, Inv, Requested
<1> DEFINE pc == AfterNotes(proc[w].media)
<1>2. pc \in {"tags", "idle"} /\ Goto(w, pc)
  BY DEF AfterNotes, WriteNotes
<1> HIDE DEF pc
<1>3. pc # "idle" => Ready([proc[w] EXCEPT !.pc = pc])
  BY <1>1, <1>2 DEF Request, Ready
<1> QED
  BY <1>2, <1>3, WentOn DEF Inv, Pcs

LEMMA ReadExistingRequests == ASSUME Inv, NEW w \in Worker, ReadExisting(w) PROVE Requested'
<1>1. PICK u \in User, b \in Bucket, i \in Image, q \in Patches :
        /\ Stored(images, i)
        /\ Begin(w, [Idle EXCEPT !.pc = "fill", !.user = u, !.bucket = b, !.image = i,
                                 !.patch = q, !.existing = images[i].words.notes])
  BY DEF ReadExisting, Matches
<1> DEFINE existing == images[i].words.notes
           p == [Idle EXCEPT !.pc = "fill", !.user = u, !.bucket = b, !.image = i,
                             !.patch = q, !.existing = existing]
<1>2. existing \in Notes /\ q \in Patch
  BY <1>1, WordsOf, LibraryAssumption DEF Inv
<1> HIDE DEF existing
<1>3. p \in Request /\ Ready(p)
  BY <1>2 DEF Idle, Request, Ready
<1>4. Begin(w, p)
  BY <1>1 DEF existing
<1> HIDE DEF p
<1> QED
  BY <1>3, <1>4, Replaced DEF Begin, Inv

LEMMA RecallExistingRequests == ASSUME Inv, NEW w \in Worker, RecallExisting(w) PROVE Requested'
<1>1. PICK e \in cached, q \in Patches :
        Begin(w, [Idle EXCEPT !.pc = "patch", !.user = e.user, !.bucket = e.bucket, !.image = e.image,
                              !.patch = q, !.existing = e.notes, !.late = e.late])
  BY DEF RecallExisting
<1> DEFINE p == [Idle EXCEPT !.pc = "patch", !.user = e.user, !.bucket = e.bucket, !.image = e.image,
                             !.patch = q, !.existing = e.notes, !.late = e.late]
<1>2. e \in Reading /\ q \in Patch
  BY LibraryAssumption DEF Inv
<1>3. p \in Request /\ Ready(p)
  BY <1>2 DEF Idle, Request, Ready, Notes, Reading
<1>4. Begin(w, p)
  BY <1>1
<1> HIDE DEF p
<1> QED
  BY <1>3, <1>4, Replaced DEF Begin, Inv

LEMMA FillExistingRequests == ASSUME Inv, NEW w \in Worker, FillExisting(w) PROVE Requested'
<1>1. proc[w] \in Request /\ Ready(proc[w]) /\ proc[w].pc = "fill"
  BY DEF FillExisting, At, Inv, Requested
<1>2. Ready([proc[w] EXCEPT !.pc = "patch"])
  BY <1>1 DEF Request, Ready
<1> QED
  BY <1>2, WentOn DEF FillExisting, Inv, Pcs

\* A request that has written and has yet to drop what it names.
LEMMA DropsRequests ==
    ASSUME Inv, NEW w \in Worker, NEW K \in SUBSET (User \X Bucket \X Image),
           proc' = [proc EXCEPT ![w] = Drops(K)]
    PROVE  Requested'
<1>1. Drops(K) \in Request /\ Ready(Drops(K))
  BY DEF Drops, Idle, Request, Ready, Notes
<1> QED
  BY <1>1, Replaced DEF Inv

LEMMA UpdateImageRequests == ASSUME Inv, NEW w \in Worker, UpdateImage(w) PROVE Requested'
<1>1. proc[w].user \in User /\ proc[w].bucket \in Bucket /\ proc[w].image \in Image
  BY DEF UpdateImage, At, Inv, Requested, Ready
<1>2. {Key(proc[w])} \in SUBSET (User \X Bucket \X Image)
  BY <1>1 DEF Key
<1>3. proc' = [proc EXCEPT ![w] = Drops({Key(proc[w])})]
  BY DEF UpdateImage
<1> QED
  BY <1>2, <1>3, DropsRequests

LEMMA MoveImagesRequests == ASSUME Inv, NEW w \in Worker, MoveImages(w) PROVE Requested'
<1>1. PICK u \in User, b \in Bucket, c \in Bucket :
        \E S \in SUBSET Matching(u, b) \ {{}} : Begin(w, Drops({u} \X {b, c} \X S))
  BY DEF MoveImages
<1>2. PICK S \in SUBSET Matching(u, b) : Begin(w, Drops({u} \X {b, c} \X S))
  BY <1>1
<1>3. {u} \X {b, c} \X S \in SUBSET (User \X Bucket \X Image)
  BY DEF Matching, Images
<1> QED
  BY <1>2, <1>3, DropsRequests DEF Begin

LEMMA EndsRequests ==
    ASSUME Inv, NEW w \in Worker, Goto(w, "idle")
    PROVE  Requested'
BY WentOn DEF Inv, Pcs

\* What an export reads has the types of the tables.
LEMMA EntriesTyped ==
    ASSUME Tables, NEW b \in Bucket, NEW n \in Name, NEW S \in SUBSET Images
    PROVE  Entries(b, n, S) \in SUBSET Entry /\ \A e \in Entries(b, n, S) : e.name = n
<1>1. ASSUME NEW i \in S
      PROVE  [name |-> n, image |-> i, url |-> images[i].url, words |-> images[i].words] \in Entry
  <2>1. i \in Image /\ Stored(images, i)
    BY DEF Images
  <2>2. images[i].url \in Link /\ images[i].words \in Words
    BY <2>1, WordsOf
  <2> QED
    BY <2>1, <2>2 DEF Entry
<1> QED
  BY <1>1 DEF Entries

LEMMA ExportStartRequests == ASSUME Inv, NEW w \in Worker, ExportStart(w) PROVE Requested'
<1>1. PICK u \in User :
        Begin(w, [Idle EXCEPT !.pc = "export", !.user = u,
                              !.todo = {[id |-> b, name |-> buckets[b].name] : b \in OwnBuckets(u)},
                              !.held = {<<i, buckets[images[i].bucket].name>> :
                                        i \in {j \in Images : images[j].owner = u}}])
  BY DEF ExportStart
<1> DEFINE todo == {[id |-> b, name |-> buckets[b].name] : b \in OwnBuckets(u)}
           held == {<<i, buckets[images[i].bucket].name>> : i \in {j \in Images : images[j].owner = u}}
           p    == [Idle EXCEPT !.pc = "export", !.user = u, !.todo = todo, !.held = held]
<1>2. todo \in SUBSET ToList
  <2>1. \A b \in OwnBuckets(u) : b \in Bucket /\ buckets[b] \in BucketRow
    BY StoredRows DEF Inv, OwnBuckets, Owns
  <2> QED
    BY <2>1 DEF ToList, BucketRow
<1>3. held \in SUBSET (Image \X Name)
  <2>1. \A i \in Images : i \in Image /\ buckets[images[i].bucket] \in BucketRow
    BY StoredRows DEF Inv, Tables, ImageInOwnersBucket, Owns, Images, ImageRow
  <2> QED
    BY <2>1 DEF BucketRow
<1> HIDE DEF todo, held
<1>4. p \in Request /\ Ready(p)
  BY <1>2, <1>3 DEF Idle, Request, Ready, Notes
<1>5. Begin(w, p)
  BY <1>1 DEF todo, held
<1> HIDE DEF p
<1> QED
  BY <1>4, <1>5, Replaced DEF Begin, Inv

LEMMA ExportBucketRequests == ASSUME Inv, NEW w \in Worker, ExportBucket(w) PROVE Requested'
<1>1. PICK t \in proc[w].todo :
          proc' = [proc EXCEPT ![w].todo = @ \ {t},
                               ![w].listed = @ \cup Entries(t.id, t.name, Listed(proc[w].user, t.id)),
                               ![w].names = @ \cup {t.name}]
  BY DEF ExportBucket
<1> DEFINE more   == Entries(t.id, t.name, Listed(proc[w].user, t.id))
           todo   == proc[w].todo \ {t}
           listed == proc[w].listed \cup more
           names  == proc[w].names \cup {t.name}
           p      == [proc[w] EXCEPT !.todo = todo, !.listed = listed, !.names = names]
<1>2. proc[w] \in Request /\ Ready(proc[w]) /\ proc[w].pc = "export"
  BY DEF ExportBucket, At, Inv, Requested
<1>3. t.id \in Bucket /\ t.name \in Name
  BY <1>2 DEF Request, ToList
<1>4. more \in SUBSET Entry /\ \A e \in more : e.name = t.name
  BY <1>3, EntriesTyped DEF Inv, Listed
<1> HIDE DEF more
<1>5. /\ todo \in SUBSET ToList /\ listed \in SUBSET Entry /\ names \in SUBSET Name
      /\ \A e \in listed : e.name \in names
  BY <1>2, <1>3, <1>4 DEF Request, Ready
<1>6. proc' = [proc EXCEPT ![w] = p]
  BY <1>1, <1>2 DEF Request, more
<1> HIDE DEF todo, listed, names
<1>7. p \in Request
  BY <1>2, <1>5 DEF Request
<1>8. Ready(p)
  BY <1>2, <1>5 DEF Request, Ready
<1> HIDE DEF p
<1> QED
  BY <1>6, <1>7, <1>8, Replaced DEF Inv

-----------------------------------------------------------------------------
(* What is cached *)

\* Every step but one only drops entries.
LEMMA EntriesGoOrCome ==
    ASSUME Inv, Next
    PROVE  cached' \subseteq cached \/ \E w \in Worker : FillExisting(w) /\ cached' \subseteq cached \cup {ReadingOf(w)}
<1>1. ASSUME NEW w \in Worker, \/ CreateImage(w) \/ AddToBucket(w) \/ CreateInbox(w)
                               \/ ReadExisting(w) \/ RecallExisting(w) \/ ExportStart(w) \/ MoveImages(w)
      PROVE  cached' = cached
  BY <1>1 DEF CreateImage, AddToBucket, CreateInbox, ReadExisting, RecallExisting, ExportStart,
              MoveImages, Opens
<1>2. ASSUME NEW w \in Worker, \/ FindInbox(w) \/ InsertAdded(w) \/ UpdateImage(w)
                               \/ ExportBucket(w) \/ ExportDone(w)
      PROVE  cached' = cached
  BY <1>2 DEF FindInbox, InsertAdded, UpdateImage, ExportBucket, ExportDone, Resumes
<1>3. ASSUME NEW w \in Worker, WriteNotes(w) \/ WriteTags(w) \/ DropEntries(w)
      PROVE  cached' \subseteq cached
  BY <1>3 DEF WriteNotes, WriteTags, DropEntries, Drop
<1>4. ASSUME NEW w \in Worker, FillExisting(w) PROVE cached' \subseteq cached \cup {ReadingOf(w)}
  BY <1>4 DEF FillExisting
<1>5. ASSUME \/ UploadImage \/ BulkUpdateImages \/ DeleteImages
             \/ CreateBucket \/ RenameBucket \/ DeleteBucket \/ AdmitOrExpel \/ ImportUserData
      PROVE  cached' \subseteq cached
  BY <1>5 DEF UploadImage, BulkUpdateImages, DeleteImages, CreateBucket, RenameBucket,
              DeleteBucket, AdmitOrExpel, ImportUserData, Atomic, Drop
<1> QED
  BY <1>1, <1>2, <1>3, <1>4, <1>5 DEF Next

LEMMA ReadingsKept == ASSUME Inv, Next PROVE cached' \subseteq Reading
<1>1. ASSUME NEW w \in Worker, FillExisting(w) PROVE ReadingOf(w) \in Reading
  <2>1. proc[w] \in Request /\ Ready(proc[w]) /\ proc[w].pc = "fill"
    BY <1>1 DEF FillExisting, At, Inv, Requested
  <2>2. /\ proc[w].user \in User /\ proc[w].bucket \in Bucket /\ proc[w].image \in Image
        /\ proc[w].existing \in {None, "own", "auto"}
    BY <2>1 DEF Request, Ready, Notes
  <2> QED
    BY <2>2 DEF ReadingOf, Reading
<1> QED
  BY <1>1, EntriesGoOrCome DEF Inv

-----------------------------------------------------------------------------
(* The exported file *)

LEMMA ExportDoneFile == ASSUME Inv, NEW w \in Worker, ExportDone(w) PROVE Downloaded'
<1> DEFINE kept == {h \in proc[w].held : <<"moved", h[1]>> \notin during[w]}
<1>1. file' = [into |-> None, names |-> proc[w].names, entries |-> proc[w].listed, held |-> kept]
  BY DEF ExportDone
<1>2. proc[w] \in Request /\ Ready(proc[w])
  BY DEF Inv, Requested
<1>3. kept \in SUBSET (Image \X Name)
  BY <1>2 DEF Request
<1> HIDE DEF kept
<1>4. file' \in Export
  BY <1>1, <1>2, <1>3 DEF Request, Export
<1>5. \A e \in file'.entries : e.name \in file'.names
  BY <1>1, <1>2 DEF Ready
<1> QED
  BY <1>4, <1>5 DEF Downloaded

LEMMA ImportFile == ASSUME Inv, ImportUserData PROVE Downloaded'
<1>1. PICK u \in User : file' = [file EXCEPT !.into = <<u, left>>]
  BY DEF ImportUserData
<1>2. file \in Export /\ \A e \in file.entries : e.name \in file.names
  BY DEF ImportUserData, Inv, Downloaded
<1>3. <<u, left>> \in User \X Nat
  BY DEF Inv
<1>4. file' \in Export /\ file'.entries = file.entries /\ file'.names = file.names
  BY <1>1, <1>2, <1>3 DEF Export
<1> QED
  BY <1>2, <1>4 DEF Downloaded

-----------------------------------------------------------------------------
(* The invariant holds *)

\* Steps that leave the tables, or the requests, as they are.
LEMMA ReadingTables ==
    ASSUME Inv, NEW w \in Worker,
           \/ AddToBucket(w) \/ FindInbox(w) \/ ReadExisting(w) \/ FillExisting(w) \/ RecallExisting(w)
           \/ DropEntries(w) \/ ExportStart(w) \/ ExportBucket(w) \/ ExportDone(w)
    PROVE  Tables'
<1>1. UNCHANGED tables
  BY DEF AddToBucket, FindInbox, ReadExisting, FillExisting, RecallExisting, DropEntries,
         ExportStart, ExportBucket, ExportDone, tables
<1> QED
  BY <1>1, RowsChange DEF Inv, Tables, ImagesOK, tables

\* Every step but two leaves the file, and none changes what clients may send.
LEMMA CountersAndFile ==
    ASSUME Inv, Next
    PROVE  /\ kinds' \subseteq Requests /\ left' \in Nat
           /\ UNCHANGED file \/ (\E w \in Worker : ExportDone(w)) \/ ImportUserData
<1>1. ASSUME NEW kind, Sent(kind) PROVE kinds' \subseteq Requests /\ left' \in Nat
  BY <1>1 DEF Sent, Inv
<1>2. ASSUME UNCHANGED <<kinds, left>> PROVE kinds' \subseteq Requests /\ left' \in Nat
  BY <1>2 DEF Inv
<1>3. ASSUME NEW w \in Worker, \/ CreateImage(w) \/ AddToBucket(w) \/ CreateInbox(w)
                               \/ ReadExisting(w) \/ RecallExisting(w) \/ MoveImages(w) \/ ExportStart(w)
      PROVE  (\E kind : Sent(kind)) /\ UNCHANGED file
  BY <1>3 DEF CreateImage, AddToBucket, CreateInbox, ReadExisting, RecallExisting, MoveImages,
              ExportStart, Opens
<1>4. ASSUME NEW w \in Worker, \/ FindInbox(w) \/ InsertAdded(w) \/ WriteNotes(w) \/ WriteTags(w)
                               \/ FillExisting(w) \/ UpdateImage(w) \/ DropEntries(w) \/ ExportBucket(w)
      PROVE  UNCHANGED <<kinds, left, file>>
  BY <1>4 DEF FindInbox, InsertAdded, WriteNotes, WriteTags, FillExisting, UpdateImage, DropEntries,
              ExportBucket, Resumes
<1>5. ASSUME NEW w \in Worker, ExportDone(w) PROVE UNCHANGED <<kinds, left>>
  BY <1>5 DEF ExportDone
<1>6. ASSUME \/ UploadImage \/ BulkUpdateImages \/ DeleteImages
             \/ CreateBucket \/ RenameBucket \/ DeleteBucket \/ AdmitOrExpel
      PROVE  (\E kind : Sent(kind)) /\ UNCHANGED file
  BY <1>6 DEF UploadImage, BulkUpdateImages, DeleteImages, CreateBucket, RenameBucket,
              DeleteBucket, AdmitOrExpel, Atomic
<1>7. ASSUME ImportUserData PROVE \E kind : Sent(kind)
  BY <1>7 DEF ImportUserData
<1> QED
  BY <1>1, <1>2, <1>3, <1>4, <1>5, <1>6, <1>7 DEF Next

LEMMA TablesKept == ASSUME Inv, Next PROVE Tables'
BY CreateImageTables, UploadImageTables, InsertAddedTables, CreateInboxTables, CreateBucketTables,
   WriteNotesTables, WriteTagsTables, UpdateImageTables, BulkUpdateTables, DeleteImagesTables,
   MoveImagesTables, RenameBucketTables, DeleteBucketTables, AdmitTables, ImportTables, ReadingTables DEF Next

LEMMA RequestsKept == ASSUME Inv, Next PROVE Requested'
<1>1. ASSUME \/ UploadImage \/ BulkUpdateImages \/ DeleteImages
             \/ CreateBucket \/ RenameBucket \/ DeleteBucket \/ AdmitOrExpel \/ ImportUserData
      PROVE  UNCHANGED proc
  BY <1>1 DEF UploadImage, BulkUpdateImages, DeleteImages, CreateBucket, RenameBucket,
              DeleteBucket, AdmitOrExpel, ImportUserData, Atomic
<1>2. UNCHANGED proc => Requested'
  BY DEF Inv, Requested
<1>3. ASSUME NEW w \in Worker, WriteTags(w) \/ DropEntries(w) \/ ExportDone(w) PROVE Goto(w, "idle")
  BY <1>3 DEF WriteTags, DropEntries, ExportDone
<1> QED
  BY <1>1, <1>2, <1>3, EndsRequests, CreateImageRequests, AddToBucketRequests, CreateInboxRequests,
     FindInboxRequests, InsertAddedRequests, WriteNotesRequests, ReadExistingRequests,
     FillExistingRequests, RecallExistingRequests, UpdateImageRequests, MoveImagesRequests,
     ExportStartRequests, ExportBucketRequests DEF Next

LEMMA FileKept == ASSUME Inv, Next PROVE Downloaded'
<1>1. UNCHANGED file => Downloaded'
  BY DEF Inv, Downloaded
<1> QED
  BY <1>1, CountersAndFile, ExportDoneFile, ImportFile

LEMMA InvHolds == SendsInit => Inv
<1> SUFFICES ASSUME SendsInit PROVE Inv
  OBVIOUS
<1>1. PICK s \in Stocks : buckets = s.buckets /\ images = s.images /\ readers = s.readers
  BY LibraryAssumption DEF SendsInit, Init
<1>2. BucketsOK /\ ImagesOK /\ readers \in SUBSET (User \X Bucket)
  BY <1>1, StocksAssumption DEF BucketsOK, ImagesOK
<1>3. NamesOK
  <2> SUFFICES ASSUME NEW u \in User, NEW n \in Name, NEW b \in Named(u, n), NEW c \in Named(u, n)
               PROVE  b = c
    BY DEF NamesOK
  <2>1. /\ b \in Bucket /\ buckets[b] \in BucketRow /\ buckets[b].owner = u /\ buckets[b].name = n
        /\ c \in Bucket /\ buckets[c] \in BucketRow /\ buckets[c].owner = u /\ buckets[c].name = n
    BY <1>2 DEF Named, OwnBuckets, Owns, Stored, BucketsOK
  <2>2. buckets[b] = buckets[c]
    BY <2>1 DEF BucketRow
  <2> QED
    BY <1>1, <2>1, <2>2, StocksAssumption, LibraryAssumption
<1>4. ImageInOwnersBucket
  <2> SUFFICES ASSUME NEW i \in Images PROVE Owns(images[i].owner, images[i].bucket)
    BY DEF ImageInOwnersBucket
  <2>1. i \in Image /\ images[i] \in ImageRow
    BY <1>2 DEF Images, Stored, ImagesOK
  <2>2. buckets[images[i].bucket] \in BucketRow /\ buckets[images[i].bucket].owner = images[i].owner
    BY <1>1, <2>1, StocksAssumption
  <2> QED
    BY <2>2, LibraryAssumption DEF Owns, Stored
<1>5. Requested
  BY IdleIsReady DEF SendsInit, Init, Requested
<1>6. Downloaded
  BY DEF SendsInit, Init, Downloaded
<1>7. kinds \subseteq Requests /\ left \in Nat /\ cached \subseteq Reading
  BY LibraryAssumption DEF SendsInit, Init
<1> QED
  BY <1>2, <1>3, <1>4, <1>5, <1>6, <1>7 DEF Inv, Tables

LEMMA InvKept == Inv /\ [SendsNext]_allVars => Inv'
<1> SUFFICES ASSUME Inv, [SendsNext]_allVars PROVE Inv'
  OBVIOUS
<1>1. CASE Next
  BY <1>1, TablesKept, RequestsKept, ReadingsKept, FileKept, CountersAndFile DEF Inv
<1>2. CASE UNCHANGED <<tables, proc, cached, file, kinds, during>> /\ left' \in Nat
  BY <1>2 DEF tables, Inv, Tables, BucketsOK, ImagesOK, NamesOK, ImageInOwnersBucket, Images, Named,
              OwnBuckets, Owns, Stored, Requested, Downloaded
<1> QED
  BY <1>1, <1>2, SendsSteps DEF vars, tables, Aside, Inv

\* Every row, request in flight and export is well-formed, and the tables agree
\* with one another (the schema, and what each handler keeps between its queries).
THEOREM InvAlways == SendsSpec => []Inv
BY InvHolds, InvKept, PTL DEF SendsSpec

-----------------------------------------------------------------------------
(* What follows from it *)

\* Types hold, and no user ever has two buckets of one name (the schema's UNIQUE
\* constraint, repositories/buckets.rs and the import's own lookups).
THEOREM TypeCorrect == SendsSpec => []TypeOK
BY InvAlways, InvGivesTypes, PTL

\* Every image is always in a bucket of its owner (move_images, bulk updates,
\* late inserts of the Discord commands and import_user_data).
THEOREM ImagesStayHome == SendsSpec => []ImageInOwnersBucket
BY InvAlways, InvGivesTypes, PTL

LEMMA RulesAgree == Inv => ReadersAgree
<1> SUFFICES ASSUME Inv, NEW u \in User
             PROVE  /\ Found(u) = UNION {Listed(u, b) : b \in Bucket}
                    /\ \A b \in Bucket : Listed(u, b) # {} => CanRead(u, b)
  BY DEF ReadersAgree
<1>1. ASSUME NEW i \in Images
      PROVE  /\ images[i].bucket \in Bucket
             /\ Stored(buckets, images[i].bucket) /\ buckets[images[i].bucket].owner = images[i].owner
  BY StoredRows DEF Inv, Tables, ImageInOwnersBucket, Owns, Images, ImageRow
<1>2. Found(u) \subseteq UNION {Listed(u, b) : b \in Bucket}
  BY <1>1 DEF Found, Listed
<1>3. ASSUME NEW b \in Bucket, NEW i \in Listed(u, b)
      PROVE  i \in Found(u) /\ CanRead(u, b)
  <2>1. i \in Images /\ images[i].bucket = b /\ (images[i].owner = u \/ <<u, b>> \in readers)
    BY DEF Listed
  <2> QED
    BY <1>1, <2>1 DEF Found, CanRead, Owns
<1> QED
  BY <1>2, <1>3

\* The listing, the search and the right to send always let the same users at the
\* same images (list_for_bucket, search_for_user, send_history's record).
THEOREM ReadersAlwaysAgree == SendsSpec => []ReadersAgree
BY InvAlways, RulesAgree, PTL

\* A request that stays where it is through a step, and has seen the step's event.
Waits(w) == proc[w].pc # "idle" /\ proc'[w] = proc[w]
Seen(e)  == \A w \in Worker : Waits(w) => e \in during'[w]

\* What any step leaves, or tells the requests that wait.
Forgets == \A w \in Worker : Waits(w) => during[w] \subseteq during'[w]
BucketsMove ==
    \A b \in Bucket : Stored(buckets, b) => buckets'[b] = buckets[b] \/ Seen(<<"moved", b>>)
IdsStay ==
    \A i \in Image : images[i] # None => images'[i] # None /\ (images[i] = Gone => images'[i] = Gone)
ImagesMove ==
    \A i \in Image : Stored(images, i) =>
        \/ images'[i] \notin {None, Gone} /\ images'[i].owner = images[i].owner /\ images'[i].bucket = images[i].bucket
        \/ Seen(<<"moved", i>>)
WordsChange ==
    \A i \in Image : Stored(images, i) /\ images'[i] \notin {None, Gone} =>
        \/ /\ images'[i].words.notes = "own" => images[i].words.notes = "own"
           /\ "own" \in images'[i].words.tags => "own" \in images[i].words.tags
        \/ Seen(<<"edited", i>>)
\* Only a request about to write on an image brings a post's words to it.
Rewritten ==
    \A i \in Image : Stored(images, i) /\ images'[i] \notin {None, Gone} =>
        \/ /\ images'[i].words.notes = images[i].words.notes
           /\ "social" \in images'[i].words.tags => "social" \in images[i].words.tags
        \/ \E w \in Worker : proc[w].image = i /\ (UpdateImage(w) \/ WriteNotes(w) \/ WriteTags(w))

\* A step that moves an image or brings it the user's notes is of a request that has
\* yet to drop the entry it was read under.
DueNext(k) == \E w \in Worker : k \in proc'[w].due
WillDrop ==
    \A i \in Image : Stored(images, i) /\ images'[i] \notin {None, Gone} =>
        \/ /\ images'[i].owner = images[i].owner /\ images'[i].bucket = images[i].bucket
           /\ images'[i].words.notes = "own" => images[i].words.notes = "own"
        \/ DueNext(<<images[i].owner, images[i].bucket, i>>)

Told == Forgets /\ BucketsMove /\ IdsStay /\ ImagesMove /\ WordsChange /\ Rewritten /\ WillDrop

LEMMA CrossingTells ==
    ASSUME NEW events, Crossing(events)
    PROVE  Forgets /\ \A e \in events : Seen(e)
BY DEF Crossing, Forgets, Seen, Waits

LEMMA TablesStill ==
    ASSUME UNCHANGED <<buckets, images>>, Forgets
    PROVE  Told
BY DEF Told, BucketsMove, IdsStay, ImagesMove, WordsChange, Rewritten, WillDrop, Stored

\* An insert takes an id never used.
LEMMA InsertTells ==
    ASSUME Inv, Forgets, UNCHANGED buckets, NEW i \in Fresh(images, Image), NEW row,
           row \notin {None, Gone}, images' = [images EXCEPT ![i] = row]
    PROVE  Told
<1>1. i \in Image /\ images[i] = None
  BY DEF Fresh
<1>2. images'[i] = row /\ \A j \in Image \ {i} : images'[j] = images[j]
  BY <1>1 DEF Inv, Tables, ImagesOK
<1> QED
  BY <1>1, <1>2 DEF Told, BucketsMove, IdsStay, ImagesMove, WordsChange, Rewritten, WillDrop, Stored

\* One row is written over; the user's words come with the event.
LEMMA RewriteTells ==
    ASSUME Inv, Forgets, UNCHANGED buckets, NEW i \in Image, Stored(images, i), NEW row \in ImageRow,
           NEW w \in Worker, proc[w].image = i, UpdateImage(w) \/ WriteNotes(w) \/ WriteTags(w),
           images' = [images EXCEPT ![i] = row], row.owner = images[i].owner, row.bucket = images[i].bucket,
           \/ /\ row.words.notes = "own" => images[i].words.notes = "own"
              /\ "own" \in row.words.tags => "own" \in images[i].words.tags
           \/ Seen(<<"edited", i>>),
           \/ row.words.notes = "own" => images[i].words.notes = "own"
           \/ DueNext(<<images[i].owner, images[i].bucket, i>>)
    PROVE  Told
<1>1. images'[i] = row /\ \A j \in Image \ {i} : images'[j] = images[j]
  BY DEF Inv, Tables, ImagesOK
<1>2. row \notin {None, Gone}
  BY LibraryAssumption
<1> QED
  BY <1>1, <1>2 DEF Told, BucketsMove, IdsStay, ImagesMove, WordsChange, Rewritten, WillDrop, Stored

LEMMA InsertIsRow ==
    ASSUME NEW i, NEW u \in User, NEW b \in Bucket, NEW url \in Link, NEW tags \in AllTags,
           Insert(i, u, b, url, tags)
    PROVE  \E row : row \notin {None, Gone} /\ images' = [images EXCEPT ![i] = row]
<1>1. NewRow(u, b, url, tags) \in ImageRow
  BY DEF NewRow, ImageRow, Words, AllTags
<1> QED
  BY <1>1, LibraryAssumption DEF Insert

LEMMA CreateImageTells == ASSUME Inv, NEW w \in Worker, CreateImage(w) PROVE Told
<1>1. PICK u \in User, b \in Bucket, m \in Posts, own \in {{}, {"own"}}, i \in Fresh(images, Image) :
        Insert(i, u, b, m.url, own \cup m.tags) /\ UNCHANGED <<buckets, readers>> /\ Crossing(Quiet)
  BY DEF CreateImage, Opens
<1>2. m.url \in Link /\ own \cup m.tags \in AllTags
  BY PostsAreMedia DEF AnyMedia, AllTags
<1>3. \E row : row \notin {None, Gone} /\ images' = [images EXCEPT ![i] = row]
  BY <1>1, <1>2, InsertIsRow
<1> QED
  BY <1>1, <1>3, InsertTells, CrossingTells

LEMMA UploadImageTells == ASSUME Inv, UploadImage PROVE Told
<1>1. PICK u \in User, b \in Bucket, url \in Link, i \in Fresh(images, Image) : Insert(i, u, b, url, {})
  BY DEF UploadImage
<1>2. {} \in AllTags /\ UNCHANGED buckets /\ Crossing(Quiet)
  BY DEF AllTags, UploadImage, Atomic
<1>3. \E row : row \notin {None, Gone} /\ images' = [images EXCEPT ![i] = row]
  BY <1>1, <1>2, InsertIsRow
<1> QED
  BY <1>1, <1>2, <1>3, InsertTells, CrossingTells

LEMMA InsertAddedTells == ASSUME Inv, NEW w \in Worker, InsertAdded(w) PROVE Told
<1>1. UNCHANGED buckets /\ Crossing(Quiet)
  BY DEF InsertAdded, Resumes
<1>2. CASE UNCHANGED images
  BY <1>1, <1>2, TablesStill, CrossingTells
<1>3. CASE ~UNCHANGED images
  <2>1. PICK i \in Fresh(images, Image) : Insert(i, proc[w].user, proc[w].bucket, proc[w].media.url, {})
    BY <1>3 DEF InsertAdded
  <2>2. proc[w].user \in User /\ proc[w].bucket \in Bucket /\ proc[w].media.url \in Link /\ {} \in AllTags
    BY DEF InsertAdded, At, Inv, Requested, Ready, AnyMedia, AllTags
  <2>3. \E row : row \notin {None, Gone} /\ images' = [images EXCEPT ![i] = row]
    BY <2>1, <2>2, InsertIsRow
  <2> QED
    BY <1>1, <2>1, <2>3, InsertTells, CrossingTells
<1> QED
  BY <1>2, <1>3

\* A new bucket takes an id never used.
LEMMA NewBucketTells ==
    ASSUME Inv, Forgets, UNCHANGED images, NEW b \in Fresh(buckets, Bucket), NEW row,
           buckets' = [buckets EXCEPT ![b] = row]
    PROVE  Told
<1>1. buckets[b] = None /\ \A c \in Bucket \ {b} : buckets'[c] = buckets[c]
  BY DEF Fresh, Inv, Tables, BucketsOK
<1> QED
  BY <1>1 DEF Told, BucketsMove, IdsStay, ImagesMove, WordsChange, Rewritten, WillDrop, Stored

LEMMA CreateInboxTells == ASSUME Inv, NEW w \in Worker, CreateInbox(w) PROVE Told
<1>1. UNCHANGED images /\ Crossing(Quiet)
  BY DEF CreateInbox, Opens
<1>2. PICK u \in User :
        \/ UNCHANGED buckets
        \/ \E b \in Fresh(buckets, Bucket) : buckets' = [buckets EXCEPT ![b] = [owner |-> u, name |-> Inbox]]
  BY DEF CreateInbox
<1> QED
  BY <1>1, <1>2, NewBucketTells, TablesStill, CrossingTells

LEMMA CreateBucketTells == ASSUME Inv, CreateBucket PROVE Told
BY NewBucketTells, CrossingTells DEF CreateBucket, Atomic

LEMMA WriteNotesTells == ASSUME Inv, NEW w \in Worker, WriteNotes(w) PROVE Told
<1> DEFINE i == proc[w].image  row == [images[i] EXCEPT !.words.notes = proc[w].media.notes]
<1>1. i \in Image /\ proc[w].media.notes \in {None, "auto"} /\ UNCHANGED buckets /\ Crossing(Quiet)
  BY DEF WriteNotes, At, Inv, Requested, Ready, AnyMedia
<1>2. CASE UNCHANGED images
  BY <1>1, <1>2, TablesStill, CrossingTells
<1>3. CASE Stored(images, i) /\ images' = [images EXCEPT ![i].words.notes = proc[w].media.notes]
  <2>1. images[i] \in ImageRow
    BY <1>1, <1>3, StoredRows DEF Inv
  <2>2. /\ row \in ImageRow /\ row.owner = images[i].owner /\ row.bucket = images[i].bucket
        /\ row.words.notes = proc[w].media.notes /\ row.words.tags = images[i].words.tags
    BY <1>1, <2>1 DEF ImageRow, Words
  <2>3. images' = [images EXCEPT ![i] = row]
    BY <1>1, <1>3, <2>1 DEF Inv, Tables, ImagesOK
  <2>4. proc[w].media.notes = "own" => images[i].words.notes = "own"
    BY <1>1, LibraryAssumption
  <2>5. proc[w].image = i
    OBVIOUS
  <2> HIDE DEF i, row
  <2> QED
    BY <1>1, <1>3, <2>2, <2>3, <2>4, <2>5, RewriteTells, CrossingTells
<1> QED
  BY <1>2, <1>3 DEF WriteNotes, Matches

LEMMA WriteTagsTells == ASSUME Inv, NEW w \in Worker, WriteTags(w) PROVE Told
<1> DEFINE i == proc[w].image  row == [images[i] EXCEPT !.words.tags = proc[w].media.tags]
<1>1. i \in Image /\ proc[w].media.tags \in SUBSET {"social"} /\ UNCHANGED buckets /\ Crossing(Quiet)
  BY DEF WriteTags, At, Inv, Requested, Ready, AnyMedia
<1>2. CASE UNCHANGED images
  BY <1>1, <1>2, TablesStill, CrossingTells
<1>3. CASE Stored(images, i) /\ images' = [images EXCEPT ![i].words.tags = proc[w].media.tags]
  <2>1. images[i] \in ImageRow
    BY <1>1, <1>3, StoredRows DEF Inv
  <2>2. /\ row \in ImageRow /\ row.owner = images[i].owner /\ row.bucket = images[i].bucket
        /\ row.words.notes = images[i].words.notes /\ row.words.tags = proc[w].media.tags
    BY <1>1, <2>1 DEF ImageRow, Words
  <2>3. images' = [images EXCEPT ![i] = row]
    BY <1>1, <1>3, <2>1 DEF Inv, Tables, ImagesOK
  <2>4. "own" \notin proc[w].media.tags
    BY <1>1
  <2>5. proc[w].image = i
    OBVIOUS
  <2>6. /\ row.words.notes = "own" => images[i].words.notes = "own"
        /\ "own" \in row.words.tags => "own" \in images[i].words.tags
    BY <2>2, <2>4
  <2>7. Forgets
    BY <1>1, CrossingTells
  <2> HIDE DEF i, row
  <2> QED
    BY <1>1, <1>3, <2>2, <2>3, <2>5, <2>6, <2>7, RewriteTells
<1> QED
  BY <1>2, <1>3 DEF WriteTags, Matches

\* A PATCH brings the user's words only when it names them.
LEMMA PatchedOwn ==
    ASSUME NEW q \in Patch, NEW old \in Words, NEW existing, q.notes # "own", q.tags # {"own"}
    PROVE  LET auto == IF q.media = None THEN None ELSE q.media.notes IN
           /\ Patched(NotesPatch(q.notes, auto, existing), old.notes) = "own" => old.notes = "own"
           /\ "own" \in Patched(TagsPatch(q), old.tags) => "own" \in old.tags
<1> DEFINE auto == IF q.media = None THEN None ELSE q.media.notes
<1>1. q.media # None => q.media \in AnyMedia
  BY DEF Patch, Media, TwitterMedia, BlueskyMedia, PlainMedia, AnyMedia
<1>2. auto \in {None, "auto"} /\ None # "own"
  BY <1>1, LibraryAssumption DEF AnyMedia
<1>3. q.notes \in {Keep, None} /\ q.tags \in {Keep, {}}
  BY DEF Patch
<1>4. Patched(NotesPatch(q.notes, auto, existing), old.notes) = "own" => old.notes = "own"
  <2> HIDE DEF auto
  <2> QED
    BY <1>2, <1>3 DEF Patched, NotesPatch
<1>5. "own" \in Patched(TagsPatch(q), old.tags) => "own" \in old.tags
  BY <1>1, <1>3 DEF Patched, TagsPatch, AnyMedia
<1> QED
  BY <1>4, <1>5

LEMMA UpdateImageTells == ASSUME Inv, NEW w \in Worker, UpdateImage(w) PROVE Told
<1> DEFINE p   == proc[w]
           i   == p.image
           m   == p.patch.media
           notes == Patched(NotesPatch(p.patch.notes, IF m = None THEN None ELSE m.notes,
                                       p.existing), images[i].words.notes)
           tags  == Patched(TagsPatch(p.patch), images[i].words.tags)
           new == [notes |-> notes, tags |-> tags,
                   enabled |-> Patched(p.patch.enabled, images[i].words.enabled)]
           url == IF m = None THEN images[i].url ELSE m.url
           row == [images[i] EXCEPT !.url = url, !.words = new]
           own == p.patch.notes = "own" \/ p.patch.tags = {"own"}
<1>1. i \in Image /\ p.patch \in Patch /\ UNCHANGED buckets
  BY DEF UpdateImage, At, Inv, Requested, Ready
<1>2. Crossing(IF own THEN Edited(i) ELSE Quiet)
  BY DEF UpdateImage, Resumes
<1>3. Forgets /\ (own => Seen(<<"edited", i>>))
  BY <1>2, CrossingTells DEF Edited
<1>4. CASE UNCHANGED images
  BY <1>1, <1>3, <1>4, TablesStill
<1>5. CASE Stored(images, i) /\ images' = [images EXCEPT ![i] = row] /\ Matches(p.user, p.bucket, i)
  <2>1. images[i] \in ImageRow /\ images[i].words \in Words /\ images[i].url \in Link
    BY <1>1, <1>5, StoredRows, WordsOf DEF Inv
  <2>2. new \in Words
    BY <1>1, <2>1, PatchedWords
  <2>3. url \in Link
    BY <1>1, <2>1 DEF Patch, Media, TwitterMedia, BlueskyMedia, PlainMedia
  <2>4. ~own => /\ notes = "own" => images[i].words.notes = "own"
                /\ "own" \in tags => "own" \in images[i].words.tags
    BY <1>1, <2>1, PatchedOwn
  <2>5. new.notes = notes /\ new.tags = tags /\ proc[w].image = i
    OBVIOUS
  <2> HIDE DEF i, new, url, notes, tags, own
  <2>6. row \in ImageRow /\ row.owner = images[i].owner /\ row.bucket = images[i].bucket /\ row.words = new
    BY <2>1, <2>2, <2>3 DEF ImageRow
  <2>7. DueNext(<<images[i].owner, images[i].bucket, i>>)
    <3>1. images[i].owner = proc[w].user /\ images[i].bucket = proc[w].bucket /\ proc[w].image = i
      BY <1>5 DEF Matches, i
    <3>2. proc'[w] = Drops({Key(proc[w])})
      BY DEF UpdateImage, Inv, Requested
    <3>3. proc'[w].due = {Key(proc[w])}
      BY <3>2 DEF Drops, Idle
    <3> QED
      BY <3>1, <3>3 DEF DueNext, Key
  <2> HIDE DEF row
  <2> QED
    BY <1>1, <1>3, <1>5, <2>4, <2>5, <2>6, <2>7, RewriteTells
<1>6. \/ UNCHANGED images
      \/ Stored(images, i) /\ images' = [images EXCEPT ![i] = row] /\ Matches(p.user, p.bucket, i)
  BY DEF UpdateImage, Matches
<1> QED
  BY <1>4, <1>5, <1>6

LEMMA BulkUpdateTells == ASSUME Inv, BulkUpdateImages PROVE Told
<1>0. PICK u \in User, b \in Bucket :
        \E S \in SUBSET Matching(u, b) \ {{}}, enabled \in {Keep, TRUE, FALSE},
           add \in {{}, {"own"}}, remove \in SUBSET {"own", "social"} :
           /\ enabled # Keep \/ add \cup remove # {}
           /\ images' = Edit(S, enabled, add, remove)
           /\ Drop({u} \X {b} \X S) /\ UNCHANGED <<proc, file>>
           /\ Crossing(IF add = {} THEN Quiet ELSE UNION {Edited(i) : i \in S})
  BY DEF BulkUpdateImages
<1>1. PICK S \in SUBSET Matching(u, b), enabled \in {Keep, TRUE, FALSE},
           add \in {{}, {"own"}}, remove \in SUBSET {"own", "social"} :
        /\ images' = Edit(S, enabled, add, remove)
        /\ Crossing(IF add = {} THEN Quiet ELSE UNION {Edited(i) : i \in S})
  BY <1>0
<1>2. UNCHANGED buckets
  BY DEF BulkUpdateImages
<1>3. Forgets
  BY <1>1, CrossingTells
<1>4. \A i \in S : add # {} => Seen(<<"edited", i>>)
  BY <1>1, CrossingTells DEF Edited
<1>5. ASSUME NEW i \in S
      PROVE  /\ Stored(images, i) /\ images'[i] \notin {None, Gone}
             /\ images'[i].owner = images[i].owner /\ images'[i].bucket = images[i].bucket
             /\ images'[i].words.notes = images[i].words.notes
             /\ images'[i].words.tags = (images[i].words.tags \ remove) \cup add
  <2>1. i \in Image /\ Stored(images, i)
    BY DEF Matching, Images
  <2>2. images[i] \in ImageRow
    BY <2>1, StoredRows DEF Inv
  <2> DEFINE e == Patched(enabled, images[i].words.enabled)
             t == (images[i].words.tags \ remove) \cup add
  <2>3. images'[i] = EditRow(images[i], e, t)
    BY <1>1, <2>1 DEF Edit, EditRow
  <2> HIDE DEF e, t
  <2>4. e \in BOOLEAN /\ t \in AllTags
    <3>1. images[i].words.enabled \in BOOLEAN /\ images[i].words.tags \in AllTags
      BY <2>1, WordsOf DEF Inv
    <3> QED
      BY <3>1 DEF Patched, AllTags, e, t
  <2>5. /\ images'[i] \in ImageRow /\ images'[i].owner = images[i].owner /\ images'[i].bucket = images[i].bucket
        /\ images'[i].words.notes = images[i].words.notes /\ images'[i].words.tags = t
    BY <2>2, <2>3, <2>4, EditedRow
  <2> QED
    BY <2>1, <2>5, LibraryAssumption DEF t
<1>6. \A i \in Image \ S : images'[i] = images[i]
  BY <1>1 DEF Edit
<1>7. IdsStay /\ ImagesMove
  BY <1>5, <1>6 DEF IdsStay, ImagesMove, Stored
<1>9. Rewritten
  <2> SUFFICES ASSUME NEW i \in Image
               PROVE  /\ images'[i].words.notes = images[i].words.notes
                      /\ "social" \in images'[i].words.tags => "social" \in images[i].words.tags
    BY DEF Rewritten
  <2> QED
    BY <1>5, <1>6
<1>10. WillDrop
  <2> SUFFICES ASSUME NEW i \in Image
               PROVE  /\ images'[i].owner = images[i].owner /\ images'[i].bucket = images[i].bucket
                      /\ images'[i].words.notes = images[i].words.notes
    BY DEF WillDrop
  <2> QED
    BY <1>5, <1>6
<1>8. WordsChange
  <2> SUFFICES ASSUME NEW i \in Image, Stored(images, i), i \in S, add = {}
               PROVE  /\ images'[i].words.notes = "own" => images[i].words.notes = "own"
                      /\ "own" \in images'[i].words.tags => "own" \in images[i].words.tags
    BY <1>4, <1>6 DEF WordsChange
  <2> QED
    BY <1>5
<1> QED
  BY <1>2, <1>3, <1>7, <1>8, <1>9, <1>10 DEF Told, BucketsMove

LEMMA DeleteImagesTells == ASSUME Inv, DeleteImages PROVE Told
<1>1. PICK S \in SUBSET Image : /\ images' = [i \in Image |-> IF i \in S THEN Gone ELSE images[i]]
                                /\ Crossing(Moved(S))
  BY DEF DeleteImages, Matching, Images
<1>2. UNCHANGED buckets /\ Forgets /\ \A i \in S : Seen(<<"moved", i>>)
  BY <1>1, CrossingTells DEF DeleteImages, Moved
<1>3. \A i \in Image : images'[i] = IF i \in S THEN Gone ELSE images[i]
  BY <1>1
<1> QED
  BY <1>2, <1>3, LibraryAssumption DEF Told, BucketsMove, IdsStay, ImagesMove, WordsChange, Rewritten, WillDrop, Stored

LEMMA MoveImagesTells == ASSUME Inv, NEW w \in Worker, MoveImages(w) PROVE Told
<1>0. PICK u \in User, b \in Bucket, c \in Bucket :
        \E S \in SUBSET Matching(u, b) \ {{}} :
           images' = Relocate(S, c) /\ Begin(w, Drops({u} \X {b, c} \X S)) /\ Crossing(Moved(S))
  BY DEF MoveImages, Opens
<1>1. PICK S \in SUBSET Matching(u, b) :
        images' = Relocate(S, c) /\ Begin(w, Drops({u} \X {b, c} \X S)) /\ Crossing(Moved(S))
  BY <1>0
<1>2. UNCHANGED buckets /\ Forgets /\ \A i \in S : Seen(<<"moved", i>>)
  BY <1>1, CrossingTells DEF MoveImages, Moved
<1>3. ASSUME NEW i \in S
      PROVE  images'[i] \in ImageRow /\ images'[i].words = images[i].words
  <2>1. i \in Image /\ images[i] \in ImageRow
    BY StoredRows DEF Matching, Images, Inv
  <2>2. images'[i] = [images[i] EXCEPT !.bucket = c]
    BY <1>1, <2>1 DEF Relocate
  <2> QED
    BY <2>1, <2>2 DEF ImageRow
<1>4. \A i \in Image \ S : images'[i] = images[i]
  BY <1>1 DEF Relocate
<1>5. \A i \in Image : images'[i].words = images[i].words
  BY <1>3, <1>4
<1>6. \A i \in S : images[i] \notin {None, Gone} /\ images'[i] \notin {None, Gone}
  BY <1>3, LibraryAssumption DEF Matching, Images, Stored
<1>7. IdsStay
  BY <1>4, <1>6 DEF IdsStay
<1>8. ImagesMove
  BY <1>2, <1>4 DEF ImagesMove, Stored
<1>9. WordsChange /\ Rewritten
  BY <1>5 DEF WordsChange, Rewritten
<1>10. proc'[w].due = {u} \X {b, c} \X S
  <2>1. proc'[w] = Drops({u} \X {b, c} \X S)
    BY <1>1 DEF Begin, Inv, Requested
  <2> QED
    BY <2>1 DEF Drops, Idle
<1>11. \A i \in S : images[i].owner = u /\ images[i].bucket = b
  BY DEF Matching, Matches
<1>12. WillDrop
  BY <1>4, <1>10, <1>11 DEF WillDrop, DueNext
<1> QED
  BY <1>2, <1>7, <1>8, <1>9, <1>12 DEF Told, BucketsMove

LEMMA RenameBucketTells == ASSUME Inv, RenameBucket PROVE Told
<1>1. PICK b \in Bucket, n \in Name : buckets' = [buckets EXCEPT ![b].name = n] /\ Crossing(Moved({b}))
  BY DEF RenameBucket, Atomic
<1>2. UNCHANGED images /\ Forgets /\ Seen(<<"moved", b>>)
  BY <1>1, CrossingTells DEF RenameBucket, Moved
<1>3. \A c \in Bucket \ {b} : buckets'[c] = buckets[c]
  BY <1>1 DEF Inv, Tables, BucketsOK
<1> QED
  BY <1>2, <1>3 DEF Told, BucketsMove, IdsStay, ImagesMove, WordsChange, Rewritten, WillDrop, Stored

LEMMA DeleteBucketTells == ASSUME Inv, DeleteBucket PROVE Told
<1>1. PICK b \in Bucket : LET inside == {i \in Images : images[i].bucket = b} IN
        /\ buckets' = [buckets EXCEPT ![b] = Gone]
        /\ images' = [i \in Image |-> IF i \in inside THEN Gone ELSE images[i]]
        /\ Crossing(Moved(inside \cup {b}))
  BY DEF DeleteBucket, Atomic
<1> DEFINE inside == {i \in Images : images[i].bucket = b}
<1>2. Forgets /\ \A x \in inside \cup {b} : Seen(<<"moved", x>>)
  BY <1>1, CrossingTells DEF Moved
<1>3. \A c \in Bucket \ {b} : buckets'[c] = buckets[c]
  BY <1>1 DEF Inv, Tables, BucketsOK
<1>4. \A i \in Image : images'[i] = IF i \in inside THEN Gone ELSE images[i]
  BY <1>1
<1> HIDE DEF inside
<1> QED
  BY <1>2, <1>3, <1>4, LibraryAssumption DEF Told, BucketsMove, IdsStay, ImagesMove, WordsChange, Rewritten, WillDrop, Stored

LEMMA ImportTells == ASSUME Inv, ImportUserData PROVE Told
<1>1. PICK u \in User :
        \E ids \in [NewNames(u) -> Fresh(buckets, Bucket)], rows \in [NewPairs(u) -> Fresh(images, Image)],
           first \in [NewPairs(u) -> file.entries] :
           buckets' = AddBuckets(u, ids) /\ images' = AddImages(u, ids, rows, first)
  BY DEF ImportUserData
<1>2. PICK ids \in [NewNames(u) -> Fresh(buckets, Bucket)], rows \in [NewPairs(u) -> Fresh(images, Image)],
           first \in [NewPairs(u) -> file.entries] :
        buckets' = AddBuckets(u, ids) /\ images' = AddImages(u, ids, rows, first)
  BY <1>1
<1>3. Forgets
  BY CrossingTells DEF ImportUserData
<1>4. \A b \in Bucket : buckets[b] # None => buckets'[b] = buckets[b]
  BY <1>2 DEF AddBuckets, Fresh
<1>5. \A i \in Image : images[i] # None => images'[i] = images[i]
  BY <1>2 DEF AddImages, Fresh
<1> QED
  BY <1>3, <1>4, <1>5 DEF Told, BucketsMove, IdsStay, ImagesMove, WordsChange, Rewritten, WillDrop, Stored

LEMMA QuietTells ==
    ASSUME Inv,
           \/ AdmitOrExpel
           \/ \E w \in Worker : \/ AddToBucket(w) \/ FindInbox(w) \/ ReadExisting(w) \/ RecallExisting(w)
                                \/ FillExisting(w) \/ DropEntries(w)
                                \/ ExportStart(w) \/ ExportBucket(w) \/ ExportDone(w)
    PROVE  Told
<1>1. UNCHANGED <<buckets, images>>
  BY DEF AdmitOrExpel, AddToBucket, FindInbox, ReadExisting, RecallExisting, FillExisting, DropEntries,
         ExportStart, ExportBucket, ExportDone, tables
<1>2. CASE Crossing(Quiet)
  BY <1>1, <1>2, TablesStill, CrossingTells
<1>3. ASSUME NEW w \in Worker, RecallExisting(w) PROVE Forgets
  <2>1. \E p, S : Begin(w, p) /\ p.pc = "patch" /\ during' = [x \in Worker |-> IF x # w THEN during[x] ELSE S]
    BY <1>3 DEF RecallExisting, Idle
  <2>2. PICK p, S : Begin(w, p) /\ p.pc = "patch" /\ during' = [x \in Worker |-> IF x # w THEN during[x] ELSE S]
    BY <2>1
  <2>3. proc'[w] # proc[w]
    BY <2>2 DEF Begin, Inv, Requested
  <2> QED
    BY <2>2, <2>3 DEF Forgets, Waits
<1>4. Crossing(Quiet) \/ \E w \in Worker : RecallExisting(w)
  BY DEF AdmitOrExpel, AddToBucket, FindInbox, ReadExisting, FillExisting, DropEntries,
         ExportStart, ExportBucket, ExportDone, Atomic, Opens, Resumes
<1> QED
  BY <1>1, <1>2, <1>3, <1>4, TablesStill

LEMMA StepsTell == ASSUME Inv, Next PROVE Told
BY QuietTells, CreateImageTells, UploadImageTells, InsertAddedTells, CreateInboxTells, CreateBucketTells,
   WriteNotesTells, WriteTagsTells, UpdateImageTells, BulkUpdateTells, DeleteImagesTells, MoveImagesTells,
   RenameBucketTells, DeleteBucketTells, ImportTells DEF Next

-----------------------------------------------------------------------------
(* What crosses a request *)

Interrupted(w) == \E e \in during[w] : e[1] = "moved" /\ e[2] \in Bucket

\* A bucket an add to it waits on stays, unless it was deleted or renamed meanwhile.
BucketWaits ==
    \A w \in Worker :
        LET p == proc[w] IN
        /\ p.pc = "find" => Named(p.user, Inbox) # {} \/ Interrupted(w)
        /\ p.pc = "insert" => Owns(p.user, p.bucket) \/ Interrupted(w)

\* What a request is about to overwrite is none of the user's words, unless the
\* user wrote them meanwhile or the request went by an entry overtaken on its way in.
NoOwnWords(p) ==
    LET words == images[p.image].words IN
    /\ p.pc \in {"fill", "patch"} /\ words.notes = "own" => p.existing = "own" \/ p.late
    /\ p.pc = "notes" => words.notes # "own"
    /\ (p.pc = "notes" /\ p.media.tags # {}) \/ p.pc = "tags" => "own" \notin words.tags

WordsWait ==
    \A w \in Worker :
        LET p == proc[w] IN
        p.pc \in {"fill", "patch", "notes", "tags"} =>
            /\ images[p.image] # None
            /\ Stored(images, p.image) /\ <<"edited", p.image>> \notin during[w] => NoOwnWords(p)
            /\ p.pc = "fill" /\ Stored(images, p.image) /\ <<"moved", p.image>> \notin during[w]
                 => Matches(p.user, p.bucket, p.image)

\* What is cached is of images that were there, and explained when stale.
CacheExplained == StaleReadingsExplained /\ \A e \in cached : images[e.image] # None

EntriesOf(S, i) == {e \in S : e.image = i}

\* An image is in a bucket yet to be listed, or was listed once under the name it
\* was held by.
Accounted(p, i, n) ==
    /\ Stored(images, i) /\ images[i].owner = p.user
    /\ \/ [id |-> images[i].bucket, name |-> n] \in p.todo /\ EntriesOf(p.listed, i) = {}
       \/ /\ \A t \in p.todo : t.id # images[i].bucket
          /\ \E e \in p.listed : e.name = n /\ EntriesOf(p.listed, i) = {e}

ExportWaits ==
    \A w \in Worker :
        LET p == proc[w] IN
        p.pc = "export" =>
            /\ \A s, t \in p.todo : s.id = t.id => s = t
            /\ \A h \in p.held : <<"moved", h[1]>> \notin during[w] => Accounted(p, h[1], h[2])

FileComplete ==
    file # None => \A h \in file.held :
        \E e \in file.entries : e.name = h[2] /\ EntriesOf(file.entries, h[1]) = {e}

\* Which action brings a request to each of its steps.
Turn(w) ==
    /\ proc'[w].pc = "find"   => CreateInbox(w)
    /\ proc'[w].pc = "insert" => AddToBucket(w) \/ CreateInbox(w) \/ FindInbox(w)
    /\ proc'[w].pc = "notes"  => CreateImage(w) \/ InsertAdded(w)
    /\ proc'[w].pc = "tags"   => InsertAdded(w) \/ WriteNotes(w)
    /\ proc'[w].pc = "fill"   => ReadExisting(w)
    /\ proc'[w].pc = "patch"  => FillExisting(w) \/ RecallExisting(w)
    /\ proc'[w].pc = "export" => ExportStart(w) \/ ExportBucket(w)

LEMMA OthersStay ==
    ASSUME Inv, Next, NEW w \in Worker, proc'[w] # proc[w]
    PROVE  \/ CreateImage(w) \/ AddToBucket(w) \/ CreateInbox(w) \/ FindInbox(w) \/ InsertAdded(w)
           \/ WriteNotes(w) \/ WriteTags(w)
           \/ ReadExisting(w) \/ FillExisting(w) \/ RecallExisting(w)
           \/ UpdateImage(w) \/ MoveImages(w) \/ DropEntries(w)
           \/ ExportStart(w) \/ ExportBucket(w) \/ ExportDone(w)
<1>1. proc \in [Worker -> Request]
  BY DEF Inv, Requested
<1>2. ASSUME NEW x \in Worker, x # w, NEW p, Begin(x, p) PROVE FALSE
  BY <1>1, <1>2 DEF Begin
<1>3. ASSUME NEW x \in Worker, x # w, NEW pc, Goto(x, pc) PROVE FALSE
  BY <1>1, <1>3 DEF Goto
<1>4. ASSUME NEW x \in Worker, x # w, CreateImage(x) \/ AddToBucket(x) \/ CreateInbox(x) PROVE FALSE
  <2>1. \E p : Begin(x, p)
    BY <1>4 DEF CreateImage, AddToBucket, CreateInbox
  <2> QED
    BY <1>2, <1>4, <2>1
<1>5. ASSUME NEW x \in Worker, x # w,
             ReadExisting(x) \/ RecallExisting(x) \/ MoveImages(x) \/ ExportStart(x)
      PROVE  FALSE
  <2>1. \E p : Begin(x, p)
    BY <1>5 DEF ReadExisting, RecallExisting, MoveImages, ExportStart
  <2> QED
    BY <1>2, <1>5, <2>1
<1>6. ASSUME NEW x \in Worker, x # w, \/ FindInbox(x) \/ InsertAdded(x) \/ ExportBucket(x)
                                        \/ UpdateImage(x)
      PROVE  FALSE
  BY <1>1, <1>3, <1>6 DEF FindInbox, InsertAdded, ExportBucket, UpdateImage
<1>7. ASSUME NEW x \in Worker, x # w, \/ WriteNotes(x) \/ WriteTags(x) \/ FillExisting(x)
                                        \/ DropEntries(x) \/ ExportDone(x)
      PROVE  FALSE
  BY <1>3, <1>7 DEF WriteNotes, WriteTags, FillExisting, DropEntries, ExportDone
<1>8. ASSUME \/ UploadImage \/ BulkUpdateImages \/ DeleteImages
             \/ CreateBucket \/ RenameBucket \/ DeleteBucket \/ AdmitOrExpel \/ ImportUserData
      PROVE  FALSE
  BY <1>8 DEF UploadImage, BulkUpdateImages, DeleteImages, CreateBucket, RenameBucket,
              DeleteBucket, AdmitOrExpel, ImportUserData, Atomic
<1> QED
  BY <1>4, <1>5, <1>6, <1>7, <1>8 DEF Next

LEMMA Turns == ASSUME Inv, Next, NEW w \in Worker, proc'[w] # proc[w] PROVE Turn(w)
<1>1. proc \in [Worker -> Request]
  BY DEF Inv, Requested
<1>2. ASSUME NEW p, Begin(w, p) PROVE proc'[w] = p
  BY <1>1, <1>2 DEF Begin
<1>3. ASSUME NEW pc, Goto(w, pc) PROVE proc'[w].pc = pc
  BY <1>1, <1>3 DEF Goto, Idle, Request
<1>4. CASE CreateImage(w)
  <2>1. proc'[w].pc = "notes"
    BY <1>2, <1>4, ZenonT(60) DEF CreateImage, Idle
  <2> QED
    BY <1>4, <2>1 DEF Turn
<1>5. CASE AddToBucket(w)
  <2>1. proc'[w].pc = "insert"
    BY <1>2, <1>5 DEF AddToBucket, Idle
  <2> QED
    BY <1>5, <2>1 DEF Turn
<1>6. CASE CreateInbox(w)
  <2>1. proc'[w].pc \in {"find", "insert"}
    BY <1>2, <1>6, ZenonT(60) DEF CreateInbox, Idle
  <2> QED
    BY <1>6, <2>1 DEF Turn
<1>7. CASE FindInbox(w)
  <2>1. proc'[w].pc \in {"insert", "idle"}
    BY <1>1, <1>3, <1>7 DEF FindInbox, Request
  <2> QED
    BY <1>7, <2>1 DEF Turn
<1>8. CASE InsertAdded(w)
  <2>1. AfterInsert(proc[w].media) \in {"notes", "tags", "idle"}
    BY DEF AfterInsert
  <2>2. ASSUME NEW i, NEW pc \in {"notes", "tags", "idle"},
               proc' = [proc EXCEPT ![w] = IF pc = "idle" THEN Idle
                                           ELSE [proc[w] EXCEPT !.pc = pc, !.image = i]]
        PROVE  proc'[w].pc = pc
    BY <1>1, <2>2 DEF Request, Idle
  <2>3. proc'[w].pc \in {"notes", "tags", "idle"}
    BY <1>3, <1>8, <2>1, <2>2 DEF InsertAdded
  <2> QED
    BY <1>8, <2>3 DEF Turn
<1>9. CASE WriteNotes(w)
  <2>1. proc'[w].pc \in {"tags", "idle"}
    BY <1>3, <1>9 DEF WriteNotes, AfterNotes
  <2> QED
    BY <1>9, <2>1 DEF Turn
<1>10. CASE ReadExisting(w)
  <2>1. proc'[w].pc = "fill"
    BY <1>2, <1>10 DEF ReadExisting, Idle
  <2> QED
    BY <1>10, <2>1 DEF Turn
<1>11. CASE WriteTags(w) \/ DropEntries(w) \/ ExportDone(w)
  <2>1. proc'[w].pc = "idle"
    BY <1>3, <1>11 DEF WriteTags, DropEntries, ExportDone
  <2> QED
    BY <2>1 DEF Turn
<1>14. CASE FillExisting(w)
  <2>1. proc'[w].pc \in {"patch", "idle"}
    BY <1>3, <1>14 DEF FillExisting
  <2> QED
    BY <1>14, <2>1 DEF Turn
<1>15. CASE RecallExisting(w)
  <2>1. \E p : p.pc = "patch" /\ Begin(w, p)
    BY <1>15 DEF RecallExisting, Idle
  <2>2. proc'[w].pc = "patch"
    BY <1>2, <2>1
  <2> QED
    BY <1>15, <2>2 DEF Turn
<1>16. CASE UpdateImage(w) \/ MoveImages(w)
  <2>1. \E K : proc'[w] = Drops(K)
    BY <1>1, <1>2, <1>16 DEF UpdateImage, MoveImages
  <2>2. proc'[w].pc = "drop"
    BY <2>1 DEF Drops, Idle
  <2> QED
    BY <2>2 DEF Turn
<1>12. CASE ExportStart(w)
  <2>1. proc'[w].pc = "export"
    BY <1>2, <1>12 DEF ExportStart, Idle
  <2> QED
    BY <1>12, <2>1 DEF Turn
<1>13. CASE ExportBucket(w)
  <2>1. proc'[w].pc = "export"
    BY <1>1, <1>13 DEF ExportBucket, At, Request
  <2> QED
    BY <1>13, <2>1 DEF Turn
<1> QED
  BY <1>4, <1>5, <1>6, <1>7, <1>8, <1>9, <1>10, <1>11, <1>12, <1>13,
     <1>14, <1>15, <1>16, OthersStay

\* A request's own step leaves what it was told.
LEMMA OwnStepRemembers ==
    ASSUME NEW w \in Worker, NEW events, Crossing(events), proc'[w].pc # "idle"
    PROVE  during[w] \subseteq during'[w]
BY DEF Crossing

-----------------------------------------------------------------------------
(* Adds to the Inbox *)

LEMMA BucketWaitsKept == ASSUME Inv, BucketWaits, Next PROVE BucketWaits'
<1> SUFFICES ASSUME NEW w \in Worker
             PROVE  /\ proc'[w].pc = "find" => Named(proc[w].user, Inbox)' # {} \/ Interrupted(w)'
                    /\ proc'[w].pc = "insert" => Owns(proc[w].user, proc[w].bucket)' \/ Interrupted(w)'
  BY DEF BucketWaits
<1>0. Told
  BY StepsTell
<1>1. CASE proc'[w] = proc[w] /\ proc[w].pc # "idle"
  <2>1. Waits(w)
    BY <1>1 DEF Waits
  <2>2. Interrupted(w) => Interrupted(w)'
    BY <1>0, <2>1 DEF Told, Forgets, Interrupted
  <2>3. ASSUME NEW b \in Bucket, Stored(buckets, b)
        PROVE  buckets'[b] = buckets[b] \/ Interrupted(w)'
    BY <1>0, <2>1, <2>3 DEF Told, BucketsMove, Seen, Interrupted
  <2>4. proc[w].pc = "find" => Named(proc[w].user, Inbox)' # {} \/ Interrupted(w)'
    <3> SUFFICES ASSUME proc[w].pc = "find", ~Interrupted(w) PROVE Named(proc[w].user, Inbox)' # {} \/ Interrupted(w)'
      BY <2>2
    <3>1. PICK b \in Bucket : Owns(proc[w].user, b) /\ buckets[b].name = Inbox
      BY DEF BucketWaits, Named, OwnBuckets
    <3>2. buckets'[b] = buckets[b] => b \in Named(proc[w].user, Inbox)'
      BY <1>1, <3>1 DEF Named, OwnBuckets, Owns, Stored
    <3> QED
      BY <2>3, <3>1, <3>2 DEF Owns
  <2>5. proc[w].pc = "insert" => Owns(proc[w].user, proc[w].bucket)' \/ Interrupted(w)'
    <3> SUFFICES ASSUME proc[w].pc = "insert", ~Interrupted(w)
                 PROVE  Owns(proc[w].user, proc[w].bucket)' \/ Interrupted(w)'
      BY <2>2
    <3>1. proc[w].bucket \in Bucket /\ Owns(proc[w].user, proc[w].bucket)
      BY DEF BucketWaits, Inv, Requested, Ready
    <3> QED
      BY <1>1, <2>3, <3>1 DEF Owns, Stored
  <2> QED
    BY <1>1, <2>4, <2>5
<1>2. CASE proc'[w] # proc[w]
  <2>0. Turn(w) /\ proc \in [Worker -> Request] /\ proc[w] \in Request
    BY <1>2, Turns DEF Inv, Requested
  <2>1. CASE CreateInbox(w)
    <3>1. PICK u \in User, m \in Posts :
            LET q == [Idle EXCEPT !.user = u, !.media = m] IN
            \/ Named(u, Inbox) # {} /\ Begin(w, [q EXCEPT !.pc = "find"]) /\ UNCHANGED buckets
            \/ /\ Named(u, Inbox) = {}
               /\ \E b \in Fresh(buckets, Bucket) :
                    /\ buckets' = [buckets EXCEPT ![b] = [owner |-> u, name |-> Inbox]]
                    /\ Begin(w, [q EXCEPT !.pc = "insert", !.bucket = b])
      BY <2>1 DEF CreateInbox
    <3>2. CASE Named(u, Inbox) # {} /\ UNCHANGED buckets
                 /\ Begin(w, [[Idle EXCEPT !.user = u, !.media = m] EXCEPT !.pc = "find"])
      <4>1. proc'[w].pc = "find" /\ proc'[w].user = u
        BY <2>0, <3>2 DEF Begin, Idle
      <4>2. Named(u, Inbox)' = Named(u, Inbox)
        BY <3>2 DEF Named, OwnBuckets, Owns, Stored
      <4>3. Named(proc[w].user, Inbox)' # {}
        BY <3>2, <4>1, <4>2 DEF Named, OwnBuckets, Owns, Stored
      <4> QED
        BY <4>1, <4>3
    <3>3. ASSUME NEW b \in Fresh(buckets, Bucket), Named(u, Inbox) = {},
                 buckets' = [buckets EXCEPT ![b] = [owner |-> u, name |-> Inbox]],
                 Begin(w, [[Idle EXCEPT !.user = u, !.media = m] EXCEPT !.pc = "insert", !.bucket = b])
          PROVE  proc'[w].pc = "insert" /\ Owns(proc[w].user, proc[w].bucket)'
      <4>1. proc'[w].pc = "insert" /\ proc'[w].user = u /\ proc'[w].bucket = b
        BY <2>0, <3>3 DEF Begin, Idle
      <4>2. UNCHANGED <<images, readers>> /\ Inbox \in Name
        BY <2>1, LibraryAssumption DEF CreateInbox
      <4>3. Owns(u, b)'
        BY <3>3, <4>2, BucketAdded DEF Inv
      <4> QED
        BY <4>1, <4>3 DEF Owns
    <3> QED
      BY <3>1, <3>2, <3>3
  <2>2. CASE AddToBucket(w)
    <3>1. PICK u \in User, n \in Name, m \in Posts : \E b \in Named(u, n) :
            Begin(w, [Idle EXCEPT !.pc = "insert", !.user = u, !.bucket = b, !.media = m])
      BY <2>2 DEF AddToBucket
    <3>2. PICK b \in Named(u, n) :
            Begin(w, [Idle EXCEPT !.pc = "insert", !.user = u, !.bucket = b, !.media = m])
      BY <3>1
    <3>3. proc'[w].pc = "insert" /\ proc'[w].user = u /\ proc'[w].bucket = b
      BY <2>0, <3>2 DEF Begin, Idle
    <3>4. UNCHANGED buckets
      BY <2>2 DEF AddToBucket, tables
    <3>5. Owns(u, b)'
      BY <3>4 DEF Named, OwnBuckets, Owns, Stored
    <3> QED
      BY <3>3, <3>5 DEF Owns
  <2>3. CASE FindInbox(w) /\ proc'[w].pc = "insert"
    <3>1. proc[w].pc = "find" /\ UNCHANGED buckets
      BY <2>3 DEF FindInbox, At, tables
    <3>2. PICK b \in Named(proc[w].user, Inbox) :
            proc' = [proc EXCEPT ![w].pc = "insert", ![w].bucket = b]
      BY <2>0, <2>3 DEF FindInbox, Goto, Idle
    <3>3. proc'[w].user = proc[w].user /\ proc'[w].bucket = b
      BY <2>0, <3>2 DEF Request
    <3>4. Owns(proc[w].user, b)'
      BY <3>1, <3>3 DEF Named, OwnBuckets, Owns, Stored
    <3> QED
      BY <2>3, <3>3, <3>4 DEF Owns
  <2> QED
    BY <2>0, <2>1, <2>2, <2>3 DEF Turn
<1>3. CASE proc'[w] = proc[w] /\ proc[w].pc = "idle"
  BY <1>3
<1> QED
  BY <1>1, <1>2, <1>3

LEMMA StillWaits ==
    ASSUME Aside \/ UNCHANGED vars
    PROVE  /\ BucketWaits => BucketWaits'
           /\ WordsWait => WordsWait'
           /\ CacheExplained => CacheExplained'
           /\ ExportWaits => ExportWaits'
           /\ FileComplete => FileComplete'
<1>1. UNCHANGED <<buckets, images, proc, cached, file, during>>
  BY DEF Aside, vars, tables
<1>2. BucketWaits => BucketWaits'
  BY <1>1 DEF BucketWaits, Named, OwnBuckets, Owns, Stored, Interrupted
<1>3. WordsWait => WordsWait'
  BY <1>1 DEF WordsWait, NoOwnWords, Stored, Matches
<1>6. CacheExplained => CacheExplained'
  BY <1>1 DEF CacheExplained, StaleReadingsExplained, Stored, Matches, Due
<1>4. ExportWaits => ExportWaits'
  BY <1>1 DEF ExportWaits, Accounted, Stored, EntriesOf
<1>5. FileComplete => FileComplete'
  BY <1>1 DEF FileComplete, EntriesOf
<1> QED
  BY <1>2, <1>3, <1>4, <1>5, <1>6

LEMMA NoneWaits == SendsInit => BucketWaits /\ WordsWait /\ CacheExplained /\ ExportWaits /\ FileComplete
<1> SUFFICES ASSUME SendsInit PROVE BucketWaits /\ WordsWait /\ CacheExplained /\ ExportWaits /\ FileComplete
  OBVIOUS
<1>1. (\A w \in Worker : proc[w].pc = "idle") /\ file = None /\ cached = {}
  BY DEF SendsInit, Init, Idle
<1> QED
  BY <1>1 DEF BucketWaits, WordsWait, CacheExplained, StaleReadingsExplained, ExportWaits, FileComplete

LEMMA GivesUp ==
    ASSUME Inv, BucketWaits, NEW w \in Worker, [Next]_vars \/ Aside,
           proc[w].pc \in {"find", "insert"}, proc'[w] = Idle, images' = images
    PROVE  Interrupted(w)
<1>1. proc'[w] # proc[w]
  BY DEF Idle
<1>2. Next
  BY <1>1 DEF Aside, vars
<1>3. FindInbox(w) \/ InsertAdded(w)
  BY <1>1, <1>2, OthersStay DEF CreateImage, AddToBucket, CreateInbox, WriteNotes, WriteTags, ReadExisting,
     FillExisting, RecallExisting, UpdateImage, MoveImages, DropEntries, ExportStart, ExportBucket, ExportDone, Begin, At, Idle
<1>4. CASE FindInbox(w)
  <2>1. proc[w].pc = "find"
    BY <1>4 DEF FindInbox, At
  <2>2. ASSUME NEW b, proc' = [proc EXCEPT ![w].pc = "insert", ![w].bucket = b] PROVE FALSE
    <3>1. proc'[w].pc = "insert"
      BY <2>2 DEF Inv, Requested, Request
    <3> QED
      BY <3>1 DEF Idle
  <2>3. Named(proc[w].user, Inbox) = {}
    BY <1>4, <2>2 DEF FindInbox
  <2> QED
    BY <2>1, <2>3 DEF BucketWaits
<1>5. CASE InsertAdded(w)
  <2>1. proc[w].pc = "insert"
    BY <1>5 DEF InsertAdded, At
  <2>2. ASSUME NEW i \in Fresh(images, Image),
               Insert(i, proc[w].user, proc[w].bucket, proc[w].media.url, {})
        PROVE  FALSE
    <3>1. proc[w].user \in User /\ proc[w].bucket \in Bucket /\ proc[w].media.url \in Link /\ {} \in AllTags
      BY <2>1 DEF Inv, Requested, Ready, AnyMedia, AllTags
    <3>2. PICK row : row \notin {None, Gone} /\ images' = [images EXCEPT ![i] = row]
      BY <2>2, <3>1, InsertIsRow
    <3>3. images'[i] = row /\ images[i] = None
      BY <3>2 DEF Fresh, Inv, Tables, ImagesOK
    <3> QED
      BY <3>2, <3>3
  <2>3. ~Owns(proc[w].user, proc[w].bucket)
    BY <1>5, <2>2 DEF InsertAdded
  <2> QED
    BY <2>1, <2>3 DEF BucketWaits
<1> QED
  BY <1>3, <1>4, <1>5

\* An add to a bucket that was found or created gives up only if the user deleted
\* or renamed the bucket meanwhile (discord/interactions.rs, and
\* create_bucket_if_missing with its ON CONFLICT DO NOTHING).
THEOREM InboxAddsLand == SendsSpec => InboxAddLands
<1>1. Inv /\ BucketWaits /\ [SendsNext]_allVars => BucketWaits'
  BY BucketWaitsKept, StillWaits, SendsSteps DEF Inv
<1>2. SendsSpec => []BucketWaits
  BY <1>1, InvAlways, NoneWaits, PTL DEF SendsSpec
<1>3. Inv /\ BucketWaits /\ [SendsNext]_allVars =>
        [\A w \in Worker :
           /\ proc[w].pc \in {"find", "insert"} /\ proc'[w] = Idle /\ images' = images
           => \E e \in during[w] : e[1] = "moved" /\ e[2] \in Bucket]_vars
  <2> SUFFICES ASSUME Inv, BucketWaits, [SendsNext]_allVars, NEW w \in Worker,
                      proc[w].pc \in {"find", "insert"}, proc'[w] = Idle, images' = images
               PROVE  \E e \in during[w] : e[1] = "moved" /\ e[2] \in Bucket
    OBVIOUS
  <2>1. [Next]_vars \/ Aside
    BY SendsSteps DEF Inv
  <2> QED
    BY <2>1, GivesUp DEF Interrupted
<1> QED
  BY <1>2, <1>3, InvAlways, PTL DEF SendsSpec, InboxAddLands

-----------------------------------------------------------------------------
(* The user's words *)

LEMMA RowInserted ==
    ASSUME Inv, NEW i \in Fresh(images, Image), NEW u \in User, NEW b \in Bucket, NEW url \in Link,
           NEW tags \in AllTags, Insert(i, u, b, url, tags)
    PROVE  images'[i] # None /\ images'[i].words.notes = None /\ images'[i].words.tags = tags
<1>1. i \in Image /\ images' = [images EXCEPT ![i] = NewRow(u, b, url, tags)]
  BY DEF Fresh, Insert
<1>2. images'[i] = NewRow(u, b, url, tags)
  BY <1>1 DEF Inv, Tables, ImagesOK
<1>3. NewRow(u, b, url, tags) \in ImageRow
  BY DEF NewRow, ImageRow, Words, AllTags
<1>4. images'[i] # None
  BY <1>2, <1>3, LibraryAssumption
<1>5. NewRow(u, b, url, tags).words.notes = None /\ NewRow(u, b, url, tags).words.tags = tags
  BY DEF NewRow
<1> QED
  BY <1>2, <1>4, <1>5

\* A key is due until its entry is dropped.
LEMMA DueStays ==
    ASSUME Inv, Next, NEW k, Due(k)
    PROVE  DueNext(k) \/ \A e \in cached' : Key(e) # k
<1>1. PICK w \in Worker : k \in proc[w].due
  BY DEF Due
<1>2. CASE proc'[w] = proc[w]
  BY <1>1, <1>2 DEF DueNext
<1>3. CASE proc'[w] # proc[w]
  <2>1. proc[w].pc = "drop"
    BY <1>1 DEF Inv, Requested, Ready
  <2>2. DropEntries(w)
    BY <1>3, <2>1, OthersStay DEF CreateImage, AddToBucket, CreateInbox, FindInbox, InsertAdded, WriteNotes,
       WriteTags, ReadExisting, FillExisting, RecallExisting, UpdateImage, MoveImages, ExportStart,
       ExportBucket, ExportDone, Begin, At
  <2> QED
    BY <1>1, <2>2 DEF DropEntries, Drop
<1> QED
  BY <1>2, <1>3

\* What a request stores is as good as what it read, unless it was overtaken.
LEMMA FilledExplained ==
    ASSUME Inv, WordsWait, NEW w \in Worker, FillExisting(w), NEW e, e = ReadingOf(w)
    PROVE  /\ images'[e.image] # None
           /\ Stored(images, e.image)' => \/ e.late
                                         \/ /\ Matches(e.user, e.bucket, e.image)'
                                            /\ images'[e.image].words.notes = "own" => e.notes = "own"
<1>1. proc[w].pc = "fill" /\ UNCHANGED images /\ Ready(proc[w])
  BY DEF FillExisting, At, tables, Inv, Requested
<1>2. /\ e.user = proc[w].user /\ e.bucket = proc[w].bucket /\ e.image = proc[w].image
      /\ e.notes = proc[w].existing
      /\ ~e.late => <<"edited", e.image>> \notin during[w] /\ <<"moved", e.image>> \notin during[w]
  BY DEF ReadingOf, Edited, Moved
<1>3. images[e.image] # None
  BY <1>1, <1>2 DEF WordsWait
<1>4. ASSUME Stored(images, e.image), ~e.late
      PROVE  Matches(e.user, e.bucket, e.image) /\ (images[e.image].words.notes = "own" => e.notes = "own")
  BY <1>1, <1>2, <1>4 DEF WordsWait, NoOwnWords, Ready
<1> QED
  BY <1>1, <1>3, <1>4 DEF Stored, Matches

LEMMA CacheKept == ASSUME Inv, WordsWait, CacheExplained, Next PROVE CacheExplained'
<1>0. Told
  BY StepsTell
<1>1. ASSUME NEW e \in cached', e \in cached, images'[e.image] \notin {None, Gone}
      PROVE  \/ e.late \/ DueNext(Key(e))
             \/ /\ images'[e.image].owner = e.user /\ images'[e.image].bucket = e.bucket
                /\ images'[e.image].words.notes = "own" => e.notes = "own"
  <2>1. e.image \in Image
    BY <1>1 DEF Inv, Reading
  <2>2. Stored(images, e.image)
    BY <1>0, <1>1, <2>1 DEF Told, IdsStay, Stored, CacheExplained
  <2>3. CASE Due(Key(e))
    BY <1>1, <2>3, DueStays
  <2>4. CASE Matches(e.user, e.bucket, e.image) /\ (images[e.image].words.notes = "own" => e.notes = "own")
    <3>1. <<images[e.image].owner, images[e.image].bucket, e.image>> = Key(e)
      BY <2>4 DEF Matches, Key
    <3>2. \/ /\ images'[e.image].owner = images[e.image].owner /\ images'[e.image].bucket = images[e.image].bucket
             /\ images'[e.image].words.notes = "own" => images[e.image].words.notes = "own"
          \/ DueNext(<<images[e.image].owner, images[e.image].bucket, e.image>>)
      BY <1>0, <1>1, <2>1, <2>2 DEF Told, WillDrop
    <3> QED
      BY <2>4, <3>1, <3>2 DEF Matches
  <2> QED
    BY <1>1, <2>2, <2>3, <2>4 DEF CacheExplained, StaleReadingsExplained
<1>2. ASSUME NEW e \in cached', e \in cached PROVE images'[e.image] # None
  <2>1. e.image \in Image /\ images[e.image] # None
    BY <1>2 DEF Inv, Reading, CacheExplained
  <2> QED
    BY <1>0, <2>1 DEF Told, IdsStay
<1>3. ASSUME NEW e \in cached', e \notin cached
      PROVE  \E w \in Worker : FillExisting(w) /\ e = ReadingOf(w)
  BY <1>3, EntriesGoOrCome
<1>4. ASSUME NEW e \in cached', Stored(images, e.image)'
      PROVE  \/ e.late \/ Due(Key(e))'
             \/ /\ Matches(e.user, e.bucket, e.image)'
                /\ images'[e.image].words.notes = "own" => e.notes = "own"
  <2>1. CASE e \in cached
    <3>1. images'[e.image] \notin {None, Gone}
      BY <1>4 DEF Stored
    <3>2. DueNext(Key(e)) => Due(Key(e))'
      BY DEF Due, DueNext, Key
    <3> QED
      BY <1>1, <2>1, <3>1, <3>2 DEF Matches, Stored
  <2>2. CASE e \notin cached
    BY <1>3, <1>4, <2>2, FilledExplained
  <2> QED
    BY <2>1, <2>2
<1>5. \A e \in cached' : images'[e.image] # None
  BY <1>2, <1>3, FilledExplained
<1> QED
  BY <1>4, <1>5 DEF CacheExplained, StaleReadingsExplained

LEMMA WordsWaitKept == ASSUME Inv, WordsWait, CacheExplained, Next PROVE WordsWait'
<1> SUFFICES ASSUME NEW w \in Worker, proc'[w].pc \in {"fill", "patch", "notes", "tags"}
             PROVE  /\ images'[proc'[w].image] # None
                    /\ Stored(images, proc[w].image)' /\ <<"edited", proc'[w].image>> \notin during'[w]
                         => NoOwnWords(proc[w])'
                    /\ proc'[w].pc = "fill" /\ Stored(images, proc[w].image)'
                       /\ <<"moved", proc'[w].image>> \notin during'[w]
                         => Matches(proc[w].user, proc[w].bucket, proc[w].image)'
  BY DEF WordsWait
<1>0. Told /\ None \notin {"own", "auto"} /\ proc \in [Worker -> Request]
  BY StepsTell, LibraryAssumption DEF Inv, Requested
<1>1. CASE proc'[w] = proc[w]
  <2>1. Waits(w) /\ proc[w].image \in Image
    BY <1>1 DEF Waits, Inv, Requested, Ready
  <2>2. images[proc[w].image] # None /\ images'[proc[w].image] # None
    BY <1>0, <1>1, <2>1 DEF WordsWait, Told, IdsStay
  <2>3. ASSUME Stored(images, proc[w].image)', <<"edited", proc'[w].image>> \notin during'[w]
        PROVE  NoOwnWords(proc[w])'
    <3>1. Stored(images, proc[w].image) /\ images'[proc[w].image] \notin {None, Gone}
      BY <1>0, <1>1, <2>1, <2>2, <2>3 DEF Told, IdsStay, Stored
    <3>2. <<"edited", proc[w].image>> \notin during[w] /\ ~Seen(<<"edited", proc[w].image>>)
      BY <1>0, <1>1, <2>1, <2>3 DEF Told, Forgets, Seen
    <3>3. NoOwnWords(proc[w])
      BY <1>1, <3>1, <3>2 DEF WordsWait
    <3>4. /\ images'[proc[w].image].words.notes = "own" => images[proc[w].image].words.notes = "own"
          /\ "own" \in images'[proc[w].image].words.tags => "own" \in images[proc[w].image].words.tags
      BY <1>0, <2>1, <3>1, <3>2 DEF Told, WordsChange
    <3> QED
      BY <1>1, <3>3, <3>4 DEF NoOwnWords
  <2>4. ASSUME proc[w].pc = "fill", Stored(images, proc[w].image)', <<"moved", proc'[w].image>> \notin during'[w]
        PROVE  Matches(proc[w].user, proc[w].bucket, proc[w].image)'
    <3>1. Stored(images, proc[w].image)
      BY <1>0, <1>1, <2>1, <2>2, <2>4 DEF Told, IdsStay, Stored
    <3>2. <<"moved", proc[w].image>> \notin during[w] /\ ~Seen(<<"moved", proc[w].image>>)
      BY <1>0, <1>1, <2>1, <2>4 DEF Told, Forgets, Seen
    <3>3. Matches(proc[w].user, proc[w].bucket, proc[w].image)
      BY <2>4, <3>1, <3>2 DEF WordsWait
    <3> QED
      BY <1>0, <1>1, <2>1, <3>1, <3>2, <3>3 DEF Told, ImagesMove, Matches, Stored
  <2> QED
    BY <1>1, <2>2, <2>3, <2>4
<1>2. CASE proc'[w] # proc[w]
  <2>0. Turn(w) /\ proc[w] \in Request /\ Ready(proc[w])
    BY <1>2, Turns DEF Inv, Requested
  <2>1. CASE CreateImage(w)
    <3>1. PICK u \in User, b \in Bucket, m \in Posts, own \in {{}, {"own"}}, i \in Fresh(images, Image) :
            /\ Insert(i, u, b, m.url, own \cup m.tags)
            /\ \/ UNCHANGED proc
               \/ Begin(w, [Idle EXCEPT !.pc = "notes", !.user = u, !.bucket = b, !.image = i,
                                        !.media = [m EXCEPT !.tags = {}]])
      BY <2>1 DEF CreateImage
    <3>2. m \in AnyMedia /\ own \cup m.tags \in AllTags
      BY PostsAreMedia DEF AnyMedia, AllTags
    <3>3. images'[i] # None /\ images'[i].words.notes = None
      BY <3>1, <3>2, RowInserted DEF AnyMedia
    <3>4. proc' = [proc EXCEPT ![w] = [Idle EXCEPT !.pc = "notes", !.user = u, !.bucket = b, !.image = i,
                                                   !.media = [m EXCEPT !.tags = {}]]]
      BY <1>2, <3>1 DEF Begin
    <3>5. proc'[w].pc = "notes" /\ proc'[w].image = i /\ proc'[w].media = [m EXCEPT !.tags = {}]
      BY <1>0, <3>4 DEF Idle
    <3>6. proc'[w].media.tags = {}
      BY <3>2, <3>5 DEF AnyMedia
    <3> QED
      BY <1>0, <3>3, <3>5, <3>6 DEF NoOwnWords
  <2>2. CASE InsertAdded(w)
    <3>1. proc[w].pc = "insert" /\ (proc'[w].pc # "idle")
      BY <2>2 DEF InsertAdded, At
    <3>2. PICK i \in Fresh(images, Image) :
            /\ Insert(i, proc[w].user, proc[w].bucket, proc[w].media.url, {})
            /\ proc' = [proc EXCEPT ![w] = IF AfterInsert(proc[w].media) = "idle" THEN Idle
                            ELSE [proc[w] EXCEPT !.pc = AfterInsert(proc[w].media), !.image = i]]
      <4>1. ~Goto(w, "idle")
        BY <1>0, <3>1 DEF Goto, Idle
      <4> QED
        BY <2>2, <4>1 DEF InsertAdded
    <3>3. proc[w].user \in User /\ proc[w].bucket \in Bucket /\ proc[w].media.url \in Link /\ {} \in AllTags
      BY <2>0, <3>1 DEF Ready, AnyMedia, AllTags
    <3>4. images'[i] # None /\ images'[i].words.notes = None /\ images'[i].words.tags = {}
      BY <3>2, <3>3, RowInserted
    <3>5. ASSUME NEW pc, proc' = [proc EXCEPT ![w] = IF pc = "idle" THEN Idle
                                                     ELSE [proc[w] EXCEPT !.pc = pc, !.image = i]]
          PROVE  proc'[w].image = i /\ proc'[w].pc = pc
      BY <1>0, <2>0, <3>1, <3>5 DEF Request, Idle
    <3>6. proc'[w].image = i /\ proc'[w].pc \in {"notes", "tags", "idle"}
      BY <3>2, <3>5 DEF AfterInsert
    <3> QED
      BY <1>0, <3>4, <3>6 DEF NoOwnWords
  <2>3. CASE WriteNotes(w)
    <3> DEFINE i == proc[w].image  pc == AfterNotes(proc[w].media)
    <3>1. proc[w].pc = "notes" /\ Goto(w, pc) /\ Crossing(Quiet)
      BY <2>3 DEF WriteNotes, At
    <3>2. i \in Image /\ images[i] # None /\ images'[i] # None
      BY <1>0, <2>0, <3>1 DEF Ready, WordsWait, Told, IdsStay
    <3>3. proc'[w].pc = pc /\ (pc # "idle" => proc'[w] = [proc[w] EXCEPT !.pc = pc])
      BY <1>0, <3>1 DEF Goto, Idle, Request
    <3>4. pc = "tags" /\ proc[w].media.tags # {}
      BY <3>3 DEF AfterNotes
    <3> HIDE DEF pc
    <3>5. proc'[w].image = i /\ proc'[w].pc = "tags"
      BY <2>0, <3>3, <3>4 DEF Request
    <3>6. during[w] \subseteq during'[w]
      BY <3>1, <3>5, OwnStepRemembers
    <3>7. ASSUME images'[i] \notin {None, Gone}
          PROVE  Stored(images, i) /\ images'[i].words.tags = images[i].words.tags
      <4>1. Stored(images, i)
        BY <1>0, <3>2, <3>7 DEF Told, IdsStay, Stored
      <4>2. images[i] \in ImageRow
        BY <3>2, <4>1, StoredRows DEF Inv
      <4>3. \/ images' = images
            \/ images' = [images EXCEPT ![i].words.notes = proc[w].media.notes]
        BY <2>3 DEF WriteNotes
      <4>4. ASSUME images' = [images EXCEPT ![i].words.notes = proc[w].media.notes]
            PROVE  images'[i] = [images[i] EXCEPT !.words.notes = proc[w].media.notes]
        BY <3>2, <4>4 DEF Inv, Tables, ImagesOK
      <4>5. [images[i] EXCEPT !.words.notes = proc[w].media.notes].words.tags = images[i].words.tags
        BY <4>2 DEF ImageRow, Words
      <4> QED
        BY <4>1, <4>3, <4>4, <4>5
    <3>8. Stored(images, i) /\ <<"edited", i>> \notin during[w] => "own" \notin images[i].words.tags
      BY <3>1, <3>4 DEF WordsWait, NoOwnWords
    <3> HIDE DEF i
    <3> QED
      BY <3>2, <3>5, <3>6, <3>7, <3>8 DEF NoOwnWords, Stored
  <2>4. CASE ReadExisting(w)
    <3>1. PICK u \in User, b \in Bucket, i \in Image, q \in Patches :
            /\ Matches(u, b, i)
            /\ Begin(w, [Idle EXCEPT !.pc = "fill", !.user = u, !.bucket = b, !.image = i,
                                     !.patch = q, !.existing = images[i].words.notes])
      BY <2>4 DEF ReadExisting
    <3>2. /\ proc'[w].pc = "fill" /\ proc'[w].user = u /\ proc'[w].bucket = b /\ proc'[w].image = i
          /\ proc'[w].existing = images[i].words.notes
      BY <1>0, <3>1 DEF Begin, Idle
    <3>3. UNCHANGED images /\ images[i] # None
      BY <2>4, <3>1 DEF ReadExisting, tables, Matches, Stored
    <3> QED
      BY <3>1, <3>2, <3>3 DEF NoOwnWords, Matches, Stored
  <2>5. CASE FillExisting(w)
    <3>1. proc[w].pc = "fill" /\ UNCHANGED images /\ Crossing(Quiet)
      BY <2>5 DEF FillExisting, At, tables
    <3>2. Goto(w, "patch")
      BY <1>0, <2>5 DEF FillExisting, Goto, Idle
    <3>3. proc'[w] = [proc[w] EXCEPT !.pc = "patch"]
      BY <1>0, <3>2 DEF Goto
    <3>4. /\ proc'[w].pc = "patch" /\ proc'[w].image = proc[w].image
          /\ proc'[w].existing = proc[w].existing /\ proc'[w].late = proc[w].late
      BY <2>0, <3>3 DEF Request
    <3>5. during[w] \subseteq during'[w]
      BY <3>1, <3>4, OwnStepRemembers
    <3> QED
      BY <3>1, <3>4, <3>5 DEF WordsWait, NoOwnWords, Stored
  <2>6. CASE RecallExisting(w)
    <3>1. PICK e \in cached, q \in Patches :
            /\ Begin(w, [Idle EXCEPT !.pc = "patch", !.user = e.user, !.bucket = e.bucket,
                                     !.image = e.image, !.patch = q, !.existing = e.notes,
                                     !.late = e.late])
            /\ during' = [x \in Worker |-> IF x # w THEN during[x]
                                          ELSE IF Due(Key(e)) THEN Edited(e.image) ELSE Quiet]
      BY <2>6 DEF RecallExisting
    <3>2. /\ proc'[w].pc = "patch" /\ proc'[w].image = e.image
          /\ proc'[w].existing = e.notes /\ proc'[w].late = e.late
      BY <1>0, <3>1 DEF Begin, Idle
    <3>3. UNCHANGED images /\ images[e.image] # None
      BY <2>6 DEF RecallExisting, tables, CacheExplained
    <3>4. Due(Key(e)) => <<"edited", e.image>> \in during'[w]
      BY <3>1 DEF Edited
    <3> QED
      BY <3>2, <3>3, <3>4 DEF CacheExplained, StaleReadingsExplained, NoOwnWords, Stored
  <2> QED
    BY <2>0, <2>1, <2>2, <2>3, <2>4, <2>5, <2>6 DEF Turn
<1> QED
  BY <1>1, <1>2

\* The words an image has after each of the three writes of a request about it.
OwnWordsLost(i) ==
    \/ images[i].words.notes = "own" /\ images'[i].words.notes = "auto"
    \/ /\ "own" \in images[i].words.tags \ images'[i].words.tags
       /\ "social" \in images'[i].words.tags \ images[i].words.tags

Excused(w, i) ==
    \/ proc[w].image = i /\ (<<"edited", i>> \in during[w] \/ proc[w].late)
    \/ /\ ~(images[i].words.notes = "own" /\ images'[i].words.notes = "auto")
       /\ proc[w].image = i /\ proc[w].pc = "patch" /\ proc[w].patch.tags # {"own"}

LEMMA PostReplaces ==
    ASSUME Inv, WordsWait, NEW w \in Worker, UpdateImage(w) \/ WriteNotes(w) \/ WriteTags(w),
           Stored(images, proc[w].image), images'[proc[w].image] \notin {None, Gone},
           OwnWordsLost(proc[w].image)
    PROVE  Excused(w, proc[w].image)
<1> DEFINE i == proc[w].image
<1>0. /\ i \in Image /\ proc[w].pc \in {"patch", "notes", "tags"} /\ Ready(proc[w])
      /\ images \in [Image -> ImageRow \cup {None, Gone}] /\ images[i] \in ImageRow
      /\ None \notin {"own", "auto"}
  BY StoredRows, LibraryAssumption DEF UpdateImage, WriteNotes, WriteTags, At, Inv, Requested, Ready,
     Tables, ImagesOK
<1>1. CASE <<"edited", i>> \in during[w] \/ proc[w].late
  BY <1>1 DEF Excused
<1>2. CASE <<"edited", i>> \notin during[w] /\ ~proc[w].late
  <2>0. NoOwnWords(proc[w])
    BY <1>0, <1>2 DEF WordsWait
  <2>1. ASSUME WriteNotes(w) PROVE FALSE
    <3>1. proc[w].pc = "notes" /\ images[i].words.notes # "own"
      BY <2>0, <2>1 DEF WriteNotes, At, NoOwnWords
    <3>2. \/ images' = images
          \/ images' = [images EXCEPT ![i].words.notes = proc[w].media.notes]
      BY <2>1 DEF WriteNotes
    <3>3. ASSUME images' = [images EXCEPT ![i].words.notes = proc[w].media.notes]
          PROVE  images'[i] = [images[i] EXCEPT !.words.notes = proc[w].media.notes]
      BY <1>0, <3>3
    <3>4. [images[i] EXCEPT !.words.notes = proc[w].media.notes].words.tags = images[i].words.tags
      BY <1>0 DEF ImageRow, Words
    <3>5. images'[i].words.tags = images[i].words.tags
      BY <3>2, <3>3, <3>4
    <3> QED
      BY <3>1, <3>5 DEF OwnWordsLost
  <2>2. ASSUME WriteTags(w) PROVE FALSE
    <3>1. proc[w].pc = "tags" /\ "own" \notin images[i].words.tags
      BY <2>0, <2>2 DEF WriteTags, At, NoOwnWords
    <3>2. \/ images' = images
          \/ images' = [images EXCEPT ![i].words.tags = proc[w].media.tags]
      BY <2>2 DEF WriteTags
    <3>3. ASSUME images' = [images EXCEPT ![i].words.tags = proc[w].media.tags]
          PROVE  images'[i] = [images[i] EXCEPT !.words.tags = proc[w].media.tags]
      BY <1>0, <3>3
    <3>4. [images[i] EXCEPT !.words.tags = proc[w].media.tags].words.notes = images[i].words.notes
      BY <1>0 DEF ImageRow, Words
    <3>5. images'[i].words.notes = images[i].words.notes
      BY <3>2, <3>3, <3>4
    <3> QED
      BY <3>1, <3>5 DEF OwnWordsLost
  <2>3. CASE UpdateImage(w)
    <3> DEFINE q     == proc[w].patch
               m     == q.media
               auto  == IF m = None THEN None ELSE m.notes
               notes == Patched(NotesPatch(q.notes, auto, proc[w].existing), images[i].words.notes)
               tags  == Patched(TagsPatch(q), images[i].words.tags)
    <3>1. proc[w].pc = "patch" /\ q \in Patch
      BY <1>0, <2>3 DEF UpdateImage, At, Ready
    <3>2. images'[i] = images[i] \/ (images'[i].words.notes = notes /\ images'[i].words.tags = tags)
      <4>1. PICK url, enabled :
              \/ images' = images
              \/ images' = [images EXCEPT ![i] =
                     [images[i] EXCEPT !.url = url,
                                       !.words = [notes |-> notes, tags |-> tags, enabled |-> enabled]]]
        BY <2>3 DEF UpdateImage
      <4>2. ASSUME NEW words, images' = [images EXCEPT ![i] = [images[i] EXCEPT !.url = url, !.words = words]]
            PROVE  images'[i].words = words
        <5>1. images'[i] = [images[i] EXCEPT !.url = url, !.words = words]
          BY <1>0, <4>2
        <5> QED
          BY <1>0, <5>1 DEF ImageRow
      <4> DEFINE words == [notes |-> notes, tags |-> tags, enabled |-> enabled]
      <4>3. words.notes = notes /\ words.tags = tags
        OBVIOUS
      <4>4. images' = images \/ images' = [images EXCEPT ![i] = [images[i] EXCEPT !.url = url, !.words = words]]
        BY <4>1
      <4> HIDE DEF i, notes, tags, words
      <4> QED
        BY <4>2, <4>3, <4>4
    <3>3. images[i].words.notes = "own" => proc[w].existing = "own"
      BY <1>2, <2>0, <3>1 DEF NoOwnWords
    <3>4. q.notes \in {Keep, None, "own"} /\ q.tags \in {Keep, {}, {"own"}}
      BY <3>1 DEF Patch
    <3>5. ~(images[i].words.notes = "own" /\ images'[i].words.notes = "auto")
      <4> SUFFICES ASSUME images[i].words.notes = "own", notes = "auto" PROVE FALSE
        BY <3>2
      <4>1. NotesPatch(q.notes, auto, proc[w].existing) \in {q.notes, Keep}
        <5> HIDE DEF auto
        <5> QED
          BY <1>0, <3>3 DEF NotesPatch
      <4> HIDE DEF auto
      <4> QED
        BY <1>0, <3>4, <4>1 DEF Patched
    <3>6. q.tags # {"own"}
      <4> SUFFICES ASSUME q.tags = {"own"} PROVE FALSE
        OBVIOUS
      <4>1. "own" \in images[i].words.tags /\ "own" \notin images'[i].words.tags
        BY <3>5 DEF OwnWordsLost
      <4>2. "own" \in TagsPatch(q)
        BY LibraryAssumption DEF TagsPatch
      <4> QED
        BY <3>2, <4>1, <4>2 DEF Patched
    <3> QED
      BY <3>1, <3>5, <3>6 DEF Excused
  <2> QED
    BY <2>1, <2>2, <2>3
<1> QED
  BY <1>1, <1>2

LEMMA WordsLostOnlySo ==
    ASSUME Inv, WordsWait, Next, NEW i \in Image, Stored(images, i), images'[i] \notin {None, Gone},
           OwnWordsLost(i)
    PROVE  \E w \in Worker : Excused(w, i)
<1>1. ~ /\ images'[i].words.notes = images[i].words.notes
        /\ "social" \in images'[i].words.tags => "social" \in images[i].words.tags
  BY DEF OwnWordsLost
<1>2. PICK w \in Worker : proc[w].image = i /\ (UpdateImage(w) \/ WriteNotes(w) \/ WriteTags(w))
  BY <1>1, StepsTell DEF Told, Rewritten
<1> QED
  BY <1>2, PostReplaces

LEMMA WordsAndCache == SendsSpec => [](WordsWait /\ CacheExplained)
<1>1. Inv /\ WordsWait /\ CacheExplained /\ [SendsNext]_allVars => WordsWait' /\ CacheExplained'
  BY WordsWaitKept, CacheKept, StillWaits, SendsSteps DEF Inv
<1> QED
  BY <1>1, InvAlways, NoneWaits, PTL DEF SendsSpec

\* An entry of the cache behind get_for_owner that misses the user's notes or shows
\* an image where it no longer is was overtaken on its way in, or is about to be
\* dropped (cached.rs: the read, the store and the invalidations are three steps).
THEOREM ReadingsExplained == SendsSpec => []StaleReadingsExplained
BY WordsAndCache, PTL DEF CacheExplained

\* What a post says never takes the place of what the user wrote, short of the user
\* writing it while the link resolved, a cache entry overtaken on its way in, or
\* the user sending the link without tags (notes_patch, tags_patch, get_for_owner
\* and the Discord commands' update_notes and update_tags).
THEOREM OwnWordsAlwaysKept == SendsSpec => OwnWordsKept
<1>2. SendsSpec => []WordsWait
  BY WordsAndCache, PTL
<1> DEFINE Kept ==
      \A i \in Image : Stored(images, i) /\ images'[i] \notin {None, Gone} =>
        LET old == images[i].words  new == images'[i].words
            Crossed(w) == proc[w].image = i /\ (<<"edited", i>> \in during[w] \/ proc[w].late)
        IN /\ old.notes = "own" /\ new.notes = "auto" => \E w \in Worker : Crossed(w)
           /\ "own" \in old.tags \ new.tags /\ "social" \in new.tags \ old.tags =>
                \E w \in Worker : \/ Crossed(w)
                                  \/ proc[w].image = i /\ proc[w].pc = "patch" /\ proc[w].patch.tags # {"own"}
<1>3. Inv /\ WordsWait /\ [SendsNext]_allVars => [Kept]_vars
  <2> SUFFICES ASSUME Inv, WordsWait, [SendsNext]_allVars, ~UNCHANGED vars PROVE Kept
    OBVIOUS
  <2>1. Next \/ Aside
    BY SendsSteps DEF Inv
  <2>2. CASE Aside
    BY <2>2, LibraryAssumption DEF Aside, tables
  <2>3. CASE Next
    BY <2>3, WordsLostOnlySo DEF OwnWordsLost, Excused
  <2> QED
    BY <2>1, <2>2, <2>3
<1> QED
  BY <1>2, <1>3, InvAlways, PTL DEF SendsSpec, OwnWordsKept

-----------------------------------------------------------------------------
(* Exports *)

LEMMA AccountedOnStart ==
    ASSUME Inv, NEW u \in User, NEW i \in Images, images[i].owner = u, NEW p,
           p.user = u, p.listed = {},
           p.todo = {[id |-> b, name |-> buckets[b].name] : b \in OwnBuckets(u)}
    PROVE  Accounted(p, i, buckets[images[i].bucket].name)
<1>1. Owns(u, images[i].bucket) /\ images[i].bucket \in Bucket /\ Stored(images, i)
  BY StoredRows DEF Inv, Tables, ImageInOwnersBucket, Images, ImageRow
<1>2. images[i].bucket \in OwnBuckets(u)
  BY <1>1 DEF OwnBuckets
<1>3. EntriesOf(p.listed, i) = {}
  BY DEF EntriesOf
<1> QED
  BY <1>1, <1>2, <1>3 DEF Accounted

\* Listing a bucket brings one entry for each image of the user's in it.
LEMMA ListingAccounts ==
    ASSUME Inv, NEW p \in Request, NEW i \in Image, NEW n \in Name, Accounted(p, i, n),
           \A s, t \in p.todo : s.id = t.id => s = t,
           NEW t \in p.todo, NEW q, q.user = p.user, q.todo = p.todo \ {t},
           q.listed = p.listed \cup Entries(t.id, t.name, Listed(p.user, t.id))
    PROVE  Accounted(q, i, n)
<1> DEFINE c     == images[i].bucket
           more  == Entries(t.id, t.name, Listed(p.user, t.id))
           entry == [name |-> t.name, image |-> i, url |-> images[i].url, words |-> images[i].words]
<1>0. Stored(images, i) /\ images[i].owner = p.user /\ i \in Images
  BY DEF Accounted, Images
<1>1. CASE t.id = c
  <2>1. [id |-> c, name |-> n] \in p.todo /\ EntriesOf(p.listed, i) = {}
    BY <1>1 DEF Accounted
  <2>2. t = [id |-> c, name |-> n]
    BY <1>1, <2>1
  <2>3. i \in Listed(p.user, t.id)
    BY <1>0, <1>1 DEF Listed
  <2>4. EntriesOf(more, i) = {entry}
    BY <2>3 DEF EntriesOf, Entries
  <2>5. EntriesOf(q.listed, i) = {entry}
    BY <2>1, <2>4 DEF EntriesOf
  <2>6. entry \in q.listed /\ entry.name = n
    BY <2>2, <2>5 DEF EntriesOf
  <2>7. \A s \in q.todo : s.id # c
    BY <1>1
  <2> QED
    BY <1>0, <2>5, <2>6, <2>7 DEF Accounted
<1>2. CASE t.id # c
  <2>1. \A e \in more : e.image # i
    BY <1>2 DEF Entries, Listed
  <2>2. EntriesOf(q.listed, i) = EntriesOf(p.listed, i)
    BY <2>1 DEF EntriesOf
  <2>3. CASE [id |-> c, name |-> n] \in p.todo /\ EntriesOf(p.listed, i) = {}
    <3>1. [id |-> c, name |-> n] # t
      BY <1>2
    <3>2. [id |-> c, name |-> n] \in q.todo
      BY <2>3, <3>1
    <3> QED
      BY <1>0, <2>2, <2>3, <3>2 DEF Accounted
  <2>4. CASE (\A s \in p.todo : s.id # c) /\ \E e \in p.listed : e.name = n /\ EntriesOf(p.listed, i) = {e}
    BY <1>0, <2>2, <2>4 DEF Accounted
  <2> QED
    BY <2>3, <2>4 DEF Accounted
<1> QED
  BY <1>1, <1>2

LEMMA ExportWaitsKept == ASSUME Inv, ExportWaits, Next PROVE ExportWaits'
<1> SUFFICES ASSUME NEW w \in Worker, proc'[w].pc = "export"
             PROVE  /\ \A s, t \in proc'[w].todo : s.id = t.id => s = t
                    /\ \A h \in proc'[w].held : <<"moved", h[1]>> \notin during'[w]
                         => Accounted(proc[w], h[1], h[2])'
  BY DEF ExportWaits
<1>0. Told /\ proc \in [Worker -> Request] /\ proc[w] \in Request
  BY StepsTell DEF Inv, Requested
<1>1. CASE proc'[w] = proc[w]
  <2>1. Waits(w)
    BY <1>1 DEF Waits
  <2>2. ASSUME NEW h \in proc[w].held, <<"moved", h[1]>> \notin during'[w]
        PROVE  Accounted(proc[w], h[1], h[2])'
    <3>1. <<"moved", h[1]>> \notin during[w] /\ ~Seen(<<"moved", h[1]>>)
      BY <1>0, <2>1, <2>2 DEF Told, Forgets, Seen
    <3>2. Accounted(proc[w], h[1], h[2]) /\ h[1] \in Image
      BY <1>0, <1>1, <3>1 DEF ExportWaits, Request
    <3>3. /\ images'[h[1]] \notin {None, Gone} /\ images'[h[1]].owner = images[h[1]].owner
          /\ images'[h[1]].bucket = images[h[1]].bucket
      BY <1>0, <3>1, <3>2 DEF Told, ImagesMove, Accounted
    <3> QED
      BY <1>1, <3>2, <3>3 DEF Accounted, Stored
  <2> QED
    BY <1>1, <2>2 DEF ExportWaits
<1>2. CASE proc'[w] # proc[w]
  <2>0. ExportStart(w) \/ ExportBucket(w)
    BY <1>2, Turns DEF Turn
  <2>1. CASE ExportStart(w)
    <3>1. PICK u \in User :
            Begin(w, [Idle EXCEPT !.pc = "export", !.user = u,
                                  !.todo = {[id |-> b, name |-> buckets[b].name] : b \in OwnBuckets(u)},
                                  !.held = {<<i, buckets[images[i].bucket].name>> :
                                            i \in {j \in Images : images[j].owner = u}}])
      BY <2>1 DEF ExportStart
    <3>2. /\ proc'[w].user = u /\ proc'[w].listed = {}
          /\ proc'[w].todo = {[id |-> b, name |-> buckets[b].name] : b \in OwnBuckets(u)}
          /\ proc'[w].held = {<<i, buckets[images[i].bucket].name>> : i \in {j \in Images : images[j].owner = u}}
      BY <1>0, <3>1 DEF Begin, Idle
    <3>3. UNCHANGED images
      BY <2>1 DEF ExportStart, tables
    <3>4. ASSUME NEW h \in proc'[w].held PROVE Accounted(proc'[w], h[1], h[2])
      BY <3>2, AccountedOnStart
    <3>5. ASSUME NEW h \in proc'[w].held PROVE Accounted(proc[w], h[1], h[2])'
      BY <3>3, <3>4 DEF Accounted, Stored
    <3> QED
      BY <3>2, <3>5
  <2>2. CASE ExportBucket(w)
    <3>1. PICK t \in proc[w].todo :
            proc' = [proc EXCEPT ![w].todo = @ \ {t},
                                 ![w].listed = @ \cup Entries(t.id, t.name, Listed(proc[w].user, t.id)),
                                 ![w].names = @ \cup {t.name}]
      BY <2>2 DEF ExportBucket
    <3>2. UNCHANGED images /\ Crossing(Quiet) /\ proc[w].pc = "export"
      BY <2>2 DEF ExportBucket, tables, Resumes, At
    <3>3. /\ proc'[w].user = proc[w].user /\ proc'[w].held = proc[w].held
          /\ proc'[w].todo = proc[w].todo \ {t}
          /\ proc'[w].listed = proc[w].listed \cup Entries(t.id, t.name, Listed(proc[w].user, t.id))
      BY <1>0, <3>1 DEF Request
    <3>4. during[w] \subseteq during'[w]
      BY <3>2, OwnStepRemembers
    <3>5. \A x, y \in proc[w].todo : x.id = y.id => x = y
      BY <3>2 DEF ExportWaits
    <3>6. ASSUME NEW h \in proc[w].held, <<"moved", h[1]>> \notin during'[w]
          PROVE  Accounted(proc'[w], h[1], h[2])
      <4>1. Accounted(proc[w], h[1], h[2]) /\ h[1] \in Image /\ h[2] \in Name
        BY <1>0, <3>2, <3>4, <3>6 DEF ExportWaits, Request
      <4> QED
        BY <1>0, <3>3, <3>5, <4>1, ListingAccounts
    <3>7. ASSUME NEW h \in proc[w].held, <<"moved", h[1]>> \notin during'[w]
          PROVE  Accounted(proc[w], h[1], h[2])'
      BY <3>2, <3>6, <3>7 DEF Accounted, Stored
    <3> QED
      BY <3>3, <3>5, <3>7
  <2> QED
    BY <2>0, <2>1, <2>2
<1> QED
  BY <1>1, <1>2

LEMMA FileCompleteKept == ASSUME Inv, ExportWaits, FileComplete, Next PROVE FileComplete'
<1>1. CASE UNCHANGED file
  BY <1>1 DEF FileComplete, EntriesOf
<1>2. ASSUME NEW w \in Worker, ExportDone(w) PROVE FileComplete'
  <2>1. /\ proc[w].pc = "export" /\ proc[w].todo = {}
        /\ file' = [into |-> None, names |-> proc[w].names, entries |-> proc[w].listed,
                    held |-> {h \in proc[w].held : <<"moved", h[1]>> \notin during[w]}]
    BY <1>2 DEF ExportDone, At
  <2>2. ASSUME NEW h \in file'.held
        PROVE  \E e \in file'.entries : e.name = h[2] /\ EntriesOf(file'.entries, h[1]) = {e}
    <3>1. h \in proc[w].held /\ <<"moved", h[1]>> \notin during[w] /\ file'.entries = proc[w].listed
      BY <2>1
    <3>2. Accounted(proc[w], h[1], h[2])
      BY <2>1, <3>1 DEF ExportWaits
    <3> QED
      BY <2>1, <3>1, <3>2 DEF Accounted
  <2> QED
    BY <2>2 DEF FileComplete, EntriesOf
<1>3. CASE ImportUserData
  <2>1. PICK u \in User : file # None /\ file' = [file EXCEPT !.into = <<u, left>>]
    BY <1>3 DEF ImportUserData
  <2>2. file'.entries = file.entries /\ file'.held = file.held
    BY <2>1 DEF Inv, Downloaded, Export
  <2> QED
    BY <2>1, <2>2 DEF FileComplete, EntriesOf
<1> QED
  BY <1>1, <1>2, <1>3, CountersAndFile

LEMMA CompleteFiles == FileComplete => ExportComplete
<1> SUFFICES ASSUME FileComplete, file # None, NEW h \in file.held
             PROVE  /\ \E e \in file.entries : e.image = h[1] /\ e.name = h[2]
                    /\ Cardinality({e \in file.entries : e.image = h[1]}) = 1
  BY DEF ExportComplete
<1>1. PICK e \in file.entries : e.name = h[2] /\ {x \in file.entries : x.image = h[1]} = {e}
  BY DEF FileComplete, EntriesOf
<1>2. e.image = h[1]
  BY <1>1
<1>3. Cardinality({e}) = 1
  BY FS_Singleton
<1> QED
  BY <1>1, <1>2, <1>3

\* An export lists every image the user kept in place throughout exactly once,
\* whatever else changed between its queries (export_user_data).
THEOREM ExportsAreComplete == SendsSpec => []ExportComplete
<1>1. Inv /\ ExportWaits /\ FileComplete /\ [SendsNext]_allVars => ExportWaits' /\ FileComplete'
  BY ExportWaitsKept, FileCompleteKept, StillWaits, SendsSteps DEF Inv
<1>2. SendsSpec => [](ExportWaits /\ FileComplete)
  BY <1>1, InvAlways, NoneWaits, PTL DEF SendsSpec
<1> QED
  BY <1>2, CompleteFiles, PTL

-----------------------------------------------------------------------------
(* What an import adds *)

\* One run of the import's transaction for u.
Imports(u, ids, rows, first) ==
    /\ ids \in [NewNames(u) -> Fresh(buckets, Bucket)] /\ rows \in [NewPairs(u) -> Fresh(images, Image)]
    /\ first \in [NewPairs(u) -> file.entries]
    /\ \A m, n \in NewNames(u) : m # n => ids[m] # ids[n]
    /\ \A p, q \in NewPairs(u) : p # q => rows[p] # rows[q]
    /\ buckets' = AddBuckets(u, ids) /\ images' = AddImages(u, ids, rows, first)

\* The images counted as copies of a URL in the bucket of that name.
Same(u, n, url) ==
    {i \in IdsOf(images) : /\ images[i].owner = u /\ images[i].url = url
                           /\ buckets[images[i].bucket] = [owner |-> u, name |-> n]}

LEMMA NamedRow ==
    ASSUME Inv, NEW u \in User, NEW n \in Name, NEW b \in Bucket
    PROVE  b \in Named(u, n) <=> buckets[b] = [owner |-> u, name |-> n]
<1>1. buckets[b] \in BucketRow => buckets[b] = [owner |-> buckets[b].owner, name |-> buckets[b].name]
  BY DEF BucketRow
<1>2. [owner |-> u, name |-> n] \in BucketRow
  BY DEF BucketRow
<1>3. Stored(buckets, b) <=> buckets[b] \in BucketRow
  BY StoredRows DEF Inv
<1> QED
  BY <1>1, <1>2, <1>3 DEF Named, OwnBuckets, Owns

LEMMA HoldsSame ==
    ASSUME Inv, NEW u \in User, NEW n \in Name, NEW url
    PROVE  Holds(u, n, url) <=> Same(u, n, url) # {}
<1>1. \A i \in Images : i \in Image /\ images[i].bucket \in Bucket
  BY StoredRows DEF Inv, Images, ImageRow
<1>2. IdsOf(images) = Images
  BY DEF IdsOf, Images, Stored, Inv, Tables, ImagesOK
<1> QED
  BY <1>1, <1>2, NamedRow DEF Holds, Same

\* Old buckets and images stay, new ones take ids that were free.
LEMMA ImportedTables ==
    ASSUME Inv, NEW u \in User, NEW ids, NEW rows, NEW first, Imports(u, ids, rows, first), file # None
    PROVE  /\ \A b \in Bucket : Stored(buckets, b) => buckets'[b] = buckets[b]
           /\ \A i \in Images : images'[i] = images[i]
           /\ \A n \in file.names : BucketFor(u, n, ids) \in Bucket
                                    /\ buckets'[BucketFor(u, n, ids)] = [owner |-> u, name |-> n]
           /\ \A p \in NewPairs(u) :
                 /\ rows[p] \in Image /\ rows[p] \notin Images
                 /\ images'[rows[p]] = [owner |-> u, bucket |-> BucketFor(u, p[1], ids), url |-> p[2],
                                        words |-> first[p].words]
           /\ \A i \in Image : i \notin Images => images'[i] \in {None, Gone} \/ \E p \in NewPairs(u) : i = rows[p]
<1>1. /\ DOMAIN ids = NewNames(u) /\ \A n \in NewNames(u) : ids[n] \in Bucket /\ buckets[ids[n]] = None
      /\ DOMAIN rows = NewPairs(u) /\ \A p \in NewPairs(u) : rows[p] \in Image /\ images[rows[p]] = None
  BY DEF Imports, Fresh
<1>2. /\ \A m, n \in NewNames(u) : m # n => ids[m] # ids[n]
      /\ \A p, q \in NewPairs(u) : p # q => rows[p] # rows[q]
      /\ buckets' = AddBuckets(u, ids) /\ images' = AddImages(u, ids, rows, first)
  BY DEF Imports
<1>3. \A b \in Bucket : Stored(buckets, b) => buckets'[b] = buckets[b]
  BY <1>1, <1>2 DEF AddBuckets, Stored
<1>4. \A i \in Images : images'[i] = images[i]
  BY <1>1, <1>2 DEF AddImages, Images, Stored
<1>5. \A n \in NewNames(u) : buckets'[ids[n]] = [owner |-> u, name |-> n]
  <2> SUFFICES ASSUME NEW n \in NewNames(u) PROVE buckets'[ids[n]] = [owner |-> u, name |-> n]
    OBVIOUS
  <2>1. (CHOOSE m \in DOMAIN ids : ids[m] = ids[n]) = n
    BY <1>1, <1>2
  <2> QED
    BY <1>1, <1>2, <2>1 DEF AddBuckets
<1>6. ASSUME NEW n \in file.names
      PROVE  BucketFor(u, n, ids) \in Bucket /\ buckets'[BucketFor(u, n, ids)] = [owner |-> u, name |-> n]
  <2>1. CASE n \in NewNames(u)
    BY <1>1, <1>5, <2>1 DEF BucketFor
  <2>2. CASE n \notin NewNames(u)
    <3>1. n \in Name /\ Named(u, n) # {}
      BY <2>2 DEF NewNames, Inv, Downloaded, Export
    <3> DEFINE b == CHOOSE c \in Named(u, n) : TRUE
    <3>2. BucketFor(u, n, ids) = b
      BY <1>1, <2>2 DEF BucketFor
    <3>3. b \in Named(u, n)
      BY <3>1
    <3> HIDE DEF b
    <3>4. b \in Bucket /\ Stored(buckets, b)
      BY <3>3 DEF Named, OwnBuckets, Owns
    <3>5. buckets'[b] = [owner |-> u, name |-> n]
      BY <1>3, <3>1, <3>3, <3>4, NamedRow
    <3> QED
      BY <3>2, <3>4, <3>5
  <2> QED
    BY <2>1, <2>2
<1>7. ASSUME NEW p \in NewPairs(u)
      PROVE  /\ rows[p] \in Image /\ rows[p] \notin Images
             /\ images'[rows[p]] = [owner |-> u, bucket |-> BucketFor(u, p[1], ids), url |-> p[2],
                                    words |-> first[p].words]
  <2>1. (CHOOSE q \in DOMAIN rows : rows[q] = rows[p]) = p
    BY <1>1, <1>2
  <2>2. rows[p] \in Image /\ rows[p] \notin Images
    BY <1>1 DEF Images, Stored
  <2> QED
    BY <1>1, <1>2, <2>1, <2>2 DEF AddImages
<1>8. ASSUME NEW i \in Image, i \notin Images, \A p \in NewPairs(u) : i # rows[p]
      PROVE  images'[i] \in {None, Gone}
  <2>1. images'[i] = images[i]
    BY <1>1, <1>2, <1>8 DEF AddImages
  <2> QED
    BY <1>8, <2>1 DEF Images, Stored
<1> QED
  BY <1>3, <1>4, <1>6, <1>7, <1>8

LEMMA ImportCopies ==
    ASSUME Inv, NEW u \in User, NEW ids, NEW rows, NEW first, Imports(u, ids, rows, first), file # None,
           NEW n \in Name, NEW url \in Link
    PROVE  Copies(images', buckets', u, n, url)
             = IF (\E e \in file.entries : e.name = n /\ e.url = url) /\ Copies(images, buckets, u, n, url) = 0
               THEN 1 ELSE Copies(images, buckets, u, n, url)
<1> DEFINE p     == <<n, url>>
           row   == [owner |-> u, name |-> n]
           old   == Same(u, n, url)
           after == {i \in IdsOf(images') : /\ images'[i].owner = u /\ images'[i].url = url
                                            /\ buckets'[images'[i].bucket] = row}
<1>1. /\ \A b \in Bucket : Stored(buckets, b) => buckets'[b] = buckets[b]
      /\ \A i \in Images : images'[i] = images[i]
      /\ \A m \in file.names : buckets'[BucketFor(u, m, ids)] = [owner |-> u, name |-> m]
      /\ \A q \in NewPairs(u) :
            /\ rows[q] \in Image /\ rows[q] \notin Images
            /\ images'[rows[q]] = [owner |-> u, bucket |-> BucketFor(u, q[1], ids), url |-> q[2],
                                   words |-> first[q].words]
      /\ \A i \in Image : i \notin Images => images'[i] \in {None, Gone} \/ \E q \in NewPairs(u) : i = rows[q]
  BY ImportedTables
<1>2. ASSUME NEW q \in NewPairs(u)
      PROVE  /\ images'[rows[q]].owner = u /\ images'[rows[q]].url = q[2]
             /\ buckets'[images'[rows[q]].bucket] = [owner |-> u, name |-> q[1]]
             /\ images'[rows[q]] \notin {None, Gone}
             /\ q = <<q[1], q[2]>>
  <2>1. PICK e \in file.entries : q = <<e.name, e.url>>
    BY DEF NewPairs
  <2>2. q = <<q[1], q[2]>> /\ q[1] \in file.names /\ q[2] \in Link
    BY <2>1 DEF Inv, Downloaded, Export, Entry
  <2> DEFINE r == images'[rows[q]]
             b == BucketFor(u, q[1], ids)
             w == first[q].words
  <2>3. r = [owner |-> u, bucket |-> b, url |-> q[2], words |-> w]
    BY <1>1
  <2>4. b \in Bucket
    BY <2>2, ImportedTables
  <2>5. w \in Words
    BY DEF Imports, Inv, Downloaded, Export, Entry
  <2>6. buckets'[b] = [owner |-> u, name |-> q[1]]
    BY <1>1, <2>2
  <2> HIDE DEF b, w, r
  <2>7. r.owner = u /\ r.url = q[2] /\ r.bucket = b
    BY <2>3
  <2>8. r \notin {None, Gone}
    <3>1. r \in ImageRow
      BY <2>3, <2>2, <2>4, <2>5 DEF ImageRow
    <3> QED
      BY <3>1, LibraryAssumption
  <2>9. buckets'[r.bucket] = [owner |-> u, name |-> q[1]]
    BY <2>7, <2>6
  <2> QED
    BY <2>2, <2>7, <2>8, <2>9 DEF r
<1>3. IdsOf(images) = Images /\ Images \subseteq Image
  BY DEF IdsOf, Images, Stored, Inv, Tables, ImagesOK
<1>4. DOMAIN images' = Image
  BY DEF Imports, AddImages
\* What was there counts as before.
<1>5. ASSUME NEW i \in Images
      PROVE  i \in after <=> i \in old
  <2>1. images'[i] = images[i] /\ i \in IdsOf(images')
    BY <1>1, <1>3, <1>4 DEF IdsOf, Images, Stored
  <2>2. images[i].bucket \in Bucket /\ Stored(buckets, images[i].bucket)
    BY StoredRows DEF Inv, Tables, ImageInOwnersBucket, Images, ImageRow, Owns
  <2>3. buckets'[images[i].bucket] = buckets[images[i].bucket]
    BY <1>1, <2>2
  <2> QED
    BY <1>3, <2>1, <2>3 DEF Same
<1>6. ASSUME NEW i \in after, i \notin Images
      PROVE  p \in NewPairs(u) /\ i = rows[p]
  <2>1. i \in Image /\ images'[i] \notin {None, Gone}
    BY <1>4 DEF IdsOf
  <2>2. PICK q \in NewPairs(u) : i = rows[q]
    BY <1>1, <1>6, <2>1
  <2>3. q[2] = url /\ [owner |-> u, name |-> q[1]] = row /\ q = <<q[1], q[2]>>
    BY <1>2, <2>2
  <2>4. q[1] = n
    BY <2>3
  <2> QED
    BY <2>2, <2>3, <2>4
<1>7. ASSUME p \in NewPairs(u)
      PROVE  rows[p] \in after
  <2>1. p[1] = n /\ p[2] = url
    OBVIOUS
  <2> HIDE DEF p
  <2>2. /\ images'[rows[p]].owner = u /\ images'[rows[p]].url = url
        /\ buckets'[images'[rows[p]].bucket] = [owner |-> u, name |-> n]
        /\ images'[rows[p]] \notin {None, Gone} /\ rows[p] \in Image
    BY <1>1, <1>2, <1>7, <2>1
  <2> QED
    BY <1>4, <2>2 DEF IdsOf
<1>8. p \in NewPairs(u) <=> (\E e \in file.entries : e.name = n /\ e.url = url) /\ old = {}
  <2>1. p \in NewPairs(u) <=> \E e \in file.entries : ~Holds(u, e.name, e.url) /\ <<e.name, e.url>> = <<n, url>>
    BY DEF NewPairs
  <2>2. p \in NewPairs(u) <=> (\E e \in file.entries : e.name = n /\ e.url = url) /\ ~Holds(u, n, url)
    BY <2>1
  <2> QED
    BY <2>2, HoldsSame
<1>9. /\ Copies(images, buckets, u, n, url) = Cardinality(old)
      /\ Copies(images', buckets', u, n, url) = Cardinality(after)
  BY DEF Copies, Same
<1>10. old \subseteq Images /\ IsFiniteSet(old)
  BY <1>3, SendsAssumption, FS_Subset DEF Same
<1>11. Cardinality(old) = 0 <=> old = {}
  BY <1>10, FS_EmptySet
<1> HIDE DEF old, after, p
<1>12. CASE p \in NewPairs(u)
  <2>1. after = {rows[p]}
    BY <1>5, <1>6, <1>7, <1>8, <1>12
  <2>2. Cardinality(after) = 1
    BY <2>1, FS_Singleton
  <2> QED
    BY <1>8, <1>9, <1>11, <1>12, <2>2
<1>13. CASE p \notin NewPairs(u)
  <2>1. after = old
    BY <1>5, <1>6, <1>10, <1>13
  <2> QED
    BY <1>8, <1>9, <1>11, <1>13, <2>1
<1> QED
  BY <1>12, <1>13

\* An import leaves each URL of the file in the bucket of its name, adds none that
\* was there and none twice, and touches nothing else (import_user_data).
THEOREM ImportsRestore == SendsSpec => ImportRestores
<1>1. ASSUME Inv, ImportUserData, file # None
      PROVE  /\ \A i \in Images : images'[i] = images[i]
             /\ \A n \in Name, url \in Link :
                   Copies(images', buckets', file'.into[1], n, url)
                     = IF (\E e \in file.entries : e.name = n /\ e.url = url)
                          /\ Copies(images, buckets, file'.into[1], n, url) = 0
                       THEN 1 ELSE Copies(images, buckets, file'.into[1], n, url)
  <2>1. PICK u \in User :
          \E ids \in [NewNames(u) -> Fresh(buckets, Bucket)], rows \in [NewPairs(u) -> Fresh(images, Image)],
             first \in [NewPairs(u) -> file.entries] :
             /\ \A m, n \in NewNames(u) : m # n => ids[m] # ids[n]
             /\ \A p, q \in NewPairs(u) : p # q => rows[p] # rows[q]
             /\ buckets' = AddBuckets(u, ids) /\ images' = AddImages(u, ids, rows, first)
             /\ file' = [file EXCEPT !.into = <<u, left>>]
    BY <1>1 DEF ImportUserData
  <2>2. PICK ids, rows, first : Imports(u, ids, rows, first)
    BY <2>1 DEF Imports
  <2>3. file'.into = <<u, left>>
    BY <1>1, <2>1 DEF Inv, Downloaded, Export
  <2>4. file'.into[1] = u
    BY <2>3
  <2>5. \A i \in Images : images'[i] = images[i]
    BY <1>1, <2>2, ImportedTables
  <2>6. \A n \in Name, url \in Link :
          Copies(images', buckets', u, n, url)
             = IF (\E e \in file.entries : e.name = n /\ e.url = url) /\ Copies(images, buckets, u, n, url) = 0
               THEN 1 ELSE Copies(images, buckets, u, n, url)
    BY <1>1, <2>2, ImportCopies
  <2> QED
    BY <2>4, <2>5, <2>6
<1>2. ASSUME Inv, [SendsNext]_allVars, file'.into # file.into, file'.into # None
      PROVE  ImportUserData
  <2>1. file' # file
    BY <1>2
  <2>2. Next
    BY <1>2, <2>1, SendsSteps DEF Inv, Aside, vars
  <2>3. ASSUME NEW w \in Worker, ExportDone(w) PROVE FALSE
    BY <1>2, <2>3 DEF ExportDone
  <2> QED
    BY <1>2, <2>1, <2>2, <2>3, CountersAndFile DEF Inv
<1>3. Inv /\ [SendsNext]_allVars =>
        [file # None /\ file'.into # file.into /\ file'.into # None =>
           /\ \A i \in Images : images'[i] = images[i]
           /\ \A n \in Name, url \in Link :
                LET u      == file'.into[1]
                    before == Copies(images, buckets, u, n, url)
                    listed == \E e \in file.entries : e.name = n /\ e.url = url
                IN Copies(images', buckets', u, n, url) = IF listed /\ before = 0 THEN 1 ELSE before]_vars
  BY <1>1, <1>2
<1> QED
  BY <1>3, InvAlways, PTL DEF SendsSpec, ImportRestores
=============================================================================
