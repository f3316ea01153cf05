------------------------------ MODULE CdnPipeline ------------------------------
(***************************************************************************)
(* Media permanence: the images table, the object store (Backblaze B2) and *)
(* its dedup table cdn_objects, as the request handlers of api/images.rs,   *)
(* the Discord commands, the re-hosting tasks, the start-up migration job   *)
(* and the garbage collector of services/storage.rs change them.            *)
(*                                                                         *)
(* Every await point between two effects is a step boundary.  Fetching and *)
(* converting media reads and writes nothing kept here, so it is folded    *)
(* into the step that follows it.  A content h stands for the bytes after  *)
(* conversion, for their hash, for the key of their object and for the     *)
(* CDN URL of that object: the code computes each from the former.          *)
(***************************************************************************)
EXTENDS Naturals, FiniteSets

CONSTANTS
    Image,        \* ids of image rows; a row's id is never used again
    DiscordUrl,   \* links whose host is a Discord CDN host: they expire
    StableUrl,    \* any other link, stored as it is
    Content,      \* contents, and the CDN URLs of their objects
    Link,         \* the links clients submit; some may be CDN URLs
    ContentOf,    \* what the bytes behind a Discord link convert to
    Worker,       \* request handlers and spawned tasks in flight at once
    Migrator,     \* the migration job that main.rs spawns at start-up
    StorageModes, \* the values "is B2 configured" may take at a (re)start
    None,         \* SQL NULL, no row, no value
    BatchSize,    \* LIMIT of the migration job's SELECT
    MaxRequests,  \* bound: client requests
    MaxFaults,    \* bound: failed statements, lost answers, dropped requests
    MaxRestarts   \* bound: server restarts

Url  == DiscordUrl \cup StableUrl \cup Content
Proc == Worker \cup {Migrator}

Row == [url: Url, cdn_url: Url \cup {None}, cdn_status: {"pending", "migrated", "broken"}]

\* "add": the paths that never finalise a row (upload_image, both Discord
\* commands).  The steps are those of store_bytes (lookup, put, record), of a
\* row write (insert, update, finalize), of a re-host's UPDATE (commit), of
\* the collector (select, delete, purge) and of the job's loop (fetch, row).
Jobs  == {"create", "add", "patch", "rehost", "migrate", "gc"}
Steps == {"idle", "lookup", "put", "record", "insert", "update", "finalize",
          "commit", "select", "delete", "purge", "fetch", "row", "done"}

ASSUME PipelineAssumption ==
    /\ ContentOf \in [DiscordUrl -> Content]
    /\ Link \subseteq Url
    /\ DiscordUrl \cap (StableUrl \cup Content) = {}
    /\ StableUrl \cap Content = {}
    /\ None \notin Url \cup Image \cup Row \cup Jobs
    /\ Migrator \notin Worker
    /\ StorageModes \in (SUBSET BOOLEAN) \ {{}}
    /\ BatchSize \in Nat \ {0}
    /\ MaxRequests \in Nat /\ MaxFaults \in Nat /\ MaxRestarts \in Nat

VARIABLES
    images,      \* the images table: id -> [url, cdn_url, cdn_status], or None
    created,     \* ids handed out so far
    store,       \* keys of the objects in B2
    cdn_objects, \* the dedup table
    configured,  \* state.storage().is_some()
    proc,        \* where each handler, task and the migration job stands
    garbage,     \* orphans a worker's collection pass has still to delete
    batch,       \* rows of the migration job's current batch: [image, url]
    failed_this_run,
    requests, faults, restarts,   \* the bounded counters
    exposed,     \* history: contents that were ever at risk (AtRisk)
    excused      \* history: rows nothing will settle before the next restart

table   == <<images, created>>
objects == <<store, cdn_objects>>
job     == <<batch, failed_this_run>>
bounds  == <<requests, faults, restarts>>
vars    == <<images, created, store, cdn_objects, configured, proc, garbage,
             batch, failed_this_run, requests, faults, restarts, exposed, excused>>

ProcState == [pc: Steps, job: Jobs \cup {None}, image: Image \cup {None},
              url: Url \cup {None}, content: Content \cup {None}]

Idle == [pc |-> "idle", job |-> None, image |-> None, url |-> None, content |-> None]

\* The migration job between two of its own steps.
Migrating(pc) == [pc |-> pc, job |-> "migrate", image |-> None, url |-> None, content |-> None]

Exists(i)  == images[i] # None
Goto(p, s) == proc' = [proc EXCEPT ![p] = s]

Init ==
    /\ images = [i \in Image |-> None]
    /\ created = {} /\ store = {} /\ cdn_objects = {}
    /\ configured \in StorageModes
    /\ proc = [p \in Proc |-> IF p # Migrator THEN Idle
                              ELSE Migrating(IF configured THEN "fetch" ELSE "done")]
    /\ garbage = [w \in Worker |-> {}]
    /\ batch = {} /\ failed_this_run = {}
    /\ requests = 0 /\ faults = 0 /\ restarts = 0
    /\ exposed = {} /\ excused = {}

-----------------------------------------------------------------------------
(* When the object behind a CDN URL may go missing *)

\* A collection pass has h on its list while someone holds h as the result
\* of an upload that no row records yet.
Overlapping ==
    {h \in Content : /\ \E w \in Worker : h \in garbage[w]
                     /\ \E p \in Proc : proc[p].pc \in {"record", "commit"} /\ proc[p].content = h}

\* A pass ended between its two deletions: the dedup table still names h.
HalfCollected ==
    {h \in cdn_objects \ store : ~\E w \in Worker : proc[w].pc = "purge" /\ proc[w].content = h}

\* Some row has the CDN URL h as its own url: the collector does not look there.
UsedAsUrl == {h \in Content : \E i \in Image : Exists(i) /\ images[i].url = h}

AtRisk == Overlapping \cup HalfCollected \cup UsedAsUrl

\* Every step ends by noting which contents it leaves at risk.
NoteRisk == exposed' = exposed \cup AtRisk'

-----------------------------------------------------------------------------
(* Effects shared by several actions *)

\* A client request arrives and is served by w.
Request(w) ==
    /\ proc[w].pc = "idle"
    /\ requests < MaxRequests
    /\ requests' = requests + 1
    /\ UNCHANGED <<faults, restarts>>

\* A database statement fails, an answer of the object store is lost, or a
\* client hangs up.
Fault ==
    /\ faults < MaxFaults
    /\ faults' = faults + 1
    /\ UNCHANGED <<requests, restarts>>

\* UPDATE images SET cdn_url = c, cdn_status = 'migrated' WHERE id = i: only
\* the id is compared, so it writes to whatever the row holds by then.
SetMigrated(i, c) ==
    images' = IF Exists(i)
              THEN [images EXCEPT ![i] = [@ EXCEPT !.cdn_url = c, !.cdn_status = "migrated"]]
              ELSE images

\* Mutant: a status no reader of the column knows.
SetBrokenMisspelt(i) ==
    images' = IF Exists(i) THEN [images EXCEPT ![i] = [@ EXCEPT !.cdn_status = "failed"]] ELSE images

SetBroken(i) ==
    images' = IF Exists(i) THEN [images EXCEPT ![i] = [@ EXCEPT !.cdn_status = "broken"]] ELSE images

\* Mutant: the job leaves its loop after one row.
NextJobStops(p) == IF p = Migrator THEN Migrating("done") ELSE Idle

\* What follows a re-host or a bookkeeping UPDATE: a task ends, the migration
\* job turns to the next row of its batch.
NextJob(p) == IF p = Migrator THEN Migrating("row") ELSE Idle

\* store_bytes returned the CDN URL h to its caller.
Stored(p, h) ==
    CASE proc[p].job \in {"create", "add"} ->
            [proc[p] EXCEPT !.pc = "insert", !.url = h, !.content = None]
      [] proc[p].job = "patch" ->
            [proc[p] EXCEPT !.pc = "update", !.url = h, !.content = None]
      [] OTHER -> [proc[p] EXCEPT !.pc = "commit"]

-----------------------------------------------------------------------------
(* Request handlers *)

\* resolve_and_upload_url: a Discord or other image link is kept; a video or
\* a Twitter/Bluesky picture is stored first, if B2 is configured.
Submit(w, j, i, pc) ==
    \/ \E u \in Link :
          Goto(w, [pc |-> pc, job |-> j, image |-> i, url |-> u, content |-> None])
    \/ /\ configured
       /\ \E h \in Content :
             Goto(w, [pc |-> "lookup", job |-> j, image |-> i, url |-> None, content |-> h])

\* A row as it is inserted: the columns' defaults.
NewRow(u) == [url |-> u, cdn_url |-> None, cdn_status |-> "pending"]

\* Mutant: the copy of the old link stays.
RepointedKeepsCopy(i, u) == [images[i] EXCEPT !.url = u, !.cdn_status = "pending"]

\* UPDATE images SET url = u, cdn_url = NULL, cdn_status = 'pending'.
Repointed(i, u) == [images[i] EXCEPT !.url = u, !.cdn_url = None, !.cdn_status = "pending"]

\* Mutant: the task is never spawned.
SpawnsNothing(w) == Idle

\* The re-hosting task a finalised Discord link starts, if B2 is configured.
Spawned(w) ==
    IF configured
    THEN [proc[w] EXCEPT !.pc = "lookup", !.job = "rehost",
                         !.url = None, !.content = ContentOf[proc[w].url]]
    ELSE Idle

\* POST /images.
CreateImage(w) ==
    /\ Request(w)
    /\ Submit(w, "create", None, "insert")
    /\ UNCHANGED <<table, objects, configured, garbage, job, excused>>
    /\ NoteRisk

\* POST /images/upload: its permission and ownership checks come before all this.
UploadImage(w) ==
    /\ Request(w)
    /\ configured
    /\ \E h \in Content :
          Goto(w, [pc |-> "lookup", job |-> "add", image |-> None, url |-> None, content |-> h])
    /\ UNCHANGED <<table, objects, configured, garbage, job, excused>>
    /\ NoteRisk

\* "/bucket add" (a link) and "Add to Bucket" (a link, a video or a Bluesky
\* picture): the row is inserted as it is, and never finalised.
DiscordAdd(w) ==
    /\ Request(w)
    /\ Submit(w, "add", None, "insert")
    /\ UNCHANGED <<table, objects, configured, garbage, job, excused>>
    /\ NoteRisk

\* PATCH /images/{id} with a url.  get_for_owner may answer from its cache.
PatchImage(w) ==
    /\ Request(w)
    /\ \E i \in created : Submit(w, "patch", i, "update")
    /\ UNCHANGED <<table, objects, configured, garbage, job, excused>>
    /\ NoteRisk

\* create_with_metadata; an error or a bucket that is gone ends the request.
InsertRow(w) ==
    /\ proc[w].pc = "insert"
    /\ \/ \E i \in Image \ created :
             /\ images' = [images EXCEPT ![i] = NewRow(proc[w].url)]
             /\ created' = created \cup {i}
             /\ IF proc[w].job = "create"
                THEN /\ Goto(w, [proc[w] EXCEPT !.pc = "finalize", !.image = i])
                     /\ UNCHANGED excused
                ELSE /\ Goto(w, Idle)
                     /\ excused' = excused \cup {i}
       \/ Goto(w, Idle) /\ UNCHANGED <<table, excused>>
    /\ UNCHANGED <<objects, configured, garbage, job, bounds>>
    /\ NoteRisk

\* update_metadata_partial with a url; no such row: 404.
UpdateRow(w) ==
    /\ proc[w].pc = "update"
    /\ LET i == proc[w].image IN
       \/ /\ Exists(i)
          /\ images' = [images EXCEPT ![i] = Repointed(i, proc[w].url)]
          /\ Goto(w, [proc[w] EXCEPT !.pc = "finalize"])
          /\ excused' = excused \ {i}
       \/ Goto(w, Idle) /\ UNCHANGED <<images, excused>>
    /\ UNCHANGED <<created, objects, configured, garbage, job, bounds>>
    /\ NoteRisk

\* finalize_cdn_status.  For a Discord link the request ends and the task it
\* spawned takes its place as w; the error of the UPDATE is ignored.
Finalize(w) ==
    /\ proc[w].pc = "finalize"
    /\ LET u == proc[w].url IN
       \/ /\ u \in DiscordUrl
          /\ Goto(w, Spawned(w))
          /\ excused' = IF configured THEN excused ELSE excused \cup {proc[w].image}
          /\ UNCHANGED <<images, bounds>>
       \/ /\ u \notin DiscordUrl
          /\ SetMigrated(proc[w].image, u)
          /\ Goto(w, Idle)
          /\ UNCHANGED <<bounds, excused>>
       \/ /\ u \notin DiscordUrl
          /\ Fault
          /\ Goto(w, Idle)
          /\ excused' = excused \cup {proc[w].image}
          /\ UNCHANGED images
    /\ UNCHANGED <<created, objects, configured, garbage, job>>
    /\ NoteRisk

\* The client hangs up: the server drops the handler's future where it waits.
\* A spawned task is not the handler's to drop.
Disconnect(w) ==
    /\ proc[w].job \in {"create", "add", "patch", "gc"}
    /\ Fault
    /\ Goto(w, Idle)
    /\ garbage' = [garbage EXCEPT ![w] = {}]
    /\ excused' = IF proc[w].pc = "finalize" THEN excused \cup {proc[w].image} ELSE excused
    /\ UNCHANGED <<table, objects, configured, job>>
    /\ NoteRisk

\* DELETE one or several images; with rows deleted, the handler collects.
DeleteImages(w) ==
    /\ Request(w)
    /\ \E S \in (SUBSET {i \in Image : Exists(i)}) \ {{}} :
          images' = [i \in Image |-> IF i \in S THEN None ELSE images[i]]
    /\ Goto(w, IF configured THEN [Idle EXCEPT !.pc = "select", !.job = "gc"] ELSE Idle)
    /\ UNCHANGED <<created, objects, configured, garbage, job, excused>>
    /\ NoteRisk

\* A deleted bucket or account takes its rows along; nothing is collected.
CascadeDelete(w) ==
    /\ Request(w)
    /\ \E S \in (SUBSET {i \in Image : Exists(i)}) \ {{}} :
          images' = [i \in Image |-> IF i \in S THEN None ELSE images[i]]
    /\ UNCHANGED <<created, objects, configured, proc, garbage, job, excused>>
    /\ NoteRisk

\* import_user_data: rows inserted by one transaction, never finalised.
ImportImages(w) ==
    /\ Request(w)
    /\ \E S \in (SUBSET (Image \ created)) \ {{}} : \E f \in [S -> Link] :
          /\ images' = [i \in Image |->
                IF i \in S THEN NewRow(f[i]) ELSE images[i]]
          /\ created' = created \cup S
          /\ excused' = excused \cup S
    /\ UNCHANGED <<objects, configured, proc, garbage, job>>
    /\ NoteRisk

-----------------------------------------------------------------------------
(* store_bytes, run by a handler, a re-hosting task or the migration job *)

LookupHit(p) ==
    /\ proc[p].pc = "lookup"
    /\ proc[p].content \in cdn_objects
    /\ Goto(p, Stored(p, proc[p].content))
    /\ UNCHANGED <<table, objects, configured, garbage, job, bounds, excused>>
    /\ NoteRisk

\* A failing lookup falls through to the upload.
LookupMiss(p) ==
    /\ proc[p].pc = "lookup"
    /\ \/ proc[p].content \notin cdn_objects /\ UNCHANGED bounds
       \/ proc[p].content \in cdn_objects /\ Fault
    /\ Goto(p, [proc[p] EXCEPT !.pc = "put"])
    /\ UNCHANGED <<table, objects, configured, garbage, job, excused>>
    /\ NoteRisk

PutObject(p) ==
    /\ proc[p].pc = "put"
    /\ store' = store \cup {proc[p].content}
    /\ Goto(p, [proc[p] EXCEPT !.pc = "record"])
    /\ UNCHANGED <<table, cdn_objects, configured, garbage, job, bounds, excused>>
    /\ NoteRisk

\* insert_cdn_object: INSERT OR IGNORE, its error non-fatal.
RecordObject(p) ==
    /\ proc[p].pc = "record"
    /\ \/ cdn_objects' = cdn_objects \cup {proc[p].content} /\ UNCHANGED bounds
       \/ Fault /\ UNCHANGED cdn_objects
    /\ Goto(p, Stored(p, proc[p].content))
    /\ UNCHANGED <<table, store, configured, garbage, job, excused>>
    /\ NoteRisk

\* UploadFailed: a handler answers with an error; a task or the job leaves
\* the row pending, the job remembering not to try it again in this run.
\* With its answer lost, the object may be there all the same.
UploadFails(p) ==
    /\ proc[p].pc = "put"
    /\ \/ UNCHANGED <<store, bounds>>
       \/ Fault /\ store' = store \cup {proc[p].content}
    /\ Goto(p, NextJob(p))
    /\ failed_this_run' = IF p = Migrator THEN failed_this_run \cup {proc[p].image}
                          ELSE failed_this_run
    /\ excused' = IF proc[p].job = "rehost" THEN excused \cup {proc[p].image} ELSE excused
    /\ UNCHANGED <<table, cdn_objects, configured, garbage, batch>>
    /\ NoteRisk

\* The error of the UPDATE is ignored.  The job selects the row again.
UpdateFails(p) ==
    /\ Fault
    /\ excused' = IF p = Migrator THEN excused ELSE excused \cup {proc[p].image}
    /\ UNCHANGED images

\* FetchFailed, decided before anything is looked up.
FetchFails(p) ==
    /\ proc[p].pc = "lookup"
    /\ proc[p].job \in {"rehost", "migrate"}
    /\ \/ SetBroken(proc[p].image) /\ UNCHANGED <<bounds, excused>>
       \/ UpdateFails(p)
    /\ Goto(p, NextJob(p))
    /\ UNCHANGED <<created, objects, configured, garbage, job>>
    /\ NoteRisk

\* The UPDATE after a successful re-host.
CommitRehost(p) ==
    /\ proc[p].pc = "commit"
    /\ \/ SetMigrated(proc[p].image, proc[p].content) /\ UNCHANGED <<bounds, excused>>
       \/ UpdateFails(p)
    /\ Goto(p, NextJob(p))
    /\ UNCHANGED <<created, objects, configured, garbage, job>>
    /\ NoteRisk

-----------------------------------------------------------------------------
(* garbage_collect_orphaned_objects *)

\* Mutant: the link a row was saved from is compared, not its copy.
ReferencedByLink(h) == \E i \in Image : Exists(i) /\ images[i].url = h

Referenced(h) == \E i \in Image : Exists(i) /\ images[i].cdn_url = h
Orphans       == {h \in cdn_objects : ~Referenced(h)}

\* The SELECT; its failure ends the pass.
GcSelect(w) ==
    /\ proc[w].pc = "select"
    /\ \/ /\ garbage' = [garbage EXCEPT ![w] = Orphans]
          /\ Goto(w, IF Orphans = {} THEN Idle ELSE [proc[w] EXCEPT !.pc = "delete"])
          /\ UNCHANGED bounds
       \/ Fault /\ Goto(w, Idle) /\ UNCHANGED garbage
    /\ UNCHANGED <<table, objects, configured, job, excused>>
    /\ NoteRisk

GcDeleteObject(w) ==
    /\ proc[w].pc = "delete"
    /\ \E h \in garbage[w] :
          /\ store' = store \ {h}
          /\ Goto(w, [proc[w] EXCEPT !.pc = "purge", !.content = h])
    /\ UNCHANGED <<table, cdn_objects, configured, garbage, job, bounds, excused>>
    /\ NoteRisk

\* Mutant: the error is ignored and the dedup row dropped.
GcDeleteFailsSilently(w) ==
    /\ proc[w].pc = "delete"
    /\ \E h \in garbage[w] :
          /\ cdn_objects' = cdn_objects \ {h}
          /\ garbage' = [garbage EXCEPT ![w] = garbage[w] \ {h}]
          /\ Goto(w, IF garbage[w] = {h} THEN Idle ELSE proc[w])
    /\ UNCHANGED <<table, store, configured, job, bounds, excused>>
    /\ NoteRisk

\* The object store refuses the deletion, or its answer is lost: the pass
\* stops with an error.
GcDeleteFails(w) ==
    /\ proc[w].pc = "delete"
    /\ \/ UNCHANGED <<store, bounds>>
       \/ Fault /\ \E h \in garbage[w] : store' = store \ {h}
    /\ Goto(w, Idle)
    /\ garbage' = [garbage EXCEPT ![w] = {}]
    /\ UNCHANGED <<table, cdn_objects, configured, job, excused>>
    /\ NoteRisk

GcPurgeRow(w) ==
    /\ proc[w].pc = "purge"
    /\ LET left == garbage[w] \ {proc[w].content} IN
       \/ /\ cdn_objects' = cdn_objects \ {proc[w].content}
          /\ garbage' = [garbage EXCEPT ![w] = left]
          /\ Goto(w, IF left = {} THEN Idle
                     ELSE [proc[w] EXCEPT !.pc = "delete", !.content = None])
          /\ UNCHANGED bounds
       \/ /\ Fault
          /\ garbage' = [garbage EXCEPT ![w] = {}]
          /\ Goto(w, Idle)
          /\ UNCHANGED cdn_objects
    /\ UNCHANGED <<table, store, configured, job, excused>>
    /\ NoteRisk

-----------------------------------------------------------------------------
(* run_cdn_migration *)

\* Mutant: rows that failed in this run are selected again.
UnmigratedRetried == {i \in Image : Exists(i) /\ images[i].cdn_status = "pending"}

Unmigrated ==
    {i \in Image \ failed_this_run : Exists(i) /\ images[i].cdn_status = "pending"}

\* The SELECT returns at most BatchSize rows, fewer only if there are fewer.
IsBatch(S) ==
    /\ S \subseteq Unmigrated
    /\ Cardinality(S) <= BatchSize
    /\ Cardinality(S) < BatchSize => S = Unmigrated

FetchBatch ==
    /\ proc[Migrator].pc = "fetch"
    /\ \/ /\ \E S \in SUBSET Unmigrated :
                /\ IsBatch(S)
                /\ batch' = {[image |-> i, url |-> images[i].url] : i \in S}
                /\ Goto(Migrator, Migrating(IF S = {} THEN "done" ELSE "row"))
          /\ UNCHANGED <<bounds, excused>>
       \/ /\ Fault
          /\ Goto(Migrator, Migrating("done"))
          /\ excused' = excused \cup Unmigrated
          /\ UNCHANGED batch
    /\ UNCHANGED <<table, objects, configured, garbage, failed_this_run>>
    /\ NoteRisk

\* One turn of the for loop; after the last row the job sleeps and refetches.
MigrateRow ==
    /\ proc[Migrator].pc = "row"
    /\ \/ /\ batch = {}
          /\ Goto(Migrator, Migrating("fetch"))
          /\ UNCHANGED <<images, batch, bounds>>
       \/ \E r \in batch :
             /\ batch' = batch \ {r}
             /\ \/ /\ r.url \in DiscordUrl
                   /\ Goto(Migrator, [Migrating("lookup") EXCEPT
                                        !.image = r.image, !.content = ContentOf[r.url]])
                   /\ UNCHANGED <<images, bounds>>
                \/ /\ r.url \notin DiscordUrl
                   /\ \/ SetMigrated(r.image, r.url) /\ UNCHANGED bounds
                      \/ Fault /\ UNCHANGED images
                   /\ UNCHANGED proc
    /\ UNCHANGED <<created, objects, configured, garbage, failed_this_run, excused>>
    /\ NoteRisk

-----------------------------------------------------------------------------
\* The process stops and starts again: every handler, task and collection
\* pass is gone, and main.rs spawns the migration job anew.
Restart ==
    /\ restarts < MaxRestarts
    /\ restarts' = restarts + 1
    /\ configured' \in StorageModes
    /\ proc' = [p \in Proc |-> IF p # Migrator THEN Idle
                               ELSE Migrating(IF configured' THEN "fetch" ELSE "done")]
    /\ garbage' = [w \in Worker |-> {}]
    /\ batch' = {} /\ failed_this_run' = {}
    /\ excused' = IF configured' THEN {} ELSE Image
    /\ UNCHANGED <<table, objects, requests, faults>>
    /\ NoteRisk

-----------------------------------------------------------------------------
Handle(w) ==
    \/ CreateImage(w) \/ UploadImage(w) \/ DiscordAdd(w) \/ PatchImage(w)
    \/ DeleteImages(w) \/ CascadeDelete(w) \/ ImportImages(w)

StoreStep(p) ==
    \/ LookupHit(p) \/ LookupMiss(p) \/ PutObject(p) \/ RecordObject(p)
    \/ UploadFails(p) \/ FetchFails(p) \/ CommitRehost(p)

WorkerStep(w) ==
    \/ InsertRow(w) \/ UpdateRow(w) \/ Finalize(w)
    \/ GcSelect(w) \/ GcDeleteObject(w) \/ GcDeleteFails(w) \/ GcPurgeRow(w)
    \/ StoreStep(w)

MigratorStep == FetchBatch \/ MigrateRow \/ StoreStep(Migrator)

Next ==
    \/ \E w \in Worker : Handle(w) \/ WorkerStep(w) \/ Disconnect(w)
    \/ MigratorStep
    \/ Restart

Spec == Init /\ [][Next]_vars

\* A task that can go on does: tokio polls every task that is ready, and
\* every await of these paths ends in an answer or an error.
Fairness ==
    /\ \A w \in Worker : WF_vars(WorkerStep(w))
    /\ WF_vars(MigratorStep)

FairSpec == Spec /\ Fairness

-----------------------------------------------------------------------------
(* Properties *)

TypeOK ==
    /\ images \in [Image -> Row \cup {None}]
    /\ created \in SUBSET Image
    /\ store \in SUBSET Content /\ cdn_objects \in SUBSET Content
    /\ configured \in BOOLEAN
    /\ proc \in [Proc -> ProcState]
    /\ garbage \in [Worker -> SUBSET Content]
    /\ batch \in SUBSET [image: Image, url: Url]
    /\ failed_this_run \in SUBSET Image
    /\ requests \in 0..MaxRequests /\ faults \in 0..MaxFaults /\ restarts \in 0..MaxRestarts
    /\ exposed \in SUBSET Content /\ excused \in SUBSET Image

Pending(i)  == Exists(i) /\ images[i].cdn_status = "pending"
Migrated(i) == Exists(i) /\ images[i].cdn_status = "migrated"

\* A row saved from an expiring Discord link.
Rehosted(i) == Exists(i) /\ images[i].url \in DiscordUrl /\ images[i].cdn_url \in Content

Quiet == (\A w \in Worker : proc[w].pc = "idle") /\ proc[Migrator].pc = "done"

\* A re-hosted row never loses its object to the collector, except for a
\* content that was at risk: uploaded while a collection pass had it on its
\* list, left half collected, or used as the url of another row.
RehostedObjectKept ==
    \A i \in Image : Rehosted(i) => images[i].cdn_url \in store \cup exposed

\* What image_response_from_stored shows for a migrated row is a link that
\* does not expire, whatever tasks for earlier urls of the row end up
\* writing; and a pending row never shows, or keeps alive, an old object.
ServedLinkIsStable ==
    \A i \in Image :
        /\ Migrated(i) => images[i].cdn_url \in StableUrl \cup Content
        /\ Pending(i)  => images[i].cdn_url = None

\* The migration job tries no row again that failed to upload in this run,
\* also when handlers change the row between two batches.
FailedNotRetried ==
    /\ \A r \in batch : r.image \notin failed_this_run
    /\ proc[Migrator].pc \in {"lookup", "put", "record", "commit"} =>
          proc[Migrator].image \notin failed_this_run

\* With nothing in flight, every row still pending is one whose upload or
\* UPDATE failed, whose client hung up, or that came by a path that re-hosts
\* nothing: no interleaving of handlers, tasks and job forgets a row.
NothingForgotten ==
    Quiet => \A i \in Image : Pending(i) => i \in excused \cup failed_this_run

\* An object nobody can find again (no dedup row, so no pass deletes it)
\* needs a fault, a restart or an overlapping collection.
NoLostObjects ==
    faults = 0 /\ restarts = 0 =>
        \A h \in store \ cdn_objects :
            h \in exposed \/ \E p \in Proc : proc[p].pc = "record" /\ proc[p].content = h

\* The migration job ends, even if every upload fails.
MigrationTerminates == []<>(proc[Migrator].pc = "done")

\* A pending row is settled, or joins those excused above.
PendingIsSettled ==
    \A i \in Image : Pending(i) ~> (~Pending(i) \/ i \in excused \cup failed_this_run)

\* The doc comment of garbage_collect_orphaned_objects: it deletes objects
\* "that no image record references anymore".
GcDeletesOnlyUnreferenced ==
    [][\A h \in store \ store' :
          ~\E i \in Image : Exists(i) /\ h \in {images[i].url, images[i].cdn_url}]_vars

\* The comment in finalize_cdn_status: Discord links are re-hosted "so they
\* remain valid permanently".  A row served from the copy of its own link is
\* never given up as broken.
RehostIsPermanent ==
    [][\A i \in Image :
          Rehosted(i) /\ Migrated(i) /\ images[i].cdn_url = ContentOf[images[i].url]
             => ~(Exists(i)' /\ images'[i].cdn_status = "broken")]_vars
===============================================================================
