---------------------------- MODULE CdnPipelineSafety ----------------------------
(* Safety of CdnPipeline beyond its types, for every value of its constants. *)
EXTENDS CdnPipelineProofs, FiniteSetTheorems

-----------------------------------------------------------------------------
(* What a row serves *)

LEMMA SetMigratedServes ==
    ASSUME Inv0, ServedLinkIsStable, NEW i \in Image, NEW c \in StableUrl \cup Content,
           SetMigrated(i, c)
    PROVE  ServedLinkIsStable'
<1>1. CASE ~Exists(i)
    BY <1>1 DEF SetMigrated, ServedLinkIsStable, Migrated, Pending, Exists
<1>2. CASE Exists(i)
    <2>1. images[i] \in Row
        BY <1>2 DEF Exists, Inv0, TypeOK
    <2> DEFINE r == [images[i] EXCEPT !.cdn_url = c, !.cdn_status = "migrated"]
    <2>2. r.cdn_url = c /\ r.cdn_status = "migrated"
        BY <2>1 DEF Row
    <2>3. images' = [images EXCEPT ![i] = r]
        BY <1>2 DEF SetMigrated
    <2>4. images'[i] = r /\ \A j \in Image \ {i} : images'[j] = images[j]
        BY <2>3 DEF Inv0, TypeOK
    <2> HIDE DEF r
    <2> QED BY <2>2, <2>4 DEF ServedLinkIsStable, Migrated, Pending, Exists
<1> QED BY <1>1, <1>2

LEMMA SetBrokenServes ==
    ASSUME Inv0, ServedLinkIsStable, NEW i \in Image, SetBroken(i)
    PROVE  ServedLinkIsStable'
<1>1. CASE ~Exists(i)
    BY <1>1 DEF SetBroken, ServedLinkIsStable, Migrated, Pending, Exists
<1>2. CASE Exists(i)
    <2>1. images[i] \in Row
        BY <1>2 DEF Exists, Inv0, TypeOK
    <2> DEFINE r == [images[i] EXCEPT !.cdn_status = "broken"]
    <2>2. r.cdn_status = "broken"
        BY <2>1 DEF Row
    <2>3. images' = [images EXCEPT ![i] = r]
        BY <1>2 DEF SetBroken
    <2>4. images'[i] = r /\ \A j \in Image \ {i} : images'[j] = images[j]
        BY <2>3 DEF Inv0, TypeOK
    <2> HIDE DEF r
    <2> QED BY <2>2, <2>4 DEF ServedLinkIsStable, Migrated, Pending, Exists
<1> QED BY <1>1, <1>2

\* A step that leaves the table alone, deletes rows, or inserts new ones.
LEMMA RowsKeptOrNewServe ==
    ASSUME Inv0, ServedLinkIsStable,
           \A i \in Image : \/ images'[i] \in {images[i], None}
                            \/ \E u \in Url : images'[i] = NewRow(u)
    PROVE  ServedLinkIsStable'
<1> SUFFICES ASSUME NEW i \in Image
             PROVE  /\ Migrated(i)' => images'[i].cdn_url \in StableUrl \cup Content
                    /\ Pending(i)' => images'[i].cdn_url = None
    BY DEF ServedLinkIsStable
<1>1. CASE images'[i] = images[i]
    BY <1>1 DEF ServedLinkIsStable, Migrated, Pending, Exists
<1>2. CASE images'[i] = None
    BY <1>2 DEF Migrated, Pending, Exists
<1>3. ASSUME NEW u \in Url, images'[i] = NewRow(u)
      PROVE  images'[i].cdn_url = None /\ images'[i].cdn_status = "pending"
    BY <1>3 DEF NewRow
<1> QED BY <1>1, <1>2, <1>3 DEF Migrated, Pending

LEMMA RequestsServe ==
    ASSUME Inv0, ServedLinkIsStable, NEW w \in Worker, Handle(w)
    PROVE  ServedLinkIsStable'
<1>1. CASE CreateImage(w) \/ UploadImage(w) \/ DiscordAdd(w) \/ PatchImage(w)
    BY <1>1, RowsKeptOrNewServe DEF CreateImage, UploadImage, DiscordAdd, PatchImage, table
<1>2. CASE DeleteImages(w) \/ CascadeDelete(w)
    <2>1. PICK S : images' = [i \in Image |-> IF i \in S THEN None ELSE images[i]]
        BY <1>2 DEF DeleteImages, CascadeDelete
    <2> QED BY <2>1, RowsKeptOrNewServe
<1>3. CASE ImportImages(w)
    <2>1. PICK S \in SUBSET (Image \ created) : \E f \in [S -> Link] :
             images' = [i \in Image |-> IF i \in S THEN NewRow(f[i]) ELSE images[i]]
        BY <1>3 DEF ImportImages
    <2> PICK f \in [S -> Link] :
             images' = [i \in Image |-> IF i \in S THEN NewRow(f[i]) ELSE images[i]]
        BY <2>1
    <2>2. \A i \in S : f[i] \in Url
        BY PipelineAssumption
    <2> QED BY <2>2, RowsKeptOrNewServe
<1> QED BY <1>1, <1>2, <1>3 DEF Handle

LEMMA RowWritesServe ==
    ASSUME Inv0, ServedLinkIsStable, NEW w \in Worker, InsertRow(w) \/ UpdateRow(w)
    PROVE  ServedLinkIsStable'
<1> DEFINE s == proc[w]
<1>1. WellFormed(w, s)
    BY ProcessTyped DEF Proc
<1>2. CASE UNCHANGED images
    BY <1>2, RowsKeptOrNewServe
<1>3. ASSUME InsertRow(w), NEW i \in Image, images' = [images EXCEPT ![i] = NewRow(s.url)]
      PROVE  ServedLinkIsStable'
    <2>1. s.url \in Url
        BY <1>1, <1>3 DEF InsertRow, WellFormed
    <2>2. images'[i] = NewRow(s.url) /\ \A j \in Image \ {i} : images'[j] = images[j]
        BY <1>3 DEF Inv0, TypeOK
    <2> QED BY <2>1, <2>2, RowsKeptOrNewServe
<1>4. ASSUME UpdateRow(w), Exists(s.image),
             images' = [images EXCEPT ![s.image] = Repointed(s.image, s.url)]
      PROVE  ServedLinkIsStable'
    <2>1. s.image \in Image
        BY <1>1, <1>4 DEF UpdateRow, WellFormed
    <2>2. images[s.image] \in Row
        BY <1>4, <2>1 DEF Exists, Inv0, TypeOK
    <2> DEFINE r == Repointed(s.image, s.url)
    <2>3. r.cdn_url = None /\ r.cdn_status = "pending"
        BY <2>2 DEF Repointed, Row
    <2>4. images'[s.image] = r /\ \A j \in Image \ {s.image} : images'[j] = images[j]
        BY <1>4, <2>1 DEF Inv0, TypeOK
    <2> HIDE DEF r
    <2> QED BY <2>1, <2>3, <2>4 DEF ServedLinkIsStable, Migrated, Pending, Exists
<1>5. CASE InsertRow(w)
    BY <1>2, <1>3, <1>5 DEF InsertRow, table
<1>6. CASE UpdateRow(w)
    BY <1>2, <1>4, <1>6 DEF UpdateRow
<1> QED BY <1>5, <1>6

\* What image_response_from_stored shows for a migrated row never expires,
\* and a pending row shows no old copy: every path that marks a row migrated,
\* also one that still works for an earlier url of the row, writes a link that
\* is stable.
THEOREM ServedLinksStable == Spec => []ServedLinkIsStable
<1>1. Init => ServedLinkIsStable
    BY DEF Init, ServedLinkIsStable, Migrated, Pending, Exists
<1>2. ASSUME Inv0, ServedLinkIsStable, [Next]_vars
      PROVE  ServedLinkIsStable'
    <2>1. CASE UNCHANGED images
        BY <1>2, <2>1, RowsKeptOrNewServe
    <2>2. ASSUME NEW w \in Worker, Handle(w) PROVE ServedLinkIsStable'
        BY <1>2, <2>2, RequestsServe
    <2>3. ASSUME NEW w \in Worker, InsertRow(w) \/ UpdateRow(w) PROVE ServedLinkIsStable'
        BY <1>2, <2>3, RowWritesServe
    <2>4. ASSUME NEW w \in Worker, Finalize(w) PROVE ServedLinkIsStable'
        <3>1. proc[w].url \in Url /\ proc[w].image \in Image
            BY <1>2, <2>4, IdleWellFormed, ProcessTyped DEF Finalize, WellFormed
        <3>2. CASE proc[w].url \notin DiscordUrl /\ SetMigrated(proc[w].image, proc[w].url)
            BY <1>2, <3>1, <3>2, SetMigratedServes DEF Url
        <3> QED BY <2>1, <2>4, <3>2 DEF Finalize
    <2>5. ASSUME NEW p \in Proc, StoreStep(p) PROVE ServedLinkIsStable'
        <3>1. WellFormed(p, proc[p])
            BY <1>2, ProcessTyped
        <3>2. CASE CommitRehost(p) /\ SetMigrated(proc[p].image, proc[p].content)
            BY <1>2, <3>1, <3>2, SetMigratedServes DEF CommitRehost, WellFormed
        <3>3. CASE FetchFails(p) /\ SetBroken(proc[p].image)
            BY <1>2, <3>1, <3>3, SetBrokenServes DEF FetchFails, WellFormed, StoreSteps
        <3> QED BY <2>1, <2>5, <3>2, <3>3 DEF StoreStep, LookupHit, LookupMiss, PutObject,
                    RecordObject, UploadFails, FetchFails, CommitRehost, UpdateFails, table
    <2>6. CASE MigrateRow
        <3>1. ASSUME NEW r \in batch, r.url \notin DiscordUrl, SetMigrated(r.image, r.url)
              PROVE  ServedLinkIsStable'
            <4>1. r.image \in Image /\ r.url \in StableUrl \cup Content
                BY <1>2, <3>1 DEF Inv0, TypeOK, Url
            <4> QED BY <1>2, <3>1, <4>1, SetMigratedServes
        <3> QED BY <2>1, <2>6, <3>1 DEF MigrateRow
    <2>7. ASSUME NEW w \in Worker,
                 GcSelect(w) \/ GcDeleteObject(w) \/ GcDeleteFails(w) \/ GcPurgeRow(w)
          PROVE  ServedLinkIsStable'
        BY <2>1, <2>7 DEF GcSelect, GcDeleteObject, GcDeleteFails, GcPurgeRow, table
    <2>8. CASE FetchBatch \/ Restart \/ UNCHANGED vars
        BY <2>1, <2>8 DEF FetchBatch, Restart, vars, table
    <2>9. ASSUME NEW w \in Worker, Disconnect(w) PROVE ServedLinkIsStable'
        BY <2>1, <2>9 DEF Disconnect, table
    <2> QED BY <1>2, <2>2, <2>3, <2>4, <2>5, <2>6, <2>7, <2>8, <2>9
            DEF Next, WorkerStep, MigratorStep, Proc
<1>3. Init => Inv0
    BY InitEstablishesInv0
<1>4. Inv0 /\ [Next]_vars => Inv0'
    BY StepKeepsInv0
<1> QED BY <1>1, <1>2, <1>3, <1>4, PTL DEF Spec

-----------------------------------------------------------------------------
(* The migration job's rows *)

Uploading == proc[Migrator].pc \in {"lookup", "put", "record", "commit"}

\* A batch holds a row once, and the row in hand is no longer in it.
JobRows ==
    /\ FailedNotRetried
    /\ \A r, q \in batch : r.image = q.image => r = q
    /\ Uploading => \A r \in batch : r.image # proc[Migrator].image

\* A step of anyone else.
LEMMA OthersKeepJobRows ==
    ASSUME JobRows, UNCHANGED <<batch, failed_this_run>>, proc'[Migrator] = proc[Migrator]
    PROVE  JobRows'
BY DEF JobRows, FailedNotRetried, Uploading

LEMMA UploadKeepsJobRows ==
    ASSUME Inv0, JobRows, StoreStep(Migrator)
    PROVE  JobRows'
<1> DEFINE s == proc[Migrator]
<1>1. s \in ProcState /\ WellFormed(Migrator, s) /\ Migrator \in Proc
    BY ProcessTyped DEF Proc
<1>2. s.job = "migrate" /\ Uploading
    BY <1>1 DEF WellFormed, Uploading, StoreStep, LookupHit, LookupMiss, PutObject, RecordObject,
                UploadFails, FetchFails, CommitRehost
<1>3. batch' = batch
    BY DEF StoreStep, LookupHit, LookupMiss, PutObject, RecordObject, UploadFails, FetchFails,
           CommitRehost, job
<1>4. ASSUME NEW t, proc'[Migrator] = t, t.image = s.image, UNCHANGED failed_this_run
      PROVE  JobRows'
    BY <1>2, <1>3, <1>4 DEF JobRows, FailedNotRetried, Uploading
<1>5. ASSUME proc'[Migrator] = Migrating("row"), failed_this_run' \subseteq failed_this_run \cup {s.image}
      PROVE  JobRows'
    <2>1. ~Uploading'
        BY <1>5 DEF Uploading, Migrating
    <2> QED BY <1>2, <1>3, <1>5, <2>1 DEF JobRows, FailedNotRetried, Uploading
<1>6. CASE LookupHit(Migrator) \/ RecordObject(Migrator)
    <2> DEFINE t == Stored(Migrator, s.content)
    <2>1. t = [s EXCEPT !.pc = "commit"]
        BY <1>2 DEF Stored
    <2>2. t.image = s.image
        BY <1>1, <2>1 DEF ProcState
    <2>3. proc'[Migrator] = t /\ UNCHANGED failed_this_run
        BY <1>1, <1>6 DEF LookupHit, RecordObject, Goto, job, Inv0, TypeOK
    <2> HIDE DEF t
    <2> QED BY <2>2, <2>3, <1>4
<1>7. CASE LookupMiss(Migrator) \/ PutObject(Migrator)
    <2>1. PICK pc \in {"put", "record"} : Goto(Migrator, [s EXCEPT !.pc = pc])
        BY <1>7 DEF LookupMiss, PutObject
    <2> DEFINE t == [s EXCEPT !.pc = pc]
    <2>2. t.image = s.image
        BY <1>1 DEF ProcState
    <2>3. proc'[Migrator] = t /\ UNCHANGED failed_this_run
        BY <1>1, <1>7, <2>1 DEF LookupMiss, PutObject, Goto, job, Inv0, TypeOK
    <2> HIDE DEF t
    <2> QED BY <2>2, <2>3, <1>4
<1>8. CASE UploadFails(Migrator) \/ FetchFails(Migrator) \/ CommitRehost(Migrator)
    <2>1. proc'[Migrator] = Migrating("row")
        BY <1>1, <1>8 DEF UploadFails, FetchFails, CommitRehost, NextJob, Goto, Inv0, TypeOK
    <2>2. failed_this_run' \subseteq failed_this_run \cup {s.image}
        BY <1>8 DEF UploadFails, FetchFails, CommitRehost, job
    <2> QED BY <1>5, <2>1, <2>2
<1> QED BY <1>6, <1>7, <1>8 DEF StoreStep

\* A turn of the job's loop, and the SELECT that starts a batch.
LEMMA LoopKeepsJobRows ==
    ASSUME Inv0, JobRows, FetchBatch \/ MigrateRow
    PROVE  JobRows'
<1>1. UNCHANGED failed_this_run /\ Migrator \in Proc /\ proc \in [Proc -> ProcState]
    BY DEF FetchBatch, MigrateRow, Proc, Inv0, TypeOK
<1>2. ASSUME NEW pc \in {"fetch", "row", "done"}, Goto(Migrator, Migrating(pc))
      PROVE  ~Uploading'
    BY <1>1, <1>2 DEF Goto, Migrating, Uploading
<1>3. ASSUME NEW S \in SUBSET Unmigrated, batch' = {[image |-> i, url |-> images[i].url] : i \in S},
             ~Uploading'
      PROVE  JobRows'
    <2>1. \A r \in batch' : r.image \in S /\ r = [image |-> r.image, url |-> images[r.image].url]
        BY <1>3
    <2>2. S \cap failed_this_run = {}
        BY <1>3 DEF Unmigrated
    <2>3. \A r, q \in batch' : r.image = q.image => r = q
        BY <2>1, Zenon
    <2> QED BY <1>1, <1>3, <2>1, <2>2, <2>3 DEF JobRows, FailedNotRetried, Uploading
<1>4. CASE batch' \subseteq batch /\ ~Uploading'
    BY <1>1, <1>4 DEF JobRows, FailedNotRetried, Uploading
<1>5. ASSUME NEW r \in batch, batch' = batch \ {r},
             Goto(Migrator, [Migrating("lookup") EXCEPT
                               !.image = r.image, !.content = ContentOf[r.url]])
      PROVE  JobRows'
    <2> DEFINE t == [Migrating("lookup") EXCEPT !.image = r.image, !.content = ContentOf[r.url]]
    <2>1. t.image = r.image
        BY DEF Migrating
    <2>2. proc'[Migrator] = t
        BY <1>1, <1>5 DEF Goto
    <2> HIDE DEF t
    <2> QED BY <1>1, <1>5, <2>1, <2>2 DEF JobRows, FailedNotRetried, Uploading
<1>6. CASE FetchBatch
    <2>1. CASE UNCHANGED batch
        BY <1>2, <1>4, <1>6, <2>1 DEF FetchBatch
    <2> QED BY <1>2, <1>3, <1>6, <2>1 DEF FetchBatch
<1>7. CASE MigrateRow
    <2>1. proc[Migrator].pc = "row"
        BY <1>7 DEF MigrateRow
    <2>2. CASE UNCHANGED proc /\ batch' \subseteq batch
        BY <1>4, <2>1, <2>2 DEF Uploading
    <2>3. CASE Goto(Migrator, Migrating("fetch")) /\ UNCHANGED batch
        BY <1>2, <1>4, <2>3
    <2> QED BY <1>5, <1>7, <2>2, <2>3 DEF MigrateRow
<1> QED BY <1>6, <1>7

\* run_cdn_migration never tries again, in the same run, a row whose upload
\* failed: neither from a later batch nor because a handler set the row back
\* to pending meanwhile.
THEOREM FailedRowsNotRetried == Spec => []FailedNotRetried
<1>1. Init => JobRows
    BY PipelineAssumption DEF Init, JobRows, FailedNotRetried, Uploading, Proc, Migrating
<1>2. ASSUME Inv0, JobRows, [Next]_vars
      PROVE  JobRows'
    <2>0. proc \in [Proc -> ProcState] /\ Migrator \in Proc
        BY <1>2 DEF Inv0, TypeOK, Proc
    <2>1. ASSUME NEW w \in Worker, Handle(w) \/ WorkerStep(w) \/ Disconnect(w) PROVE JobRows'
        <3>1. CASE UNCHANGED <<batch, failed_this_run, proc>>
            BY <1>2, <3>1, OthersKeepJobRows
        <3>2. ASSUME NEW t, Goto(w, t), UNCHANGED <<batch, failed_this_run>> PROVE JobRows'
            <4>1. w # Migrator
                BY PipelineAssumption
            <4>2. proc'[Migrator] = proc[Migrator]
                BY <2>0, <3>2, <4>1 DEF Goto
            <4> QED BY <1>2, <3>2, <4>2, OthersKeepJobRows
        <3>3. CASE Handle(w)
            BY <2>1, <3>1, <3>2, <3>3 DEF Handle, CreateImage, UploadImage, DiscordAdd, PatchImage,
               DeleteImages, CascadeDelete, ImportImages, Submit, job
        <3>4. CASE StoreStep(w)
            BY <3>2, <3>4, PipelineAssumption DEF StoreStep, LookupHit, LookupMiss, PutObject,
               RecordObject, UploadFails, FetchFails, CommitRehost, job
        <3>5. CASE InsertRow(w) \/ UpdateRow(w) \/ Finalize(w)
            BY <3>2, <3>5 DEF InsertRow, UpdateRow, Finalize, job
        <3>6. CASE GcSelect(w) \/ GcDeleteObject(w) \/ GcDeleteFails(w) \/ GcPurgeRow(w)
            BY <3>2, <3>6 DEF GcSelect, GcDeleteObject, GcDeleteFails, GcPurgeRow, job
        <3>7. CASE Disconnect(w)
            BY <3>2, <3>7 DEF Disconnect, job
        <3> QED BY <2>1, <3>3, <3>4, <3>5, <3>6, <3>7 DEF WorkerStep
    <2>2. CASE MigratorStep
        BY <1>2, <2>2, LoopKeepsJobRows, UploadKeepsJobRows DEF MigratorStep
    <2>3. CASE Restart
        <3>1. batch' = {} /\ proc'[Migrator].pc \in {"fetch", "done"}
            BY <2>0, <2>3 DEF Restart, Migrating
        <3> QED BY <3>1 DEF JobRows, FailedNotRetried, Uploading
    <2>4. CASE UNCHANGED vars
        BY <1>2, <2>4, OthersKeepJobRows DEF vars
    <2> QED BY <1>2, <2>1, <2>2, <2>3, <2>4 DEF Next
<1>3. Init => Inv0
    BY InitEstablishesInv0
<1>4. Inv0 /\ [Next]_vars => Inv0'
    BY StepKeepsInv0
<1>5. JobRows => FailedNotRetried
    BY DEF JobRows
<1> QED BY <1>1, <1>2, <1>3, <1>4, <1>5, PTL DEF Spec
-----------------------------------------------------------------------------
(* Rows that wait *)

\* s is a handler, or the task it spawned, that still has to settle its row.
InHand(s) == s.pc = "finalize" \/ (s.job = "rehost" /\ s.pc \in StoreSteps \cup {"commit"})

\* After the migration job's last SELECT a pending row is in somebody's hands.
Accounted ==
    proc[Migrator].pc = "done" =>
        \A i \in Image : Pending(i) =>
            \/ i \in excused \cup failed_this_run
            \/ \E w \in Worker : InHand(proc[w]) /\ proc[w].image = i

\* One worker moves to t: what was pending, explained and not its own stays so.
LEMMA WorkerKeepsAccounted ==
    ASSUME Inv0, Accounted, NEW w \in Worker, NEW t, Goto(w, t),
           \A i \in Image : Pending(i)' =>
              \/ i \in excused' \cup failed_this_run'
              \/ InHand(t) /\ t.image = i
              \/ /\ Pending(i) /\ i \notin excused \cup failed_this_run
                 /\ ~(InHand(proc[w]) /\ proc[w].image = i)
    PROVE  Accounted'
<1>1. w \in Proc /\ w # Migrator /\ Migrator \in Proc /\ Worker \subseteq Proc
    BY PipelineAssumption DEF Proc
<1>2. proc'[w] = t /\ \A q \in Proc \ {w} : proc'[q] = proc[q]
    BY <1>1 DEF Goto, Inv0, TypeOK
<1>3. SUFFICES ASSUME proc'[Migrator].pc = "done", NEW i \in Image, Pending(i)',
                      i \notin excused' \cup failed_this_run'
               PROVE  \E v \in Worker : InHand(proc'[v]) /\ proc'[v].image = i
    BY DEF Accounted, InHand
<1>4. CASE InHand(t) /\ t.image = i
    BY <1>2, <1>4
<1>5. CASE /\ Pending(i) /\ i \notin excused \cup failed_this_run
           /\ ~(InHand(proc[w]) /\ proc[w].image = i)
    <2>1. PICK v \in Worker : InHand(proc[v]) /\ proc[v].image = i
        BY <1>1, <1>2, <1>3, <1>5 DEF Accounted
    <2>2. v # w /\ proc'[v] = proc[v]
        BY <1>1, <1>2, <1>5, <2>1
    <2> QED BY <2>1, <2>2
<1> QED BY <1>3, <1>4, <1>5

\* A step of a worker that has no row in hand, adds none that is pending and
\* unexplained, and takes no explanation back.
LEMMA FreeWorkerKeepsAccounted ==
    ASSUME Inv0, Accounted, NEW w \in Worker, ~InHand(proc[w]), NEW t, Goto(w, t),
           excused \subseteq excused', UNCHANGED failed_this_run,
           \A i \in Image : Pending(i)' => Pending(i) \/ i \in excused' \/ (InHand(t) /\ t.image = i)
    PROVE  Accounted'
BY WorkerKeepsAccounted

LEMMA RequestsKeepAccounted ==
    ASSUME Inv0, Accounted, NEW w \in Worker, Handle(w)
    PROVE  Accounted'
<1>1. ASSUME UNCHANGED <<failed_this_run, excused>>, \A i \in Image : Pending(i)' => Pending(i),
             proc[w].pc = "idle", NEW t, Goto(w, t)
      PROVE  Accounted'
    <2>1. ~InHand(proc[w])
        BY <1>1 DEF InHand, StoreSteps
    <2> QED BY <1>1, <2>1, FreeWorkerKeepsAccounted
<1>2. CASE CreateImage(w) \/ UploadImage(w) \/ DiscordAdd(w) \/ PatchImage(w)
    <2>1. UNCHANGED <<images, failed_this_run, excused>> /\ proc[w].pc = "idle"
        BY <1>2 DEF CreateImage, UploadImage, DiscordAdd, PatchImage, Request, table, job
    <2>2. \E t : Goto(w, t)
        BY <1>2 DEF CreateImage, UploadImage, DiscordAdd, PatchImage, Submit
    <2> QED BY <1>1, <2>1, <2>2 DEF Pending, Exists
<1>3. ASSUME UNCHANGED <<failed_this_run, proc>>, excused \subseteq excused',
             \A i \in Image : Pending(i)' => Pending(i) \/ i \in excused'
      PROVE  Accounted'
    BY <1>3 DEF Accounted
<1>4. CASE DeleteImages(w) \/ CascadeDelete(w)
    <2>1. PICK S : images' = [i \in Image |-> IF i \in S THEN None ELSE images[i]]
        BY <1>4 DEF DeleteImages, CascadeDelete
    <2>2. \A i \in Image : Pending(i)' => Pending(i)
        BY <2>1 DEF Pending, Exists
    <2>3. UNCHANGED <<failed_this_run, excused>>
        BY <1>4 DEF DeleteImages, CascadeDelete, job
    <2>4. CASE DeleteImages(w)
        <3>1. \E t : Goto(w, t)
            BY <2>4 DEF DeleteImages
        <3>2. proc[w].pc = "idle"
            BY <2>4 DEF DeleteImages, Request
        <3> QED BY <1>1, <2>2, <2>3, <3>1, <3>2
    <2>5. CASE CascadeDelete(w)
        BY <1>3, <2>2, <2>3, <2>5 DEF CascadeDelete
    <2> QED BY <1>4, <2>4, <2>5
<1>5. CASE ImportImages(w)
    <2>1. PICK S \in SUBSET Image : /\ excused' = excused \cup S
                                    /\ \A i \in Image \ S : images'[i] = images[i]
        BY <1>5 DEF ImportImages
    <2>2. \A i \in Image : Pending(i)' => Pending(i) \/ i \in excused'
        BY <2>1 DEF Pending, Exists
    <2> QED BY <1>3, <1>5, <2>1, <2>2 DEF ImportImages, job
<1> QED BY <1>2, <1>4, <1>5 DEF Handle

\* An UPDATE of the bookkeeping columns makes no row pending, and settles its own.
LEMMA BookkeepingSettles ==
    ASSUME Inv0, NEW i \in Image, NEW c \in Url, SetMigrated(i, c) \/ SetBroken(i)
    PROVE  ~Pending(i)' /\ \A j \in Image : Pending(j)' => Pending(j)
<1>1. CASE ~Exists(i)
    BY <1>1 DEF SetMigrated, SetBroken, Pending, Exists
<1>2. CASE Exists(i)
    <2>1. images[i] \in Row
        BY <1>2 DEF Exists, Inv0, TypeOK
    <2>2. PICK r \in Row : r.cdn_status # "pending" /\ images' = [images EXCEPT ![i] = r]
        <3>1. CASE SetMigrated(i, c)
            <4> DEFINE r == [images[i] EXCEPT !.cdn_url = c, !.cdn_status = "migrated"]
            <4>1. r \in Row /\ r.cdn_status # "pending"
                BY <2>1 DEF Row
            <4>2. images' = [images EXCEPT ![i] = r]
                BY <1>2, <3>1 DEF SetMigrated
            <4> QED BY <4>1, <4>2
        <3>2. CASE SetBroken(i)
            <4> DEFINE r == [images[i] EXCEPT !.cdn_status = "broken"]
            <4>1. r \in Row /\ r.cdn_status # "pending"
                BY <2>1 DEF Row
            <4>2. images' = [images EXCEPT ![i] = r]
                BY <1>2, <3>2 DEF SetBroken
            <4> QED BY <4>1, <4>2
        <3> QED BY <3>1, <3>2
    <2>3. images'[i] = r /\ \A j \in Image \ {i} : images'[j] = images[j]
        BY <2>2 DEF Inv0, TypeOK
    <2> QED BY <2>2, <2>3 DEF Pending, Exists
<1> QED BY <1>1, <1>2

LEMMA RowWritesKeepAccounted ==
    ASSUME Inv0, Accounted, NEW w \in Worker, InsertRow(w) \/ UpdateRow(w)
    PROVE  Accounted'
<1> DEFINE s == proc[w]
<1>1. s \in ProcState /\ WellFormed(w, s)
    BY ProcessTyped DEF Proc
<1>2. ~InHand(s) /\ UNCHANGED failed_this_run
    BY DEF InsertRow, UpdateRow, InHand, StoreSteps, job
<1>3. ASSUME InsertRow(w), NEW i \in Image \ created, images' = [images EXCEPT ![i] = NewRow(s.url)],
             \/ Goto(w, [s EXCEPT !.pc = "finalize", !.image = i]) /\ UNCHANGED excused
             \/ Goto(w, Idle) /\ excused' = excused \cup {i}
      PROVE  Accounted'
    <2>1. \A j \in Image : Pending(j)' => Pending(j) \/ j = i
        BY <1>3 DEF Pending, Exists, Inv0, TypeOK
    <2>2. [s EXCEPT !.pc = "finalize", !.image = i].pc = "finalize"
          /\ [s EXCEPT !.pc = "finalize", !.image = i].image = i
        BY <1>1 DEF ProcState
    <2>3. CASE Goto(w, [s EXCEPT !.pc = "finalize", !.image = i]) /\ UNCHANGED excused
        BY <1>2, <2>1, <2>2, <2>3, FreeWorkerKeepsAccounted DEF InHand
    <2>4. CASE Goto(w, Idle) /\ excused' = excused \cup {i}
        BY <1>2, <2>1, <2>4, FreeWorkerKeepsAccounted
    <2> QED BY <1>3, <2>3, <2>4
<1>4. ASSUME UpdateRow(w), images' = [images EXCEPT ![s.image] = Repointed(s.image, s.url)],
             Goto(w, [s EXCEPT !.pc = "finalize"]), excused' = excused \ {s.image}
      PROVE  Accounted'
    <2>1. \A j \in Image : Pending(j)' => Pending(j) \/ j = s.image
        BY <1>4 DEF Pending, Exists, Inv0, TypeOK
    <2>2. [s EXCEPT !.pc = "finalize"].pc = "finalize"
          /\ [s EXCEPT !.pc = "finalize"].image = s.image
        BY <1>1 DEF ProcState
    <2>3. \A j \in Image : j # s.image => (j \in excused' <=> j \in excused)
        BY <1>4
    <2> QED BY <1>2, <1>4, <2>1, <2>2, <2>3, WorkerKeepsAccounted DEF InHand
<1>5. CASE Goto(w, Idle) /\ UNCHANGED <<images, excused>>
    BY <1>2, <1>5, FreeWorkerKeepsAccounted DEF Pending, Exists
<1> QED BY <1>3, <1>4, <1>5 DEF InsertRow, UpdateRow, table

LEMMA FinalizeKeepsAccounted ==
    ASSUME Inv0, Accounted, NEW w \in Worker, Finalize(w)
    PROVE  Accounted'
<1> DEFINE s == proc[w]
<1>1. s \in ProcState /\ WellFormed(w, s) /\ UNCHANGED failed_this_run
    BY ProcessTyped DEF Proc, Finalize, job
<1>2. s.image \in Image /\ s.url \in Url
    BY <1>1 DEF Finalize, WellFormed
<1>3. CASE Goto(w, Idle) /\ SetMigrated(s.image, s.url) /\ UNCHANGED excused
    BY <1>1, <1>2, <1>3, BookkeepingSettles, WorkerKeepsAccounted
<1>4. CASE Goto(w, Idle) /\ UNCHANGED images /\ excused' = excused \cup {s.image}
    BY <1>1, <1>2, <1>4, WorkerKeepsAccounted DEF Pending, Exists
<1>5. CASE s.url \in DiscordUrl /\ configured /\ Goto(w, Spawned(w)) /\ UNCHANGED <<images, excused>>
    <2> DEFINE t == [s EXCEPT !.pc = "lookup", !.job = "rehost",
                              !.url = None, !.content = ContentOf[s.url]]
    <2>1. t.pc = "lookup" /\ t.job = "rehost" /\ t.image = s.image
        BY <1>1 DEF ProcState
    <2>2. Goto(w, t)
        BY <1>5 DEF Spawned
    <2>3. InHand(t)
        BY <2>1 DEF InHand, StoreSteps
    <2> HIDE DEF t
    <2> QED BY <1>1, <1>5, <2>1, <2>2, <2>3, WorkerKeepsAccounted DEF Pending, Exists
<1>6. CASE s.url \in DiscordUrl
    BY <1>4, <1>5, <1>6 DEF Finalize, Spawned
<1> QED BY <1>3, <1>4, <1>6 DEF Finalize

\* store_bytes and what a re-host does with its answer: the task keeps its row
\* until that is settled or its failure noted.
LEMMA StoreStepKeepsAccounted ==
    ASSUME Inv0, Accounted, NEW w \in Worker, StoreStep(w)
    PROVE  Accounted'
<1> DEFINE s == proc[w]
<1>1. s \in ProcState /\ WellFormed(w, s) /\ w # Migrator /\ w \in Proc
    BY ProcessTyped, PipelineAssumption DEF Proc
<1>2. UNCHANGED failed_this_run
    BY <1>1 DEF StoreStep, LookupHit, LookupMiss, PutObject, RecordObject, UploadFails, FetchFails,
                CommitRehost, job
<1>3. s.pc \in StoreSteps \cup {"commit"}
    BY DEF StoreStep, LookupHit, LookupMiss, PutObject, RecordObject, UploadFails, FetchFails,
           CommitRehost, StoreSteps
<1>4. ASSUME UNCHANGED <<images, excused>>, NEW t, Goto(w, t),
             s.job = "rehost" => InHand(t) /\ t.image = s.image
      PROVE  Accounted'
    BY <1>2, <1>3, <1>4, WorkerKeepsAccounted DEF InHand, StoreSteps, Pending, Exists
<1>5. CASE LookupHit(w) \/ RecordObject(w)
    <2> DEFINE t == Stored(w, s.content)
    <2>1. s.job = "rehost" => t = [s EXCEPT !.pc = "commit"]
        BY DEF Stored
    <2>2. s.job = "rehost" => t.pc = "commit" /\ t.job = "rehost" /\ t.image = s.image
        BY <1>1, <2>1 DEF ProcState
    <2>3. Goto(w, t) /\ UNCHANGED <<images, excused>>
        BY <1>5 DEF LookupHit, RecordObject, table
    <2> HIDE DEF t
    <2> QED BY <1>4, <2>2, <2>3 DEF InHand
<1>6. CASE LookupMiss(w) \/ PutObject(w)
    <2>1. PICK pc \in {"put", "record"} : Goto(w, [s EXCEPT !.pc = pc])
        BY <1>6 DEF LookupMiss, PutObject
    <2>2. [s EXCEPT !.pc = pc].pc = pc /\ [s EXCEPT !.pc = pc].job = s.job
          /\ [s EXCEPT !.pc = pc].image = s.image
        BY <1>1 DEF ProcState
    <2>3. UNCHANGED <<images, excused>>
        BY <1>6 DEF LookupMiss, PutObject, table
    <2> QED BY <1>4, <2>1, <2>2, <2>3 DEF InHand, StoreSteps
<1>7. CASE UploadFails(w)
    <2>1. Goto(w, Idle) /\ UNCHANGED images /\ s.pc = "put"
          /\ excused' = IF s.job = "rehost" THEN excused \cup {s.image} ELSE excused
        BY <1>1, <1>7 DEF UploadFails, NextJob, table
    <2> QED BY <1>2, <2>1, WorkerKeepsAccounted DEF InHand, Pending, Exists
<1>8. CASE FetchFails(w) \/ CommitRehost(w)
    <2>1. Goto(w, Idle) /\ s.image \in Image
        BY <1>1, <1>8 DEF FetchFails, CommitRehost, NextJob, WellFormed, StoreSteps
    <2>2. CASE UpdateFails(w)
        <3>1. UNCHANGED images /\ excused' = excused \cup {s.image}
            BY <1>1, <2>2 DEF UpdateFails
        <3> QED BY <1>2, <2>1, <3>1, WorkerKeepsAccounted DEF Pending, Exists
    <2>3. CASE (SetMigrated(s.image, s.content) \/ SetBroken(s.image)) /\ UNCHANGED excused
              /\ s.content \in Url
        BY <1>2, <2>1, <2>3, BookkeepingSettles, WorkerKeepsAccounted
    <2>4. s.content \in Url
        BY <1>1, <1>8 DEF FetchFails, CommitRehost, WellFormed, StoreSteps, Url
    <2> QED BY <1>8, <2>2, <2>3, <2>4 DEF FetchFails, CommitRehost
<1> QED BY <1>5, <1>6, <1>7, <1>8 DEF StoreStep

\* The collector's steps, and a hung-up client.
LEMMA CollectorKeepsAccounted ==
    ASSUME Inv0, Accounted, NEW w \in Worker,
           \/ GcSelect(w) \/ GcDeleteObject(w) \/ GcDeleteFails(w) \/ GcPurgeRow(w)
           \/ Disconnect(w)
    PROVE  Accounted'
<1> DEFINE s == proc[w]
<1>1. UNCHANGED <<images, failed_this_run>> /\ \E t : Goto(w, t)
    BY DEF GcSelect, GcDeleteObject, GcDeleteFails, GcPurgeRow, Disconnect, table, job
<1>2. CASE GcSelect(w) \/ GcDeleteObject(w) \/ GcDeleteFails(w) \/ GcPurgeRow(w)
    <2>1. ~InHand(s) /\ UNCHANGED excused
        BY <1>2 DEF GcSelect, GcDeleteObject, GcDeleteFails, GcPurgeRow, InHand, StoreSteps
    <2> QED BY <1>1, <2>1, FreeWorkerKeepsAccounted DEF Pending, Exists
<1>3. CASE Disconnect(w)
    <2>1. InHand(s) => s.pc = "finalize"
        BY <1>3 DEF Disconnect, InHand
    <2>2. excused' = IF s.pc = "finalize" THEN excused \cup {s.image} ELSE excused
        BY <1>3 DEF Disconnect
    <2> QED BY <1>1, <2>1, <2>2, WorkerKeepsAccounted DEF Pending, Exists
<1> QED BY <1>2, <1>3

\* With nothing in flight, no pending row was forgotten by the interleaving of
\* handlers, re-hosting tasks, the migration job and restarts: each waits for an
\* upload or UPDATE that failed, a client that hung up, or came by a path that
\* re-hosts nothing (finalize_cdn_status, run_cdn_migration).
THEOREM NoRowForgotten == Spec => []NothingForgotten
<1>1. Init => Accounted
    BY DEF Init, Accounted, Pending, Exists
<1>2. ASSUME Inv0, Accounted, [Next]_vars
      PROVE  Accounted'
    <2>0. proc \in [Proc -> ProcState] /\ Migrator \in Proc
        BY <1>2 DEF Inv0, TypeOK, Proc
    <2>1. ASSUME NEW w \in Worker, WorkerStep(w) PROVE Accounted'
        BY <1>2, <2>1, RowWritesKeepAccounted, FinalizeKeepsAccounted, CollectorKeepsAccounted,
           StoreStepKeepsAccounted DEF WorkerStep
    <2>2. CASE FetchBatch
        <3>1. UNCHANGED <<images, failed_this_run>>
            BY <2>2 DEF FetchBatch, table
        <3>2. ASSUME IsBatch({}) PROVE \A i \in Image : Pending(i) => i \in failed_this_run
            <4>1. Cardinality({}) = 0
                BY FS_EmptySet
            <4>2. Unmigrated = {}
                BY <3>2, <4>1, PipelineAssumption DEF IsBatch
            <4> QED BY <4>2 DEF Unmigrated, Pending
        <3>3. CASE Goto(Migrator, Migrating("row"))
            BY <2>0, <3>3 DEF Goto, Migrating, Accounted
        <3>4. CASE IsBatch({})
            BY <3>1, <3>2, <3>4 DEF Accounted, Pending, Exists
        <3>5. CASE excused' = excused \cup Unmigrated
            BY <3>1, <3>5 DEF Accounted, Pending, Exists, Unmigrated
        <3> QED BY <2>2, <3>3, <3>4, <3>5 DEF FetchBatch
    <2>3. CASE MigrateRow \/ StoreStep(Migrator)
        <3>1. proc'[Migrator].pc # "done"
            <4>1. CASE MigrateRow
                <5>1. \A t : Goto(Migrator, t) => proc'[Migrator] = t
                    BY <2>0 DEF Goto
                <5>2. /\ Migrating("fetch").pc # "done"
                      /\ \A i, h : [Migrating("lookup") EXCEPT !.image = i, !.content = h].pc # "done"
                    BY DEF Migrating
                <5>3. CASE UNCHANGED proc
                    BY <4>1, <5>3 DEF MigrateRow
                <5>4. \/ UNCHANGED proc
                      \/ Goto(Migrator, Migrating("fetch"))
                      \/ \E i, h : Goto(Migrator, [Migrating("lookup") EXCEPT !.image = i, !.content = h])
                    BY <4>1 DEF MigrateRow
                <5> QED BY <5>1, <5>2, <5>3, <5>4
            <4>2. CASE LookupHit(Migrator) \/ RecordObject(Migrator)
                <5>1. proc[Migrator].job = "migrate" /\ proc[Migrator] \in ProcState
                    BY <1>2, <2>0, ProcessTyped DEF WellFormed
                <5>2. Stored(Migrator, proc[Migrator].content) = [proc[Migrator] EXCEPT !.pc = "commit"]
                    BY <5>1 DEF Stored
                <5>3. proc'[Migrator] = [proc[Migrator] EXCEPT !.pc = "commit"]
                    BY <2>0, <4>2, <5>2 DEF LookupHit, RecordObject, Goto
                <5> QED BY <5>1, <5>3 DEF ProcState
            <4>3. CASE LookupMiss(Migrator) \/ PutObject(Migrator)
                BY <2>0, <4>3 DEF LookupMiss, PutObject, Goto, ProcState
            <4>4. CASE UploadFails(Migrator) \/ FetchFails(Migrator) \/ CommitRehost(Migrator)
                BY <2>0, <4>4 DEF UploadFails, FetchFails, CommitRehost, NextJob, Goto, Migrating
            <4> QED BY <2>3, <4>1, <4>2, <4>3, <4>4 DEF StoreStep
        <3> QED BY <3>1 DEF Accounted
    <2>4. CASE Restart
        BY <2>0, <2>4 DEF Restart, Migrating, Accounted
    <2>5. CASE UNCHANGED vars
        BY <1>2, <2>5 DEF vars, Accounted, Pending, Exists, InHand
    <2>6. ASSUME NEW w \in Worker, Disconnect(w) PROVE Accounted'
        BY <1>2, <2>6, CollectorKeepsAccounted
    <2> QED BY <1>2, <2>1, <2>2, <2>3, <2>4, <2>5, <2>6, RequestsKeepAccounted DEF Next, MigratorStep
<1>3. Accounted => NothingForgotten
    BY DEF Accounted, NothingForgotten, Quiet, InHand, StoreSteps
<1>4. Init => Inv0
    BY InitEstablishesInv0
<1>5. Inv0 /\ [Next]_vars => Inv0'
    BY StepKeepsInv0
<1> QED BY <1>1, <1>2, <1>3, <1>4, <1>5, PTL DEF Spec

-----------------------------------------------------------------------------
(* The objects of re-hosted rows: which of them the collector may take *)

\* Whoever holds the result of an upload holds a live object, or one at risk.
HeldObjects ==
    \A p \in Proc : proc[p].pc \in {"record", "commit"} => proc[p].content \in store \cup exposed

\* A re-hosted row on a collector's list was uploaded during that pass.
ListedObjects ==
    \A i \in Image, w \in Worker :
        Rehosted(i) /\ images[i].cdn_url \in garbage[w] => images[i].cdn_url \in exposed

\* CDN URLs on their way from a row's url to its cdn_url are known to be at risk.
LinksExposed ==
    /\ \A w \in Worker : proc[w].pc = "finalize" /\ proc[w].url \in Content => proc[w].url \in exposed
    /\ \A r \in batch : r.url \in Content => r.url \in exposed

RiskNoted == AtRisk \subseteq exposed

ObjInv == /\ RiskNoted /\ HeldObjects /\ ListedObjects /\ LinksExposed
          /\ RehostedObjectKept

-----------------------------------------------------------------------------
(* What a step may do to each part of ObjInv *)

Holds(s) == s.pc \in {"record", "commit"}

LEMMA RisksAccumulate ==
    ASSUME NoteRisk
    PROVE  exposed \subseteq exposed' /\ RiskNoted'
BY DEF NoteRisk, RiskNoted

\* One process moves; if it then holds a content, the object is there or known
\* to be at risk.
LEMMA HoldersKept ==
    ASSUME Inv0, HeldObjects, NEW p \in Proc, NEW t, Goto(p, t),
           store \subseteq store', exposed \subseteq exposed',
           Holds(t) => t.content \in store' \cup exposed'
    PROVE  HeldObjects'
<1>1. proc'[p] = t /\ \A q \in Proc \ {p} : proc'[q] = proc[q]
    BY DEF Goto, Inv0, TypeOK
<1> QED BY <1>1 DEF HeldObjects, Holds

\* One process moves; if it is then about to finalise a CDN URL, that URL is
\* known to be at risk.
LEMMA LinksKept ==
    ASSUME Inv0, LinksExposed, NEW p \in Proc, NEW t, Goto(p, t),
           batch' \subseteq batch, exposed \subseteq exposed',
           p \in Worker /\ t.pc = "finalize" /\ t.url \in Content => t.url \in exposed'
    PROVE  LinksExposed'
<1>1. proc'[p] = t /\ \A q \in Proc \ {p} : proc'[q] = proc[q]
    BY DEF Goto, Inv0, TypeOK
<1> QED BY <1>1 DEF LinksExposed, Proc

\* No row gains a copy, no list grows and no object goes.
LEMMA RowsCarriedOver ==
    ASSUME ListedObjects, RehostedObjectKept,
           \A i \in Image : Rehosted(i)' => Rehosted(i) /\ images'[i].cdn_url = images[i].cdn_url,
           \A w \in Worker : garbage'[w] \subseteq garbage[w],
           store \subseteq store', exposed \subseteq exposed'
    PROVE  ListedObjects' /\ RehostedObjectKept'
BY DEF ListedObjects, RehostedObjectKept

\* A row gains the copy c.
LEMMA CopyGained ==
    ASSUME Inv0, ListedObjects, RehostedObjectKept, NEW i \in Image, NEW c \in Url,
           SetMigrated(i, c), UNCHANGED <<store, garbage>>, exposed \subseteq exposed',
           c \in Content => c \in store \cup exposed',
           \A w \in Worker : c \in Content /\ c \in garbage[w] => c \in exposed'
    PROVE  ListedObjects' /\ RehostedObjectKept'
<1>1. CASE ~Exists(i)
    <2>1. UNCHANGED images
        BY <1>1 DEF SetMigrated
    <2> QED BY <2>1, RowsCarriedOver DEF Rehosted, Exists
<1>2. CASE Exists(i)
    <2>1. images[i] \in Row
        BY <1>2 DEF Exists, Inv0, TypeOK
    <2> DEFINE r == [images[i] EXCEPT !.cdn_url = c, !.cdn_status = "migrated"]
    <2>2. r.cdn_url = c
        BY <2>1 DEF Row
    <2>3. images' = [images EXCEPT ![i] = r]
        BY <1>2 DEF SetMigrated
    <2>4. images'[i] = r /\ \A j \in Image \ {i} : images'[j] = images[j]
        BY <2>3 DEF Inv0, TypeOK
    <2> HIDE DEF r
    <2>5. ASSUME NEW j \in Image, Rehosted(j)'
          PROVE  /\ images'[j].cdn_url \in store' \cup exposed'
                 /\ \A w \in Worker : images'[j].cdn_url \in garbage'[w] => images'[j].cdn_url \in exposed'
        <3>1. CASE j = i
            BY <2>2, <2>4, <2>5, <3>1 DEF Rehosted
        <3>2. CASE j # i
            BY <2>4, <2>5, <3>2 DEF Rehosted, Exists, ListedObjects, RehostedObjectKept
        <3> QED BY <3>1, <3>2
    <2> QED BY <2>5 DEF ListedObjects, RehostedObjectKept
<1> QED BY <1>1, <1>2

LEMMA BrokenRowKeepsCopy ==
    ASSUME Inv0, NEW i \in Image, SetBroken(i)
    PROVE  \A j \in Image : Rehosted(j)' => Rehosted(j) /\ images'[j].cdn_url = images[j].cdn_url
<1>1. CASE ~Exists(i)
    BY <1>1 DEF SetBroken, Rehosted, Exists
<1>2. CASE Exists(i)
    <2>1. images[i] \in Row
        BY <1>2 DEF Exists, Inv0, TypeOK
    <2> DEFINE r == [images[i] EXCEPT !.cdn_status = "broken"]
    <2>2. r.cdn_url = images[i].cdn_url /\ r.url = images[i].url
        BY <2>1 DEF Row
    <2>3. images' = [images EXCEPT ![i] = r]
        BY <1>2 DEF SetBroken
    <2>4. images'[i] = r /\ \A j \in Image \ {i} : images'[j] = images[j]
        BY <2>3 DEF Inv0, TypeOK
    <2> HIDE DEF r
    <2> QED BY <1>2, <2>2, <2>4 DEF Rehosted, Exists
<1> QED BY <1>1, <1>2

\* Rows that stay, go, or come without a copy.
LEMMA RowsWithoutCopies ==
    ASSUME \A i \in Image : \/ images'[i] \in {images[i], None}
                            \/ images'[i].cdn_url = None
    PROVE  \A i \in Image : Rehosted(i)' => Rehosted(i) /\ images'[i].cdn_url = images[i].cdn_url
<1>1. None \notin Content
    BY PipelineAssumption DEF Url
<1> QED BY <1>1 DEF Rehosted, Exists

-----------------------------------------------------------------------------
(* One lemma per group of actions *)

LEMMA RequestsKeepObjects ==
    ASSUME Inv0, ObjInv, NEW w \in Worker, Handle(w)
    PROVE  ObjInv'
<1>1. UNCHANGED <<store, cdn_objects, garbage, batch>> /\ NoteRisk
    BY DEF Handle, CreateImage, UploadImage, DiscordAdd, PatchImage, DeleteImages, CascadeDelete,
           ImportImages, objects, job
<1>2. exposed \subseteq exposed' /\ RiskNoted'
    BY <1>1, RisksAccumulate
<1>3. ListedObjects' /\ RehostedObjectKept'
    <2>1. \A i \in Image : \/ images'[i] \in {images[i], None}
                           \/ images'[i].cdn_url = None
        <3>1. CASE CreateImage(w) \/ UploadImage(w) \/ DiscordAdd(w) \/ PatchImage(w)
            BY <3>1 DEF CreateImage, UploadImage, DiscordAdd, PatchImage, table
        <3>2. CASE DeleteImages(w) \/ CascadeDelete(w)
            <4>1. PICK S : images' = [i \in Image |-> IF i \in S THEN None ELSE images[i]]
                BY <3>2 DEF DeleteImages, CascadeDelete
            <4> QED BY <4>1
        <3>3. CASE ImportImages(w)
            <4>1. PICK S \in SUBSET (Image \ created) : \E f \in [S -> Link] :
                     images' = [i \in Image |-> IF i \in S THEN NewRow(f[i]) ELSE images[i]]
                BY <3>3 DEF ImportImages
            <4> PICK f \in [S -> Link] :
                     images' = [i \in Image |-> IF i \in S THEN NewRow(f[i]) ELSE images[i]]
                BY <4>1
            <4>2. \A u : NewRow(u).cdn_url = None
                BY DEF NewRow
            <4> QED BY <4>2
        <3> QED BY <3>1, <3>2, <3>3 DEF Handle
    <2> QED BY <1>1, <1>2, <2>1, RowsWithoutCopies, RowsCarriedOver DEF ObjInv
<1>4. HeldObjects' /\ LinksExposed'
    <2>1. ASSUME NEW t, Goto(w, t), t.pc \in {"idle", "insert", "update", "lookup", "select"}
          PROVE  HeldObjects' /\ LinksExposed'
        BY <1>1, <1>2, <2>1, HoldersKept, LinksKept DEF Holds, ObjInv, Proc
    <2>2. ASSUME NEW j, NEW i, NEW pc \in {"insert", "update"}, Submit(w, j, i, pc)
          PROVE  HeldObjects' /\ LinksExposed'
        BY <2>1, <2>2 DEF Submit
    <2>3. CASE CreateImage(w) \/ DiscordAdd(w) \/ PatchImage(w)
        BY <2>2, <2>3 DEF CreateImage, DiscordAdd, PatchImage
    <2>4. CASE UploadImage(w)
        BY <2>1, <2>4 DEF UploadImage
    <2>5. CASE DeleteImages(w)
        BY <2>1, <2>5 DEF DeleteImages, Idle
    <2>6. CASE CascadeDelete(w) \/ ImportImages(w)
        BY <1>1, <1>2, <2>6 DEF CascadeDelete, ImportImages, HeldObjects, LinksExposed, ObjInv
    <2> QED BY <2>3, <2>4, <2>5, <2>6 DEF Handle
<1> QED BY <1>2, <1>3, <1>4 DEF ObjInv

LEMMA RowWritesKeepObjects ==
    ASSUME Inv0, ObjInv, NEW w \in Worker, InsertRow(w) \/ UpdateRow(w)
    PROVE  ObjInv'
<1> DEFINE s == proc[w]
<1>1. UNCHANGED <<store, cdn_objects, garbage, batch>> /\ NoteRisk
    BY DEF InsertRow, UpdateRow, objects, job
<1>2. exposed \subseteq exposed' /\ RiskNoted'
    BY <1>1, RisksAccumulate
<1>3. s \in ProcState /\ WellFormed(w, s) /\ w \in Proc
    BY ProcessTyped DEF Proc
<1>4. CASE Goto(w, Idle) /\ \A i \in Image : images'[i] = images[i] \/ images'[i].cdn_url = None
    <2>1. ListedObjects' /\ RehostedObjectKept'
        BY <1>1, <1>2, <1>4, RowsWithoutCopies, RowsCarriedOver DEF ObjInv
    <2>2. HeldObjects' /\ LinksExposed'
        BY <1>1, <1>2, <1>3, <1>4, HoldersKept, LinksKept DEF Holds, ObjInv, Idle
    <2> QED BY <1>2, <2>1, <2>2 DEF ObjInv
\* A row is written with the url the worker brought; it then finalises that url.
<1>5. ASSUME NEW i \in Image, NEW r \in Row, images' = [images EXCEPT ![i] = r],
             r.url = s.url, r.cdn_url = None,
             NEW t, Goto(w, t), t.pc = "finalize", t.url = s.url
      PROVE  ObjInv'
    <2>1. images'[i] = r /\ \A j \in Image \ {i} : images'[j] = images[j]
        BY <1>5 DEF Inv0, TypeOK
    <2>2. ListedObjects' /\ RehostedObjectKept'
        BY <1>1, <1>2, <1>5, <2>1, RowsWithoutCopies, RowsCarriedOver DEF ObjInv
    <2>3. HeldObjects'
        BY <1>1, <1>2, <1>3, <1>5, HoldersKept DEF Holds, ObjInv
    <2>4. r # None
        BY <1>5, PipelineAssumption
    <2>5. s.url \in Content => s.url \in exposed'
        BY <1>1, <1>5, <2>1, <2>4 DEF NoteRisk, AtRisk, UsedAsUrl, Exists
    <2>6. LinksExposed'
        BY <1>1, <1>2, <1>3, <1>5, <2>5, LinksKept DEF ObjInv
    <2> QED BY <1>2, <2>2, <2>3, <2>6 DEF ObjInv
<1>6. CASE InsertRow(w)
    <2>1. s.url \in Url
        BY <1>3, <1>6 DEF InsertRow, WellFormed
    <2>2. NewRow(s.url) \in Row /\ NewRow(s.url).url = s.url /\ NewRow(s.url).cdn_url = None
        BY <2>1, RowTyped DEF NewRow
    <2>3. CASE Goto(w, Idle) /\ UNCHANGED images
        BY <1>4, <2>3
    <2>4. ASSUME NEW i \in Image, images' = [images EXCEPT ![i] = NewRow(s.url)], Goto(w, Idle)
          PROVE  ObjInv'
        <3>1. images'[i] = NewRow(s.url) /\ \A j \in Image \ {i} : images'[j] = images[j]
            BY <2>4 DEF Inv0, TypeOK
        <3> QED BY <1>4, <2>2, <2>4, <3>1
    <2>5. ASSUME NEW i \in Image, images' = [images EXCEPT ![i] = NewRow(s.url)],
                 Goto(w, [s EXCEPT !.pc = "finalize", !.image = i])
          PROVE  ObjInv'
        <3> DEFINE t == [s EXCEPT !.pc = "finalize", !.image = i]
        <3>1. t.pc = "finalize" /\ t.url = s.url
            BY <1>3 DEF ProcState
        <3> HIDE DEF t
        <3> QED BY <1>5, <2>2, <2>5, <3>1 DEF t
    <2> QED BY <1>6, <2>3, <2>4, <2>5 DEF InsertRow, table
<1>7. CASE UpdateRow(w)
    <2>1. s.url \in Url /\ s.image \in Image
        BY <1>3, <1>7 DEF UpdateRow, WellFormed
    <2>2. CASE Goto(w, Idle) /\ UNCHANGED images
        BY <1>4, <2>2
    <2>3. ASSUME Exists(s.image), images' = [images EXCEPT ![s.image] = Repointed(s.image, s.url)],
                 Goto(w, [s EXCEPT !.pc = "finalize"])
          PROVE  ObjInv'
        <3>1. images[s.image] \in Row
            BY <2>1, <2>3 DEF Exists, Inv0, TypeOK
        <3> DEFINE r == Repointed(s.image, s.url)  t == [s EXCEPT !.pc = "finalize"]
        <3>2. r \in Row /\ r.url = s.url /\ r.cdn_url = None
            BY <2>1, <3>1 DEF Repointed, Row
        <3>3. t.pc = "finalize" /\ t.url = s.url
            BY <1>3 DEF ProcState
        <3>4. images' = [images EXCEPT ![s.image] = r] /\ Goto(w, t)
            BY <2>3
        <3> HIDE DEF r, t
        <3> QED BY <1>5, <2>1, <3>2, <3>3, <3>4
    <2> QED BY <1>7, <2>2, <2>3 DEF UpdateRow
<1> QED BY <1>6, <1>7

LEMMA FinalizeKeepsObjects ==
    ASSUME Inv0, ObjInv, NEW w \in Worker, Finalize(w)
    PROVE  ObjInv'
<1> DEFINE s == proc[w]
<1>1. UNCHANGED <<store, cdn_objects, garbage, batch>> /\ NoteRisk /\ s.pc = "finalize"
    BY DEF Finalize, objects, job
<1>2. exposed \subseteq exposed' /\ RiskNoted'
    BY <1>1, RisksAccumulate
<1>3. s \in ProcState /\ WellFormed(w, s) /\ w \in Proc
    BY ProcessTyped DEF Proc
<1>4. s.url \in Url /\ s.image \in Image
    BY <1>1, <1>3 DEF WellFormed
<1>5. s.url \in Content => s.url \in exposed
    BY <1>1 DEF ObjInv, LinksExposed
<1>6. HeldObjects' /\ LinksExposed'
    <2>1. ASSUME NEW t, Goto(w, t), t.pc \in {"idle", "lookup"}
          PROVE  HeldObjects' /\ LinksExposed'
        BY <1>1, <1>2, <1>3, <2>1, HoldersKept, LinksKept DEF Holds, ObjInv
    <2>2. Spawned(w).pc \in {"idle", "lookup"}
        BY <1>3 DEF Spawned, Idle, ProcState
    <2> QED BY <2>1, <2>2 DEF Finalize, Idle
<1>7. ListedObjects' /\ RehostedObjectKept'
    <2>1. CASE UNCHANGED images
        BY <1>1, <1>2, <2>1, RowsCarriedOver DEF ObjInv, Rehosted, Exists
    <2>2. CASE SetMigrated(s.image, s.url)
        BY <1>1, <1>2, <1>4, <1>5, <2>2, CopyGained DEF ObjInv
    <2> QED BY <2>1, <2>2 DEF Finalize
<1> QED BY <1>2, <1>6, <1>7 DEF ObjInv

\* What the dedup table answers is in the store, or known to be at risk once
\* the asker holds it.
LEMMA LookupHitKeepsHolders ==
    ASSUME Inv0, ObjInv, NEW p \in Proc, LookupHit(p)
    PROVE  HeldObjects'
<1> DEFINE h == proc[p].content  t == Stored(p, h)
<1>1. UNCHANGED <<store, cdn_objects, garbage>> /\ NoteRisk /\ h \in cdn_objects
      /\ Goto(p, t) /\ proc[p].pc = "lookup"
    BY DEF LookupHit, objects
<1>2. exposed \subseteq exposed'
    BY <1>1, RisksAccumulate
<1>3. proc[p] \in ProcState /\ h \in Content
    BY <1>1, ProcessTyped DEF WellFormed, StoreSteps
<1>4. t.pc = "commit" => t.content = h
    BY <1>3 DEF Stored, ProcState
<1>5. t.pc # "record"
    BY <1>3 DEF Stored, ProcState
<1>6. proc'[p] = t /\ \A q \in Proc \ {p} : proc'[q] = proc[q]
    BY <1>1 DEF Goto, Inv0, TypeOK
<1>7. ASSUME t.pc = "commit", h \notin store
      PROVE  h \in exposed'
    <2>1. CASE h \in HalfCollected
        BY <1>2, <2>1 DEF ObjInv, RiskNoted, AtRisk
    <2>2. CASE h \notin HalfCollected
        <3>1. PICK w \in Worker : proc[w].pc = "purge" /\ proc[w].content = h
            BY <1>1, <1>7, <2>2 DEF HalfCollected
        <3>2. h \in garbage[w]
            BY <3>1, ProcessTyped DEF WellFormed, Proc
        <3>3. h \in Overlapping'
            <4> HIDE DEF t
            <4> QED BY <1>1, <1>3, <1>4, <1>6, <1>7, <3>2 DEF Overlapping
        <3> QED BY <1>1, <3>3 DEF NoteRisk, AtRisk
    <2> QED BY <2>1, <2>2
<1> HIDE DEF t
<1> QED BY <1>1, <1>2, <1>4, <1>5, <1>7, HoldersKept DEF Holds, ObjInv

LEMMA StoreStepKeepsObjects ==
    ASSUME Inv0, ObjInv, NEW p \in Proc, StoreStep(p)
    PROVE  ObjInv'
<1> DEFINE s == proc[p]
<1>1. UNCHANGED <<garbage, batch>> /\ NoteRisk /\ store \subseteq store'
    BY DEF StoreStep, LookupHit, LookupMiss, PutObject, RecordObject, UploadFails, FetchFails,
           CommitRehost, objects, job
<1>2. exposed \subseteq exposed' /\ RiskNoted'
    BY <1>1, RisksAccumulate
<1>3. s \in ProcState /\ WellFormed(p, s)
    BY ProcessTyped
<1>4. s.content \in Content /\ s.content \in Url
    BY <1>3 DEF StoreStep, LookupHit, LookupMiss, PutObject, RecordObject, UploadFails, FetchFails,
                CommitRehost, StoreSteps, WellFormed, Url
<1>5. Stored(p, s.content).pc # "finalize" /\ Stored(p, s.content).pc # "record"
    BY <1>3 DEF Stored, ProcState
<1>6. Stored(p, s.content).pc = "commit" => Stored(p, s.content).content = s.content
    BY <1>3 DEF Stored, ProcState
<1>7. NextJob(p).pc \in {"idle", "row"}
    BY DEF NextJob, Idle, Migrating
<1>8. LinksExposed'
    <2>1. ASSUME NEW t, Goto(p, t), t.pc # "finalize"
          PROVE  LinksExposed'
        BY <1>1, <1>2, <2>1, LinksKept DEF ObjInv
    <2>2. CASE LookupHit(p) \/ RecordObject(p)
        BY <1>5, <2>1, <2>2 DEF LookupHit, RecordObject
    <2>3. CASE LookupMiss(p) \/ PutObject(p)
        <3>1. PICK pc \in {"put", "record"} : Goto(p, [s EXCEPT !.pc = pc])
            BY <2>3 DEF LookupMiss, PutObject
        <3>2. [s EXCEPT !.pc = pc].pc = pc
            BY <1>3 DEF ProcState
        <3> QED BY <2>1, <3>1, <3>2
    <2>4. CASE UploadFails(p) \/ FetchFails(p) \/ CommitRehost(p)
        BY <1>7, <2>1, <2>4 DEF UploadFails, FetchFails, CommitRehost
    <2> QED BY <2>2, <2>3, <2>4 DEF StoreStep
<1>9. HeldObjects'
    <2>1. ASSUME NEW t, Goto(p, t), Holds(t) => t.content \in store' \cup exposed'
          PROVE  HeldObjects'
        BY <1>1, <1>2, <2>1, HoldersKept DEF ObjInv
    <2>2. CASE LookupHit(p)
        BY <2>2, LookupHitKeepsHolders
    <2>3. CASE LookupMiss(p)
        <3>1. [s EXCEPT !.pc = "put"].pc = "put"
            BY <1>3 DEF ProcState
        <3> QED BY <2>1, <2>3, <3>1 DEF LookupMiss, Holds
    <2>4. CASE PutObject(p)
        <3>1. [s EXCEPT !.pc = "record"].content = s.content
            BY <1>3 DEF ProcState
        <3>2. Goto(p, [s EXCEPT !.pc = "record"]) /\ s.content \in store'
            BY <2>4 DEF PutObject
        <3> QED BY <2>1, <3>1, <3>2
    <2>5. CASE RecordObject(p)
        <3>1. s.content \in store \cup exposed
            BY <2>5 DEF RecordObject, ObjInv, HeldObjects
        <3>2. Holds(Stored(p, s.content)) => Stored(p, s.content).content \in store' \cup exposed'
            BY <1>1, <1>2, <1>5, <1>6, <3>1 DEF Holds
        <3>3. Goto(p, Stored(p, s.content))
            BY <2>5 DEF RecordObject
        <3> QED BY <2>1, <3>2, <3>3
    <2>6. CASE UploadFails(p) \/ FetchFails(p) \/ CommitRehost(p)
        BY <1>7, <2>1, <2>6 DEF UploadFails, FetchFails, CommitRehost, Holds
    <2> QED BY <2>2, <2>3, <2>4, <2>5, <2>6 DEF StoreStep
<1>10. ListedObjects' /\ RehostedObjectKept'
    <2>1. CASE UNCHANGED images
        BY <1>1, <1>2, <2>1, RowsCarriedOver DEF ObjInv, Rehosted, Exists
    <2>2. CASE FetchFails(p) /\ SetBroken(s.image)
        <3>1. s.image \in Image
            BY <1>3, <2>2 DEF FetchFails, WellFormed, StoreSteps
        <3> QED BY <1>1, <1>2, <2>2, <3>1, BrokenRowKeepsCopy, RowsCarriedOver DEF ObjInv
    <2>3. CASE CommitRehost(p) /\ SetMigrated(s.image, s.content)
        <3>1. s.image \in Image /\ s.content \in store \cup exposed
            BY <1>3, <2>3 DEF CommitRehost, WellFormed, ObjInv, HeldObjects
        <3>2. \A w \in Worker : s.content \in garbage[w] => s.content \in exposed
            BY <1>4, <2>3 DEF CommitRehost, ObjInv, RiskNoted, AtRisk, Overlapping
        <3>3. UNCHANGED store
            BY <2>3 DEF CommitRehost, objects
        <3> QED BY <1>1, <1>2, <1>4, <2>3, <3>1, <3>2, <3>3, CopyGained DEF ObjInv
    <2> QED BY <2>1, <2>2, <2>3 DEF StoreStep, LookupHit, LookupMiss, PutObject, RecordObject,
                                    UploadFails, FetchFails, CommitRehost, UpdateFails, table
<1> QED BY <1>2, <1>8, <1>9, <1>10 DEF ObjInv

\* A collector deletes an object of its list.
LEMMA ObjectDeleted ==
    ASSUME Inv0, ObjInv, NEW w \in Worker, NEW h \in garbage[w], NEW t,
           Goto(w, t), t.pc \in {"purge", "idle"}, store' = store \ {h},
           UNCHANGED <<images, batch>>, NoteRisk,
           \A v \in Worker : garbage'[v] \subseteq garbage[v]
    PROVE  ObjInv'
<1>1. exposed \subseteq exposed' /\ RiskNoted'
    BY RisksAccumulate
<1>2. h \in Content /\ w \in Proc
    BY DEF Proc, Inv0, TypeOK
<1>3. proc'[w] = t /\ \A q \in Proc \ {w} : proc'[q] = proc[q]
    BY <1>2 DEF Goto, Inv0, TypeOK
<1>4. \A i \in Image : Rehosted(i)' => Rehosted(i) /\ images'[i].cdn_url = images[i].cdn_url
    BY DEF Rehosted, Exists
<1>5. HeldObjects'
    <2>1. ASSUME NEW q \in Proc, proc[q].pc \in {"record", "commit"}, proc[q].content = h
          PROVE  h \in exposed
        BY <1>2, <2>1 DEF ObjInv, RiskNoted, AtRisk, Overlapping
    <2>2. ASSUME NEW q \in Proc, proc'[q].pc \in {"record", "commit"}
          PROVE  proc'[q].content \in store' \cup exposed'
        <3>1. q # w /\ proc'[q] = proc[q]
            BY <1>3, <2>2
        <3>2. proc[q].content \in store \cup exposed
            BY <2>2, <3>1 DEF ObjInv, HeldObjects
        <3> QED BY <1>1, <2>1, <2>2, <3>1, <3>2
    <2> QED BY <2>2 DEF HeldObjects
<1>6. LinksExposed'
    BY <1>1, <1>2, LinksKept DEF ObjInv
<1>7. ListedObjects'
    BY <1>1, <1>4 DEF ObjInv, ListedObjects
<1>8. ASSUME NEW i \in Image, Rehosted(i)'
      PROVE  images'[i].cdn_url \in store' \cup exposed'
    <2>1. Rehosted(i) /\ images'[i].cdn_url = images[i].cdn_url
        BY <1>4, <1>8
    <2>2. images[i].cdn_url = h => h \in exposed
        BY <2>1 DEF ObjInv, ListedObjects
    <2>3. images[i].cdn_url \in store \cup exposed
        BY <2>1 DEF ObjInv, RehostedObjectKept
    <2> QED BY <1>1, <2>1, <2>2, <2>3
<1> QED BY <1>1, <1>5, <1>6, <1>7, <1>8 DEF ObjInv, RehostedObjectKept

\* A pass, or a request, ends where it stands and leaves everything else alone.
LEMMA CollectionEnds ==
    ASSUME Inv0, ObjInv, NEW w \in Worker, Goto(w, Idle),
           garbage' = [garbage EXCEPT ![w] = {}], UNCHANGED <<store, table, job>>, NoteRisk
    PROVE  ObjInv'
<1>1. exposed \subseteq exposed' /\ RiskNoted'
    BY RisksAccumulate
<1>2. w \in Proc /\ Idle.pc = "idle" /\ UNCHANGED <<images, batch>>
    BY DEF Proc, Idle, table, job
<1>3. \A v \in Worker : garbage'[v] \subseteq garbage[v]
    BY DEF Inv0, TypeOK
<1>4. HeldObjects' /\ LinksExposed'
    BY <1>1, <1>2, HoldersKept, LinksKept DEF Holds, ObjInv
<1>5. ListedObjects' /\ RehostedObjectKept'
    BY <1>1, <1>2, <1>3, RowsCarriedOver DEF ObjInv, Rehosted, Exists
<1> QED BY <1>1, <1>4, <1>5 DEF ObjInv

LEMMA CollectorKeepsObjects ==
    ASSUME Inv0, ObjInv, NEW w \in Worker,
           GcSelect(w) \/ GcDeleteObject(w) \/ GcDeleteFails(w) \/ GcPurgeRow(w)
    PROVE  ObjInv'
<1> DEFINE s == proc[w]
<1>1. UNCHANGED <<images, batch>> /\ NoteRisk
    BY DEF GcSelect, GcDeleteObject, GcDeleteFails, GcPurgeRow, table, job
<1>2. exposed \subseteq exposed' /\ RiskNoted'
    BY <1>1, RisksAccumulate
<1>3. s \in ProcState /\ WellFormed(w, s) /\ w \in Proc
    BY ProcessTyped DEF Proc
<1>4. \A i \in Image : Rehosted(i)' => Rehosted(i) /\ images'[i].cdn_url = images[i].cdn_url
    BY <1>1 DEF Rehosted, Exists
\* All but the deletion of an object: the collector moves, its list shrinks or is a fresh one.
<1>5. ASSUME UNCHANGED store, NEW t, Goto(w, t), t.pc \in {"idle", "delete"}
      PROVE  HeldObjects' /\ LinksExposed'
    BY <1>1, <1>2, <1>3, <1>5, HoldersKept, LinksKept DEF Holds, ObjInv
<1>6. CASE GcPurgeRow(w)
    <2>1. \A v \in Worker : garbage'[v] \subseteq garbage[v]
        BY <1>6 DEF GcPurgeRow, Inv0, TypeOK
    <2>2. UNCHANGED store
        BY <1>6 DEF GcPurgeRow
    <2>3. ListedObjects' /\ RehostedObjectKept'
        BY <1>2, <1>4, <2>1, <2>2, RowsCarriedOver DEF ObjInv
    <2>4. HeldObjects' /\ LinksExposed'
        <3>1. [s EXCEPT !.pc = "delete", !.content = None].pc = "delete" /\ Idle.pc = "idle"
            BY <1>3 DEF ProcState, Idle
        <3>2. Goto(w, Idle) \/ Goto(w, [s EXCEPT !.pc = "delete", !.content = None])
            BY <1>6 DEF GcPurgeRow
        <3> QED BY <1>5, <2>2, <3>1, <3>2
    <2> QED BY <1>2, <2>3, <2>4 DEF ObjInv
<1>7. CASE GcSelect(w)
    <2>1. UNCHANGED store
        BY <1>7 DEF GcSelect, objects
    <2>2. HeldObjects' /\ LinksExposed'
        <3>1. [s EXCEPT !.pc = "delete"].pc = "delete" /\ Idle.pc = "idle"
            BY <1>3 DEF ProcState, Idle
        <3>2. Goto(w, Idle) \/ Goto(w, [s EXCEPT !.pc = "delete"])
            BY <1>7 DEF GcSelect
        <3> QED BY <1>5, <2>1, <3>1, <3>2
    <2>3. ASSUME garbage' = [garbage EXCEPT ![w] = Orphans]
          PROVE  ListedObjects' /\ RehostedObjectKept'
        <3>1. RehostedObjectKept'
            BY <1>2, <1>4, <2>1 DEF ObjInv, RehostedObjectKept
        <3>2. ASSUME NEW i \in Image, NEW v \in Worker, Rehosted(i)', images'[i].cdn_url \in garbage'[v]
              PROVE  images'[i].cdn_url \in exposed'
            <4>1. images[i].cdn_url \notin Orphans
                BY <1>4, <3>2 DEF Orphans, Referenced, Rehosted
            <4>2. v # w
                BY <1>4, <2>3, <3>2, <4>1 DEF Inv0, TypeOK
            <4>3. images'[i].cdn_url \in garbage[v]
                BY <2>3, <3>2, <4>2 DEF Inv0, TypeOK
            <4> QED BY <1>2, <1>4, <3>2, <4>3 DEF ObjInv, ListedObjects
        <3> QED BY <3>1, <3>2 DEF ListedObjects
    <2>4. ASSUME UNCHANGED garbage
          PROVE  ListedObjects' /\ RehostedObjectKept'
        BY <1>2, <1>4, <2>1, <2>4, RowsCarriedOver DEF ObjInv
    <2>5. ListedObjects' /\ RehostedObjectKept'
        BY <1>7, <2>3, <2>4 DEF GcSelect
    <2> QED BY <1>2, <2>2, <2>5 DEF ObjInv
<1>8. CASE GcDeleteObject(w)
    <2>1. PICK h \in garbage[w] :
             store' = store \ {h} /\ Goto(w, [s EXCEPT !.pc = "purge", !.content = h])
        BY <1>8 DEF GcDeleteObject
    <2>2. UNCHANGED garbage
        BY <1>8 DEF GcDeleteObject
    <2>3. [s EXCEPT !.pc = "purge", !.content = h].pc = "purge"
        BY <1>3 DEF ProcState
    <2> QED BY <1>1, <2>1, <2>2, <2>3, ObjectDeleted
<1>9. CASE GcDeleteFails(w)
    <2>1. Idle.pc = "idle"
        BY DEF Idle
    <2>2. CASE UNCHANGED store
        BY <1>9, <2>1, <2>2, CollectionEnds DEF GcDeleteFails
    <2>3. ASSUME NEW h \in garbage[w], store' = store \ {h} PROVE ObjInv'
        <3>1. \A v \in Worker : garbage'[v] \subseteq garbage[v]
            BY <1>9 DEF GcDeleteFails, Inv0, TypeOK
        <3>2. Goto(w, Idle)
            BY <1>9 DEF GcDeleteFails
        <3> QED BY <1>1, <2>1, <2>3, <3>1, <3>2, ObjectDeleted
    <2> QED BY <1>9, <2>2, <2>3 DEF GcDeleteFails
<1> QED BY <1>6, <1>7, <1>8, <1>9

LEMMA MigrationLoopKeepsObjects ==
    ASSUME Inv0, ObjInv, FetchBatch \/ MigrateRow
    PROVE  ObjInv'
<1>1. UNCHANGED <<store, garbage>> /\ NoteRisk
    BY DEF FetchBatch, MigrateRow, objects
<1>2. exposed \subseteq exposed' /\ RiskNoted'
    BY <1>1, RisksAccumulate
<1>3. Migrator \in Proc /\ Migrator \notin Worker
    BY PipelineAssumption DEF Proc
<1>4. \A w \in Worker : proc'[w] = proc[w]
    BY <1>3 DEF FetchBatch, MigrateRow, Goto, Proc, Inv0, TypeOK
<1>5. HeldObjects'
    <2>1. ASSUME NEW t, Goto(Migrator, t), t.pc \in {"fetch", "row", "done", "lookup"}
          PROVE  HeldObjects'
        BY <1>1, <1>2, <1>3, <2>1, HoldersKept DEF Holds, ObjInv
    <2>2. CASE UNCHANGED proc
        BY <1>1, <1>2, <2>2 DEF HeldObjects, ObjInv
    <2>3. ASSUME NEW pc \in {"fetch", "row", "done"}, Goto(Migrator, Migrating(pc))
          PROVE  HeldObjects'
        BY <2>1, <2>3 DEF Migrating
    <2>4. ASSUME NEW r \in batch,
                 Goto(Migrator, [Migrating("lookup") EXCEPT
                                   !.image = r.image, !.content = ContentOf[r.url]])
          PROVE  HeldObjects'
        <3> DEFINE t == [Migrating("lookup") EXCEPT !.image = r.image, !.content = ContentOf[r.url]]
        <3>1. t.pc = "lookup"
            BY DEF Migrating
        <3> HIDE DEF t
        <3> QED BY <2>1, <2>4, <3>1 DEF t
    <2>5. CASE FetchBatch
        BY <2>3, <2>5 DEF FetchBatch
    <2>6. CASE MigrateRow
        BY <2>2, <2>3, <2>4, <2>6 DEF MigrateRow
    <2> QED BY <2>5, <2>6
<1>6. \A r \in batch' : r.url \in Content => r.url \in exposed'
    <2>1. CASE batch' \subseteq batch
        BY <1>2, <2>1 DEF ObjInv, LinksExposed
    <2>2. ASSUME NEW S \in SUBSET Unmigrated, batch' = {[image |-> i, url |-> images[i].url] : i \in S}
          PROVE  \A r \in batch' : r.url \in Content => r.url \in exposed'
        <3>1. ASSUME NEW i \in S, images[i].url \in Content
              PROVE  images[i].url \in exposed'
            BY <1>2, <3>1 DEF Unmigrated, UsedAsUrl, AtRisk, RiskNoted, ObjInv
        <3> QED BY <2>2, <3>1
    <2> QED BY <2>1, <2>2 DEF FetchBatch, MigrateRow
<1>7. LinksExposed'
    BY <1>2, <1>4, <1>6 DEF LinksExposed, ObjInv
<1>8. ListedObjects' /\ RehostedObjectKept'
    <2>1. CASE UNCHANGED images
        BY <1>1, <1>2, <2>1, RowsCarriedOver DEF ObjInv, Rehosted, Exists
    <2>2. ASSUME NEW r \in batch, SetMigrated(r.image, r.url)
          PROVE  ListedObjects' /\ RehostedObjectKept'
        <3>1. r.image \in Image /\ r.url \in Url
            BY DEF Inv0, TypeOK
        <3>2. r.url \in Content => r.url \in exposed'
            BY <1>2 DEF ObjInv, LinksExposed
        <3> QED BY <1>1, <1>2, <2>2, <3>1, <3>2, CopyGained DEF ObjInv
    <2> QED BY <2>1, <2>2 DEF FetchBatch, MigrateRow, table
<1> QED BY <1>2, <1>5, <1>7, <1>8 DEF ObjInv

LEMMA RestartKeepsObjects ==
    ASSUME Inv0, ObjInv, Restart
    PROVE  ObjInv'
<1>1. exposed \subseteq exposed' /\ RiskNoted' /\ UNCHANGED <<images, store>>
    BY RisksAccumulate DEF Restart, table, objects
<1>2. \A p \in Proc : proc'[p].pc \in {"idle", "fetch", "done"}
    BY DEF Restart, Idle, Migrating
<1>3. batch' = {} /\ \A w \in Worker : garbage'[w] = {}
    BY DEF Restart
<1>4. HeldObjects' /\ LinksExposed'
    BY <1>2, <1>3 DEF HeldObjects, LinksExposed, Proc
<1>5. ListedObjects' /\ RehostedObjectKept'
    BY <1>1, <1>3, RowsCarriedOver DEF ObjInv, Rehosted, Exists
<1> QED BY <1>1, <1>4, <1>5 DEF ObjInv

\* No re-hosted row loses its object to garbage_collect_orphaned_objects,
\* whatever the handlers, re-hosting tasks, collection passes, the migration
\* job and restarts do to each other, unless the content was at risk: uploaded
\* while a pass had it on its list, left half collected by a pass that ended
\* between its two deletions, or used as the url of another row.
THEOREM RehostedObjectsKept == Spec => []RehostedObjectKept
<1>1. Init => Inv0 /\ ObjInv
    <2>1. ASSUME Init PROVE ObjInv
        <3>1. \A p \in Proc : proc[p].pc \in {"idle", "fetch", "done"}
            BY <2>1 DEF Init, Idle, Migrating
        <3>2. AtRisk = {}
            BY <2>1 DEF Init, AtRisk, Overlapping, HalfCollected, UsedAsUrl, Exists
        <3> QED BY <2>1, <3>1, <3>2 DEF Init, ObjInv, RiskNoted, HeldObjects, ListedObjects,
                                        LinksExposed, RehostedObjectKept, Rehosted, Exists, Proc
    <2> QED BY <2>1, InitEstablishesInv0
<1>2. Inv0 /\ ObjInv /\ [Next]_vars => Inv0' /\ ObjInv'
    <2>1. ASSUME Inv0, ObjInv, [Next]_vars PROVE ObjInv'
        <3>0. ASSUME NEW w \in Worker, Disconnect(w) PROVE ObjInv'
            BY <2>1, <3>0, CollectionEnds DEF Disconnect, objects
        <3>1. ASSUME NEW w \in Worker, WorkerStep(w) PROVE ObjInv'
            BY <2>1, <3>1, RowWritesKeepObjects, FinalizeKeepsObjects, CollectorKeepsObjects,
               StoreStepKeepsObjects DEF WorkerStep, Proc
        <3>2. CASE MigratorStep
            BY <2>1, <3>2, MigrationLoopKeepsObjects, StoreStepKeepsObjects DEF MigratorStep, Proc
        <3>3. CASE UNCHANGED vars
            BY <2>1, <3>3 DEF vars, ObjInv, RiskNoted, AtRisk, Overlapping, HalfCollected, UsedAsUrl,
               HeldObjects, ListedObjects, LinksExposed, RehostedObjectKept, Rehosted, Exists
        <3> QED BY <2>1, <3>0, <3>1, <3>2, <3>3, RequestsKeepObjects, RestartKeepsObjects DEF Next
    <2> QED BY <2>1, StepKeepsInv0
<1>3. ObjInv => RehostedObjectKept
    BY DEF ObjInv
<1> QED BY <1>1, <1>2, <1>3, PTL DEF Spec
-----------------------------------------------------------------------------
(* Objects that nobody can find *)

\* Without a fault or a restart, the object whose row a pass is about to purge
\* is gone, unless it was uploaded again meanwhile; that risk is noted.
Findable ==
    faults = 0 /\ restarts = 0 =>
        /\ \A h \in store \ cdn_objects :
              h \in exposed \/ \E p \in Proc : proc[p].pc = "record" /\ proc[p].content = h
        /\ \A w \in Worker : proc[w].pc = "purge" /\ proc[w].content \in store
                                => proc[w].content \in exposed

\* One process moves to t and no object comes or goes.
LEMMA MoverKeepsFindable ==
    ASSUME Inv0, Findable, NEW p \in Proc, NEW t, Goto(p, t), exposed \subseteq exposed',
           UNCHANGED store, cdn_objects \subseteq cdn_objects',
           faults' = 0 /\ restarts' = 0 => faults = 0 /\ restarts = 0,
           proc[p].pc = "record" => proc[p].content \in cdn_objects' \/ faults' # 0,
           p \in Worker => t.pc # "purge"
    PROVE  Findable'
<1>1. proc'[p] = t /\ \A q \in Proc \ {p} : proc'[q] = proc[q]
    BY DEF Goto, Inv0, TypeOK
<1> QED BY <1>1 DEF Findable, Proc

\* Processes stay where they are, or end where they held no upload.
LEMMA FaultsExcuse ==
    ASSUME faults' # 0 \/ restarts' # 0
    PROVE  Findable'
BY DEF Findable

LEMMA FaultCounts ==
    ASSUME Inv0, Fault
    PROVE  faults' # 0
BY PipelineAssumption DEF Fault, Inv0, TypeOK

LEMMA HandlersKeepFindable ==
    ASSUME Inv0, Findable, NEW w \in Worker,
           Handle(w) \/ InsertRow(w) \/ UpdateRow(w) \/ Finalize(w) \/ Disconnect(w)
    PROVE  Findable'
<1>1. UNCHANGED <<store, cdn_objects, restarts>> /\ exposed \subseteq exposed'
    BY RisksAccumulate DEF Handle, CreateImage, UploadImage, DiscordAdd, PatchImage, DeleteImages,
       CascadeDelete, ImportImages, InsertRow, UpdateRow, Finalize, Disconnect, Request, Fault,
       objects, bounds
<1>2. UNCHANGED faults \/ faults' # 0
    BY FaultCounts DEF Handle, CreateImage, UploadImage, DiscordAdd, PatchImage, DeleteImages,
       CascadeDelete, ImportImages, InsertRow, UpdateRow, Finalize, Disconnect, Request, bounds
<1>3. CASE Disconnect(w)
    BY <1>3, FaultCounts, FaultsExcuse DEF Disconnect
<1>4. CASE UNCHANGED proc
    BY <1>1, <1>2, <1>4, FaultsExcuse DEF Findable
<1>5. ASSUME NEW t, Goto(w, t), t.pc # "purge", proc[w].pc # "record"
      PROVE  Findable'
    BY <1>1, <1>2, <1>5, FaultsExcuse, MoverKeepsFindable DEF Proc
<1>6. proc[w] \in ProcState
    BY ProcessTyped DEF Proc
<1>7. CASE CreateImage(w) \/ UploadImage(w) \/ DiscordAdd(w) \/ PatchImage(w) \/ DeleteImages(w)
    <2>1. proc[w].pc # "record"
        BY <1>7 DEF CreateImage, UploadImage, DiscordAdd, PatchImage, DeleteImages, Request
    <2>2. ASSUME NEW j, NEW i, NEW pc \in {"insert", "update"}, Submit(w, j, i, pc) PROVE Findable'
        <3>1. ASSUME NEW u \in Link,
                     Goto(w, [pc |-> pc, job |-> j, image |-> i, url |-> u, content |-> None])
              PROVE  Findable'
            BY <1>5, <2>1, <3>1
        <3>2. ASSUME NEW h \in Content,
                     Goto(w, [pc |-> "lookup", job |-> j, image |-> i, url |-> None, content |-> h])
              PROVE  Findable'
            BY <1>5, <2>1, <3>2
        <3> QED BY <2>2, <3>1, <3>2 DEF Submit
    <2>3. CASE CreateImage(w) \/ DiscordAdd(w) \/ PatchImage(w)
        BY <2>2, <2>3 DEF CreateImage, DiscordAdd, PatchImage
    <2>4. CASE UploadImage(w)
        <3>1. PICK h \in Content : Goto(w, [pc |-> "lookup", job |-> "add", image |-> None,
                                            url |-> None, content |-> h])
            BY <2>4 DEF UploadImage
        <3> QED BY <1>5, <2>1, <3>1
    <2>5. CASE DeleteImages(w)
        <3>1. Goto(w, [Idle EXCEPT !.pc = "select", !.job = "gc"]) \/ Goto(w, Idle)
            BY <2>5 DEF DeleteImages
        <3>2. [Idle EXCEPT !.pc = "select", !.job = "gc"].pc # "purge" /\ Idle.pc # "purge"
            BY DEF Idle
        <3> QED BY <1>5, <2>1, <3>1, <3>2
    <2> QED BY <1>7, <2>3, <2>4, <2>5
<1>8. CASE CascadeDelete(w) \/ ImportImages(w)
    BY <1>4, <1>8 DEF CascadeDelete, ImportImages
<1>9. CASE InsertRow(w) \/ UpdateRow(w) \/ Finalize(w)
    <2>1. proc[w].pc # "record"
        BY <1>9 DEF InsertRow, UpdateRow, Finalize
    <2>2. Goto(w, Idle) \/ Goto(w, Spawned(w)) \/ Goto(w, [proc[w] EXCEPT !.pc = "finalize"])
            \/ (\E i \in Image : Goto(w, [proc[w] EXCEPT !.pc = "finalize", !.image = i]))
        BY <1>9 DEF InsertRow, UpdateRow, Finalize
    <2>3. Idle.pc # "purge" /\ Spawned(w).pc # "purge"
        BY <1>6 DEF Idle, Spawned, ProcState
    <2>4. /\ [proc[w] EXCEPT !.pc = "finalize"].pc # "purge"
          /\ \A i \in Image : [proc[w] EXCEPT !.pc = "finalize", !.image = i].pc # "purge"
        BY <1>6 DEF ProcState
    <2> QED BY <1>5, <2>1, <2>2, <2>3, <2>4
<1> QED BY <1>3, <1>7, <1>8, <1>9 DEF Handle

\* The upload, and the INSERT that makes it findable.
LEMMA StoreStepKeepsFindable ==
    ASSUME Inv0, Findable, NEW p \in Proc, StoreStep(p)
    PROVE  Findable'
<1> DEFINE s == proc[p]
<1>1. UNCHANGED restarts /\ NoteRisk /\ exposed \subseteq exposed' /\ RiskNoted'
    BY RisksAccumulate DEF StoreStep, LookupHit, LookupMiss, PutObject, RecordObject, UploadFails,
       FetchFails, CommitRehost, UpdateFails, Fault, bounds
<1>2. s \in ProcState /\ WellFormed(p, s)
    BY ProcessTyped
<1>3. UNCHANGED faults \/ faults' # 0
    BY FaultCounts DEF StoreStep, LookupHit, LookupMiss, PutObject, RecordObject, UploadFails,
       FetchFails, CommitRehost, UpdateFails, bounds
<1>4. ASSUME UNCHANGED store, cdn_objects \subseteq cdn_objects', NEW t, Goto(p, t), t.pc # "purge",
             s.pc = "record" => s.content \in cdn_objects' \/ faults' # 0
      PROVE  Findable'
    BY <1>1, <1>3, <1>4, FaultsExcuse, MoverKeepsFindable
<1>5. CASE PutObject(p)
    <2> DEFINE t == [s EXCEPT !.pc = "record"]
    <2>1. t.pc = "record" /\ t.content = s.content /\ s.pc = "put" /\ s.content \in Content
        BY <1>2, <1>5 DEF PutObject, ProcState, WellFormed, StoreSteps
    <2>2. proc'[p] = t /\ \A q \in Proc \ {p} : proc'[q] = proc[q]
        BY <1>5 DEF PutObject, Goto, Inv0, TypeOK
    <2>3. store' = store \cup {s.content} /\ UNCHANGED <<cdn_objects, faults, garbage>>
        BY <1>5 DEF PutObject, bounds
    <2> HIDE DEF t
    <2>4. ASSUME NEW w \in Worker, proc'[w].pc = "purge", proc'[w].content = s.content
          PROVE  s.content \in exposed'
        <3>1. w # p /\ proc[w] = proc'[w] /\ w \in Proc
            BY <2>1, <2>2, <2>4 DEF Proc
        <3>2. s.content \in garbage'[w]
            BY <2>3, <2>4, <3>1, ProcessTyped DEF WellFormed
        <3>3. s.content \in Overlapping'
            BY <2>1, <2>2, <3>2 DEF Overlapping
        <3> QED BY <1>1, <3>3 DEF RiskNoted, AtRisk
    <2>5. CASE faults = 0 /\ restarts = 0
        <3>1. ASSUME NEW h \in store' \ cdn_objects', h \notin exposed'
              PROVE  \E q \in Proc : proc'[q].pc = "record" /\ proc'[q].content = h
            <4>1. CASE h = s.content
                BY <2>1, <2>2, <4>1
            <4>2. CASE h # s.content
                <5>1. PICK q \in Proc : proc[q].pc = "record" /\ proc[q].content = h
                    BY <1>1, <2>3, <2>5, <3>1, <4>2 DEF Findable
                <5>2. q # p
                    BY <2>1, <5>1
                <5> QED BY <2>2, <5>1, <5>2
            <4> QED BY <4>1, <4>2
        <3>2. ASSUME NEW w \in Worker, proc'[w].pc = "purge", proc'[w].content \in store'
              PROVE  proc'[w].content \in exposed'
            <4>1. CASE proc'[w].content = s.content
                BY <2>4, <3>2, <4>1
            <4>2. CASE proc'[w].content # s.content
                <5>1. w # p /\ w \in Proc
                    BY <2>1, <2>2, <3>2 DEF Proc
                <5> QED BY <1>1, <2>2, <2>3, <2>5, <3>2, <4>2, <5>1 DEF Findable
            <4> QED BY <4>1, <4>2
        <3> QED BY <3>1, <3>2 DEF Findable
    <2>6. CASE ~(faults = 0 /\ restarts = 0)
        BY <1>1, <2>3, <2>6 DEF Findable
    <2> QED BY <2>5, <2>6
<1>6. CASE LookupHit(p) \/ RecordObject(p)
    <2>1. Stored(p, s.content).pc # "purge"
        <3>1. Stored(p, s.content).pc \in {"insert", "update", "commit"}
            BY <1>2 DEF Stored, ProcState
        <3> QED BY <3>1
    <2>2. Goto(p, Stored(p, s.content)) /\ UNCHANGED store /\ cdn_objects \subseteq cdn_objects'
        BY <1>6 DEF LookupHit, RecordObject, objects
    <2>3. s.pc = "record" => s.content \in cdn_objects' \/ faults' # 0
        BY <1>6, FaultCounts DEF LookupHit, RecordObject
    <2> QED BY <1>4, <2>1, <2>2, <2>3
<1>7. CASE LookupMiss(p)
    <2>1. [s EXCEPT !.pc = "put"].pc # "purge"
        BY <1>2 DEF ProcState
    <2> QED BY <1>4, <1>7, <2>1 DEF LookupMiss, objects
<1>8. CASE UploadFails(p) \/ FetchFails(p) \/ CommitRehost(p)
    <2>1. Goto(p, NextJob(p)) /\ NextJob(p).pc # "purge" /\ s.pc # "record" /\ UNCHANGED cdn_objects
        BY <1>8 DEF UploadFails, FetchFails, CommitRehost, NextJob, Migrating, Idle, objects
    <2>2. UNCHANGED store \/ faults' # 0
        BY <1>8, FaultCounts DEF UploadFails, FetchFails, CommitRehost, objects
    <2> QED BY <1>4, <2>1, <2>2, FaultsExcuse
<1> QED BY <1>5, <1>6, <1>7, <1>8 DEF StoreStep

LEMMA CollectorKeepsFindable ==
    ASSUME Inv0, Findable, NEW w \in Worker,
           GcSelect(w) \/ GcDeleteObject(w) \/ GcDeleteFails(w) \/ GcPurgeRow(w)
    PROVE  Findable'
<1> DEFINE s == proc[w]
<1>1. UNCHANGED restarts /\ exposed \subseteq exposed' /\ (UNCHANGED faults \/ faults' # 0)
    BY RisksAccumulate, FaultCounts DEF GcSelect, GcDeleteObject, GcDeleteFails, GcPurgeRow, Fault, bounds
<1>2. s \in ProcState /\ w \in Proc /\ s.pc # "record"
    BY ProcessTyped DEF Proc, GcSelect, GcDeleteObject, GcDeleteFails, GcPurgeRow
<1>3. ASSUME UNCHANGED <<store, cdn_objects>>, NEW t, Goto(w, t), t.pc # "purge"
      PROVE  Findable'
    BY <1>1, <1>2, <1>3, FaultsExcuse, MoverKeepsFindable
<1>4. CASE GcSelect(w)
    <2>1. [s EXCEPT !.pc = "delete"].pc # "purge" /\ Idle.pc # "purge"
        BY <1>2 DEF ProcState, Idle
    <2>2. Goto(w, Idle) \/ Goto(w, [s EXCEPT !.pc = "delete"])
        BY <1>4 DEF GcSelect
    <2> QED BY <1>3, <1>4, <2>1, <2>2 DEF GcSelect, objects
<1>5. CASE GcDeleteFails(w)
    <2>1. CASE UNCHANGED store
        BY <1>3, <1>5, <2>1 DEF GcDeleteFails, Idle
    <2>2. CASE Fault
        BY <2>2, FaultCounts, FaultsExcuse
    <2> QED BY <1>5, <2>1, <2>2 DEF GcDeleteFails
<1>6. CASE GcDeleteObject(w)
    <2>1. PICK h \in garbage[w] :
             store' = store \ {h} /\ Goto(w, [s EXCEPT !.pc = "purge", !.content = h])
        BY <1>6 DEF GcDeleteObject
    <2> DEFINE t == [s EXCEPT !.pc = "purge", !.content = h]
    <2>2. t.pc = "purge" /\ t.content = h
        BY <1>2 DEF ProcState
    <2>3. proc'[w] = t /\ \A q \in Proc \ {w} : proc'[q] = proc[q]
        BY <1>2, <2>1 DEF Goto, Inv0, TypeOK
    <2>4. UNCHANGED cdn_objects
        BY <1>6 DEF GcDeleteObject
    <2> HIDE DEF t
    <2> QED BY <1>1, <1>2, <2>1, <2>2, <2>3, <2>4 DEF Findable, Proc
<1>7. CASE GcPurgeRow(w)
    <2>1. UNCHANGED store /\ s.pc = "purge"
        BY <1>7 DEF GcPurgeRow
    <2>2. CASE Fault
        BY <2>2, FaultCounts, FaultsExcuse
    <2>3. CASE cdn_objects' = cdn_objects \ {s.content}
        <3>1. PICK t : Goto(w, t) /\ t.pc # "purge"
            <4>1. [s EXCEPT !.pc = "delete", !.content = None].pc # "purge" /\ Idle.pc # "purge"
                BY <1>2 DEF ProcState, Idle
            <4> QED BY <1>7, <4>1 DEF GcPurgeRow
        <3>2. proc'[w] = t /\ \A q \in Proc \ {w} : proc'[q] = proc[q]
            BY <1>2, <3>1 DEF Goto, Inv0, TypeOK
        <3> QED BY <1>1, <1>2, <2>1, <2>3, <3>1, <3>2 DEF Findable, Proc
    <2> QED BY <1>7, <2>2, <2>3 DEF GcPurgeRow
<1> QED BY <1>4, <1>5, <1>6, <1>7

\* An object without its dedup row, which no collection would ever find, takes
\* a fault, a restart or an upload during a collection (store_bytes,
\* garbage_collect_orphaned_objects): no other interleaving leaves one behind.
THEOREM NoObjectLost == Spec => []NoLostObjects
<1>1. Init => Findable
    BY DEF Init, Findable
<1>2. ASSUME Inv0, Findable, [Next]_vars
      PROVE  Findable'
    <2>1. ASSUME NEW w \in Worker, Handle(w) \/ WorkerStep(w) \/ Disconnect(w) PROVE Findable'
        BY <1>2, <2>1, HandlersKeepFindable, StoreStepKeepsFindable, CollectorKeepsFindable
           DEF WorkerStep, Proc
    <2>2. CASE FetchBatch \/ MigrateRow
        <3>1. /\ UNCHANGED <<store, cdn_objects, restarts>> /\ exposed \subseteq exposed'
              /\ (UNCHANGED faults \/ faults' # 0)
            BY <1>2, <2>2, RisksAccumulate, FaultCounts DEF FetchBatch, MigrateRow, Fault, objects, bounds
        <3>2. proc[Migrator].pc # "record" /\ Migrator \in Proc /\ Migrator \notin Worker
            BY <2>2, PipelineAssumption DEF FetchBatch, MigrateRow, Proc
        <3>3. \E t : Goto(Migrator, t)
            <4>1. Goto(Migrator, proc[Migrator]) \/ proc' # proc
                BY <1>2, <3>2 DEF Goto, Inv0, TypeOK
            <4> QED BY <2>2, <4>1 DEF FetchBatch, MigrateRow
        <3> QED BY <1>2, <3>1, <3>2, <3>3, FaultsExcuse, MoverKeepsFindable
    <2>3. CASE StoreStep(Migrator)
        BY <1>2, <2>3, StoreStepKeepsFindable DEF Proc
    <2>4. CASE Restart
        <3>1. restarts' # 0
            BY <1>2, <2>4, PipelineAssumption DEF Restart, Inv0, TypeOK
        <3> QED BY <3>1, FaultsExcuse
    <2>5. CASE UNCHANGED vars
        BY <1>2, <2>5 DEF vars, Findable
    <2> QED BY <1>2, <2>1, <2>2, <2>3, <2>4, <2>5 DEF Next, MigratorStep
<1>3. Findable => NoLostObjects
    BY DEF Findable, NoLostObjects
<1>4. Init => Inv0
    BY InitEstablishesInv0
<1>5. Inv0 /\ [Next]_vars => Inv0'
    BY StepKeepsInv0
<1> QED BY <1>1, <1>2, <1>3, <1>4, <1>5, PTL DEF Spec
===============================================================================
