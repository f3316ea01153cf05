--------------------------- MODULE CdnPipelineProofs ---------------------------
(* Proofs about CdnPipeline, for every value of its constants. *)
EXTENDS CdnPipeline, TLAPS

StoreSteps == {"lookup", "put", "record"}

\* The fields a process relies on at each of its steps.
WellFormed(p, s) ==
    /\ s.pc \in StoreSteps =>
          /\ s.content \in Content
          /\ s.job \in {"create", "add", "patch", "rehost", "migrate"}
          /\ s.job \in {"patch", "rehost", "migrate"} => s.image \in Image
    /\ s.pc = "commit" => s.content \in Content /\ s.image \in Image
    /\ s.pc \in {"insert", "update", "finalize"} => s.url \in Url
    /\ s.pc \in {"update", "finalize"} => s.image \in Image
    /\ s.pc = "purge" => s.content \in garbage[p]
    /\ s.job = "migrate" <=> p = Migrator
    /\ p = Migrator => s.pc \in StoreSteps \cup {"fetch", "row", "done", "commit"}
    /\ p # Migrator => s.pc \notin {"fetch", "row", "done"}

Shape == \A p \in Proc : WellFormed(p, proc[p])

Inv0 == TypeOK /\ Shape

-----------------------------------------------------------------------------
(* Type correctness *)

\* A process that moves from one good state to another, with the collectors'
\* lists left alone, keeps the shape of all of them.
LEMMA GotoKeepsShape ==
    ASSUME Inv0, NEW p \in Proc, NEW s \in ProcState, Goto(p, s), WellFormed(p, s),
           UNCHANGED garbage
    PROVE  proc' \in [Proc -> ProcState] /\ Shape'
<1>1. proc' \in [Proc -> ProcState]
    BY DEF Inv0, TypeOK, Goto
<1>2. ASSUME NEW q \in Proc PROVE WellFormed(q, proc[q])'
    <2>1. CASE q = p
        <3>1. proc'[q] = s
            BY <2>1 DEF Inv0, TypeOK, Goto
        <3> QED BY <3>1, <2>1 DEF WellFormed
    <2>2. CASE q # p
        <3>1. proc'[q] = proc[q]
            BY <2>2 DEF Inv0, TypeOK, Goto
        <3>2. WellFormed(q, proc[q])
            BY DEF Inv0, Shape
        <3> QED BY <3>1, <3>2 DEF WellFormed
    <2> QED BY <2>1, <2>2
<1> QED BY <1>1, <1>2 DEF Shape

\* The two UPDATEs of the bookkeeping columns keep the table well typed and
\* touch nothing but the row they name.
LEMMA BookkeepingKeepsRows ==
    ASSUME TypeOK, NEW i \in Image, NEW c \in Url, SetMigrated(i, c) \/ SetBroken(i)
    PROVE  /\ images' \in [Image -> Row \cup {None}]
           /\ \A j \in Image : Exists(j)' <=> Exists(j)
           /\ \A j \in Image \ {i} : images'[j] = images[j]
           /\ Exists(i) => images'[i].url = images[i].url
<1>1. CASE ~Exists(i)
    BY <1>1 DEF TypeOK, SetMigrated, SetBroken, Exists
<1>2. ASSUME Exists(i), NEW r \in Row, r.url = images[i].url, images' = [images EXCEPT ![i] = r]
      PROVE  /\ images' \in [Image -> Row \cup {None}]
             /\ \A j \in Image : Exists(j)' <=> Exists(j)
             /\ \A j \in Image \ {i} : images'[j] = images[j]
             /\ images'[i].url = images[i].url
    BY <1>2, PipelineAssumption DEF TypeOK, Exists
<1>3. CASE Exists(i)
    <2> images[i] \in Row
        BY <1>3 DEF TypeOK, Exists
    <2>1. CASE SetMigrated(i, c)
        <3> DEFINE r == [images[i] EXCEPT !.cdn_url = c, !.cdn_status = "migrated"]
        <3>1. r \in Row /\ r.url = images[i].url
            BY DEF Row
        <3>2. images' = [images EXCEPT ![i] = r]
            BY <1>3, <2>1 DEF SetMigrated
        <3> QED BY <1>3, <3>1, <3>2, <1>2
    <2>2. CASE SetBroken(i)
        <3> DEFINE r == [images[i] EXCEPT !.cdn_status = "broken"]
        <3>1. r \in Row /\ r.url = images[i].url
            BY DEF Row
        <3>2. images' = [images EXCEPT ![i] = r]
            BY <1>3, <2>2 DEF SetBroken
        <3> QED BY <1>3, <3>1, <3>2, <1>2
    <2> QED BY <2>1, <2>2
<1> QED BY <1>1, <1>3

LEMMA ProcessTyped ==
    ASSUME Inv0, NEW p \in Proc
    PROVE  proc[p] \in ProcState /\ WellFormed(p, proc[p])
BY DEF Inv0, TypeOK, Shape

LEMMA IdleWellFormed ==
    ASSUME NEW w \in Worker
    PROVE  w \in Proc /\ Idle \in ProcState /\ WellFormed(w, Idle)
<1>1. w \in Proc /\ w # Migrator
    BY PipelineAssumption DEF Proc
<1>2. Idle \in ProcState
    BY DEF Idle, ProcState, Steps
<1>3. WellFormed(w, Idle)
    BY <1>1, PipelineAssumption DEF Idle, WellFormed, StoreSteps, Jobs
<1> QED BY <1>1, <1>2, <1>3

LEMMA MigratingWellFormed ==
    ASSUME NEW pc \in {"fetch", "row", "done"}
    PROVE  Migrator \in Proc /\ Migrating(pc) \in ProcState /\ WellFormed(Migrator, Migrating(pc))
BY PipelineAssumption DEF Migrating, Proc, ProcState, Steps, Jobs, WellFormed, StoreSteps

LEMMA NextJobWellFormed ==
    ASSUME NEW p \in Proc
    PROVE  NextJob(p) \in ProcState /\ WellFormed(p, NextJob(p))
BY IdleWellFormed, MigratingWellFormed DEF NextJob, Proc

\* What store_bytes hands its caller is well formed.
LEMMA StoredWellFormed ==
    ASSUME Inv0, NEW p \in Proc, proc[p].pc \in {"lookup", "record"}
    PROVE  /\ Stored(p, proc[p].content) \in ProcState
           /\ WellFormed(p, Stored(p, proc[p].content))
<1> DEFINE s == proc[p]
<1>1. s \in ProcState /\ WellFormed(p, s) /\ s.pc \in StoreSteps
    BY ProcessTyped DEF StoreSteps
<1>2. s.content \in Content /\ s.content \in Url
    BY <1>1 DEF WellFormed, Url
<1>3. CASE s.job \in {"create", "add"}
    <2>1. Stored(p, s.content) = [s EXCEPT !.pc = "insert", !.url = s.content, !.content = None]
        BY <1>3 DEF Stored
    <2> QED BY <1>1, <1>2, <1>3, <2>1 DEF ProcState, Steps, WellFormed, StoreSteps
<1>4. CASE s.job = "patch"
    <2>1. Stored(p, s.content) = [s EXCEPT !.pc = "update", !.url = s.content, !.content = None]
        BY <1>4 DEF Stored
    <2> QED BY <1>1, <1>2, <1>4, <2>1 DEF ProcState, Steps, WellFormed, StoreSteps
<1>5. CASE s.job \in {"rehost", "migrate"}
    <2>1. Stored(p, s.content) = [s EXCEPT !.pc = "commit"]
        BY <1>5 DEF Stored
    <2> QED BY <1>1, <1>2, <1>5, <2>1 DEF ProcState, Steps, WellFormed, StoreSteps
<1>6. s.job \in {"create", "add", "patch", "rehost", "migrate"}
    BY <1>1 DEF WellFormed
<1> QED BY <1>3, <1>4, <1>5, <1>6

\* Noting the risks of a step keeps the history typed.
LEMMA NoteRiskTyped ==
    ASSUME NoteRisk, exposed \in SUBSET Content, cdn_objects' \in SUBSET Content
    PROVE  exposed' \in SUBSET Content
BY DEF NoteRisk, AtRisk, Overlapping, HalfCollected, UsedAsUrl

LEMMA FaultsTyped ==
    ASSUME Inv0, Fault \/ UNCHANGED bounds
    PROVE  /\ requests' \in 0..MaxRequests /\ restarts' \in 0..MaxRestarts
           /\ faults' \in 0..MaxFaults
BY PipelineAssumption DEF Fault, bounds, Inv0, TypeOK

\* Clients' requests: what Submit puts into a worker is well formed.
LEMMA SubmitKeepsInv0 ==
    ASSUME Inv0, NEW w \in Worker, NEW j \in {"create", "add", "patch"},
           NEW i \in Image \cup {None}, NEW pc \in {"insert", "update"},
           i \in Image \/ (j # "patch" /\ pc = "insert"),
           Submit(w, j, i, pc), UNCHANGED garbage
    PROVE  proc' \in [Proc -> ProcState] /\ Shape'
<1>1. w \in Proc /\ w # Migrator
    BY IdleWellFormed, PipelineAssumption
<1>2. ASSUME NEW u \in Link,
             Goto(w, [pc |-> pc, job |-> j, image |-> i, url |-> u, content |-> None])
      PROVE  proc' \in [Proc -> ProcState] /\ Shape'
    <2> DEFINE s == [pc |-> pc, job |-> j, image |-> i, url |-> u, content |-> None]
    <2>1. s \in ProcState
        BY PipelineAssumption DEF ProcState, Steps, Jobs
    <2>2. WellFormed(w, s)
        BY <1>1, PipelineAssumption DEF WellFormed, StoreSteps
    <2> QED BY <1>1, <1>2, <2>1, <2>2, GotoKeepsShape
<1>3. ASSUME NEW h \in Content,
             Goto(w, [pc |-> "lookup", job |-> j, image |-> i, url |-> None, content |-> h])
      PROVE  proc' \in [Proc -> ProcState] /\ Shape'
    <2> DEFINE s == [pc |-> "lookup", job |-> j, image |-> i, url |-> None, content |-> h]
    <2>1. s \in ProcState
        BY PipelineAssumption DEF ProcState, Steps, Jobs
    <2>2. WellFormed(w, s)
        BY <1>1, PipelineAssumption DEF WellFormed, StoreSteps
    <2> QED BY <1>1, <1>3, <2>1, <2>2, GotoKeepsShape
<1> QED BY <1>2, <1>3 DEF Submit

LEMMA RequestsKeepInv0 ==
    ASSUME Inv0, NEW w \in Worker,
           CreateImage(w) \/ UploadImage(w) \/ DiscordAdd(w) \/ PatchImage(w)
    PROVE  Inv0'
<1>1. UNCHANGED <<images, created, store, cdn_objects, configured, garbage,
                  batch, failed_this_run, excused, faults, restarts>> /\ NoteRisk /\ Request(w)
    BY DEF CreateImage, UploadImage, DiscordAdd, PatchImage, Request, table, objects, job
<1>2. proc' \in [Proc -> ProcState] /\ Shape'
    <2>1. CASE CreateImage(w)
        BY <2>1, <1>1, SubmitKeepsInv0 DEF CreateImage
    <2>2. CASE UploadImage(w)
        <3>1. PICK h \in Content :
                 Goto(w, [pc |-> "lookup", job |-> "add", image |-> None, url |-> None, content |-> h])
            BY <2>2 DEF UploadImage
        <3> DEFINE s == [pc |-> "lookup", job |-> "add", image |-> None, url |-> None, content |-> h]
        <3>2. s \in ProcState /\ w \in Proc /\ w # Migrator
            BY IdleWellFormed, PipelineAssumption DEF ProcState, Steps, Jobs
        <3>3. WellFormed(w, s)
            BY <3>2, PipelineAssumption DEF WellFormed, StoreSteps
        <3> QED BY <1>1, <3>1, <3>2, <3>3, GotoKeepsShape
    <2>3. CASE DiscordAdd(w)
        BY <2>3, <1>1, SubmitKeepsInv0 DEF DiscordAdd
    <2>4. CASE PatchImage(w)
        <3>1. PICK i \in created : Submit(w, "patch", i, "update")
            BY <2>4 DEF PatchImage
        <3>2. i \in Image
            BY <3>1 DEF Inv0, TypeOK
        <3> QED BY <1>1, <3>1, <3>2, SubmitKeepsInv0
    <2> QED BY <2>1, <2>2, <2>3, <2>4
<1>3. requests' \in 0..MaxRequests
    BY <1>1, PipelineAssumption DEF Request, Inv0, TypeOK
<1>4. exposed' \in SUBSET Content
    BY <1>1, NoteRiskTyped DEF Inv0, TypeOK
<1> QED BY <1>1, <1>2, <1>3, <1>4 DEF Inv0, TypeOK, Row, Url

\* A worker that ends keeps the shape of all processes.
LEMMA EndKeepsShape ==
    ASSUME Inv0, NEW w \in Worker, Goto(w, Idle), UNCHANGED garbage
    PROVE  proc' \in [Proc -> ProcState] /\ Shape'
BY IdleWellFormed, GotoKeepsShape

LEMMA RowTyped ==
    ASSUME NEW u \in Url
    PROVE  NewRow(u) \in Row
BY DEF NewRow, Row

LEMMA RowWritesKeepInv0 ==
    ASSUME Inv0, NEW w \in Worker, InsertRow(w) \/ UpdateRow(w)
    PROVE  Inv0'
<1> DEFINE s == proc[w]
<1>1. /\ UNCHANGED <<store, cdn_objects, configured, garbage, batch, failed_this_run,
                     requests, faults, restarts>>
      /\ NoteRisk
    BY DEF InsertRow, UpdateRow, objects, job, bounds
<1>2. s \in ProcState /\ WellFormed(w, s) /\ w \in Proc /\ w # Migrator
    BY ProcessTyped, PipelineAssumption DEF Proc
<1>3. /\ images' \in [Image -> Row \cup {None}]
      /\ created' \in SUBSET Image /\ excused' \in SUBSET Image
      /\ proc' \in [Proc -> ProcState] /\ Shape'
    <2>1. CASE Goto(w, Idle) /\ UNCHANGED <<images, created, excused>>
        BY <2>1, <1>1, EndKeepsShape DEF Inv0, TypeOK
    <2>2. ASSUME InsertRow(w), NEW i \in Image \ created,
                 images' = [images EXCEPT ![i] = NewRow(s.url)], created' = created \cup {i},
                 \/ Goto(w, [s EXCEPT !.pc = "finalize", !.image = i]) /\ UNCHANGED excused
                 \/ Goto(w, Idle) /\ excused' = excused \cup {i}
          PROVE  <1>3!:
        <3>1. s.pc = "insert" /\ s.url \in Url
            BY <1>2, <2>2 DEF InsertRow, WellFormed
        <3>2. images' \in [Image -> Row \cup {None}]
            BY <2>2, <3>1, RowTyped DEF Inv0, TypeOK
        <3>3. ASSUME Goto(w, [s EXCEPT !.pc = "finalize", !.image = i])
              PROVE  proc' \in [Proc -> ProcState] /\ Shape'
            <4> DEFINE t == [s EXCEPT !.pc = "finalize", !.image = i]
            <4>1. t \in ProcState
                BY <1>2 DEF ProcState, Steps
            <4>2. WellFormed(w, t)
                BY <1>2, <3>1 DEF WellFormed, StoreSteps, ProcState
            <4> QED BY <1>1, <1>2, <3>3, <4>1, <4>2, GotoKeepsShape
        <3>4. ASSUME Goto(w, Idle)
              PROVE  proc' \in [Proc -> ProcState] /\ Shape'
            BY <1>1, <3>4, EndKeepsShape
        <3> QED BY <2>2, <3>2, <3>3, <3>4 DEF Inv0, TypeOK
    <2>3. ASSUME UpdateRow(w), Exists(s.image),
                 images' = [images EXCEPT ![s.image] = Repointed(s.image, s.url)],
                 Goto(w, [s EXCEPT !.pc = "finalize"]), excused' = excused \ {s.image},
                 UNCHANGED created
          PROVE  <1>3!:
        <3>1. s.pc = "update" /\ s.url \in Url /\ s.image \in Image
            BY <1>2, <2>3 DEF UpdateRow, WellFormed
        <3>2. images[s.image] \in Row
            BY <2>3, <3>1 DEF Exists, Inv0, TypeOK
        <3>3. Repointed(s.image, s.url) \in Row
            BY <3>1, <3>2 DEF Repointed, Row
        <3>4. images' \in [Image -> Row \cup {None}]
            BY <2>3, <3>1, <3>3 DEF Inv0, TypeOK
        <3> DEFINE t == [s EXCEPT !.pc = "finalize"]
        <3>5. t \in ProcState
            BY <1>2 DEF ProcState, Steps
        <3>6. WellFormed(w, t)
            BY <1>2, <3>1 DEF WellFormed, StoreSteps, ProcState
        <3>7. proc' \in [Proc -> ProcState] /\ Shape'
            BY <1>1, <1>2, <2>3, <3>5, <3>6, GotoKeepsShape
        <3> QED BY <2>3, <3>4, <3>7 DEF Inv0, TypeOK
    <2>4. CASE InsertRow(w)
        BY <2>1, <2>2, <2>4 DEF InsertRow, table
    <2>5. CASE UpdateRow(w)
        BY <2>1, <2>3, <2>5 DEF UpdateRow
    <2> QED BY <2>4, <2>5
<1>4. exposed' \in SUBSET Content
    BY <1>1, NoteRiskTyped DEF Inv0, TypeOK
<1> QED BY <1>1, <1>3, <1>4 DEF Inv0, TypeOK

LEMMA FinalizeKeepsInv0 ==
    ASSUME Inv0, NEW w \in Worker, Finalize(w)
    PROVE  Inv0'
<1> DEFINE s == proc[w]
<1>1. /\ UNCHANGED <<created, store, cdn_objects, configured, garbage, batch, failed_this_run>>
      /\ NoteRisk
    BY DEF Finalize, objects, job
<1>2. s \in ProcState /\ WellFormed(w, s) /\ w \in Proc /\ w # Migrator
    BY ProcessTyped, PipelineAssumption DEF Proc
<1>3. s.pc = "finalize" /\ s.url \in Url /\ s.image \in Image
    BY <1>2 DEF Finalize, WellFormed
<1>4. proc' \in [Proc -> ProcState] /\ Shape'
    <2>1. ASSUME s.url \in DiscordUrl, Goto(w, Spawned(w))
          PROVE  proc' \in [Proc -> ProcState] /\ Shape'
        <3>1. CASE ~configured
            BY <1>1, <2>1, <3>1, EndKeepsShape DEF Spawned
        <3>2. CASE configured
            <4> DEFINE t == [s EXCEPT !.pc = "lookup", !.job = "rehost",
                                      !.url = None, !.content = ContentOf[s.url]]
            <4>1. Goto(w, t)
                BY <2>1, <3>2 DEF Spawned
            <4>2. ContentOf[s.url] \in Content
                BY <2>1, PipelineAssumption
            <4>3. t \in ProcState
                BY <1>2, <4>2 DEF ProcState, Steps, Jobs
            <4>4. WellFormed(w, t)
                BY <1>2, <1>3, <4>2 DEF WellFormed, StoreSteps, ProcState
            <4> QED BY <1>1, <1>2, <4>1, <4>3, <4>4, GotoKeepsShape
        <3> QED BY <3>1, <3>2
    <2>2. CASE Goto(w, Idle)
        BY <1>1, <2>2, EndKeepsShape
    <2> QED BY <2>1, <2>2 DEF Finalize
<1>5. images' \in [Image -> Row \cup {None}]
    <2>1. CASE SetMigrated(s.image, s.url)
        BY <2>1, <1>3, BookkeepingKeepsRows DEF Inv0
    <2>2. CASE UNCHANGED images
        BY <2>2 DEF Inv0, TypeOK
    <2> QED BY <2>1, <2>2 DEF Finalize
<1>6. requests' \in 0..MaxRequests /\ faults' \in 0..MaxFaults /\ restarts' \in 0..MaxRestarts
    <2>1. Fault \/ UNCHANGED bounds
        BY DEF Finalize
    <2> QED BY <2>1, FaultsTyped
<1>7. exposed' \in SUBSET Content /\ excused' \in SUBSET Image
    BY <1>1, <1>3, NoteRiskTyped DEF Finalize, Inv0, TypeOK
<1> QED BY <1>1, <1>4, <1>5, <1>6, <1>7 DEF Inv0, TypeOK

LEMMA DeletionsKeepInv0 ==
    ASSUME Inv0, NEW w \in Worker, DeleteImages(w) \/ CascadeDelete(w)
    PROVE  Inv0'
<1>1. /\ UNCHANGED <<created, store, cdn_objects, configured, garbage, batch,
                     failed_this_run, excused, faults, restarts>>
      /\ NoteRisk /\ Request(w)
    BY DEF DeleteImages, CascadeDelete, Request, objects, job
<1>2. images' \in [Image -> Row \cup {None}]
    <2>1. PICK S : images' = [i \in Image |-> IF i \in S THEN None ELSE images[i]]
        BY DEF DeleteImages, CascadeDelete
    <2> QED BY <2>1 DEF Inv0, TypeOK
<1>3. proc' \in [Proc -> ProcState] /\ Shape'
    <2>1. CASE DeleteImages(w)
        <3> DEFINE t == [Idle EXCEPT !.pc = "select", !.job = "gc"]
        <3>1. t \in ProcState /\ WellFormed(w, t)
            BY IdleWellFormed, PipelineAssumption DEF Idle, ProcState, Steps, Jobs, WellFormed, StoreSteps
        <3> QED BY <1>1, <2>1, <3>1, EndKeepsShape, IdleWellFormed, GotoKeepsShape DEF DeleteImages
    <2>2. CASE CascadeDelete(w)
        BY <1>1, <2>2 DEF CascadeDelete, Inv0, TypeOK, Shape, WellFormed
    <2> QED BY <2>1, <2>2
<1>4. requests' \in 0..MaxRequests
    BY <1>1, PipelineAssumption DEF Request, Inv0, TypeOK
<1>5. exposed' \in SUBSET Content
    BY <1>1, NoteRiskTyped DEF Inv0, TypeOK
<1> QED BY <1>1, <1>2, <1>3, <1>4, <1>5 DEF Inv0, TypeOK

LEMMA ImportKeepsInv0 ==
    ASSUME Inv0, NEW w \in Worker, ImportImages(w)
    PROVE  Inv0'
<1>1. /\ UNCHANGED <<store, cdn_objects, configured, proc, garbage, batch,
                     failed_this_run, faults, restarts>>
      /\ NoteRisk /\ Request(w)
    BY DEF ImportImages, Request, objects, job
<1>2. PICK S \in SUBSET (Image \ created) : \E f \in [S -> Link] :
        /\ images' = [i \in Image |-> IF i \in S THEN NewRow(f[i]) ELSE images[i]]
        /\ created' = created \cup S
        /\ excused' = excused \cup S
    BY DEF ImportImages
<1> PICK f \in [S -> Link] :
        /\ images' = [i \in Image |-> IF i \in S THEN NewRow(f[i]) ELSE images[i]]
        /\ created' = created \cup S
        /\ excused' = excused \cup S
    BY <1>2
<1>3. \A i \in S : NewRow(f[i]) \in Row
    BY PipelineAssumption, RowTyped
<1>4. images' \in [Image -> Row \cup {None}]
    BY <1>3 DEF Inv0, TypeOK
<1>5. Shape'
    BY <1>1 DEF Inv0, Shape, WellFormed
<1>6. requests' \in 0..MaxRequests
    BY <1>1, PipelineAssumption DEF Request, Inv0, TypeOK
<1>7. exposed' \in SUBSET Content
    BY <1>1, NoteRiskTyped DEF Inv0, TypeOK
<1> QED BY <1>1, <1>2, <1>4, <1>5, <1>6, <1>7 DEF Inv0, TypeOK

\* store_bytes and the UPDATE that follows it, by whichever process.
LEMMA StoreStepKeepsInv0 ==
    ASSUME Inv0, NEW p \in Proc, StoreStep(p)
    PROVE  Inv0'
<1> DEFINE s == proc[p]
<1>1. /\ UNCHANGED <<created, configured, garbage, batch, requests, restarts>>
      /\ NoteRisk
    BY DEF StoreStep, LookupHit, LookupMiss, PutObject, RecordObject, UploadFails, FetchFails,
           CommitRehost, UpdateFails, Fault, table, objects, job, bounds
<1>2. s \in ProcState /\ WellFormed(p, s)
    BY ProcessTyped
<1>3. s.pc \in StoreSteps \cup {"commit"}
    BY DEF StoreStep, LookupHit, LookupMiss, PutObject, RecordObject, UploadFails, FetchFails,
           CommitRehost, StoreSteps
<1>4. s.content \in Content
    BY <1>2, <1>3 DEF WellFormed
<1>5. ASSUME s.pc \in StoreSteps, NEW pc \in {"put", "record"}, Goto(p, [s EXCEPT !.pc = pc])
      PROVE  proc' \in [Proc -> ProcState] /\ Shape'
    <2> DEFINE t == [s EXCEPT !.pc = pc]
    <2>1. t \in ProcState
        BY <1>2 DEF ProcState, Steps
    <2>2. WellFormed(p, t)
        BY <1>2, <1>5 DEF WellFormed, StoreSteps, ProcState
    <2> QED BY <1>1, <1>5, <2>1, <2>2, GotoKeepsShape
<1>6. proc' \in [Proc -> ProcState] /\ Shape'
    <2>1. CASE Goto(p, Stored(p, s.content)) /\ s.pc \in {"lookup", "record"}
        BY <1>1, <2>1, StoredWellFormed, GotoKeepsShape
    <2>2. CASE LookupMiss(p)
        BY <1>5, <2>2 DEF LookupMiss, StoreSteps
    <2>3. CASE PutObject(p)
        BY <1>5, <2>3 DEF PutObject, StoreSteps
    <2>4. CASE Goto(p, NextJob(p))
        BY <1>1, <2>4, NextJobWellFormed, GotoKeepsShape
    <2> QED BY <2>1, <2>2, <2>3, <2>4 DEF StoreStep, LookupHit, RecordObject, UploadFails,
                                          FetchFails, CommitRehost
<1>7. images' \in [Image -> Row \cup {None}]
    <2>1. CASE UNCHANGED images
        BY <2>1 DEF Inv0, TypeOK
    <2>2. CASE SetBroken(s.image) /\ s.pc = "lookup" /\ s.job \in {"rehost", "migrate"}
        <3>1. s.image \in Image /\ s.content \in Url
            BY <1>2, <1>4, <2>2 DEF WellFormed, StoreSteps, Url
        <3> QED BY <2>2, <3>1, BookkeepingKeepsRows DEF Inv0
    <2>3. CASE SetMigrated(s.image, s.content) /\ s.pc = "commit"
        <3>1. s.image \in Image /\ s.content \in Url
            BY <1>2, <1>4, <2>3 DEF WellFormed, Url
        <3> QED BY <2>3, <3>1, BookkeepingKeepsRows DEF Inv0
    <2> QED BY <2>1, <2>2, <2>3 DEF StoreStep, LookupHit, LookupMiss, PutObject, RecordObject,
                                    UploadFails, FetchFails, CommitRehost, UpdateFails, table
<1>8. store' \in SUBSET Content /\ cdn_objects' \in SUBSET Content
    BY <1>4 DEF StoreStep, LookupHit, LookupMiss, PutObject, RecordObject, UploadFails,
                FetchFails, CommitRehost, objects, Inv0, TypeOK
<1>9. failed_this_run' \in SUBSET Image /\ excused' \in SUBSET Image
    <2>1. CASE UploadFails(p)
        <3>1. s.job \in {"rehost", "migrate"} => s.image \in Image
            BY <1>2, <2>1 DEF UploadFails, WellFormed, StoreSteps
        <3>2. p = Migrator => s.job = "migrate"
            BY <1>2 DEF WellFormed
        <3> QED BY <2>1, <3>1, <3>2 DEF UploadFails, Inv0, TypeOK
    <2>2. CASE UNCHANGED <<failed_this_run, excused>>
        BY <2>2 DEF Inv0, TypeOK
    <2>3. CASE (FetchFails(p) \/ CommitRehost(p)) /\ UpdateFails(p)
        <3>1. s.image \in Image
            BY <1>2, <2>3 DEF FetchFails, CommitRehost, WellFormed, StoreSteps
        <3> QED BY <2>3, <3>1 DEF FetchFails, CommitRehost, UpdateFails, job, Inv0, TypeOK
    <2> QED BY <2>1, <2>2, <2>3 DEF StoreStep, LookupHit, LookupMiss, PutObject, RecordObject,
                                    FetchFails, CommitRehost, job
<1>10. faults' \in 0..MaxFaults
    <2>1. Fault \/ UNCHANGED bounds
        BY DEF StoreStep, LookupHit, LookupMiss, PutObject, RecordObject, UploadFails,
               FetchFails, CommitRehost, UpdateFails
    <2> QED BY <2>1, FaultsTyped
<1>11. exposed' \in SUBSET Content
    BY <1>1, <1>8, NoteRiskTyped DEF Inv0, TypeOK
<1> QED BY <1>1, <1>6, <1>7, <1>8, <1>9, <1>10, <1>11 DEF Inv0, TypeOK

\* A collector's step changes its own list and nobody else's.
LEMMA CollectorKeepsShape ==
    ASSUME Inv0, NEW w \in Worker, NEW G \in SUBSET Content, NEW t \in ProcState,
           garbage' = [garbage EXCEPT ![w] = G], Goto(w, t),
           t.pc \in {"idle", "delete", "purge"}, t.pc = "purge" => t.content \in G,
           t.job # "migrate"
    PROVE  proc' \in [Proc -> ProcState] /\ Shape' /\ garbage' \in [Worker -> SUBSET Content]
<1>1. w \in Proc /\ w # Migrator
    BY PipelineAssumption DEF Proc
<1>2. proc' \in [Proc -> ProcState] /\ garbage' \in [Worker -> SUBSET Content]
    BY <1>1 DEF Inv0, TypeOK, Goto
<1>3. ASSUME NEW q \in Proc PROVE WellFormed(q, proc[q])'
    <2>1. CASE q = w
        <3>1. proc'[q] = t /\ garbage'[q] = G
            BY <1>1, <2>1 DEF Inv0, TypeOK, Goto
        <3> QED BY <1>1, <2>1, <3>1 DEF WellFormed, StoreSteps
    <2>2. CASE q # w
        <3>1. proc'[q] = proc[q] /\ (q \in Worker => garbage'[q] = garbage[q])
            BY <1>1, <2>2 DEF Inv0, TypeOK, Goto
        <3>2. WellFormed(q, proc[q])
            BY DEF Inv0, Shape
        <3>3. q \in Worker \/ (q = Migrator /\ proc[q].pc # "purge")
            BY <3>2 DEF Proc, WellFormed, StoreSteps
        <3> QED BY <3>1, <3>2, <3>3 DEF WellFormed
    <2> QED BY <2>1, <2>2
<1> QED BY <1>2, <1>3 DEF Shape

LEMMA CollectorKeepsInv0 ==
    ASSUME Inv0, NEW w \in Worker,
           GcSelect(w) \/ GcDeleteObject(w) \/ GcDeleteFails(w) \/ GcPurgeRow(w)
    PROVE  Inv0'
<1> DEFINE s == proc[w]
<1>1. /\ UNCHANGED <<images, created, configured, batch, failed_this_run, excused,
                     requests, restarts>>
      /\ NoteRisk
    BY DEF GcSelect, GcDeleteObject, GcDeleteFails, GcPurgeRow, Fault, table, job, bounds
<1>2. s \in ProcState /\ WellFormed(w, s) /\ w \in Proc /\ w # Migrator /\ s.job # "migrate"
    BY ProcessTyped, PipelineAssumption DEF Proc, WellFormed
<1>3. Idle \in ProcState /\ Idle.pc = "idle" /\ Idle.job # "migrate"
    BY IdleWellFormed, PipelineAssumption DEF Idle, Jobs
<1>4. /\ proc' \in [Proc -> ProcState] /\ Shape'
      /\ garbage' \in [Worker -> SUBSET Content]
    <2>1. CASE GcSelect(w)
        <3>1. CASE Goto(w, Idle) /\ UNCHANGED garbage
            BY <3>1, EndKeepsShape DEF Inv0, TypeOK
        <3>2. CASE garbage' = [garbage EXCEPT ![w] = Orphans] /\ Goto(w, Idle)
            <4>1. Orphans \in SUBSET Content
                BY DEF Orphans, Inv0, TypeOK
            <4> QED BY <1>3, <3>2, <4>1, CollectorKeepsShape
        <3>3. CASE /\ garbage' = [garbage EXCEPT ![w] = Orphans]
                   /\ Goto(w, [s EXCEPT !.pc = "delete"])
            <4>1. Orphans \in SUBSET Content
                BY DEF Orphans, Inv0, TypeOK
            <4>2. [s EXCEPT !.pc = "delete"] \in ProcState
                BY <1>2 DEF ProcState, Steps
            <4>3. [s EXCEPT !.pc = "delete"].job = s.job /\ [s EXCEPT !.pc = "delete"].pc = "delete"
                BY <1>2 DEF ProcState
            <4> HIDE DEF s
            <4> QED BY <1>2, <3>3, <4>1, <4>2, <4>3, CollectorKeepsShape
        <3> QED BY <2>1, <3>1, <3>2, <3>3 DEF GcSelect
    <2>2. CASE GcDeleteObject(w)
        <3>1. PICK h \in garbage[w] : Goto(w, [s EXCEPT !.pc = "purge", !.content = h])
            BY <2>2 DEF GcDeleteObject
        <3> DEFINE t == [s EXCEPT !.pc = "purge", !.content = h]
        <3>2. h \in Content /\ garbage[w] \in SUBSET Content
            BY <3>1 DEF Inv0, TypeOK
        <3>3. t \in ProcState /\ t.job = s.job /\ t.pc = "purge" /\ t.content = h
            BY <1>2, <3>2 DEF ProcState, Steps
        <3>4. garbage' = [garbage EXCEPT ![w] = garbage[w]]
            BY <2>2 DEF GcDeleteObject, Inv0, TypeOK
        <3> HIDE DEF t
        <3> QED BY <1>2, <3>1, <3>2, <3>3, <3>4, CollectorKeepsShape DEF t
    <2>3. CASE garbage' = [garbage EXCEPT ![w] = {}] /\ Goto(w, Idle)
        BY <1>3, <2>3, CollectorKeepsShape
    <2>4. CASE /\ garbage' = [garbage EXCEPT ![w] = garbage[w] \ {s.content}]
               /\ Goto(w, Idle)
        <3>1. garbage[w] \ {s.content} \in SUBSET Content
            BY DEF Inv0, TypeOK
        <3> QED BY <1>3, <2>4, <3>1, CollectorKeepsShape
    <2>5. CASE /\ garbage' = [garbage EXCEPT ![w] = garbage[w] \ {s.content}]
               /\ Goto(w, [s EXCEPT !.pc = "delete", !.content = None])
        <3> DEFINE t == [s EXCEPT !.pc = "delete", !.content = None]
        <3>1. garbage[w] \ {s.content} \in SUBSET Content
            BY DEF Inv0, TypeOK
        <3>2. t \in ProcState /\ t.job = s.job /\ t.pc = "delete"
            BY <1>2 DEF ProcState, Steps
        <3>3. Goto(w, t)
            BY <2>5
        <3> HIDE DEF t
        <3> QED BY <1>2, <2>5, <3>1, <3>2, <3>3, CollectorKeepsShape
    <2> QED BY <2>1, <2>2, <2>3, <2>4, <2>5 DEF GcDeleteFails, GcPurgeRow
<1>5. store' \in SUBSET Content /\ cdn_objects' \in SUBSET Content
    BY DEF GcSelect, GcDeleteObject, GcDeleteFails, GcPurgeRow, objects, Inv0, TypeOK
<1>6. faults' \in 0..MaxFaults
    <2>1. Fault \/ UNCHANGED bounds
        BY DEF GcSelect, GcDeleteObject, GcDeleteFails, GcPurgeRow
    <2> QED BY <2>1, FaultsTyped
<1>7. exposed' \in SUBSET Content
    BY <1>1, <1>5, NoteRiskTyped DEF Inv0, TypeOK
<1> QED BY <1>1, <1>4, <1>5, <1>6, <1>7 DEF Inv0, TypeOK

LEMMA DisconnectKeepsInv0 ==
    ASSUME Inv0, NEW w \in Worker, Disconnect(w)
    PROVE  Inv0'
<1> DEFINE s == proc[w]
<1>1. /\ UNCHANGED <<images, created, store, cdn_objects, configured, batch, failed_this_run>>
      /\ NoteRisk /\ Fault
    BY DEF Disconnect, table, objects, job
<1>2. /\ proc' \in [Proc -> ProcState] /\ Shape'
      /\ garbage' \in [Worker -> SUBSET Content]
    <2>1. Idle \in ProcState /\ Idle.pc = "idle" /\ Idle.job # "migrate"
        BY IdleWellFormed, PipelineAssumption DEF Idle, Jobs
    <2> QED BY <2>1, CollectorKeepsShape DEF Disconnect
<1>3. excused' \in SUBSET Image
    <2>1. s.pc = "finalize" => s.image \in Image
        BY IdleWellFormed, ProcessTyped DEF WellFormed
    <2> QED BY <2>1 DEF Disconnect, Inv0, TypeOK
<1>4. exposed' \in SUBSET Content
    BY <1>1, NoteRiskTyped DEF Inv0, TypeOK
<1> QED BY <1>1, <1>2, <1>3, <1>4, FaultsTyped DEF Inv0, TypeOK

LEMMA FetchBatchKeepsInv0 ==
    ASSUME Inv0, FetchBatch
    PROVE  Inv0'
<1>1. /\ UNCHANGED <<images, created, store, cdn_objects, configured, garbage,
                     failed_this_run, requests, restarts>>
      /\ NoteRisk
    BY DEF FetchBatch, Fault, table, objects, bounds
<1>2. batch' \in SUBSET [image: Image, url: Url]
    <2>1. ASSUME NEW S \in SUBSET Unmigrated, batch' = {[image |-> i, url |-> images[i].url] : i \in S}
          PROVE  batch' \in SUBSET [image: Image, url: Url]
        <3>1. \A i \in S : i \in Image /\ images[i] \in Row
            BY <2>1 DEF Unmigrated, Exists, Inv0, TypeOK
        <3>2. \A i \in S : images[i].url \in Url
            BY <3>1 DEF Row
        <3> QED BY <2>1, <3>1, <3>2
    <2> QED BY <2>1 DEF FetchBatch, Inv0, TypeOK
<1>3. proc' \in [Proc -> ProcState] /\ Shape'
    <2>1. PICK pc \in {"row", "done"} : Goto(Migrator, Migrating(pc))
        BY DEF FetchBatch
    <2> QED BY <1>1, <2>1, MigratingWellFormed, GotoKeepsShape
<1>4. faults' \in 0..MaxFaults
    <2>1. Fault \/ UNCHANGED bounds
        BY DEF FetchBatch
    <2> QED BY <2>1, FaultsTyped
<1>5. exposed' \in SUBSET Content /\ excused' \in SUBSET Image
    BY <1>1, NoteRiskTyped DEF FetchBatch, Unmigrated, Inv0, TypeOK
<1> QED BY <1>1, <1>2, <1>3, <1>4, <1>5 DEF Inv0, TypeOK

LEMMA MigrateRowKeepsInv0 ==
    ASSUME Inv0, MigrateRow
    PROVE  Inv0'
<1>1. /\ UNCHANGED <<created, store, cdn_objects, configured, garbage,
                     failed_this_run, excused, requests, restarts>>
      /\ NoteRisk
    BY DEF MigrateRow, Fault, objects, bounds
<1>2. batch' \in SUBSET [image: Image, url: Url]
    BY DEF MigrateRow, Inv0, TypeOK
<1>3. \A r \in batch : r.image \in Image /\ r.url \in Url
    BY DEF Inv0, TypeOK
<1>4. proc' \in [Proc -> ProcState] /\ Shape'
    <2>1. CASE Goto(Migrator, Migrating("fetch"))
        BY <1>1, <2>1, MigratingWellFormed, GotoKeepsShape
    <2>2. ASSUME NEW r \in batch, r.url \in DiscordUrl,
                 Goto(Migrator, [Migrating("lookup") EXCEPT
                                   !.image = r.image, !.content = ContentOf[r.url]])
          PROVE  proc' \in [Proc -> ProcState] /\ Shape'
        <3> DEFINE t == [Migrating("lookup") EXCEPT !.image = r.image, !.content = ContentOf[r.url]]
        <3>1. r.image \in Image /\ ContentOf[r.url] \in Content
            BY <1>3, <2>2, PipelineAssumption
        <3>2. t \in ProcState
            BY <3>1, PipelineAssumption DEF Migrating, ProcState, Steps, Jobs
        <3>3. WellFormed(Migrator, t)
            BY <3>1, PipelineAssumption DEF Migrating, WellFormed, StoreSteps
        <3>4. Migrator \in Proc
            BY DEF Proc
        <3> QED BY <1>1, <2>2, <3>2, <3>3, <3>4, GotoKeepsShape
    <2>3. CASE UNCHANGED proc
        BY <1>1, <2>3 DEF Inv0, TypeOK, Shape, WellFormed
    <2> QED BY <2>1, <2>2, <2>3 DEF MigrateRow
<1>5. images' \in [Image -> Row \cup {None}]
    <2>1. CASE UNCHANGED images
        BY <2>1 DEF Inv0, TypeOK
    <2>2. ASSUME NEW r \in batch, SetMigrated(r.image, r.url)
          PROVE  images' \in [Image -> Row \cup {None}]
        BY <1>3, <2>2, BookkeepingKeepsRows DEF Inv0
    <2> QED BY <2>1, <2>2 DEF MigrateRow
<1>6. faults' \in 0..MaxFaults
    <2>1. Fault \/ UNCHANGED bounds
        BY DEF MigrateRow
    <2> QED BY <2>1, FaultsTyped
<1>7. exposed' \in SUBSET Content
    BY <1>1, NoteRiskTyped DEF Inv0, TypeOK
<1> QED BY <1>1, <1>2, <1>4, <1>5, <1>6, <1>7 DEF Inv0, TypeOK

LEMMA RestartKeepsInv0 ==
    ASSUME Inv0, Restart
    PROVE  Inv0'
<1>1. configured' \in BOOLEAN
    BY PipelineAssumption DEF Restart
<1>2. ASSUME NEW p \in Proc
      PROVE  proc'[p] \in ProcState /\ WellFormed(p, proc[p])'
    <2>1. CASE p = Migrator
        <3>1. PICK pc \in {"fetch", "done"} : proc'[p] = Migrating(pc)
            BY <2>1 DEF Restart, Proc
        <3>2. Migrating(pc) \in ProcState /\ WellFormed(Migrator, Migrating(pc))
            BY MigratingWellFormed
        <3>3. proc'[p].pc # "purge"
            BY <3>1 DEF Migrating
        <3> QED BY <2>1, <3>1, <3>2, <3>3 DEF WellFormed
    <2>2. CASE p # Migrator
        <3>1. proc'[p] = Idle /\ p \in Worker
            BY <2>2 DEF Restart, Proc
        <3>2. Idle \in ProcState /\ WellFormed(p, Idle) /\ Idle.pc # "purge"
            BY <3>1, IdleWellFormed DEF Idle
        <3> QED BY <3>1, <3>2 DEF WellFormed
    <2> QED BY <2>1, <2>2
<1>3. proc' \in [Proc -> ProcState] /\ Shape'
    <2>1. proc' = [p \in Proc |-> proc'[p]]
        BY DEF Restart
    <2> QED BY <1>2, <2>1 DEF Shape
<1>4. restarts' \in 0..MaxRestarts
    BY PipelineAssumption DEF Restart, Inv0, TypeOK
<1>5. exposed' \in SUBSET Content
    BY NoteRiskTyped DEF Restart, objects, Inv0, TypeOK
<1>6. /\ UNCHANGED <<images, created, store, cdn_objects, requests, faults>>
      /\ garbage' = [w \in Worker |-> {}] /\ batch' = {} /\ failed_this_run' = {}
      /\ excused' \in SUBSET Image
    BY DEF Restart, table, objects
<1> QED BY <1>1, <1>3, <1>4, <1>5, <1>6 DEF Inv0, TypeOK

LEMMA InitEstablishesInv0 ==
    ASSUME Init
    PROVE  Inv0
<1>1. configured \in BOOLEAN
    BY PipelineAssumption DEF Init
<1>2. ASSUME NEW p \in Proc
      PROVE  proc[p] \in ProcState /\ WellFormed(p, proc[p])
    <2>1. CASE p = Migrator
        <3>1. PICK pc \in {"fetch", "done"} : proc[p] = Migrating(pc)
            BY <2>1 DEF Init, Proc
        <3> QED BY <2>1, <3>1, MigratingWellFormed
    <2>2. CASE p # Migrator
        BY <2>2, IdleWellFormed DEF Init, Proc
    <2> QED BY <2>1, <2>2
<1>3. proc \in [Proc -> ProcState] /\ Shape
    <2>1. proc = [p \in Proc |-> proc[p]]
        BY DEF Init
    <2> QED BY <1>2, <2>1 DEF Shape
<1>4. 0 \in 0..MaxRequests /\ 0 \in 0..MaxFaults /\ 0 \in 0..MaxRestarts
    BY PipelineAssumption
<1> QED BY <1>1, <1>3, <1>4 DEF Init, Inv0, TypeOK

\* Every process always holds what its next step uses, and every variable
\* keeps its type: no interleaving of handlers, tasks, the migration job and
\* restarts leaves one of them at a step whose input is missing.
THEOREM StepKeepsInv0 ==
    ASSUME Inv0, [Next]_vars
    PROVE  Inv0'
<1>1. CASE UNCHANGED vars
    BY <1>1 DEF vars, Inv0, TypeOK, Shape, WellFormed
<1>2. ASSUME NEW w \in Worker, Handle(w) PROVE Inv0'
    BY <1>2, RequestsKeepInv0, DeletionsKeepInv0, ImportKeepsInv0 DEF Handle
<1>3. ASSUME NEW w \in Worker, WorkerStep(w) PROVE Inv0'
    BY <1>3, IdleWellFormed, RowWritesKeepInv0, FinalizeKeepsInv0, CollectorKeepsInv0,
       StoreStepKeepsInv0 DEF WorkerStep
<1>4. CASE MigratorStep
    BY <1>4, FetchBatchKeepsInv0, MigrateRowKeepsInv0, StoreStepKeepsInv0 DEF MigratorStep, Proc
<1>5. CASE Restart
    BY <1>5, RestartKeepsInv0
<1>6. ASSUME NEW w \in Worker, Disconnect(w) PROVE Inv0'
    BY <1>6, DisconnectKeepsInv0
<1> QED BY <1>1, <1>2, <1>3, <1>4, <1>5, <1>6 DEF Next

\* Spec keeps the types of all its variables.
THEOREM TypeCorrect == Spec => []TypeOK
<1>1. Init => Inv0
    BY InitEstablishesInv0
<1>2. Inv0 /\ [Next]_vars => Inv0'
    BY StepKeepsInv0
<1>3. Inv0 => TypeOK
    BY DEF Inv0
<1> QED BY <1>1, <1>2, <1>3, PTL DEF Spec
===============================================================================
