------------------------------- MODULE SendsProofs -------------------------------
(***************************************************************************)
(* Proofs about Sends: how far reports that race can exceed the Picker's    *)
(* limits, and that a draw whose reads still hold repeats nothing recent.   *)
(***************************************************************************)
EXTENDS LibraryProofs, SequenceTheorems

-----------------------------------------------------------------------------
(* Types *)

SendRow == [user: User, bucket: Bucket \cup {None}, image: Image \cup {None},
            visibility: {"picker", "draw"}, at: Nat]

Send == [pc: {"idle", "count", "record", "find", "list", "recent", "choose"},
         user: User \cup {None}, bucket: Bucket \cup {None}, image: Image \cup {None},
         names: Seq(Name), buckets: SUBSET Bucket, eligible: SUBSET (Bucket \X Image),
         count: Nat, recent: SUBSET Image]

\* What a send holds at each of its steps.
Filled(p) ==
    /\ p.pc # "idle" => p.user \in User
    /\ p.pc \in {"count", "record"} => p.bucket \in Bucket /\ p.image \in Image
    /\ p.pc = "list" => p.bucket \in Bucket
    /\ p.pc \in {"find", "list"} => p.names # <<>>

HistoryOK == history \in Seq(SendRow)
SendersOK == sender \in [Sender -> Send] /\ \A s \in Sender : Filled(sender[s])
Typed     == HistoryOK /\ SendersOK /\ now \in Nat

LEMMA RestingIsSet == Resting \in Send /\ Filled(Resting)
BY DEF Resting, Send, Filled

LEMMA ProceedKeeps ==
    ASSUME SendersOK, NEW s \in Sender, NEW p \in Send, Filled(p), Proceed(s, p)
    PROVE  SendersOK'
<1>1. sender' \in [Sender -> Send] /\ sender'[s] = p /\ \A r \in Sender \ {s} : sender'[r] = sender[r]
  BY DEF SendersOK, Proceed
<1> QED
  BY <1>1 DEF SendersOK

LEMMA RestKeeps == ASSUME SendersOK, NEW s \in Sender, Rest(s) PROVE SendersOK'
BY RestingIsSet, ProceedKeeps DEF Rest

\* A row recorded names the user, the bucket and the image of its send.
LEMMA RecordKeeps ==
    ASSUME Typed, NEW s, NEW u \in User, NEW b \in Bucket, NEW i \in Image,
           NEW v \in {"picker", "draw"}, Record(s, u, b, i, v)
    PROVE  HistoryOK'
<1>1. [user |-> u, bucket |-> b, image |-> i, visibility |-> v, at |-> now] \in SendRow
  BY DEF SendRow, Typed
<1> QED
  BY <1>1 DEF Record, Typed, HistoryOK

\* Deletions in the library change rows in place.
Unlinked(k) ==
    [history[k] EXCEPT !.bucket = IF @ # None /\ buckets'[@] = Gone THEN None ELSE @,
                       !.image  = IF @ # None /\ images'[@] = Gone THEN None ELSE @]

LEMMA RowUnlinked ==
    ASSUME Typed, NEW k \in DOMAIN history
    PROVE  /\ Unlinked(k) \in SendRow
           /\ Unlinked(k).user = history[k].user /\ Unlinked(k).at = history[k].at
           /\ Unlinked(k).visibility = history[k].visibility
           /\ Unlinked(k).image \in {history[k].image, None}
<1>1. history[k] \in SendRow
  BY DEF Typed, HistoryOK
<1> DEFINE b == IF history[k].bucket # None /\ buckets'[history[k].bucket] = Gone THEN None ELSE history[k].bucket
           i == IF history[k].image # None /\ images'[history[k].image] = Gone THEN None ELSE history[k].image
<1>2. b \in Bucket \cup {None} /\ i \in Image \cup {None} /\ i \in {history[k].image, None}
  BY <1>1 DEF SendRow
<1>3. Unlinked(k) = [history[k] EXCEPT !.bucket = b, !.image = i]
  BY <1>1 DEF Unlinked, SendRow
<1> HIDE DEF b, i
<1> QED
  BY <1>1, <1>2, <1>3 DEF SendRow

LEMMA LibraryStepRows ==
    ASSUME Typed, LibraryStep
    PROVE  /\ HistoryOK' /\ DOMAIN history' = DOMAIN history /\ UNCHANGED <<now, sender>>
           /\ \A k \in DOMAIN history : /\ history'[k].user = history[k].user
                                        /\ history'[k].at = history[k].at
                                        /\ history'[k].visibility = history[k].visibility
                                        /\ history'[k].image \in {history[k].image, None}
<1>1. history' = [k \in DOMAIN history |-> Unlinked(k)] /\ UNCHANGED <<now, sender>>
  BY DEF LibraryStep, Unlinked
<1>2. Len(history) \in Nat /\ DOMAIN history = 1..Len(history)
  BY LenProperties DEF Typed, HistoryOK
<1>3. \A k \in DOMAIN history : history'[k] = Unlinked(k)
  BY <1>1
<1>4. history' \in [1..Len(history) -> SendRow]
  BY <1>1, <1>2, RowUnlinked
<1>5. history' \in Seq(SendRow)
  BY <1>2, <1>4, SeqDef
<1>6. DOMAIN history' = DOMAIN history
  BY <1>1
<1> QED
  BY <1>1, <1>3, <1>5, <1>6, RowUnlinked DEF HistoryOK

LEMMA EligibleTyped ==
    ASSUME NEW u, NEW b \in Bucket
    PROVE  /\ EligibleIn(u, b) \in SUBSET (Bucket \X Image)
           /\ \A c \in EligibleIn(u, b) : c[1] = b /\ images[c[2]].bucket = b
BY DEF EligibleIn, Listed, Images

LEMMA RecentTyped ==
    ASSUME Typed, NEW u, NEW from, NEW n
    PROVE  RecentImages(u, from, n) \in SUBSET Image
<1>1. \A k \in DOMAIN history : history[k].image # None => history[k].image \in Image
  <2>1. history \in Seq(SendRow) /\ DOMAIN history = 1..Len(history)
    BY LenProperties DEF Typed, HistoryOK
  <2>2. \A k \in DOMAIN history : history[k] \in SendRow
    BY <2>1, ElementOfSeq
  <2> QED
    BY <2>2 DEF SendRow
<1> QED
  BY <1>1 DEF RecentImages, SendsBy

LEMMA TypedKept == Inv /\ Typed /\ [SendsNext]_allVars => Typed'
<1> SUFFICES ASSUME Inv, Typed, [SendsNext]_allVars PROVE Typed'
  OBVIOUS
<1>0. SendersOK /\ now \in Nat /\ \A s \in Sender : sender[s] \in Send /\ Filled(sender[s])
  BY DEF Typed, SendersOK
<1>1. CASE LibraryStep
  BY <1>1, LibraryStepRows DEF Typed, SendersOK
<1>2. CASE Tick
  BY <1>2 DEF Tick, Typed, HistoryOK, SendersOK
<1>3. ASSUME NEW s \in Sender, PickDebounce(s) PROVE Typed'
  <2>1. PICK u \in User, i \in Images :
          Proceed(s, [Resting EXCEPT !.pc = "count", !.user = u, !.image = i, !.bucket = images[i].bucket])
    BY <1>3 DEF PickDebounce
  <2> DEFINE b == images[i].bucket
             p == [Resting EXCEPT !.pc = "count", !.user = u, !.image = i, !.bucket = b]
  <2>2. i \in Image /\ b \in Bucket
    BY StoredRows DEF Inv, Images, ImageRow
  <2>3. Proceed(s, p)
    BY <2>1
  <2> HIDE DEF b
  <2>4. p \in Send /\ Filled(p)
    <3>1. p \in Send
      BY <2>2, RestingIsSet DEF Send
    <3>2. p.pc = "count" /\ p.user = u /\ p.bucket = b /\ p.image = i
      BY RestingIsSet DEF Send
    <3> QED
      BY <2>2, <3>1, <3>2 DEF Filled
  <2> HIDE DEF p
  <2>5. SendersOK'
    BY <1>0, <2>3, <2>4, ProceedKeeps
  <2> QED
    BY <1>3, <2>5 DEF PickDebounce, Typed, HistoryOK
<1>4. ASSUME NEW s \in Sender, PickCount(s) PROVE Typed'
  <2>1. [sender[s] EXCEPT !.pc = "record"] \in Send /\ Filled([sender[s] EXCEPT !.pc = "record"])
    BY <1>0, <1>4 DEF PickCount, Steps, Send, Filled
  <2>2. SendersOK'
    BY <1>0, <1>4, <2>1, ProceedKeeps, RestKeeps DEF PickCount
  <2> QED
    BY <1>4, <2>2 DEF PickCount, Typed, HistoryOK
<1>5. ASSUME NEW s \in Sender, PickRecord(s) PROVE Typed'
  <2>1. sender[s].user \in User /\ sender[s].bucket \in Bucket /\ sender[s].image \in Image
    BY <1>0, <1>5 DEF PickRecord, Steps, Filled
  <2>2. HistoryOK'
    BY <1>5, <2>1, RecordKeeps DEF PickRecord
  <2>3. SendersOK' /\ UNCHANGED now
    BY <1>0, <1>5, RestKeeps DEF PickRecord
  <2> QED
    BY <1>0, <2>2, <2>3 DEF Typed
<1>6. ASSUME NEW s \in Sender, DrawStart(s) PROVE Typed'
  <2>1. PICK u \in User, names \in Draws :
          Proceed(s, [Resting EXCEPT !.pc = "find", !.user = u, !.names = names])
    BY <1>6 DEF DrawStart
  <2> DEFINE p == [Resting EXCEPT !.pc = "find", !.user = u, !.names = names]
  <2>2. p \in Send /\ Filled(p)
    BY SendsAssumption DEF Resting, Send, Filled
  <2> HIDE DEF p
  <2>3. SendersOK'
    BY <1>0, <2>1, <2>2, ProceedKeeps DEF p
  <2> QED
    BY <1>6, <2>3 DEF DrawStart, Typed, HistoryOK
<1>7. ASSUME NEW s \in Sender, DrawFind(s) PROVE Typed'
  <2>1. ASSUME NEW b \in Accessible(sender[s].user, Head(sender[s].names)),
               Proceed(s, [sender[s] EXCEPT !.pc = "list", !.bucket = b])
        PROVE  SendersOK'
    <3> DEFINE p == [sender[s] EXCEPT !.pc = "list", !.bucket = b]
    <3>1. b \in Bucket
      BY DEF Accessible, Named, OwnBuckets
    <3>2. p \in Send /\ Filled(p)
      BY <1>0, <1>7, <3>1 DEF DrawFind, Steps, Send, Filled
    <3> HIDE DEF p
    <3> QED
      BY <1>0, <2>1, <3>2, ProceedKeeps DEF p
  <2>2. SendersOK'
    BY <1>0, <1>7, <2>1, RestKeeps DEF DrawFind
  <2> QED
    BY <1>7, <2>2 DEF DrawFind, Typed, HistoryOK
<1>8. ASSUME NEW s \in Sender, DrawList(s) PROVE Typed'
  <2> DEFINE q     == sender[s]
             more  == EligibleIn(q.user, q.bucket)
             names == Tail(q.names)
             pc    == IF names = <<>> THEN "recent" ELSE "find"
             count == q.count + Cardinality(more)
             p     == [q EXCEPT !.pc = pc, !.names = names, !.bucket = None, !.buckets = @ \cup {q.bucket},
                                !.eligible = @ \cup more, !.count = count]
  <2>1. q \in Send /\ q.user \in User /\ q.bucket \in Bucket /\ q.names # <<>> /\ q.pc = "list"
    BY <1>0, <1>8 DEF DrawList, Steps, Filled
  <2>2. names \in Seq(Name)
    BY <2>1 DEF Send
  <2>3. more \in SUBSET (Bucket \X Image) /\ IsFiniteSet(more)
    BY <2>1, EligibleTyped, FS_Product, FS_Subset, SendsAssumption
  <2>4. count \in Nat
    <3>1. Cardinality(more) \in Nat
      BY <2>3, FS_CardinalityType
    <3> QED
      BY <2>1, <3>1 DEF Send
  <2>5. Proceed(s, p)
    BY <1>8, <2>1 DEF DrawList, Send
  <2> HIDE DEF more, names, count
  <2>6. p \in Send
    BY <2>1, <2>2, <2>3, <2>4 DEF Send
  <2>7. Filled(p)
    BY <2>1 DEF Send, Filled
  <2> HIDE DEF p
  <2>8. SendersOK'
    BY <1>0, <2>5, <2>6, <2>7, ProceedKeeps
  <2> QED
    BY <1>8, <2>8 DEF DrawList, Typed, HistoryOK
<1>9. ASSUME NEW s \in Sender, DrawRecent(s) PROVE Typed'
  <2> DEFINE recent == RecentImages(sender[s].user, sender[s].buckets, RecentLimit(sender[s].count))
             p      == [sender[s] EXCEPT !.pc = "choose", !.recent = recent]
  <2>1. recent \in SUBSET Image
    BY RecentTyped
  <2>2. Rest(s) \/ Proceed(s, p)
    BY <1>9 DEF DrawRecent
  <2> HIDE DEF recent
  <2>3. p \in Send /\ Filled(p)
    BY <1>0, <1>9, <2>1 DEF DrawRecent, Steps, Send, Filled
  <2> HIDE DEF p
  <2>4. SendersOK'
    BY <1>0, <2>2, <2>3, ProceedKeeps, RestKeeps
  <2> QED
    BY <1>9, <2>4 DEF DrawRecent, Typed, HistoryOK
<1>10. ASSUME NEW s \in Sender, DrawRecord(s) PROVE Typed'
  <2>1. PICK c \in Candidates(sender[s]) : Record(s, sender[s].user, c[1], c[2], "draw")
    BY <1>10 DEF DrawRecord
  <2>2. c \in sender[s].eligible
    BY DEF Candidates
  <2>3. sender[s].user \in User /\ c[1] \in Bucket /\ c[2] \in Image
    BY <1>0, <1>10, <2>2 DEF DrawRecord, Steps, Filled, Send
  <2>4. HistoryOK'
    BY <2>1, <2>3, RecordKeeps
  <2>5. SendersOK' /\ UNCHANGED now
    BY <1>0, <1>10, RestKeeps DEF DrawRecord
  <2> QED
    BY <1>0, <2>4, <2>5 DEF Typed
<1>11. CASE UNCHANGED allVars
  BY <1>11 DEF allVars, Typed, HistoryOK, SendersOK
<1> QED
  BY <1>1, <1>2, <1>3, <1>4, <1>5, <1>6, <1>7, <1>8, <1>9, <1>10, <1>11 DEF SendsNext

LEMMA TypedHolds == SendsInit => Typed
BY RestingIsSet, EmptySeq DEF SendsInit, Typed, HistoryOK, SendersOK

\* Every row of the history, and what each send holds between its queries, is
\* well-formed (send_history's columns, record_image_send, select_random_from_buckets).
THEOREM TypedAlways == SendsSpec => []Typed
BY TypedHolds, TypedKept, InvAlways, PTL DEF SendsSpec

-----------------------------------------------------------------------------
(* The Picker's limits *)

\* The rows the rate limit counts, and the requests it let pass that are yet to add theirs.
Counted(u) == {k \in SendsBy(u) : history[k].visibility = "picker" /\ history[k].at + PickerWindow > now}
Passing(u) == {s \in Sender : sender[s].pc = "record" /\ sender[s].user = u}

\* The same for the debounce.
Reports(u, i)  == {k \in SendsBy(u) : /\ history[k].image = i /\ history[k].visibility = "picker"
                                      /\ history[k].at + DebounceWindow > now}
InFlight(u, i) == {s \in Sender : /\ sender[s].pc \in {"count", "record"}
                                  /\ sender[s].user = u /\ sender[s].image = i}

Paced ==
    \A u \in User :
        /\ Cardinality(Counted(u)) + Cardinality(Passing(u)) <= PickerMax + Cardinality(Sender) - 1
        /\ \A i \in Image : Cardinality(Reports(u, i)) + Cardinality(InFlight(u, i)) <= Cardinality(Sender)

LEMMA Sized ==
    ASSUME Typed
    PROVE  /\ \A S \in SUBSET DOMAIN history : IsFiniteSet(S) /\ Cardinality(S) \in Nat
           /\ \A S \in SUBSET Sender : /\ IsFiniteSet(S) /\ Cardinality(S) \in Nat
                                       /\ Cardinality(S) <= Cardinality(Sender)
           /\ IsFiniteSet(Sender) /\ Cardinality(Sender) \in Nat
           /\ DOMAIN history = 1..Len(history) /\ Len(history) \in Nat
           /\ \A k \in DOMAIN history : history[k] \in SendRow
<1>1. DOMAIN history = 1..Len(history) /\ Len(history) \in Nat
  BY LenProperties DEF Typed, HistoryOK
<1>2. IsFiniteSet(DOMAIN history)
  BY <1>1, FS_Interval
<1>3. \A S \in SUBSET DOMAIN history : IsFiniteSet(S) /\ Cardinality(S) \in Nat
  BY <1>2, FS_Subset, FS_CardinalityType
<1>4. IsFiniteSet(Sender) /\ Cardinality(Sender) \in Nat
  BY SendsAssumption, FS_CardinalityType
<1>5. \A S \in SUBSET Sender : /\ IsFiniteSet(S) /\ Cardinality(S) \in Nat
                               /\ Cardinality(S) <= Cardinality(Sender)
  BY <1>4, FS_Subset, FS_CardinalityType
<1>6. \A k \in DOMAIN history : history[k] \in SendRow
  BY <1>1, ElementOfSeq DEF Typed, HistoryOK
<1> QED
  BY <1>1, <1>3, <1>4, <1>5, <1>6

LEMMA SetsOf ==
    ASSUME NEW u, NEW i
    PROVE  /\ Counted(u) \in SUBSET DOMAIN history /\ Reports(u, i) \in SUBSET DOMAIN history
           /\ Passing(u) \in SUBSET Sender /\ InFlight(u, i) \in SUBSET Sender
BY DEF Counted, Reports, Passing, InFlight, SendsBy

\* Fewer rows in the windows and fewer requests in flight stay within the limits.
LEMMA Fewer ==
    ASSUME Typed, Paced,
           \A u \in User : Counted(u)' \subseteq Counted(u) /\ Passing(u)' \subseteq Passing(u),
           \A u \in User, i \in Image :
               Reports(u, i)' \subseteq Reports(u, i) /\ InFlight(u, i)' \subseteq InFlight(u, i)
    PROVE  Paced'
<1>1. ASSUME NEW S, NEW T, T \subseteq S, S \in SUBSET DOMAIN history \/ S \in SUBSET Sender
      PROVE  Cardinality(T) \in Nat /\ Cardinality(S) \in Nat /\ Cardinality(T) <= Cardinality(S)
  <2>1. IsFiniteSet(S) /\ Cardinality(S) \in Nat
    BY <1>1, Sized
  <2> QED
    BY <1>1, <2>1, FS_Subset, FS_CardinalityType
<1>2. ASSUME NEW u \in User
      PROVE  Cardinality(Counted(u)') + Cardinality(Passing(u)') <= PickerMax + Cardinality(Sender) - 1
  <2>1. /\ Cardinality(Counted(u)') \in Nat /\ Cardinality(Counted(u)) \in Nat
        /\ Cardinality(Counted(u)') <= Cardinality(Counted(u))
    BY <1>1, SetsOf
  <2>2. /\ Cardinality(Passing(u)') \in Nat /\ Cardinality(Passing(u)) \in Nat
        /\ Cardinality(Passing(u)') <= Cardinality(Passing(u))
    BY <1>1, SetsOf
  <2> QED
    BY <2>1, <2>2, Sized, SendsAssumption DEF Paced
<1>3. ASSUME NEW u \in User, NEW i \in Image
      PROVE  Cardinality(Reports(u, i)') + Cardinality(InFlight(u, i)') <= Cardinality(Sender)
  <2>1. /\ Cardinality(Reports(u, i)') \in Nat /\ Cardinality(Reports(u, i)) \in Nat
        /\ Cardinality(Reports(u, i)') <= Cardinality(Reports(u, i))
    BY <1>1, SetsOf
  <2>2. /\ Cardinality(InFlight(u, i)') \in Nat /\ Cardinality(InFlight(u, i)) \in Nat
        /\ Cardinality(InFlight(u, i)') <= Cardinality(InFlight(u, i))
    BY <1>1, SetsOf
  <2> QED
    BY <2>1, <2>2, Sized DEF Paced
<1> QED
  BY <1>2, <1>3 DEF Paced

\* What recording adds.
LEMMA Recorded ==
    ASSUME Typed, NEW s, NEW u \in User, NEW b \in Bucket, NEW i \in Image,
           NEW v \in {"picker", "draw"}, Record(s, u, b, i, v)
    PROVE  /\ DOMAIN history \subseteq DOMAIN history'
           /\ DOMAIN history' \subseteq DOMAIN history \cup {Len(history) + 1}
           /\ \A k \in DOMAIN history : history'[k] = history[k]
           /\ Len(history) + 1 \notin DOMAIN history
           /\ \A k \in DOMAIN history' : k \notin DOMAIN history =>
                 /\ history'[k].user = u /\ history'[k].image = i /\ history'[k].visibility = v
<1> DEFINE row == [user |-> u, bucket |-> b, image |-> i, visibility |-> v, at |-> now]
<1>1. DOMAIN history = 1..Len(history) /\ Len(history) \in Nat /\ history \in Seq(SendRow)
  BY Sized DEF Typed, HistoryOK
<1>2. row \in SendRow
  BY DEF SendRow, Typed
<1>3. CASE history' = history
  BY <1>1, <1>3
<1>4. CASE history' = Append(history, row)
  <2> HIDE DEF row
  <2>1. /\ DOMAIN history' = 1..(Len(history) + 1) /\ history'[Len(history) + 1] = row
        /\ \A k \in 1..Len(history) : history'[k] = history[k]
    BY <1>1, <1>2, <1>4
  <2>2. row.user = u /\ row.image = i /\ row.visibility = v
    BY DEF row
  <2>3. \A k \in DOMAIN history' : k \notin DOMAIN history => k = Len(history) + 1
    BY <1>1, <2>1
  <2> QED
    BY <1>1, <2>1, <2>2, <2>3
<1> QED
  BY <1>3, <1>4 DEF Record

\* A send's step leaves the other sends.
LEMMA Another ==
    ASSUME Typed, NEW s \in Sender, NEW p, Proceed(s, p)
    PROVE  sender'[s] = p /\ \A r \in Sender \ {s} : sender'[r] = sender[r]
BY DEF Typed, SendersOK, Proceed

\* Steps that record nothing and take no request further towards a record.
LEMMA PacedAside ==
    ASSUME Typed, Paced, UNCHANGED <<history, now>>, NEW s \in Sender, NEW p, Proceed(s, p),
           \/ p.pc \notin {"count", "record"}
           \/ sender[s].pc = "record" /\ p = sender[s]
    PROVE  Paced'
<1>1. sender'[s] = p /\ \A r \in Sender \ {s} : sender'[r] = sender[r]
  BY Another
<1>2. \A u \in User : Counted(u)' \subseteq Counted(u) /\ Passing(u)' \subseteq Passing(u)
  BY <1>1 DEF Counted, Passing, SendsBy
<1>3. \A u \in User, i \in Image :
         Reports(u, i)' \subseteq Reports(u, i) /\ InFlight(u, i)' \subseteq InFlight(u, i)
  BY <1>1 DEF Reports, InFlight, SendsBy
<1> QED
  BY <1>2, <1>3, Fewer

LEMMA PacedLibrary == ASSUME Typed, Paced, LibraryStep PROVE Paced'
<1>1. /\ DOMAIN history' = DOMAIN history /\ UNCHANGED <<now, sender>>
      /\ \A k \in DOMAIN history : /\ history'[k].user = history[k].user
                                   /\ history'[k].at = history[k].at
                                   /\ history'[k].visibility = history[k].visibility
                                   /\ history'[k].image \in {history[k].image, None}
  BY LibraryStepRows
<1>2. \A u \in User : Counted(u)' \subseteq Counted(u) /\ Passing(u)' \subseteq Passing(u)
  BY <1>1 DEF Counted, Passing, SendsBy
<1>3. None \notin Image
  BY LibraryAssumption
<1>4. \A u \in User, i \in Image :
         Reports(u, i)' \subseteq Reports(u, i) /\ InFlight(u, i)' \subseteq InFlight(u, i)
  BY <1>1, <1>3 DEF Reports, InFlight, SendsBy
<1> QED
  BY <1>2, <1>4, Fewer

LEMMA PacedTick == ASSUME Typed, Paced, Tick PROVE Paced'
<1>1. UNCHANGED <<history, sender>> /\ now' = now + 1
  BY DEF Tick
<1>2. \A k \in DOMAIN history : history[k].at \in Nat
  BY Sized DEF SendRow
<1>3. \A k \in DOMAIN history : /\ history[k].at + PickerWindow > now' => history[k].at + PickerWindow > now
                                /\ history[k].at + DebounceWindow > now' => history[k].at + DebounceWindow > now
  BY <1>1, <1>2, SendsAssumption DEF Typed
<1>4. \A u \in User : Counted(u)' \subseteq Counted(u) /\ Passing(u)' \subseteq Passing(u)
  BY <1>1, <1>3 DEF Counted, Passing, SendsBy
<1>5. \A u \in User, i \in Image :
         Reports(u, i)' \subseteq Reports(u, i) /\ InFlight(u, i)' \subseteq InFlight(u, i)
  BY <1>1, <1>3 DEF Reports, InFlight, SendsBy
<1> QED
  BY <1>4, <1>5, Fewer

\* The debounce lets a report in when the window holds none.
LEMMA PacedDebounce == ASSUME Typed, Paced, NEW s \in Sender, PickDebounce(s) PROVE Paced'
<1>1. PICK u \in User, i \in Images :
        /\ ~HasRecentSend(u, i)
        /\ Proceed(s, [Resting EXCEPT !.pc = "count", !.user = u, !.image = i, !.bucket = images[i].bucket])
  BY DEF PickDebounce
<1>2. sender[s].pc = "idle" /\ UNCHANGED <<history, now>>
  BY DEF PickDebounce, Steps
<1>3. /\ sender'[s].pc = "count" /\ sender'[s].user = u /\ sender'[s].image = i
      /\ \A r \in Sender \ {s} : sender'[r] = sender[r]
  <2> DEFINE b == images[i].bucket
             p == [Resting EXCEPT !.pc = "count", !.user = u, !.image = i, !.bucket = b]
  <2>1. Proceed(s, p)
    BY <1>1
  <2> HIDE DEF b
  <2>2. p.pc = "count" /\ p.user = u /\ p.image = i
    BY DEF Resting
  <2> HIDE DEF p
  <2>3. sender'[s] = p /\ \A r \in Sender \ {s} : sender'[r] = sender[r]
    BY <2>1, Another
  <2> QED
    BY <2>2, <2>3
<1>4. ASSUME NEW v \in User
      PROVE  Cardinality(Counted(v)') + Cardinality(Passing(v)') <= PickerMax + Cardinality(Sender) - 1
  <2>1. Counted(v)' = Counted(v) /\ Passing(v)' = Passing(v)
    BY <1>2, <1>3 DEF Counted, Passing, SendsBy
  <2> QED
    BY <2>1 DEF Paced
<1>5. ASSUME NEW v \in User, NEW j \in Image
      PROVE  Cardinality(Reports(v, j)') + Cardinality(InFlight(v, j)') <= Cardinality(Sender)
  <2>1. Reports(v, j)' = Reports(v, j)
    BY <1>2 DEF Reports, SendsBy
  <2>2. CASE v = u /\ j = i
    <3>1. Reports(v, j) = {}
      BY <1>1, <2>2 DEF Reports, HasRecentSend
    <3>2. InFlight(v, j)' \in SUBSET Sender
      BY DEF InFlight
    <3>3. Cardinality(Reports(v, j)') = 0
      BY <2>1, <3>1, FS_EmptySet
    <3> QED
      BY <3>2, <3>3, Sized
  <2>3. CASE ~(v = u /\ j = i)
    <3>1. InFlight(v, j)' = InFlight(v, j)
      BY <1>2, <1>3, <2>3 DEF InFlight
    <3> QED
      BY <2>1, <3>1 DEF Paced
  <2> QED
    BY <2>2, <2>3
<1> QED
  BY <1>4, <1>5 DEF Paced

\* The rate limit lets a report pass when the window has room for it alone.
LEMMA PacedCount == ASSUME Typed, Paced, NEW s \in Sender, PickCount(s) PROVE Paced'
<1> DEFINE u == sender[s].user
<1>0. sender[s].pc = "count" /\ u \in User /\ sender[s] \in Send /\ UNCHANGED <<history, now>>
  BY DEF PickCount, Steps, Typed, SendersOK, Filled
<1>1. CASE Rest(s)
  BY <1>0, <1>1, PacedAside DEF Rest, Resting
<1>2. CASE CountRecent(u, "picker") < PickerMax /\ Proceed(s, [sender[s] EXCEPT !.pc = "record"])
  <2>1. /\ sender'[s].pc = "record" /\ sender'[s].user = u /\ sender'[s].image = sender[s].image
        /\ \A r \in Sender \ {s} : sender'[r] = sender[r]
    BY <1>0, <1>2, Another DEF Send
  <2>2. ASSUME NEW v \in User
        PROVE  Cardinality(Counted(v)') + Cardinality(Passing(v)') <= PickerMax + Cardinality(Sender) - 1
    <3>1. Counted(v)' = Counted(v)
      BY <1>0 DEF Counted, SendsBy
    <3>2. CASE v = u
      <4>1. Cardinality(Counted(v)) < PickerMax
        BY <1>2, <3>2 DEF CountRecent, Counted
      <4>2. Cardinality(Counted(v)) \in Nat
        BY SetsOf, Sized
      <4>3. /\ Cardinality(Passing(v)') \in Nat /\ Cardinality(Passing(v)') <= Cardinality(Sender)
            /\ Cardinality(Sender) \in Nat
        <5>1. Passing(v)' \in SUBSET Sender
          BY DEF Passing
        <5> QED
          BY <5>1, Sized
      <4> QED
        BY <3>1, <4>1, <4>2, <4>3, SendsAssumption
    <3>3. CASE v # u
      <4>1. Passing(v)' = Passing(v)
        BY <1>0, <2>1, <3>3 DEF Passing
      <4> QED
        BY <3>1, <4>1 DEF Paced
    <3> QED
      BY <3>2, <3>3
  <2>3. ASSUME NEW v \in User, NEW j \in Image
        PROVE  Cardinality(Reports(v, j)') + Cardinality(InFlight(v, j)') <= Cardinality(Sender)
    <3>1. Reports(v, j)' = Reports(v, j)
      BY <1>0 DEF Reports, SendsBy
    <3>2. InFlight(v, j)' = InFlight(v, j)
      BY <1>0, <2>1 DEF InFlight
    <3> QED
      BY <3>1, <3>2 DEF Paced
  <2> QED
    BY <2>2, <2>3 DEF Paced
<1>3. CountRecent(u, "picker") \in Nat
  <2>1. CountRecent(u, "picker") = Cardinality(Counted(u))
    BY DEF CountRecent, Counted
  <2> QED
    BY <2>1, SetsOf, Sized
<1>4. CASE CountRecent(u, "picker") >= PickerMax
  BY <1>1, <1>4 DEF PickCount
<1>5. CASE ~(CountRecent(u, "picker") >= PickerMax)
  <2>1. CountRecent(u, "picker") < PickerMax
    BY <1>3, <1>5, SendsAssumption
  <2> QED
    BY <1>2, <1>5, <2>1 DEF PickCount
<1> QED
  BY <1>4, <1>5

\* A record takes its request out of the way it adds a row.
LEMMA OneForOne ==
    ASSUME Typed, NEW A \in SUBSET DOMAIN history, NEW B \in SUBSET Sender, NEW x, NEW s \in B,
           NEW C, C \subseteq A \cup {x}, NEW D, D \subseteq B \ {s}
    PROVE  /\ Cardinality(C) \in Nat /\ Cardinality(D) \in Nat
           /\ Cardinality(C) + Cardinality(D) <= Cardinality(A) + Cardinality(B)
<1>1. IsFiniteSet(A) /\ Cardinality(A) \in Nat /\ IsFiniteSet(B) /\ Cardinality(B) \in Nat
  BY Sized
<1>2. IsFiniteSet(A \cup {x}) /\ Cardinality(A \cup {x}) <= Cardinality(A) + 1
  <2>1. CASE x \in A
    <3>1. A \cup {x} = A
      BY <2>1
    <3> QED
      BY <1>1, <3>1
  <2>2. CASE x \notin A
    <3>1. IsFiniteSet(A \cup {x}) /\ Cardinality(A \cup {x}) = Cardinality(A) + 1
      BY <1>1, <2>2, FS_AddElement
    <3> QED
      BY <1>1, <3>1
  <2> QED
    BY <2>1, <2>2
<1>3. IsFiniteSet(B \ {s}) /\ Cardinality(B \ {s}) = Cardinality(B) - 1
  BY <1>1, FS_RemoveElement
<1>4. IsFiniteSet(C) /\ Cardinality(C) <= Cardinality(A \cup {x})
  BY <1>2, FS_Subset
<1>5. IsFiniteSet(D) /\ Cardinality(D) <= Cardinality(B \ {s})
  BY <1>3, FS_Subset
<1>6. /\ Cardinality(C) \in Nat /\ Cardinality(D) \in Nat
      /\ Cardinality(A \cup {x}) \in Nat /\ Cardinality(B \ {s}) \in Nat
  BY <1>2, <1>3, <1>4, <1>5, FS_CardinalityType
<1> QED
  BY <1>1, <1>2, <1>3, <1>4, <1>5, <1>6

LEMMA PacedRecord == ASSUME Typed, Paced, NEW s \in Sender, PickRecord(s) PROVE Paced'
<1> DEFINE u == sender[s].user  i == sender[s].image  x == Len(history) + 1
<1>0. /\ sender[s].pc = "record" /\ u \in User /\ sender[s].bucket \in Bucket /\ i \in Image
      /\ Record(s, u, sender[s].bucket, i, "picker") /\ Rest(s) /\ UNCHANGED now
  BY DEF PickRecord, Steps, Typed, SendersOK, Filled
<1>1. /\ DOMAIN history' \subseteq DOMAIN history \cup {x} /\ DOMAIN history \subseteq DOMAIN history'
      /\ \A k \in DOMAIN history : history'[k] = history[k]
      /\ \A k \in DOMAIN history' : k \notin DOMAIN history =>
            /\ history'[k].user = u /\ history'[k].image = i /\ history'[k].visibility = "picker"
  BY <1>0, Recorded
<1>2. sender'[s] = Resting /\ \A r \in Sender \ {s} : sender'[r] = sender[r]
  BY <1>0, Another DEF Rest
<1>3. sender'[s].pc = "idle"
  BY <1>2 DEF Resting
<1> HIDE DEF u, i, x
<1>4. ASSUME NEW v \in User
      PROVE  Cardinality(Counted(v)') + Cardinality(Passing(v)') <= PickerMax + Cardinality(Sender) - 1
  <2>0. /\ Cardinality(Counted(v)) + Cardinality(Passing(v)) <= PickerMax + Cardinality(Sender) - 1
        /\ Cardinality(Counted(v)) \in Nat /\ Cardinality(Passing(v)) \in Nat
        /\ Cardinality(Sender) \in Nat /\ PickerMax \in Nat
    BY SetsOf, Sized, SendsAssumption DEF Paced
  <2>1. CASE v = u
    <3>1. Counted(v)' \subseteq Counted(v) \cup {x}
      BY <1>0, <1>1 DEF Counted, SendsBy
    <3>2. Passing(v)' \subseteq Passing(v) \ {s} /\ s \in Passing(v)
      BY <1>0, <1>2, <1>3, <2>1 DEF Passing, u
    <3>3. /\ Cardinality(Counted(v)') \in Nat /\ Cardinality(Passing(v)') \in Nat
          /\ Cardinality(Counted(v)') + Cardinality(Passing(v)')
               <= Cardinality(Counted(v)) + Cardinality(Passing(v))
      BY <3>1, <3>2, OneForOne, SetsOf
    <3> QED
      BY <2>0, <3>3
  <2>2. CASE v # u
    <3>1. Counted(v)' = Counted(v)
      <4>1. SendsBy(v)' = SendsBy(v)
        BY <1>1, <2>2 DEF SendsBy
      <4> QED
        BY <1>0, <1>1, <4>1 DEF Counted, SendsBy
    <3>2. Passing(v)' = Passing(v)
      BY <1>2, <1>3, <2>2 DEF Passing, u
    <3> QED
      BY <2>0, <3>1, <3>2
  <2> QED
    BY <2>1, <2>2
<1>5. ASSUME NEW v \in User, NEW j \in Image
      PROVE  Cardinality(Reports(v, j)') + Cardinality(InFlight(v, j)') <= Cardinality(Sender)
  <2>0. /\ Cardinality(Reports(v, j)) + Cardinality(InFlight(v, j)) <= Cardinality(Sender)
        /\ Cardinality(Reports(v, j)) \in Nat /\ Cardinality(InFlight(v, j)) \in Nat
        /\ Cardinality(Sender) \in Nat
    BY SetsOf, Sized DEF Paced
  <2>1. CASE v = u /\ j = i
    <3>1. Reports(v, j)' \subseteq Reports(v, j) \cup {x}
      BY <1>0, <1>1 DEF Reports, SendsBy
    <3>2. InFlight(v, j)' \subseteq InFlight(v, j) \ {s} /\ s \in InFlight(v, j)
      BY <1>0, <1>2, <1>3, <2>1 DEF InFlight, u, i
    <3>3. /\ Cardinality(Reports(v, j)') \in Nat /\ Cardinality(InFlight(v, j)') \in Nat
          /\ Cardinality(Reports(v, j)') + Cardinality(InFlight(v, j)')
               <= Cardinality(Reports(v, j)) + Cardinality(InFlight(v, j))
      BY <3>1, <3>2, OneForOne, SetsOf
    <3> QED
      BY <2>0, <3>3
  <2>2. CASE ~(v = u /\ j = i)
    <3>1. Reports(v, j)' = Reports(v, j)
      BY <1>0, <1>1, <2>2 DEF Reports, SendsBy
    <3>2. InFlight(v, j)' = InFlight(v, j)
      BY <1>2, <1>3, <2>2 DEF InFlight, u, i
    <3> QED
      BY <2>0, <3>1, <3>2
  <2> QED
    BY <2>1, <2>2
<1> QED
  BY <1>4, <1>5 DEF Paced

LEMMA PacedDraw == ASSUME Typed, Paced, NEW s \in Sender, DrawRecord(s) PROVE Paced'
<1> DEFINE u == sender[s].user
<1>0. sender[s].pc = "choose" /\ u \in User /\ sender[s] \in Send /\ Rest(s) /\ UNCHANGED now
  BY DEF DrawRecord, Steps, Typed, SendersOK, Filled
<1>1. PICK c \in Candidates(sender[s]) : Record(s, u, c[1], c[2], "draw")
  BY DEF DrawRecord
<1>2. c[1] \in Bucket /\ c[2] \in Image
  BY <1>0 DEF Candidates, Send
<1>3. /\ \A k \in DOMAIN history : history'[k] = history[k]
      /\ \A k \in DOMAIN history' : k \notin DOMAIN history => history'[k].visibility = "draw"
  BY <1>0, <1>1, <1>2, Recorded
<1>4. sender'[s].pc = "idle" /\ \A r \in Sender \ {s} : sender'[r] = sender[r]
  BY <1>0, Another DEF Rest, Resting
<1>5. \A v \in User : Counted(v)' \subseteq Counted(v) /\ Passing(v)' \subseteq Passing(v)
  BY <1>0, <1>3, <1>4 DEF Counted, Passing, SendsBy
<1>6. \A v \in User, j \in Image :
         Reports(v, j)' \subseteq Reports(v, j) /\ InFlight(v, j)' \subseteq InFlight(v, j)
  BY <1>0, <1>3, <1>4 DEF Reports, InFlight, SendsBy
<1> QED
  BY <1>5, <1>6, Fewer

LEMMA PacedKept == Inv /\ Typed /\ Paced /\ [SendsNext]_allVars => Paced'
<1> SUFFICES ASSUME Inv, Typed, Paced, [SendsNext]_allVars PROVE Paced'
  OBVIOUS
<1>1. ASSUME NEW s \in Sender, DrawStart(s) PROVE Paced'
  <2>1. PICK u \in User, names \in Draws :
          Proceed(s, [Resting EXCEPT !.pc = "find", !.user = u, !.names = names])
    BY <1>1 DEF DrawStart
  <2>2. [Resting EXCEPT !.pc = "find", !.user = u, !.names = names].pc = "find"
    BY DEF Resting
  <2> QED
    BY <1>1, <2>1, <2>2, PacedAside DEF DrawStart
<1>2. ASSUME NEW s \in Sender, Rest(s), UNCHANGED <<history, now>> PROVE Paced'
  BY <1>2, PacedAside DEF Rest, Resting
<1>3. ASSUME NEW s \in Sender, DrawFind(s) PROVE Paced'
  <2>1. ASSUME NEW b, Proceed(s, [sender[s] EXCEPT !.pc = "list", !.bucket = b]) PROVE Paced'
    <3>1. [sender[s] EXCEPT !.pc = "list", !.bucket = b].pc = "list"
      BY DEF Typed, SendersOK, Send
    <3> QED
      BY <1>3, <2>1, <3>1, PacedAside DEF DrawFind
  <2> QED
    BY <1>2, <1>3, <2>1 DEF DrawFind
<1>4. ASSUME NEW s \in Sender, DrawList(s) PROVE Paced'
  <2>1. PICK p : Proceed(s, p) /\ p.pc \in {"recent", "find"}
    <3> DEFINE q     == sender[s]
               more  == EligibleIn(q.user, q.bucket)
               names == Tail(q.names)
               pc    == IF names = <<>> THEN "recent" ELSE "find"
               count == q.count + Cardinality(more)
               p     == [q EXCEPT !.pc = pc, !.names = names, !.bucket = None, !.buckets = @ \cup {q.bucket},
                                  !.eligible = @ \cup more, !.count = count]
    <3>1. q \in Send
      BY DEF Typed, SendersOK
    <3>2. Proceed(s, p)
      BY <1>4, <3>1 DEF DrawList, Send
    <3>3. pc \in {"recent", "find"}
      OBVIOUS
    <3> HIDE DEF more, names, count, pc
    <3>4. p.pc = pc
      BY <3>1 DEF Send
    <3> QED
      BY <3>2, <3>3, <3>4
  <2> QED
    BY <1>4, <2>1, PacedAside DEF DrawList
<1>5. ASSUME NEW s \in Sender, DrawRecent(s) PROVE Paced'
  <2> DEFINE recent == RecentImages(sender[s].user, sender[s].buckets, RecentLimit(sender[s].count))
             p      == [sender[s] EXCEPT !.pc = "choose", !.recent = recent]
  <2>1. Rest(s) \/ Proceed(s, p)
    BY <1>5 DEF DrawRecent
  <2> HIDE DEF recent
  <2>2. p.pc = "choose"
    BY DEF Typed, SendersOK, Send
  <2> HIDE DEF p
  <2> QED
    BY <1>2, <1>5, <2>1, <2>2, PacedAside DEF DrawRecent
<1>6. CASE UNCHANGED allVars
  BY <1>6, Fewer DEF allVars, Counted, Passing, Reports, InFlight, SendsBy
<1> QED
  BY <1>1, <1>3, <1>4, <1>5, <1>6, PacedLibrary, PacedTick, PacedDebounce, PacedCount, PacedRecord, PacedDraw
  DEF SendsNext

LEMMA PacedHolds == SendsInit => Paced
<1> SUFFICES ASSUME SendsInit PROVE Paced
  OBVIOUS
<1>1. Cardinality(Sender) \in Nat /\ PickerMax \in Nat /\ PickerMax >= 1
  BY SendsAssumption, FS_CardinalityType
<1>2. ASSUME NEW u \in User
      PROVE  Counted(u) = {} /\ Passing(u) = {} /\ \A i \in Image : Reports(u, i) = {} /\ InFlight(u, i) = {}
  BY DEF SendsInit, Resting, Counted, Passing, Reports, InFlight, SendsBy
<1>3. Cardinality({}) = 0
  BY FS_EmptySet
<1> QED
  BY <1>1, <1>2, <1>3 DEF Paced

\* Reports that race past the Picker's limits exceed them by no more than the
\* others in flight (PicksWithinLimits).
THEOREM PicksStayWithinLimits == SendsSpec => []PicksWithinLimits
<1>1. Typed /\ Paced => PicksWithinLimits
  <2> SUFFICES ASSUME Typed, Paced, NEW u \in User
               PROVE  /\ Cardinality(Counted(u)) <= PickerMax + Cardinality(Sender) - 1
                      /\ \A i \in Images : Cardinality(Reports(u, i)) <= Cardinality(Sender)
    BY DEF PicksWithinLimits, CountRecent, Counted, Reports
  <2>1. Cardinality(Counted(u)) <= PickerMax + Cardinality(Sender) - 1
    <3>1. Cardinality(Counted(u)) \in Nat /\ Cardinality(Passing(u)) \in Nat /\ Cardinality(Sender) \in Nat
      BY SetsOf, Sized
    <3> QED
      BY <3>1, SendsAssumption DEF Paced
  <2>2. ASSUME NEW i \in Images PROVE Cardinality(Reports(u, i)) <= Cardinality(Sender)
    <3>1. i \in Image
      BY DEF Images
    <3>2. /\ Cardinality(Reports(u, i)) \in Nat /\ Cardinality(InFlight(u, i)) \in Nat
          /\ Cardinality(Sender) \in Nat
      BY SetsOf, Sized
    <3> QED
      BY <3>1, <3>2 DEF Paced
  <2> QED
    BY <2>1, <2>2
<1> QED
  BY <1>1, PacedHolds, PacedKept, TypedAlways, InvAlways, PTL DEF SendsSpec

-----------------------------------------------------------------------------
(* What a draw avoids *)

LEMMA AtMost ==
    ASSUME NEW S, IsFiniteSet(S), NEW T, IsFiniteSet(T), NEW f \in [S -> T],
           \A x, y \in S : f[x] = f[y] => x = y
    PROVE  Cardinality(S) \in Nat /\ Cardinality(T) \in Nat /\ Cardinality(S) <= Cardinality(T)
<1>1. Cardinality(S) \in Nat /\ Cardinality(T) \in Nat
  BY FS_CardinalityType
<1>2. ~(Cardinality(T) < Cardinality(S))
  BY FS_PigeonHole
<1> QED
  BY <1>1, <1>2

\* The last n rows hold at most n images: a row of them has fewer than n after it,
\* and no two rows have the same number.
LEMMA RecentAreFew ==
    ASSUME Typed, NEW u, NEW from, NEW n \in Nat
    PROVE  /\ IsFiniteSet(RecentImages(u, from, n))
           /\ Cardinality(RecentImages(u, from, n)) \in Nat /\ Cardinality(RecentImages(u, from, n)) <= n
<1> DEFINE rows     == {k \in SendsBy(u) : history[k].image # None /\ history[k].bucket \in from}
           after(j) == {l \in rows : l > j}
           last     == {j \in rows : Cardinality(after(j)) < n}
           R        == RecentImages(u, from, n)
           rank     == [j \in last |-> Cardinality(after(j))]
           row      == [i \in R |-> CHOOSE k \in last : history[k].image = i]
<1>1. /\ rows \in SUBSET DOMAIN history /\ \A k \in rows : k \in Nat
      /\ DOMAIN history = 1..Len(history) /\ Len(history) \in Nat
      /\ \A S \in SUBSET rows : IsFiniteSet(S) /\ Cardinality(S) \in Nat
  BY Sized DEF SendsBy
<1>2. \A j \in rows : /\ after(j) \in SUBSET rows /\ IsFiniteSet(after(j)) /\ Cardinality(after(j)) \in Nat
  BY <1>1
<1>3. ASSUME NEW j \in rows, NEW k \in rows, j < k
      PROVE  Cardinality(after(k)) < Cardinality(after(j))
  <2>1. after(k) \in SUBSET after(j) /\ k \in after(j) /\ k \notin after(k)
    BY <1>1, <1>3
  <2>2. Cardinality(after(k)) <= Cardinality(after(j)) /\ Cardinality(after(k)) # Cardinality(after(j))
    BY <1>2, <2>1, FS_Subset
  <2>3. \A a, b \in Nat : a <= b /\ a # b => a < b
    OBVIOUS
  <2>4. Cardinality(after(j)) \in Nat /\ Cardinality(after(k)) \in Nat
    BY <1>2
  <2> HIDE DEF after
  <2> QED
    BY <2>2, <2>3, <2>4
<1>4. R = {history[k].image : k \in last}
  BY DEF RecentImages
<1>5. last \in SUBSET rows
  OBVIOUS
<1>6. rank \in [last -> 0..(n - 1)]
  <2>1. \A j \in last : Cardinality(after(j)) \in Nat /\ Cardinality(after(j)) < n
    BY <1>2, <1>5
  <2> HIDE DEF last, after
  <2>2. \A j \in last : Cardinality(after(j)) \in 0..(n - 1)
    BY <2>1
  <2> QED
    BY <2>2
<1>7. \A j, k \in last : rank[j] = rank[k] => j = k
  <2> SUFFICES ASSUME NEW j \in last, NEW k \in last, j # k PROVE rank[j] # rank[k]
    OBVIOUS
  <2>1. j < k \/ k < j
    BY <1>1, <1>5
  <2>2. Cardinality(after(j)) \in Nat /\ Cardinality(after(k)) \in Nat
    BY <1>2, <1>5
  <2>3. Cardinality(after(j)) # Cardinality(after(k))
    BY <1>3, <1>5, <2>1, <2>2
  <2> QED
    BY <2>3
<1>8. row \in [R -> last] /\ \A x, y \in R : row[x] = row[y] => x = y
  <2>1. \A i \in R : \E k \in last : history[k].image = i
    BY <1>4
  <2> HIDE DEF R, last
  <2>2. \A i \in R : row[i] \in last /\ history[row[i]].image = i
    BY <2>1
  <2> QED
    BY <2>2
<1>9. IsFiniteSet(last) /\ IsFiniteSet(0..(n - 1)) /\ Cardinality(0..(n - 1)) = n
  <2>1. IsFiniteSet(last)
    BY <1>1, <1>5
  <2>2. n - 1 \in Int /\ (n - 1) - 0 + 1 = n /\ (0 > n - 1 => n = 0)
    OBVIOUS
  <2>3. IsFiniteSet(0..(n - 1)) /\ Cardinality(0..(n - 1)) = IF 0 > n - 1 THEN 0 ELSE (n - 1) - 0 + 1
    BY <2>2, FS_Interval
  <2> HIDE DEF last
  <2> QED
    BY <2>1, <2>2, <2>3
<1>10. IsFiniteSet(R)
  BY RecentTyped, SendsAssumption, FS_Subset
<1> HIDE DEF last, rank, row, R
<1>11. Cardinality(last) \in Nat /\ Cardinality(last) <= n
  BY <1>6, <1>7, <1>9, AtMost
<1>12. Cardinality(R) \in Nat /\ Cardinality(R) <= Cardinality(last)
  BY <1>8, <1>9, <1>10, AtMost
<1>13. Cardinality(R) <= n
  BY <1>11, <1>12
<1> QED
  BY <1>10, <1>12, <1>13 DEF R

\* Only its own steps move a send.
LEMMA OnlyRecordAdds ==
    ASSUME Typed, [SendsNext]_allVars, NEW s \in Sender, sender[s].pc = "choose", sender'[s] # sender[s]
    PROVE  DrawRecord(s)
<1>1. ASSUME NEW r \in Sender, \E p : Proceed(r, p) PROVE r = s
  BY <1>1, Another
<1>2. SendsNext /\ sender' # sender
  BY DEF allVars
<1>3. PICK r \in Sender : \/ PickDebounce(r) \/ PickCount(r) \/ PickRecord(r) \/ DrawStart(r)
                         \/ DrawFind(r) \/ DrawList(r) \/ DrawRecent(r) \/ DrawRecord(r)
  BY <1>2 DEF SendsNext, LibraryStep, Tick
<1>4. \E p : Proceed(r, p)
  BY <1>3 DEF PickDebounce, PickCount, PickRecord, DrawStart, DrawFind, DrawList, DrawRecent, DrawRecord, Rest
<1>5. r = s
  BY <1>1, <1>4
<1> QED
  BY <1>3, <1>5 DEF PickDebounce, PickCount, PickRecord, DrawStart, DrawFind, DrawList, DrawRecent, Steps

Current(u, from) == UNION {EligibleIn(u, b) : b \in from}

\* A set of choices that holds more images than the recent ones leaves one to draw.
LEMMA SomeRested ==
    ASSUME Typed, NEW from \in SUBSET Bucket, NEW u,
           Current(u, from) # {}
    PROVE  \E c \in Current(u, from) :
              c[2] \notin RecentImages(u, from, RecentLimit(Cardinality(Current(u, from))))
<1> DEFINE E == Current(u, from)
           R == RecentImages(u, from, RecentLimit(Cardinality(E)))
<1>1. E \in SUBSET (Bucket \X Image) /\ \A c \in E : c[1] = images[c[2]].bucket
  BY EligibleTyped DEF Current
<1>2. IsFiniteSet(E)
  BY <1>1, FS_Product, FS_Subset, SendsAssumption
<1>3. Cardinality(E) \in Nat /\ Cardinality(E) # 0
  BY <1>2, FS_CardinalityType, FS_EmptySet
<1>4. RecentLimit(Cardinality(E)) \in Nat /\ RecentLimit(Cardinality(E)) < Cardinality(E)
  BY <1>3, SendsAssumption DEF RecentLimit
<1>5. IsFiniteSet(R) /\ Cardinality(R) \in Nat /\ Cardinality(R) < Cardinality(E)
  BY <1>3, <1>4, RecentAreFew
<1> SUFFICES ASSUME \A c \in E : c[2] \in R PROVE FALSE
  OBVIOUS
<1> HIDE DEF E, R
<1> DEFINE f == [c \in E |-> c[2]]
<1>6. f \in [E -> R]
  OBVIOUS
<1>7. \A c, d \in E : f[c] = f[d] => c = d
  <2> SUFFICES ASSUME NEW c \in E, NEW d \in E, c[2] = d[2] PROVE c = d
    OBVIOUS
  <2>1. c = <<c[1], c[2]>> /\ d = <<d[1], d[2]>>
    BY <1>1
  <2>2. c[1] = d[1]
    BY <1>1
  <2> QED
    BY <2>1, <2>2
<1> HIDE DEF f
<1>8. Cardinality(E) <= Cardinality(R)
  BY <1>2, <1>5, <1>6, <1>7, AtMost
<1> QED
  BY <1>3, <1>5, <1>8

\* A draw whose reads still hold repeats none of the sends it looked at
\* (DrawAvoidsRecent).
THEOREM DrawsAvoidTheRecent == SendsSpec => DrawAvoidsRecent
<1> DEFINE Avoids == \A s \in Sender :
        LET p       == sender[s]
            current == UNION {EligibleIn(p.user, b) : b \in p.buckets}
            n       == Cardinality(current)
        IN /\ p.pc = "choose" /\ Len(history') > Len(history) /\ sender'[s] # p
           /\ p.eligible = current /\ p.count = n
           /\ p.recent = RecentImages(p.user, p.buckets, RecentLimit(n))
           => history'[Len(history')].image
                \notin RecentImages(p.user, p.buckets, IF n - 1 < RecentMax THEN n - 1 ELSE RecentMax)
<1>1. Typed /\ [SendsNext]_allVars => Avoids
  <2> SUFFICES ASSUME Typed, [SendsNext]_allVars, NEW s \in Sender,
                      NEW p, p = sender[s],
                      NEW E, E = Current(p.user, p.buckets),
                      p.pc = "choose", Len(history') > Len(history), sender'[s] # p,
                      p.eligible = E, p.recent = RecentImages(p.user, p.buckets, RecentLimit(Cardinality(E)))
               PROVE  history'[Len(history')].image \notin p.recent
    BY DEF RecentLimit, Current
  <2>1. DrawRecord(s)
    BY OnlyRecordAdds
  <2>2. PICK c \in Candidates(p) : Record(s, p.user, c[1], c[2], "draw")
    BY <2>1 DEF DrawRecord
  <2>3. p \in Send /\ c \in E
    BY <2>2 DEF Candidates, Typed, SendersOK
  <2>4. p.buckets \in SUBSET Bucket
    BY <2>3 DEF Send
  <2>5. c[2] \notin p.recent
    <3>1. \E d \in E : d[2] \notin p.recent
      <4>1. Current(p.user, p.buckets) # {}
        BY <2>3
      <4> QED
        BY <2>4, <4>1, SomeRested
    <3> QED
      BY <3>1 DEF Candidates
  <2>6. history'[Len(history')].image = c[2]
    <3> DEFINE row == [user |-> p.user, bucket |-> c[1], image |-> c[2], visibility |-> "draw", at |-> now]
    <3>1. Len(history) \in Nat /\ history \in Seq(SendRow)
      BY Sized DEF Typed, HistoryOK
    <3>2. history' = Append(history, row)
      BY <2>2, <3>1 DEF Record
    <3>3. row.image = c[2]
      OBVIOUS
    <3> HIDE DEF row
    <3>4. history'[Len(history')] = row
      BY <3>1, <3>2, AppendProperties
    <3> QED
      BY <3>3, <3>4
  <2> QED
    BY <2>5, <2>6
<1>2. Typed /\ [SendsNext]_allVars => [Avoids]_allVars
  BY <1>1
<1>3. [][Avoids]_allVars <=> DrawAvoidsRecent
  BY DEF DrawAvoidsRecent
<1> QED
  BY <1>2, <1>3, TypedAlways, PTL DEF SendsSpec
=============================================================================
