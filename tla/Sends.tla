--------------------------------- MODULE Sends ---------------------------------
(***************************************************************************)
(* The send history over the library: the Picker reporting what it sent     *)
(* (api/images.rs, record_image_send) and the Discord commands that draw    *)
(* an image at random (services/random.rs), with the queries of             *)
(* repositories/send_history.rs.  Every step of Library is a step here; a   *)
(* row deleted there takes its place in the history along.                  *)
(***************************************************************************)
EXTENDS Library, Sequences

CONSTANTS
    Sender,          \* sends in flight at once
    Draws,           \* bound: the lists of bucket names clients draw from
    PickerMax,       \* PICKER_RATE_LIMIT_MAX
    PickerWindow,    \* PICKER_RATE_LIMIT_WINDOW_SECS
    DebounceWindow,  \* PICKER_DEBOUNCE_WINDOW_SECS
    RecentMax,       \* the 5 of select_random_from_buckets
    MaxTime          \* bound: the clock

ASSUME SendsAssumption ==
    /\ PickerMax \in Nat \ {0} /\ PickerWindow \in Nat \ {0} /\ DebounceWindow \in 1..PickerWindow
    /\ RecentMax \in Nat /\ MaxTime \in Nat
    /\ Draws \subseteq Seq(Name) \ {<<>>}
    /\ IsFiniteSet(Sender) /\ IsFiniteSet(Bucket) /\ IsFiniteSet(Image)

VARIABLES
    history,  \* send_history, oldest first
    now,      \* CURRENT_TIMESTAMP in seconds
    sender    \* where each send stands

sends    == <<history, now, sender>>
allVars  == <<vars, history, now, sender>>

Resting == [pc |-> "idle", user |-> None, bucket |-> None, image |-> None,
            names |-> <<>>, buckets |-> {}, eligible |-> {}, count |-> 0, recent |-> {}]

SendsInit == Init /\ history = <<>> /\ now = 0 /\ sender = [s \in Sender |-> Resting]

Steps(s, pc)  == sender[s].pc = pc
Proceed(s, p) == sender' = [sender EXCEPT ![s] = p]
Rest(s)       == Proceed(s, Resting)

-----------------------------------------------------------------------------
(* The library's steps, and the clock *)

\* ON DELETE SET NULL, for the image and for the bucket.
LibraryStep ==
    /\ Next
    /\ history' = [k \in DOMAIN history |->
          [history[k] EXCEPT !.bucket = IF @ # None /\ buckets'[@] = Gone THEN None ELSE @,
                             !.image  = IF @ # None /\ images'[@] = Gone THEN None ELSE @]]
    /\ UNCHANGED <<now, sender>>

\* Before the first send no query tells one time from another.
Tick ==
    /\ now < MaxTime /\ history # <<>>
    /\ now' = now + 1
    /\ UNCHANGED <<vars, history, sender>>

-----------------------------------------------------------------------------
(* The queries *)

SendsBy(u) == {k \in DOMAIN history : history[k].user = u}

HasRecentSend(u, i) ==
    \E k \in SendsBy(u) : history[k].image = i /\ history[k].at + DebounceWindow > now

CountRecent(u, visibility) ==
    Cardinality({k \in SendsBy(u) : /\ history[k].visibility = visibility
                                    /\ history[k].at + PickerWindow > now})

\* The images of the last n sends of u from these buckets.
RecentImages(u, from, n) ==
    LET rows == {k \in SendsBy(u) : history[k].image # None /\ history[k].bucket \in from}
    IN {history[k].image : k \in {j \in rows : Cardinality({l \in rows : l > j}) < n}}

\* record: INSERT ... SELECT from the image, its bucket and the right to read it.
Recordable(u, b, i) ==
    /\ Stored(images, i) /\ images[i].bucket = b
    /\ CanRead(u, b) /\ images[i].owner = buckets[b].owner

Record(s, u, b, i, visibility) ==
    history' = IF Recordable(u, b, i)
               THEN Append(history, [user |-> u, bucket |-> b, image |-> i,
                                     visibility |-> visibility, at |-> now])
               ELSE history

-----------------------------------------------------------------------------
(* The Picker *)

\* A send of the same image moments ago ends the request there.
PickDebounce(s) ==
    /\ Steps(s, "idle") /\ Sent("pick")
    /\ \E u \in User, i \in Images :
          /\ ~HasRecentSend(u, i)
          /\ Proceed(s, [Resting EXCEPT !.pc = "count", !.user = u, !.image = i,
                                        !.bucket = images[i].bucket])
    /\ UNCHANGED <<tables, proc, cached, file, during, history, now>>

\* Mutant: one more than the limit passes.
PickCountAbove(s) ==
    LET p == sender[s] IN
    /\ Steps(s, "count")
    /\ IF CountRecent(p.user, "picker") > PickerMax THEN Rest(s)
       ELSE Proceed(s, [p EXCEPT !.pc = "record"])
    /\ UNCHANGED <<vars, history, now>>

\* 429 Too Many Requests.
PickCount(s) ==
    LET p == sender[s] IN
    /\ Steps(s, "count")
    /\ IF CountRecent(p.user, "picker") >= PickerMax THEN Rest(s)
       ELSE Proceed(s, [p EXCEPT !.pc = "record"])
    /\ UNCHANGED <<vars, history, now>>

PickRecord(s) ==
    LET p == sender[s] IN
    /\ Steps(s, "record")
    /\ Record(s, p.user, p.bucket, p.image, "picker")
    /\ Rest(s)
    /\ UNCHANGED <<vars, now>>

-----------------------------------------------------------------------------
(* The random draw *)

\* find_accessible_by_name_folded: the user's own bucket before one subscribed to.
Accessible(u, n) ==
    IF Named(u, n) # {} THEN Named(u, n)
    ELSE {b \in Bucket : Stored(buckets, b) /\ buckets[b].name = n /\ <<u, b>> \in readers}

\* effective_weight is 0 where the row's random weight is.
EligibleIn(u, b) == {<<b, i>> : i \in {j \in Listed(u, b) : images[j].words.enabled}}

\* Mutant: as many as there are choices.
RecentAll(count) == IF count < RecentMax THEN count ELSE RecentMax

RecentLimit(count) == IF count - 1 < RecentMax THEN count - 1 ELSE RecentMax

DrawStart(s) ==
    /\ Steps(s, "idle") /\ Sent("draw")
    /\ \E u \in User, names \in Draws :
          Proceed(s, [Resting EXCEPT !.pc = "find", !.user = u, !.names = names])
    /\ UNCHANGED <<tables, proc, cached, file, during, history, now>>

\* A name no bucket answers to ends the draw.
DrawFind(s) ==
    LET p == sender[s]  found == Accessible(p.user, Head(p.names)) IN
    /\ Steps(s, "find")
    /\ \/ \E b \in found : Proceed(s, [p EXCEPT !.pc = "list", !.bucket = b])
       \/ found = {} /\ Rest(s)
    /\ UNCHANGED <<vars, history, now>>

\* A name given twice brings its images in twice.
DrawList(s) ==
    LET p    == sender[s]
        more == EligibleIn(p.user, p.bucket)
    IN
    /\ Steps(s, "list")
    /\ Proceed(s, [p EXCEPT !.pc = IF Tail(p.names) = <<>> THEN "recent" ELSE "find",
                            !.names = Tail(@), !.bucket = None,
                            !.buckets = @ \cup {p.bucket},
                            !.eligible = @ \cup more, !.count = @ + Cardinality(more)])
    /\ UNCHANGED <<vars, history, now>>

DrawRecent(s) ==
    LET p == sender[s] IN
    /\ Steps(s, "recent")
    /\ IF p.count = 0 THEN Rest(s)
       ELSE Proceed(s, [p EXCEPT !.pc = "choose",
                                 !.recent = RecentImages(p.user, p.buckets, RecentLimit(p.count))])
    /\ UNCHANGED <<vars, history, now>>

\* exclude_recent_if_possible
Candidates(p) ==
    LET rested == {c \in p.eligible : c[2] \notin p.recent}
    IN IF rested = {} THEN p.eligible ELSE rested

DrawRecord(s) ==
    LET p == sender[s] IN
    /\ Steps(s, "choose")
    /\ \E c \in Candidates(p) : Record(s, p.user, c[1], c[2], "draw")
    /\ Rest(s)
    /\ UNCHANGED <<vars, now>>

-----------------------------------------------------------------------------
SendsNext ==
    \/ LibraryStep \/ Tick
    \/ \E s \in Sender : \/ PickDebounce(s) \/ PickCount(s) \/ PickRecord(s)
                         \/ DrawStart(s) \/ DrawFind(s) \/ DrawList(s)
                         \/ DrawRecent(s) \/ DrawRecord(s)

SendsSpec == SendsInit /\ [][SendsNext]_allVars

-----------------------------------------------------------------------------
(* Properties *)

\* Reports that race past the rate limit together exceed it by no more than the
\* others in flight, however the window slides; and an image is reported again
\* within the debounce window only by requests that were in flight together.
PicksWithinLimits ==
    \A u \in User :
        /\ CountRecent(u, "picker") <= PickerMax + Cardinality(Sender) - 1
        /\ \A i \in Images :
              Cardinality({k \in SendsBy(u) : /\ history[k].image = i /\ history[k].visibility = "picker"
                                              /\ history[k].at + DebounceWindow > now})
                  <= Cardinality(Sender)

\* A draw whose reads still hold as it records, of buckets named once each, never
\* repeats one of the user's last RecentMax sends from them, or of the last n-1
\* when only n images are eligible.
DrawAvoidsRecent ==
    [][\A s \in Sender :
        LET p       == sender[s]
            current == UNION {EligibleIn(p.user, b) : b \in p.buckets}
            n       == Cardinality(current)
        IN /\ p.pc = "choose" /\ Len(history') > Len(history) /\ sender'[s] # p
           /\ p.eligible = current /\ p.count = n
           /\ p.recent = RecentImages(p.user, p.buckets, RecentLimit(n))
           => history'[Len(history')].image
                \notin RecentImages(p.user, p.buckets, IF n - 1 < RecentMax THEN n - 1 ELSE RecentMax)
      ]_allVars
=============================================================================
