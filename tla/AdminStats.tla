------------------------------- MODULE AdminStats -------------------------------
(***************************************************************************)
(* Daily statistics snapshots (services/admin_stats.rs,                     *)
(* repositories/admin_stats.rs) and the collector that main.rs spawns: it   *)
(* runs when the server starts and after each midnight.  A run finalises    *)
(* the rows of days that are over, backfills days without a row, and counts  *)
(* the day it started on, one query at a time, while the application goes    *)
(* on creating and deleting what it counts and the clock goes on.            *)
(***************************************************************************)
EXTENDS Naturals, Sequences, FiniteSets

CONSTANTS
    LastDay,    \* bound: UTC days are numbered from 0
    Item,       \* rows of the counted tables; ids are never used again
    TableOf,    \* item -> its table
    Above,      \* item -> the items whose deletion takes it along
    Metric,     \* what a listing of the object store may say
    None,       \* SQL NULL, no row
    MaxFiles,   \* bound: rows of cdn_objects
    MaxFaults,  \* bound: failed statements
    MaxStops    \* bound: stops of the server

Day   == 0..LastDay
Table == {"users", "buckets", "images", "send_history"}

ASSUME StatsAssumption ==
    /\ LastDay \in Nat
    /\ TableOf \in [Item -> Table] /\ Above \in [Item -> SUBSET Item]
    /\ IsFiniteSet(Item)
    /\ None \notin Nat /\ None \notin Metric
    /\ MaxFiles \in Nat /\ MaxFaults \in Nat /\ MaxStops \in Nat

VARIABLES
    today,      \* Utc::now().date_naive()
    born,       \* item -> date(created_at) or date(sent_at), or None before it exists
    alive,      \* items that exist
    snapshots,  \* day -> row of admin_stats_snapshots, or None
    col,        \* the collector
    faults, stops

source == <<born, alive>>
vars   == <<today, born, alive, snapshots, col, faults, stops>>

Field == {"user_count", "bucket_count", "image_link_count", "unique_file_count",
          "send_count", "daily_send_count"}

Source == [user_count |-> "users", bucket_count |-> "buckets", image_link_count |-> "images",
           send_count |-> "send_history"]

\* Mutant: the sends of the day are counted before all sends.
OrderSwapped == <<"user_count", "bucket_count", "image_link_count", "unique_file_count",
                  "daily_send_count", "send_count">>

\* The order in which a run fills in a snapshot.
Order == <<"user_count", "bucket_count", "image_link_count", "unique_file_count",
           "send_count", "daily_send_count">>

Counts == [Field -> Nat \cup {None}]
Row    == [counts : Counts, b2 : Metric \cup {None}, finalized : BOOLEAN]

ASSUME NullAssumption == None \notin Row

NoCounts == [f \in Field |-> None]

Steps == {"down", "asleep", "finalize", "earliest", "count", "write", "list", "apply"}

\* asked: the day the collector last asked the clock for.  phase: what the
\* counting is for.  day, read, counts: the snapshot being filled in.
Collector == [pc : Steps, asked : Day, date : Day, phase : {"backfill", "refresh"}, day : Day,
              read : 0..Len(Order), counts : Counts, b2 : Metric \cup {None}]

Goto(c) == col' = c

Started(d) == [pc |-> "finalize", asked |-> d, date |-> d, phase |-> "backfill", day |-> d,
               read |-> 0, counts |-> NoCounts, b2 |-> None]

Asleep(c) == [Started(c.date) EXCEPT !.pc = "asleep", !.asked = today]

Counting(c, phase, d) ==
    [c EXCEPT !.pc = "count", !.phase = phase, !.day = d, !.read = 0, !.counts = NoCounts]

\* Mutant: the new value alone.
CoalesceNot(a, b) == a

Coalesce(a, b) == IF a = None THEN b ELSE a

Rows(t)      == {x \in alive : TableOf[x] = t}
Through(t, d) == {x \in Rows(t) : born[x] <= d}
SendsOn(d)   == {x \in Rows("send_history") : born[x] = d}

\* A fresh database; the server starts.
Init ==
    /\ today \in Day
    /\ born = [x \in Item |-> None] /\ alive = {}
    /\ snapshots = [d \in Day |-> None]
    /\ col = Started(today)
    /\ faults = 0 /\ stops = 0

-----------------------------------------------------------------------------
(* The application, and the clock *)

\* created_at and sent_at default to the time of the INSERT.  A send asks for an
\* image too, but does not go with it; it may come without one here.
Create(x) ==
    /\ col.pc # "down"
    /\ born[x] = None /\ Above[x] \subseteq alive
    /\ born' = [born EXCEPT ![x] = today]
    /\ alive' = alive \cup {x}
    /\ UNCHANGED <<today, snapshots, col, faults, stops>>

\* import_user_data takes an image's created_at from the file, whatever day it says.
Import(x) ==
    /\ col.pc # "down"
    /\ TableOf[x] = "images"
    /\ born[x] = None /\ Above[x] \subseteq alive
    /\ \E d \in Day : born' = [born EXCEPT ![x] = d]
    /\ alive' = alive \cup {x}
    /\ UNCHANGED <<today, snapshots, col, faults, stops>>

\* ON DELETE CASCADE; nothing deletes a single send.
Delete(x) ==
    /\ col.pc # "down"
    /\ x \in alive /\ TableOf[x] # "send_history"
    /\ alive' = alive \ ({x} \cup {y \in Item : x \in Above[y]})
    /\ UNCHANGED <<today, born, snapshots, col, faults, stops>>

\* A run takes less than a day and a sleeper is woken within one, so at most
\* one midnight passes between two looks of the collector at the clock.
Tick ==
    /\ today < LastDay
    /\ col.pc = "down" \/ col.asked = today
    /\ today' = today + 1
    /\ UNCHANGED <<source, snapshots, col, faults, stops>>

-----------------------------------------------------------------------------
(* A run of the collector *)

\* Sleeping to the midnight after the one look at the clock.
Wake ==
    /\ col.pc = "asleep" /\ today > col.asked
    /\ Goto(Started(today))
    /\ UNCHANGED <<today, source, snapshots, faults, stops>>

\* Mutant: the row of yesterday only.
FinalizableYesterday(d) == snapshots[d] # None /\ ~snapshots[d].finalized /\ d + 1 = col.date

\* WHERE finalized = 0 AND snapshot_date < ?
Finalizable(d) == snapshots[d] # None /\ ~snapshots[d].finalized /\ d < col.date

\* Mutant: everything there is when the run looks.
RecountedNow(d) ==
    [f \in Field |-> CASE f = "unique_file_count" -> snapshots[d].counts[f]
                       [] f = "daily_send_count"  -> Cardinality(SendsOn(d))
                       [] OTHER                   -> Cardinality(Rows(Source[f]))]

\* The counts as of the end of day d; the file counts stay.
Recounted(d) ==
    [f \in Field |-> CASE f = "unique_file_count" -> snapshots[d].counts[f]
                       [] f = "daily_send_count"  -> Cardinality(SendsOn(d))
                       [] OTHER                   -> Cardinality(Through(Source[f], d))]

\* finalize_snapshots_before: one UPDATE.
Finalize ==
    /\ col.pc = "finalize"
    /\ snapshots' = [d \in Day |-> IF Finalizable(d)
                                   THEN [snapshots[d] EXCEPT !.counts = Recounted(d), !.finalized = TRUE]
                                   ELSE snapshots[d]]
    /\ Goto([col EXCEPT !.pc = "earliest"])
    /\ UNCHANGED <<today, source, faults, stops>>

\* Mutant: activity of the current day starts a backfill.
BackfillFromAlways(d) == d <= col.date

\* if snapshot_date > yesterday return
BackfillFrom(d) == d < col.date

\* earliest_activity_date, over all four tables.
Earliest ==
    /\ col.pc = "earliest"
    /\ LET days == {born[x] : x \in alive}
           old  == {d \in days : (\A e \in days : d <= e) /\ BackfillFrom(d)} IN
       \/ \E d \in old : Goto(Counting(col, "backfill", d))
       \/ old = {} /\ Goto(Counting(col, "refresh", col.date))
    /\ UNCHANGED <<today, source, snapshots, faults, stops>>

\* What the query for a field of the snapshot may answer now.
Answers(f) ==
    CASE f = "unique_file_count" -> IF col.phase = "backfill" THEN {None} ELSE 0..MaxFiles
      [] f = "daily_send_count"  -> {Cardinality(SendsOn(col.day))}
      [] OTHER -> {Cardinality(IF col.phase = "backfill" THEN Through(Source[f], col.day)
                               ELSE Rows(Source[f]))}

\* One SELECT COUNT(*).
Count ==
    /\ col.pc = "count"
    /\ LET f == Order[col.read + 1]
           n == col.read + 1 IN
       \E v \in Answers(f) :
          Goto([col EXCEPT !.counts = [@ EXCEPT ![f] = v], !.read = n,
                           !.pc = IF n = Len(Order) THEN "write" ELSE "count"])
    /\ UNCHANGED <<today, source, snapshots, faults, stops>>

\* Mutant: ON CONFLICT DO UPDATE.
HistoricalReplacing(old, c) == [counts |-> c, b2 |-> None, finalized |-> TRUE]

\* insert_historical_snapshot: ON CONFLICT DO NOTHING.
Historical(old, c) == IF old = None THEN [counts |-> c, b2 |-> None, finalized |-> TRUE] ELSE old

InsertHistorical ==
    /\ col.pc = "write" /\ col.phase = "backfill"
    /\ snapshots' = [snapshots EXCEPT ![col.day] = Historical(@, col.counts)]
    /\ Goto(IF col.day + 1 = col.date THEN Counting(col, "refresh", col.date)
            ELSE Counting(col, "backfill", col.day + 1))
    /\ UNCHANGED <<today, source, faults, stops>>

\* upsert_current_snapshot.
Current(old, c) ==
    IF old = None THEN [counts |-> c, b2 |-> None, finalized |-> FALSE]
    ELSE [counts |-> [c EXCEPT !["unique_file_count"] = Coalesce(@, old.counts["unique_file_count"])],
          b2 |-> old.b2, finalized |-> FALSE]

UpsertCurrent ==
    /\ col.pc = "write" /\ col.phase = "refresh"
    /\ snapshots' = [snapshots EXCEPT ![col.date] = Current(@, col.counts)]
    /\ Goto([col EXCEPT !.pc = "list"])
    /\ UNCHANGED <<today, source, faults, stops>>

\* list_stats: an error, or no storage, leaves the metrics as they are.
List ==
    /\ col.pc = "list"
    /\ \E m \in Metric \cup {None} : Goto([col EXCEPT !.pc = "apply", !.b2 = m])
    /\ UNCHANGED <<today, source, snapshots, faults, stops>>

\* apply_provider_metrics; the loop asks for the next midnight and sleeps.
Apply ==
    /\ col.pc = "apply"
    /\ snapshots' = [d \in Day |->
          IF d = col.date /\ snapshots[d] # None /\ ~snapshots[d].finalized
          THEN [snapshots[d] EXCEPT !.b2 = Coalesce(col.b2, @)]
          ELSE snapshots[d]]
    /\ Goto(Asleep(col))
    /\ UNCHANGED <<today, source, faults, stops>>

-----------------------------------------------------------------------------
(* What may go wrong *)

\* A statement fails: the run ends with a warning.
RunFails ==
    /\ faults < MaxFaults
    /\ col.pc \notin {"down", "asleep"}
    /\ faults' = faults + 1
    /\ Goto(Asleep(col))
    /\ UNCHANGED <<today, source, snapshots, stops>>

Stop ==
    /\ stops < MaxStops
    /\ col.pc # "down"
    /\ stops' = stops + 1
    /\ Goto([Asleep(col) EXCEPT !.pc = "down"])
    /\ UNCHANGED <<today, source, snapshots, faults>>

\* main spawns the collector.
Start ==
    /\ col.pc = "down"
    /\ Goto(Started(today))
    /\ UNCHANGED <<today, source, snapshots, faults, stops>>

-----------------------------------------------------------------------------
Run == Finalize \/ Earliest \/ Count \/ InsertHistorical \/ UpsertCurrent \/ List \/ Apply

Next ==
    \/ \E x \in Item : Create(x) \/ Import(x) \/ Delete(x)
    \/ Tick \/ Wake \/ Run
    \/ RunFails \/ Stop \/ Start

Spec == Init /\ [][Next]_vars

\* The clock goes on, a sleeper is woken, a query is answered, and somebody
\* starts the server again.
FairSpec == Spec /\ WF_vars(Tick) /\ WF_vars(Wake) /\ WF_vars(Run) /\ WF_vars(Start)

-----------------------------------------------------------------------------
(* Properties *)

\* Every variable has its type.
TypeOK ==
    /\ today \in Day
    /\ born \in [Item -> Day \cup {None}]
    /\ alive \subseteq Item /\ \A x \in alive : born[x] # None
    /\ snapshots \in [Day -> Row \cup {None}]
    /\ col \in Collector
    /\ faults \in 0..MaxFaults /\ stops \in 0..MaxStops

Finalized(d) == snapshots[d] # None /\ snapshots[d].finalized

\* The history promises what DayLedger does: a finalised row is of a day that is
\* over, and no later run changes it, whatever was deleted or imported since.
Ledger == INSTANCE DayLedger WITH
    Entry  <- Counts \X (Metric \cup {None}),
    closed <- [d \in Day |-> IF Finalized(d) THEN <<snapshots[d].counts, snapshots[d].b2>> ELSE None]

LedgerSpec == Ledger!Spec

\* A finalised day counts at least what is left of that day and at most what
\* there ever was, although its queries were asked one by one, on another day,
\* and around midnight.  (Imports backdate images, so not those.)
FinalizedCountsAreTrue ==
    \A d \in {e \in Day : Finalized(e)} :
        LET c == snapshots[d].counts
            Ever(t) == {x \in Item : TableOf[x] = t /\ born[x] # None /\ born[x] <= d} IN
        /\ \A f \in {"user_count", "bucket_count", "send_count"} :
              /\ Cardinality(Through(Source[f], d)) <= c[f]
              /\ c[f] <= Cardinality(Ever(Source[f]))
        /\ Cardinality(SendsOn(d)) <= c["daily_send_count"]
        /\ c["daily_send_count"] <= Cardinality({x \in Ever("send_history") : born[x] = d})

\* A finalised day's sends are among all sends to that day, although the two
\* are counted by separate queries between which accounts may be deleted.
DailyWithinTotal ==
    \A d \in Day : Finalized(d) =>
        snapshots[d].counts["daily_send_count"] <= snapshots[d].counts["send_count"]

\* A run that got past its first statement left no earlier row open, however
\* long the server was down.
NoRowLeftOpen ==
    col.pc \notin {"down", "asleep", "finalize"} =>
        \A d \in Day : d < col.date /\ snapshots[d] # None => snapshots[d].finalized

\* Storage metrics, once known for a day, are not lost again: not by a refresh
\* that cannot list the store, not by finalising, not by a backfill.
MetricsNeverLost ==
    [][\A d \in Day : snapshots[d] # None /\ snapshots[d].b2 # None
          => snapshots'[d] # None /\ snapshots'[d].b2 # None]_vars

\* Without failing statements every row is finalised, if two midnights are left
\* for it: a run that began before the first one sleeps until the second.
EveryRowCloses ==
    \A d \in Day : (d + 2 <= LastDay /\ snapshots[d] # None) ~> Finalized(d)
=============================================================================
