---------------------------- MODULE AdminStatsProofs ----------------------------
(***************************************************************************)
(* AdminStats implements DayLedger, and further theorems about it.          *)
(***************************************************************************)
EXTENDS AdminStats, TLAPS, FiniteSetTheorems

\* A run works on the day it started on or on earlier ones, and that day has
\* come; a query is left while it counts; finalised rows are of days before it.
Dated ==
    /\ col.date <= today
    /\ col.pc \in {"count", "write"} /\ col.phase = "backfill" => col.day < col.date
    /\ col.pc = "count" => col.read < Len(Order)
    /\ \A d \in Day : Finalized(d) => d < col.date

Inv == TypeOK /\ Dated

-----------------------------------------------------------------------------
(* Types *)

LEMMA CountsAreNumbers ==
    ASSUME StatsAssumption, TypeOK, NEW t, NEW d
    PROVE  /\ Cardinality(Rows(t)) \in Nat
           /\ Cardinality(Through(t, d)) \in Nat
           /\ Cardinality(SendsOn(d)) \in Nat
<1>1. \A S \in SUBSET Item : Cardinality(S) \in Nat
    BY FS_Subset, FS_CardinalityType DEF StatsAssumption
<1>2. Rows(t) \in SUBSET Item /\ Through(t, d) \in SUBSET Item /\ SendsOn(d) \in SUBSET Item
    BY DEF TypeOK, Rows, Through, SendsOn
<1> QED BY <1>1, <1>2

LEMMA NoCountsType == NoCounts \in Counts
BY DEF NoCounts, Counts

LEMMA SixQueries ==
    /\ Len(Order) = 6
    /\ \A n \in 1..6 : Order[n] \in Field
BY DEF Order, Field

LEMMA StartedType ==
    ASSUME NEW d \in Day
    PROVE  Started(d) \in Collector
BY NoCountsType, SixQueries DEF Started, Collector, Steps

LEMMA AsleepType ==
    ASSUME TypeOK, NEW c \in Collector
    PROVE  /\ Asleep(c) \in Collector
           /\ [Asleep(c) EXCEPT !.pc = "down"] \in Collector
           /\ Asleep(c).date = c.date /\ Asleep(c).pc = "asleep"
<1>1. c.date \in Day /\ today \in Day BY DEF Collector, TypeOK
<1>2. Started(c.date) \in Collector BY <1>1, StartedType
<1>3. Asleep(c) \in Collector BY <1>1, <1>2 DEF Asleep, Collector, Steps
<1>4. [Asleep(c) EXCEPT !.pc = "down"] \in Collector BY <1>3 DEF Collector, Steps
<1>5. Asleep(c).date = c.date /\ Asleep(c).pc = "asleep"
    BY <1>2 DEF Asleep, Started, Collector
<1> QED BY <1>3, <1>4, <1>5

LEMMA CountingType ==
    ASSUME NEW c \in Collector, NEW ph \in {"backfill", "refresh"}, NEW d \in Day
    PROVE  /\ Counting(c, ph, d) \in Collector
           /\ Counting(c, ph, d).date = c.date /\ Counting(c, ph, d).day = d
           /\ Counting(c, ph, d).pc = "count" /\ Counting(c, ph, d).phase = ph
<1>1. 0 \in 0..Len(Order) BY SixQueries
<1>2. c = [pc |-> c.pc, asked |-> c.asked, date |-> c.date, phase |-> c.phase,
           day |-> c.day, read |-> c.read, counts |-> c.counts, b2 |-> c.b2]
    BY DEF Collector
<1> QED BY <1>1, <1>2, NoCountsType DEF Counting, Collector, Steps

LEMMA AnswerType ==
    ASSUME StatsAssumption, TypeOK, NEW f \in Field, NEW v \in Answers(f)
    PROVE  v \in Nat \cup {None}
<1>1. \A t, d : /\ Cardinality(Rows(t)) \in Nat
                /\ Cardinality(Through(t, d)) \in Nat
                /\ Cardinality(SendsOn(d)) \in Nat
    BY CountsAreNumbers
<1>2. CASE f = "unique_file_count" BY <1>2 DEF Answers, StatsAssumption
<1>3. CASE f = "daily_send_count" BY <1>1, <1>3 DEF Answers
<1>4. CASE f \notin {"unique_file_count", "daily_send_count"} BY <1>1, <1>4 DEF Answers
<1> QED BY <1>2, <1>3, <1>4

LEMMA RecountedType ==
    ASSUME StatsAssumption, TypeOK, NEW d \in Day, snapshots[d] # None
    PROVE  Recounted(d) \in Counts
<1>1. \A t : Cardinality(Through(t, d)) \in Nat /\ Cardinality(SendsOn(d)) \in Nat
    BY CountsAreNumbers
<1>2. snapshots[d].counts \in Counts BY DEF TypeOK, Row
<1>3. \A f \in Field : Recounted(d)[f] \in Nat \cup {None}
    BY <1>1, <1>2 DEF Recounted, Counts
<1>4. Recounted(d) = [f \in Field |-> Recounted(d)[f]] BY DEF Recounted
<1> QED BY <1>3, <1>4 DEF Counts

-----------------------------------------------------------------------------
(* Rows: every write of a snapshot row, once *)

LEMMA FinalizeRows ==
    ASSUME StatsAssumption, Inv, Finalize
    PROVE  /\ snapshots' \in [Day -> Row \cup {None}]
           /\ \A d \in Day :
                 /\ ~Finalizable(d) => snapshots'[d] = snapshots[d]
                 /\ Finalizable(d) => /\ snapshots[d] \in Row
                                      /\ snapshots'[d] = [snapshots[d] EXCEPT !.counts = Recounted(d),
                                                                             !.finalized = TRUE]
<1>1. \A d \in Day : snapshots[d] # None =>
          [snapshots[d] EXCEPT !.counts = Recounted(d), !.finalized = TRUE] \in Row
    <2> TAKE d \in Day
    <2> HAVE snapshots[d] # None
    <2>1. Recounted(d) \in Counts BY RecountedType DEF Inv
    <2>2. snapshots[d] \in Row BY DEF Inv, TypeOK
    <2> QED BY <2>1, <2>2 DEF Row
<1>2. \A d \in Day : Finalizable(d) => snapshots[d] \in Row
    BY DEF Finalizable, Inv, TypeOK
<1>3. \A d \in Day : Finalizable(d) => snapshots[d] # None BY DEF Finalizable
<1> QED BY <1>1, <1>2, <1>3 DEF Finalize, Inv, TypeOK

LEMMA HistoricalRows ==
    ASSUME StatsAssumption, Inv, InsertHistorical
    PROVE  /\ snapshots' \in [Day -> Row \cup {None}]
           /\ col.day \in Day /\ col.day < col.date
           /\ \A d \in Day :
                 \/ snapshots'[d] = snapshots[d]
                 \/ /\ d = col.day /\ snapshots[d] = None
                    /\ snapshots'[d] = [counts |-> col.counts, b2 |-> None, finalized |-> TRUE]
<1>1. col.day \in Day /\ col.counts \in Counts BY DEF Inv, TypeOK, Collector
<1>2. Historical(snapshots[col.day], col.counts) \in Row \cup {None}
    BY <1>1 DEF Historical, Row, Inv, TypeOK
<1>3. col.day < col.date BY DEF InsertHistorical, Inv, Dated
<1> QED BY <1>1, <1>2, <1>3 DEF InsertHistorical, Historical, Inv, TypeOK

LEMMA CurrentRow ==
    ASSUME NEW old \in Row \cup {None}, NEW c \in Counts
    PROVE  /\ Current(old, c) \in Row
           /\ old # None => Current(old, c).b2 = old.b2
           /\ ~Current(old, c).finalized
<1>1. CASE old = None BY <1>1 DEF Current, Row
<1>2. CASE old # None
    <2>1. old \in Row BY <1>2
    <2>2. Coalesce(c["unique_file_count"], old.counts["unique_file_count"]) \in Nat \cup {None}
        BY <2>1 DEF Coalesce, Row, Counts, Field
    <2> QED BY <1>2, <2>1, <2>2 DEF Current, Row, Counts
<1> QED BY <1>1, <1>2

LEMMA CurrentRows ==
    ASSUME StatsAssumption, Inv, UpsertCurrent
    PROVE  /\ snapshots' \in [Day -> Row \cup {None}]
           /\ \A d \in Day :
                 \/ snapshots'[d] = snapshots[d]
                 \/ /\ d = col.date
                    /\ snapshots'[d] \in Row /\ ~snapshots'[d].finalized
                    /\ snapshots[d] # None => snapshots'[d].b2 = snapshots[d].b2
<1>1. col.date \in Day /\ col.counts \in Counts BY DEF Inv, TypeOK, Collector
<1>2. snapshots[col.date] \in Row \cup {None} BY <1>1 DEF Inv, TypeOK
<1>3. /\ Current(snapshots[col.date], col.counts) \in Row
      /\ snapshots[col.date] # None =>
            Current(snapshots[col.date], col.counts).b2 = snapshots[col.date].b2
      /\ ~Current(snapshots[col.date], col.counts).finalized
    BY <1>1, <1>2, CurrentRow
<1> QED BY <1>1, <1>3 DEF UpsertCurrent, Inv, TypeOK

LEMMA ApplyRows ==
    ASSUME StatsAssumption, Inv, Apply
    PROVE  /\ snapshots' \in [Day -> Row \cup {None}]
           /\ \A d \in Day :
                 \/ snapshots'[d] = snapshots[d]
                 \/ /\ d = col.date
                    /\ snapshots[d] # None /\ ~snapshots[d].finalized
                    /\ snapshots'[d] = [snapshots[d] EXCEPT !.b2 = Coalesce(col.b2, @)]
<1>1. col.b2 \in Metric \cup {None} BY DEF Inv, TypeOK, Collector
<1>2. \A d \in Day : snapshots[d] # None =>
          [snapshots[d] EXCEPT !.b2 = Coalesce(col.b2, @)] \in Row
    BY <1>1 DEF Inv, TypeOK, Row, Coalesce
<1> QED BY <1>2 DEF Apply, Inv, TypeOK

-----------------------------------------------------------------------------
(* The invariant *)

LEMMA InitInv ==
    ASSUME StatsAssumption, Init
    PROVE  Inv
<1>1. col \in Collector BY StartedType DEF Init
<1>2. TypeOK BY <1>1 DEF Init, TypeOK, StatsAssumption
<1>3. Dated BY DEF Init, Dated, Started, Finalized, Day
<1> QED BY <1>2, <1>3 DEF Inv

\* What the steps of a run do to the collector.
LEMMA RunSteps ==
    ASSUME StatsAssumption, Inv, Run
    PROVE  /\ col' \in Collector /\ col'.date = col.date
           /\ col'.pc \in {"count", "write"} /\ col'.phase = "backfill" => col'.day < col'.date
           /\ col'.pc = "count" => col'.read < Len(Order)
           /\ UNCHANGED <<today, source, faults, stops>>
<1>0. /\ col \in Collector /\ TypeOK /\ Dated
      /\ col.date \in Day /\ col.day \in Day /\ today \in Day
    BY DEF Inv, TypeOK, Collector
<1>a. \A ph \in {"backfill", "refresh"}, d \in Day :
          LET c == Counting(col, ph, d) IN
          /\ c \in Collector
          /\ c.date = col.date /\ c.day = d /\ c.pc = "count" /\ c.phase = ph
          /\ c.read < Len(Order)
    <2> TAKE ph \in {"backfill", "refresh"}, d \in Day
    <2>1. Counting(col, ph, d).read < Len(Order) BY <1>0, SixQueries DEF Counting, Collector
    <2>2. /\ Counting(col, ph, d) \in Collector
          /\ Counting(col, ph, d).date = col.date /\ Counting(col, ph, d).day = d
          /\ Counting(col, ph, d).pc = "count" /\ Counting(col, ph, d).phase = ph
        <3>1. col \in Collector BY <1>0
        <3> QED BY ONLY <3>1, ph \in {"backfill", "refresh"}, d \in Day, CountingType
    <2> QED BY <2>1, <2>2
<1>b. Asleep(col) \in Collector /\ Asleep(col).date = col.date /\ Asleep(col).pc = "asleep"
    BY <1>0, AsleepType
<1>1. CASE Finalize
    BY <1>0, <1>1 DEF Finalize, Goto, Collector, Steps
<1>2. CASE Earliest
    <2>1. UNCHANGED <<today, source, faults, stops>> BY <1>2 DEF Earliest
    <2>2. CASE \E d \in Day : BackfillFrom(d) /\ Goto(Counting(col, "backfill", d))
        <3>1. PICK d \in Day : BackfillFrom(d) /\ Goto(Counting(col, "backfill", d)) BY <2>2
        <3>2. d < col.date /\ col' = Counting(col, "backfill", d) BY <3>1 DEF BackfillFrom, Goto
        <3> QED BY <1>a, <2>1, <3>2
    <2>3. CASE Goto(Counting(col, "refresh", col.date))
        <3>1. col' = Counting(col, "refresh", col.date) BY <2>3 DEF Goto
        <3> QED BY <1>0, <1>a, <2>1, <3>1
    <2>4. \A x \in alive : born[x] \in Day BY <1>0 DEF TypeOK
    <2> QED BY <1>2, <2>2, <2>3, <2>4 DEF Earliest
<1>3. CASE Count
    <2> DEFINE f == Order[col.read + 1]
               n == col.read + 1
    <2>1. PICK v \in Answers(f) :
              col' = [col EXCEPT !.counts = [@ EXCEPT ![f] = v], !.read = n,
                                 !.pc = IF n = Len(Order) THEN "write" ELSE "count"]
        BY <1>3 DEF Count, Goto
    <2>2. UNCHANGED <<today, source, faults, stops>> /\ col.pc = "count" BY <1>3 DEF Count
    <2>3. n \in 1..6
        BY <1>0, <2>2, SixQueries DEF Dated, Collector
    <2>4. f \in Field BY <2>3, SixQueries
    <2>5. v \in Nat \cup {None} BY <1>0, <2>1, <2>4, AnswerType
    <2>6. [col.counts EXCEPT ![f] = v] \in Counts
        BY <1>0, <2>4, <2>5 DEF Collector, Counts
    <2> HIDE DEF f
    <2>7. col' \in Collector
        <3>1. n \in 0..Len(Order) /\ (IF n = Len(Order) THEN "write" ELSE "count") \in Steps
            BY <2>3, SixQueries DEF Steps
        <3>2. col.counts \in Counts BY <1>0 DEF Collector
        <3> HIDE DEF n
        <3> QED BY <1>0, <2>1, <2>6, <3>1, <3>2 DEF Collector
    <2>8. col'.date = col.date /\ col'.phase = col.phase /\ col'.day = col.day /\ col'.read = n
          /\ col'.pc = IF n = Len(Order) THEN "write" ELSE "count"
        BY <1>0, <2>1 DEF Collector
    <2> QED BY <1>0, <2>2, <2>3, <2>7, <2>8, SixQueries DEF Dated
<1>4. CASE InsertHistorical
    <2>1. col.day < col.date BY HistoricalRows, <1>4
    <2>2. UNCHANGED <<today, source, faults, stops>> BY <1>4 DEF InsertHistorical
    <2>3. CASE col.day + 1 = col.date
        <3>1. col' = Counting(col, "refresh", col.date) BY <1>4, <2>3 DEF InsertHistorical, Goto
        <3> QED BY <1>0, <1>a, <2>2, <3>1
    <2>4. CASE col.day + 1 # col.date
        <3>1. col.day + 1 \in Day /\ col.day + 1 < col.date
            BY <1>0, <2>1, <2>4 DEF Day, StatsAssumption
        <3>2. col' = Counting(col, "backfill", col.day + 1) BY <1>4, <2>4 DEF InsertHistorical, Goto
        <3> QED BY <1>a, <2>2, <3>1, <3>2
    <2> QED BY <2>3, <2>4
<1>5. CASE UpsertCurrent
    BY <1>0, <1>5 DEF UpsertCurrent, Goto, Collector, Steps
<1>6. CASE List
    BY <1>0, <1>6 DEF List, Goto, Collector, Steps
<1>7. CASE Apply
    <2>1. col' = Asleep(col) /\ UNCHANGED <<today, source, faults, stops>> BY <1>7 DEF Apply, Goto
    <2> QED BY <1>b, <2>1
<1> QED BY <1>1, <1>2, <1>3, <1>4, <1>5, <1>6, <1>7 DEF Run

\* What they do to the rows: a finalised row is of an earlier day, or was so before.
LEMMA RunRows ==
    ASSUME StatsAssumption, Inv, Run
    PROVE  /\ snapshots' \in [Day -> Row \cup {None}]
           /\ \A d \in Day : Finalized(d)' => d < col.date
           /\ \A d \in Day : Finalized(d) => snapshots'[d] = snapshots[d]
<1>0. TypeOK /\ Dated /\ col.date \in Day BY DEF Inv, TypeOK, Collector
<1>1. CASE Finalize
    <2>1. \A d \in Day : Finalizable(d) => ~Finalized(d) /\ d < col.date
        BY DEF Finalizable, Finalized
    <2> QED BY <1>0, <1>1, <2>1, FinalizeRows DEF Finalized, Dated
<1>2. CASE Earliest \/ Count \/ List
    BY <1>0, <1>2 DEF Earliest, Count, List, TypeOK, Dated, Finalized
<1>3. CASE InsertHistorical
    BY <1>0, <1>3, HistoricalRows DEF Finalized, Dated
<1>4. CASE UpsertCurrent
    <2>1. ~Finalized(col.date) BY <1>0 DEF Dated, Day, StatsAssumption
    <2> QED BY <1>0, <1>4, <2>1, CurrentRows DEF Finalized, Dated
<1>5. CASE Apply
    <2>1. \A d \in Day : snapshots[d] # None /\ snapshots'[d] = [snapshots[d] EXCEPT !.b2 = Coalesce(col.b2, @)]
              => snapshots'[d].finalized = snapshots[d].finalized
        BY <1>0 DEF TypeOK, Row
    <2> QED BY <1>0, <1>5, <2>1, ApplyRows DEF Finalized, Dated
<1> QED BY <1>1, <1>2, <1>3, <1>4, <1>5 DEF Run

LEMMA StepKeepsInv ==
    ASSUME StatsAssumption, Inv, [Next]_vars
    PROVE  Inv'
<1>0. TypeOK /\ Dated /\ col \in Collector /\ col.date \in Day /\ today \in Day
    BY DEF Inv, TypeOK, Collector
<1>1. CASE \E x \in Item : Create(x) \/ Import(x) \/ Delete(x)
    <2>1. PICK x \in Item : Create(x) \/ Import(x) \/ Delete(x) BY <1>1
    <2>2. None \notin Day BY DEF StatsAssumption, Day
    <2>3. TypeOK' BY <1>0, <2>1, <2>2 DEF TypeOK, Create, Import, Delete
    <2>4. Dated' BY <1>0, <2>1 DEF Dated, Finalized, Create, Import, Delete
    <2> QED BY <2>3, <2>4 DEF Inv
<1>2. CASE Tick
    <2>1. today' \in Day /\ today' > today BY <1>0, <1>2 DEF Tick, Day, StatsAssumption
    <2>2. TypeOK' BY <1>0, <1>2, <2>1 DEF TypeOK, Tick, source
    <2>3. Dated' BY <1>0, <1>2, <2>1 DEF Dated, Finalized, Tick, Day, StatsAssumption
    <2> QED BY <2>2, <2>3 DEF Inv
<1>3. CASE Wake \/ Start
    <2>1. col' = Started(today) /\ UNCHANGED <<today, source, snapshots, faults, stops>>
        BY <1>3 DEF Wake, Start, Goto
    <2>2. col' \in Collector /\ col'.date = today /\ col'.pc = "finalize"
        BY <1>0, <2>1, StartedType DEF Started
    <2>3. TypeOK' BY <1>0, <2>1, <2>2 DEF TypeOK, source
    <2>4. Dated' BY <1>0, <2>1, <2>2 DEF Dated, Finalized, Day, StatsAssumption
    <2> QED BY <2>3, <2>4 DEF Inv
<1>4. CASE Run
    <2>1. TypeOK' BY <1>0, <1>4, RunSteps, RunRows DEF TypeOK, source
    <2>2. Dated' BY <1>0, <1>4, RunSteps, RunRows DEF Dated
    <2> QED BY <2>1, <2>2 DEF Inv
<1>5. CASE RunFails \/ Stop
    <2>1. /\ col' \in Collector /\ col'.date = col.date /\ col'.pc \in {"asleep", "down"}
          /\ UNCHANGED <<today, source, snapshots>>
        <3>1. Asleep(col) \in Collector /\ [Asleep(col) EXCEPT !.pc = "down"] \in Collector
              /\ Asleep(col).date = col.date /\ Asleep(col).pc = "asleep"
            BY <1>0, AsleepType
        <3>2. [Asleep(col) EXCEPT !.pc = "down"].date = col.date
              /\ [Asleep(col) EXCEPT !.pc = "down"].pc = "down"
            BY <3>1 DEF Collector
        <3> QED BY <1>5, <3>1, <3>2 DEF RunFails, Stop, Goto
    <2>2. faults' \in 0..MaxFaults /\ stops' \in 0..MaxStops
        BY <1>0, <1>5 DEF RunFails, Stop, TypeOK, StatsAssumption
    <2>3. TypeOK' BY <1>0, <2>1, <2>2 DEF TypeOK, source
    <2>4. Dated' BY <1>0, <2>1 DEF Dated, Finalized
    <2> QED BY <2>3, <2>4 DEF Inv
<1>6. CASE UNCHANGED vars
    BY <1>0, <1>6 DEF Inv, TypeOK, Dated, Finalized, vars, source
<1> QED BY <1>1, <1>2, <1>3, <1>4, <1>5, <1>6 DEF Next

LEMMA Invariance == Spec => []Inv
<1>1. Init => Inv BY InitInv, StatsAssumption
<1>2. Inv /\ [Next]_vars => Inv' BY StepKeepsInv, StatsAssumption
<1> QED BY <1>1, <1>2, PTL DEF Spec

\* Every variable keeps its type.
THEOREM TypeCorrect == Spec => []TypeOK
<1>1. Inv => TypeOK BY DEF Inv
<1> QED BY <1>1, Invariance, PTL

-----------------------------------------------------------------------------
(* History *)

LEMMA OtherSteps ==
    ASSUME StatsAssumption, [Next]_vars, ~Run
    PROVE  snapshots' = snapshots /\ today' \in {today, today + 1} /\ (today' # today => Tick)
BY DEF Next, Create, Import, Delete, Tick, Wake, RunFails, Stop, Start, vars

\* The collector implements the ledger: a finalised row (repositories/
\* admin_stats.rs, finalize_snapshots_before, insert_historical_snapshot) is of a
\* day that is over, and upserts, backfills and metrics leave it as it is.
THEOREM ImplementsLedger == Spec => LedgerSpec
<1> DEFINE closed == [d \in Day |-> IF Finalized(d) THEN <<snapshots[d].counts, snapshots[d].b2>> ELSE None]
<1>1. Init => Ledger!Init
    BY DEF Init, Ledger!Init, Ledger!Day, Day, Finalized
<1>2. Inv /\ Inv' /\ [Next]_vars => [Ledger!Next]_<<today, closed>>
    <2> SUFFICES ASSUME Inv, Inv', [Next]_vars PROVE [Ledger!Next]_<<today, closed>>
        OBVIOUS
    <2>1. CASE Run
        <3>1. UNCHANGED today BY <2>1, RunSteps, StatsAssumption
        <3>2. \A d \in Day : Finalized(d)' => d < today
            <4>1. col.date \in Day /\ today \in Day /\ col.date <= today
                BY DEF Inv, TypeOK, Collector, Dated
            <4> QED BY <2>1, <4>1, RunRows, StatsAssumption DEF Day
        <3>3. \A d \in Day : Finalized(d) => snapshots'[d] = snapshots[d]
            BY <2>1, RunRows, StatsAssumption
        <3>4. \A d \in Day : Finalized(d)' =>
                  <<snapshots'[d].counts, snapshots'[d].b2>> \in Counts \X (Metric \cup {None})
            BY DEF Inv, TypeOK, Row, Finalized
        <3>5. closed' \in [Day -> (Counts \X (Metric \cup {None})) \cup {None}]
            BY <3>4
        <3>6. \A d \in Day : closed'[d] # closed[d] => closed[d] = None /\ d < today
            BY <3>2, <3>3 DEF Finalized
        <3> QED BY <3>1, <3>5, <3>6 DEF Ledger!Next, Ledger!Close, Ledger!Day, Day
    <2>2. CASE ~Run
        <3>1. snapshots' = snapshots /\ (today' # today => Tick)
            BY <2>2, OtherSteps, StatsAssumption
        <3>2. closed' = closed BY <3>1 DEF Finalized
        <3> QED BY <3>1, <3>2 DEF Ledger!Next, Ledger!Tick, Tick
    <2> QED BY <2>1, <2>2
<1> QED BY <1>1, <1>2, Invariance, PTL DEF LedgerSpec, Ledger!Spec, Spec

\* Storage metrics are not lost once they are known: upsert_current_snapshot and
\* apply_provider_metrics coalesce, and nothing else touches them.
THEOREM MetricsAreKept == Spec => MetricsNeverLost
<1> DEFINE Kept == \A d \in Day : snapshots[d] # None /\ snapshots[d].b2 # None
                       => snapshots'[d] # None /\ snapshots'[d].b2 # None
<1>1. Inv /\ Inv' /\ [Next]_vars => [Kept]_vars
    <2> SUFFICES ASSUME Inv, Inv', [Next]_vars PROVE Kept
        OBVIOUS
    <2>0. None \notin Row BY NullAssumption
    <2> SUFFICES ASSUME NEW d \in Day, snapshots[d] # None, snapshots[d].b2 # None
                 PROVE  snapshots'[d] # None /\ snapshots'[d].b2 # None
        OBVIOUS
    <2>1. CASE Finalize
        <3>1. CASE ~Finalizable(d) BY <2>1, <3>1, FinalizeRows, StatsAssumption
        <3>2. CASE Finalizable(d)
            <4>1. /\ snapshots[d] \in Row /\ snapshots' \in [Day -> Row \cup {None}]
                  /\ snapshots'[d] = [snapshots[d] EXCEPT !.counts = Recounted(d), !.finalized = TRUE]
                BY <2>1, <3>2, FinalizeRows, StatsAssumption
            <4>2. snapshots'[d].b2 = snapshots[d].b2 BY <4>1 DEF Row
            <4>3. Recounted(d) \in Counts BY RecountedType, StatsAssumption DEF Inv
            <4>4. snapshots'[d] \in Row BY <4>1, <4>3 DEF Row
            <4> QED BY <2>0, <4>2, <4>4
        <3> QED BY <3>1, <3>2
    <2>2. CASE Earliest \/ Count \/ List
        BY <2>2 DEF Earliest, Count, List
    <2>3. CASE InsertHistorical BY <2>3, HistoricalRows, StatsAssumption
    <2>4. CASE UpsertCurrent BY <2>0, <2>4, CurrentRows, StatsAssumption
    <2>5. CASE Apply
        <3>1. CASE snapshots'[d] = snapshots[d] BY <3>1
        <3>2. CASE snapshots'[d] = [snapshots[d] EXCEPT !.b2 = Coalesce(col.b2, @)]
            <4>1. snapshots[d] \in Row BY DEF Inv, TypeOK
            <4>2. Coalesce(col.b2, snapshots[d].b2) \in Metric
                BY <4>1 DEF Inv, TypeOK, Collector, Row, Coalesce
            <4>3. snapshots'[d] \in Row /\ snapshots'[d].b2 = Coalesce(col.b2, snapshots[d].b2)
                BY <3>2, <4>1, <4>2 DEF Row
            <4> QED BY <2>0, <4>2, <4>3, StatsAssumption DEF StatsAssumption
        <3> QED BY <2>5, <3>1, <3>2, ApplyRows, StatsAssumption
    <2>6. CASE ~Run BY <2>6, OtherSteps, StatsAssumption
    <2> QED BY <2>1, <2>2, <2>3, <2>4, <2>5, <2>6 DEF Run
<1> QED BY <1>1, Invariance, PTL DEF MetricsNeverLost, Spec

\* A run that is past finalize_snapshots_before left no earlier row open.
THEOREM RowsAreClosed == Spec => []NoRowLeftOpen
<1>1. Init => NoRowLeftOpen BY DEF Init, NoRowLeftOpen, Started
<1>2. Inv /\ NoRowLeftOpen /\ [Next]_vars => NoRowLeftOpen'
    <2> SUFFICES ASSUME Inv, NoRowLeftOpen, [Next]_vars,
                        col'.pc \notin {"down", "asleep", "finalize"},
                        NEW d \in Day, d < col'.date, snapshots'[d] # None
                 PROVE  snapshots'[d].finalized
        BY DEF NoRowLeftOpen
    <2>1. CASE Run
        <3>0. d < col.date BY <2>1, RunSteps, StatsAssumption
        <3>1. CASE Finalize
            BY <3>0, <3>1, FinalizeRows, StatsAssumption DEF Finalizable, Row
        <3>2. CASE Earliest \/ Count \/ List
            BY <3>0, <3>2 DEF Earliest, Count, List, NoRowLeftOpen
        <3>3. CASE InsertHistorical
            BY <3>0, <3>3, HistoricalRows, StatsAssumption DEF InsertHistorical, NoRowLeftOpen
        <3>4. CASE UpsertCurrent
            BY <3>0, <3>4, CurrentRows, StatsAssumption DEF UpsertCurrent, NoRowLeftOpen, Day
        <3>5. CASE Apply
            <4>1. Asleep(col).pc = "asleep" BY AsleepType DEF Inv, TypeOK
            <4> QED BY <3>5, <4>1 DEF Apply, Goto
        <3> QED BY <2>1, <3>1, <3>2, <3>3, <3>4, <3>5 DEF Run
    <2>2. CASE Wake \/ Start
        BY <2>2 DEF Wake, Start, Goto, Started
    <2>3. CASE RunFails \/ Stop
        <3>0. Asleep(col) \in Collector /\ Asleep(col).pc = "asleep"
            BY AsleepType DEF Inv, TypeOK
        <3>1. [Asleep(col) EXCEPT !.pc = "down"].pc = "down"
            BY <3>0 DEF Collector
        <3> QED BY <2>3, <3>0, <3>1 DEF RunFails, Stop, Goto
    <2>4. CASE Tick \/ UNCHANGED vars \/ \E x \in Item : Create(x) \/ Import(x) \/ Delete(x)
        <3>1. UNCHANGED <<snapshots, col>> BY <2>4 DEF Tick, Create, Import, Delete, vars
        <3> QED BY <3>1 DEF NoRowLeftOpen
    <2> QED BY <2>1, <2>2, <2>3, <2>4 DEF Next
<1> QED BY <1>1, <1>2, Invariance, PTL DEF Spec

-----------------------------------------------------------------------------
(* Two counts of one day *)

\* A backfill that has counted all sends through a day never finds more than
\* that on the day: the day is over, so that sends of it can only go.
Counted ==
    col.phase = "backfill" =>
        /\ col.pc = "count" /\ col.read = 5 => /\ col.counts["send_count"] \in Nat
                                               /\ Cardinality(SendsOn(col.day)) <= col.counts["send_count"]
        /\ col.pc = "write" => col.counts["daily_send_count"] <= col.counts["send_count"]

LEMMA SendsOnThrough ==
    ASSUME StatsAssumption, TypeOK, NEW d \in Day
    PROVE  /\ Cardinality(SendsOn(d)) \in Nat
           /\ Cardinality(Through("send_history", d)) \in Nat
           /\ Cardinality(SendsOn(d)) <= Cardinality(Through("send_history", d))
<1>1. SendsOn(d) \subseteq Through("send_history", d)
    BY DEF SendsOn, Through, Rows, Day, StatsAssumption
<1>2. Through("send_history", d) \subseteq Item BY DEF Through, Rows, TypeOK
<1>3. IsFiniteSet(Through("send_history", d)) BY <1>2, FS_Subset DEF StatsAssumption
<1> QED BY <1>1, <1>3, FS_Subset, FS_CardinalityType

LEMMA SendsOnlyGo ==
    ASSUME StatsAssumption, Inv, NEW d \in Day, d < today,
           NEW x \in Item, Create(x) \/ Import(x) \/ Delete(x)
    PROVE  Cardinality(SendsOn(d))' <= Cardinality(SendsOn(d)) /\ Cardinality(SendsOn(d))' \in Nat
<1>0. TypeOK /\ today \in Day BY DEF Inv, TypeOK
<1>1. \A y \in alive' : TableOf[y] = "send_history" /\ born'[y] = d => y \in alive /\ born[y] = d
    <2>1. CASE Create(x)
        BY <1>0, <2>1 DEF Create, TypeOK, Day, StatsAssumption
    <2>2. CASE Import(x)
        BY <1>0, <2>2 DEF Import, TypeOK
    <2>3. CASE Delete(x)
        BY <1>0, <2>3 DEF Delete, TypeOK
    <2> QED BY <2>1, <2>2, <2>3
<1>2. SendsOn(d)' \subseteq SendsOn(d) BY <1>1 DEF SendsOn, Rows
<1>3. SendsOn(d) \subseteq Item BY <1>0 DEF SendsOn, Rows, TypeOK
<1>4. IsFiniteSet(SendsOn(d)) BY <1>3, FS_Subset DEF StatsAssumption
<1>5. Cardinality(SendsOn(d)') <= Cardinality(SendsOn(d)) /\ Cardinality(SendsOn(d)') \in Nat
    BY <1>2, <1>4, FS_Subset, FS_CardinalityType
<1> QED BY <1>5

\* A run that begins, or turns to another day, has counted nothing yet.
LEMMA FreshRuns ==
    ASSUME StatsAssumption, Inv, Earliest \/ InsertHistorical \/ Wake \/ Start
    PROVE  \/ \E ph \in {"backfill", "refresh"}, d \in Day : col' = Counting(col, ph, d)
           \/ col' = Started(today)
<1>0. TypeOK /\ col.day \in Day /\ col.date \in Day BY DEF Inv, TypeOK, Collector
<1>1. CASE Earliest
    <2>1. \A x \in alive : born[x] \in Day BY <1>0 DEF TypeOK
    <2> QED BY <1>0, <1>1, <2>1 DEF Earliest, Goto
<1>2. CASE InsertHistorical
    <2>1. col.day < col.date BY <1>2, HistoricalRows
    <2>2. CASE col.day + 1 = col.date
        BY <1>0, <1>2, <2>2 DEF InsertHistorical, Goto
    <2>3. CASE col.day + 1 # col.date
        <3>1. col.day + 1 \in Day BY <1>0, <2>1 DEF Day, StatsAssumption
        <3> QED BY <1>2, <2>3, <3>1 DEF InsertHistorical, Goto
    <2> QED BY <2>2, <2>3
<1>3. CASE Wake \/ Start BY <1>3 DEF Wake, Start, Goto
<1> QED BY <1>1, <1>2, <1>3

LEMMA LeavesCounting ==
    ASSUME StatsAssumption, Inv, Finalize \/ UpsertCurrent \/ List \/ Apply \/ RunFails \/ Stop
    PROVE  col'.pc \in {"earliest", "list", "apply", "asleep", "down"}
<1>0. TypeOK /\ col \in Collector BY DEF Inv, TypeOK
<1>1. Asleep(col) \in Collector /\ Asleep(col).pc = "asleep" BY <1>0, AsleepType
<1>2. [Asleep(col) EXCEPT !.pc = "down"].pc = "down" BY <1>1 DEF Collector
<1> QED BY <1>0, <1>1, <1>2 DEF Finalize, UpsertCurrent, List, Apply, RunFails, Stop, Goto, Collector

LEMMA StepKeepsCounted ==
    ASSUME StatsAssumption, Inv, Inv', Counted, [Next]_vars
    PROVE  Counted'
<1>0. TypeOK /\ Dated /\ col \in Collector /\ col.day \in Day /\ col.date \in Day /\ today \in Day
      /\ col.counts \in Counts /\ col.read \in 0..6
    BY SixQueries DEF Inv, TypeOK, Collector
<1>1. CASE \E x \in Item : Create(x) \/ Import(x) \/ Delete(x)
    <2>1. PICK x \in Item : Create(x) \/ Import(x) \/ Delete(x) BY <1>1
    <2>2. col' = col BY <2>1 DEF Create, Import, Delete
    <2>3. col.pc = "count" /\ col.phase = "backfill" => col.day < today
        BY <1>0 DEF Dated, Day, StatsAssumption
    <2>4. col.pc = "count" /\ col.phase = "backfill"
              => Cardinality(SendsOn(col.day)') <= Cardinality(SendsOn(col.day))
                 /\ Cardinality(SendsOn(col.day)') \in Nat
        BY <1>0, <2>1, <2>2, <2>3, SendsOnlyGo
    <2>5. Cardinality(SendsOn(col.day)) \in Nat BY <1>0, SendsOnThrough
    <2> QED BY <2>2, <2>4, <2>5 DEF Counted
<1>2. CASE Count
    <2> DEFINE f == Order[col.read + 1]
               n == col.read + 1
    <2>1. PICK v \in Answers(f) :
              col' = [col EXCEPT !.counts = [@ EXCEPT ![f] = v], !.read = n,
                                 !.pc = IF n = Len(Order) THEN "write" ELSE "count"]
        BY <1>2 DEF Count, Goto
    <2>2. col.read < 6 /\ col.pc = "count" BY <1>0, <1>2, SixQueries DEF Count, Dated
    <2>3. SendsOn(col.day)' = SendsOn(col.day) /\ UNCHANGED source
        BY <1>2, <2>1 DEF Count, SendsOn, Rows, source, Collector
    <2>4. CASE col.read = 4 /\ col.phase = "backfill"
        <3>1. f = "send_count" BY <2>4 DEF Order
        <3>2. v = Cardinality(Through("send_history", col.day)) BY <2>1, <2>4, <3>1 DEF Answers, Source
        <3>3. /\ col'.counts["send_count"] = v /\ col'.read = 5 /\ col'.pc = "count"
              /\ col'.day = col.day
            BY <1>0, <2>1, <2>4, <3>1, SixQueries DEF Collector, Counts, Field
        <3> QED BY <1>0, <2>3, <3>2, <3>3, SendsOnThrough DEF Counted
    <2>5. CASE col.read = 5 /\ col.phase = "backfill"
        <3>1. f = "daily_send_count" BY <2>5 DEF Order
        <3>2. v = Cardinality(SendsOn(col.day)) BY <2>1, <3>1 DEF Answers
        <3>3. /\ col'.counts["daily_send_count"] = v /\ col'.pc = "write"
              /\ col'.counts["send_count"] = col.counts["send_count"]
            BY <1>0, <2>1, <2>5, <3>1, SixQueries DEF Collector, Counts, Field
        <3> QED BY <2>2, <2>5, <3>2, <3>3 DEF Counted
    <2>6. CASE col.read < 4 \/ col.phase # "backfill"
        <3>1. col'.read = n /\ col'.phase = col.phase
              /\ col'.pc = IF n = Len(Order) THEN "write" ELSE "count"
            BY <1>0, <2>1 DEF Collector
        <3> QED BY <1>0, <2>6, <3>1, SixQueries DEF Counted
    <2> QED BY <1>0, <2>2, <2>4, <2>5, <2>6
<1>3. CASE Earliest \/ InsertHistorical \/ Wake \/ Start
    <2>1. \A ph \in {"backfill", "refresh"}, d \in Day :
              Counting(col, ph, d).read = 0 /\ Counting(col, ph, d).pc = "count"
        BY <1>0 DEF Counting, Collector
    <2>2. Started(today).pc = "finalize" BY DEF Started
    <2>3. \/ \E ph \in {"backfill", "refresh"}, d \in Day : col' = Counting(col, ph, d)
          \/ col' = Started(today)
        BY <1>3, FreshRuns
    <2> QED BY <2>1, <2>2, <2>3 DEF Counted
<1>4. CASE Finalize \/ UpsertCurrent \/ List \/ Apply \/ RunFails \/ Stop
    BY <1>4, LeavesCounting DEF Counted
<1>5. CASE Tick \/ UNCHANGED vars
    <2>1. UNCHANGED <<born, alive, col>> BY <1>5 DEF Tick, vars, source
    <2> QED BY <2>1 DEF Counted, SendsOn, Rows
<1> QED BY <1>1, <1>2, <1>3, <1>4, <1>5 DEF Next, Run

\* The sends of a finalised day are among the sends through it, whether one
\* UPDATE counted both (finalize_snapshots_before) or two queries of a backfill
\* between which accounts went.
THEOREM DailyIsWithinTotal == Spec => []DailyWithinTotal
<1>1. Init => Counted /\ DailyWithinTotal
    BY DEF Init, Counted, Started, DailyWithinTotal, Finalized
<1>2. Inv /\ Inv' /\ Counted /\ [Next]_vars => Counted'
    BY StepKeepsCounted, StatsAssumption
<1>3. Inv /\ Counted /\ DailyWithinTotal /\ [Next]_vars => DailyWithinTotal'
    <2> SUFFICES ASSUME Inv, Counted, DailyWithinTotal, [Next]_vars, NEW d \in Day, Finalized(d)'
                 PROVE  snapshots'[d].counts["daily_send_count"] <= snapshots'[d].counts["send_count"]
        BY DEF DailyWithinTotal
    <2>1. CASE snapshots'[d] = snapshots[d] BY <2>1 DEF DailyWithinTotal, Finalized
    <2>2. CASE Finalize /\ snapshots'[d] # snapshots[d]
        <3>1. /\ snapshots[d] \in Row
              /\ snapshots'[d] = [snapshots[d] EXCEPT !.counts = Recounted(d), !.finalized = TRUE]
            BY <2>2, FinalizeRows, StatsAssumption
        <3>2. snapshots'[d].counts = Recounted(d) BY <3>1 DEF Row
        <3>3. /\ Recounted(d)["daily_send_count"] = Cardinality(SendsOn(d))
              /\ Recounted(d)["send_count"] = Cardinality(Through("send_history", d))
            BY DEF Recounted, Field, Source
        <3> QED BY <3>2, <3>3, SendsOnThrough, StatsAssumption DEF Inv
    <2>3. CASE InsertHistorical /\ snapshots'[d] # snapshots[d]
        <3>1. snapshots'[d].counts = col.counts BY <2>3, HistoricalRows, StatsAssumption
        <3> QED BY <2>3, <3>1 DEF InsertHistorical, Counted
    <2>4. CASE UpsertCurrent /\ snapshots'[d] # snapshots[d]
        BY <2>4, CurrentRows, StatsAssumption DEF Finalized
    <2>5. CASE Apply /\ snapshots'[d] # snapshots[d]
        <3>1. /\ snapshots[d] # None /\ ~snapshots[d].finalized
              /\ snapshots'[d] = [snapshots[d] EXCEPT !.b2 = Coalesce(col.b2, @)]
            BY <2>5, ApplyRows, StatsAssumption
        <3>2. snapshots'[d].finalized = snapshots[d].finalized
            BY <3>1 DEF Inv, TypeOK, Row
        <3> QED BY <3>1, <3>2 DEF Finalized
    <2>6. CASE Earliest \/ Count \/ List BY <2>1, <2>6 DEF Earliest, Count, List
    <2>7. CASE ~Run BY <2>1, <2>7, OtherSteps, StatsAssumption
    <2> QED BY <2>1, <2>2, <2>3, <2>4, <2>5, <2>6, <2>7 DEF Run
<1> QED BY <1>1, <1>2, <1>3, Invariance, PTL DEF Spec

-----------------------------------------------------------------------------
(* Counts of a day that is over *)

\* The fields whose truth is claimed: of images the import backdates some.
Claimed == {"user_count", "bucket_count", "send_count", "daily_send_count"}

\* What is left of what a field of day d's row counts, and what there ever was.
Left(f, d) == IF f = "daily_send_count" THEN SendsOn(d) ELSE Through(Source[f], d)

EverThere(f, d) ==
    {x \in Item : /\ born[x] # None
                  /\ IF f = "daily_send_count" THEN TableOf[x] = "send_history" /\ born[x] = d
                     ELSE TableOf[x] = Source[f] /\ born[x] <= d}

Truthful(f, d, v) ==
    /\ v \in Nat
    /\ Cardinality(Left(f, d)) <= v
    /\ v <= Cardinality(EverThere(f, d))

ClosedTruly == \A d \in Day : Finalized(d) => \A f \in Claimed : Truthful(f, d, snapshots[d].counts[f])

\* A backfill's answers so far.
CountedTruly ==
    col.phase = "backfill" =>
        /\ col.pc \in {"count", "write"} =>
              \A n \in 1..col.read : Order[n] \in Claimed => Truthful(Order[n], col.day, col.counts[Order[n]])
        /\ col.pc = "write" => col.read = 6

LEMMA ItemsOfADay ==
    ASSUME StatsAssumption, TypeOK, NEW f \in Claimed, NEW d \in Day
    PROVE  /\ Left(f, d) \subseteq EverThere(f, d)
           /\ IsFiniteSet(Left(f, d)) /\ IsFiniteSet(EverThere(f, d))
           /\ Truthful(f, d, Cardinality(Left(f, d)))
<1>1. Left(f, d) \subseteq EverThere(f, d)
    BY DEF Left, EverThere, SendsOn, Through, Rows, TypeOK
<1>2. EverThere(f, d) \subseteq Item BY DEF EverThere
<1>3. IsFiniteSet(EverThere(f, d)) BY <1>2, FS_Subset DEF StatsAssumption
<1> QED BY <1>1, <1>3, FS_Subset, FS_CardinalityType DEF Truthful

\* Of a day that is over, what is left only shrinks and what there was only grows.
LEMMA PastIsPast ==
    ASSUME StatsAssumption, Inv, [Next]_vars, NEW f \in Claimed, NEW d \in Day, d < today
    PROVE  Left(f, d)' \subseteq Left(f, d) /\ EverThere(f, d) \subseteq EverThere(f, d)'
<1>0. TypeOK /\ today \in Day /\ None \notin Day BY DEF Inv, TypeOK, StatsAssumption, Day
<1>1. CASE UNCHANGED source
    BY <1>1 DEF source, Left, EverThere, SendsOn, Through, Rows
<1>2. ASSUME NEW x \in Item, Create(x) \/ Import(x) \/ Delete(x)
      PROVE  Left(f, d)' \subseteq Left(f, d) /\ EverThere(f, d) \subseteq EverThere(f, d)'
    <2>1. Source[f] \in {"users", "buckets", "send_history"} \/ f = "daily_send_count"
        BY DEF Claimed, Source
    <2>2. CASE Create(x)
        <3>1. /\ born' = [born EXCEPT ![x] = today] /\ alive' = alive \cup {x} /\ born[x] = None
              /\ ~(today <= d) /\ today # d
            BY <1>0, <2>2 DEF Create, Day, StatsAssumption
        <3>2. Left(f, d)' \subseteq Left(f, d)
            BY <1>0, <3>1 DEF Left, SendsOn, Through, Rows, TypeOK
        <3>3. EverThere(f, d) \subseteq EverThere(f, d)'
            BY <1>0, <3>1 DEF EverThere, TypeOK
        <3> QED BY <3>2, <3>3
    <2>3. CASE Import(x)
        <3>1. PICK e \in Day : born' = [born EXCEPT ![x] = e] BY <2>3 DEF Import
        <3>2. alive' = alive \cup {x} /\ born[x] = None /\ TableOf[x] = "images" BY <2>3 DEF Import
        <3>3. Left(f, d)' \subseteq Left(f, d)
            BY <1>0, <2>1, <3>1, <3>2 DEF Left, SendsOn, Through, Rows, TypeOK
        <3>4. EverThere(f, d) \subseteq EverThere(f, d)'
            BY <1>0, <3>1, <3>2 DEF EverThere, TypeOK
        <3> QED BY <3>3, <3>4
    <2>4. CASE Delete(x)
        <3>1. alive' \subseteq alive /\ born' = born BY <2>4 DEF Delete
        <3> QED BY <3>1 DEF Left, EverThere, SendsOn, Through, Rows
    <2> QED BY <1>2, <2>2, <2>3, <2>4
<1>3. (\E x \in Item : Create(x) \/ Import(x) \/ Delete(x)) \/ UNCHANGED source
    BY DEF Next, Tick, Wake, Run, Finalize, Earliest, Count, InsertHistorical, UpsertCurrent, List,
           Apply, RunFails, Stop, Start, vars, source
<1> QED BY <1>1, <1>2, <1>3

LEMMA StaysTrue ==
    ASSUME StatsAssumption, Inv, Inv', [Next]_vars, NEW f \in Claimed, NEW d \in Day, d < today,
           NEW v, Truthful(f, d, v)
    PROVE  Truthful(f, d, v)'
<1>1. Left(f, d)' \subseteq Left(f, d) /\ EverThere(f, d) \subseteq EverThere(f, d)'
    BY PastIsPast
<1>2. IsFiniteSet(Left(f, d)) BY ItemsOfADay DEF Inv
<1>3. IsFiniteSet(EverThere(f, d)')
    <2>1. EverThere(f, d)' \subseteq Item BY DEF EverThere
    <2> QED BY <2>1, FS_Subset DEF StatsAssumption
<1>4. /\ Cardinality(Left(f, d)') <= Cardinality(Left(f, d))
      /\ Cardinality(EverThere(f, d)) <= Cardinality(EverThere(f, d)')
    BY <1>1, <1>2, <1>3, FS_Subset
<1>5. /\ Cardinality(Left(f, d)) \in Nat /\ Cardinality(Left(f, d)') \in Nat
      /\ Cardinality(EverThere(f, d)) \in Nat /\ Cardinality(EverThere(f, d)') \in Nat
    BY <1>1, <1>2, <1>3, FS_Subset, FS_CardinalityType
<1> QED BY <1>4, <1>5 DEF Truthful

LEMMA StepKeepsCountedTruly ==
    ASSUME StatsAssumption, Inv, Inv', CountedTruly, [Next]_vars
    PROVE  CountedTruly'
<1>0. /\ TypeOK /\ Dated /\ col \in Collector /\ col.day \in Day /\ col.date \in Day /\ today \in Day
      /\ col.counts \in Counts /\ col.read \in 0..6
    BY SixQueries DEF Inv, TypeOK, Collector
<1>1. col.pc \in {"count", "write"} /\ col.phase = "backfill" => col.day < today
    BY <1>0 DEF Dated, Day, StatsAssumption
<1>2. \A f \in Claimed, d \in Day : \A v : d < today /\ Truthful(f, d, v) => Truthful(f, d, v)'
    BY StaysTrue
\* The collector waits: its answers stay true.
<1>3. CASE UNCHANGED col
    <2> SUFFICES ASSUME col.phase = "backfill", col.pc \in {"count", "write"},
                        NEW n \in 1..col.read, Order[n] \in Claimed
                 PROVE  Truthful(Order[n], col.day, col.counts[Order[n]])'
        BY <1>3 DEF CountedTruly
    <2> DEFINE f == Order[n]
    <2>1. PICK d, v : d = col.day /\ v = col.counts[f] OBVIOUS
    <2>2. Truthful(f, d, v) BY <2>1 DEF CountedTruly
    <2>3. Truthful(f, d, v)' BY <1>0, <1>1, <1>2, <2>1, <2>2
    <2>4. d = col'.day /\ v = col'.counts[f] BY <1>3, <2>1
    <2> QED BY <2>3, <2>4
<1>4. CASE Count
    <2> DEFINE g == Order[col.read + 1]
               m == col.read + 1
    <2>1. PICK a \in Answers(g) :
              col' = [col EXCEPT !.counts = [@ EXCEPT ![g] = a], !.read = m,
                                 !.pc = IF m = Len(Order) THEN "write" ELSE "count"]
        BY <1>4 DEF Count, Goto
    <2>2. col.read < 6 /\ col.pc = "count" BY <1>0, <1>4, SixQueries DEF Count, Dated
    <2>3. m \in 1..6 /\ g \in Field BY <1>0, <2>2, SixQueries
    <2>4. /\ col'.phase = col.phase /\ col'.day = col.day /\ col'.read = m
          /\ col'.counts[g] = a /\ \A h \in Field \ {g} : col'.counts[h] = col.counts[h]
          /\ col'.pc = "write" => m = 6
        BY <1>0, <2>1, <2>3, SixQueries DEF Collector, Counts
    <2> SUFFICES ASSUME col.phase = "backfill", NEW n \in 1..m, Order[n] \in Claimed
                 PROVE  Truthful(Order[n], col.day, col.counts[Order[n]])'
        BY <2>4 DEF CountedTruly
    <2> DEFINE f == Order[n]
    <2>5. PICK d, v : d = col.day /\ v = col'.counts[f] OBVIOUS
    <2>6. Truthful(f, d, v)
        <3>1. CASE n = m
            <4>1. v = a /\ f = g BY <2>4, <2>5, <3>1
            <4>2. v = Cardinality(Left(f, d))
                BY <2>1, <2>5, <4>1 DEF Answers, Left, Claimed
            <4> QED BY <1>0, <2>5, <4>2, ItemsOfADay
        <3>2. CASE n # m
            <4>1. n \in 1..col.read BY <1>0, <3>2
            <4>2. f # g /\ f \in Field BY <1>0, <2>2, <3>2, <4>1 DEF Order, Field
            <4>3. v = col.counts[f] BY <2>4, <2>5, <4>2
            <4> QED BY <2>2, <2>5, <4>1, <4>3 DEF CountedTruly
        <3> QED BY <3>1, <3>2
    <2>7. Truthful(f, d, v)' BY <1>0, <1>1, <1>2, <2>2, <2>5, <2>6
    <2>8. d = col'.day /\ v = col'.counts[f] BY <2>4, <2>5
    <2> QED BY <2>7, <2>8
<1>5. CASE Earliest \/ InsertHistorical \/ Wake \/ Start
    <2>1. \A ph \in {"backfill", "refresh"}, d \in Day :
              Counting(col, ph, d).read = 0 /\ Counting(col, ph, d).pc = "count"
        BY <1>0 DEF Counting, Collector
    <2>2. Started(today).pc = "finalize" BY DEF Started
    <2>3. \/ \E ph \in {"backfill", "refresh"}, d \in Day : col' = Counting(col, ph, d)
          \/ col' = Started(today)
        BY <1>0, <1>5, FreshRuns
    <2> QED BY <2>1, <2>2, <2>3 DEF CountedTruly
<1>6. CASE Finalize \/ UpsertCurrent \/ List \/ Apply \/ RunFails \/ Stop
    BY <1>0, <1>6, LeavesCounting DEF CountedTruly
<1> QED BY <1>3, <1>4, <1>5, <1>6 DEF Next, Run, Create, Import, Delete, Tick, vars

\* A finalised day's counts lie between what is left of that day and what there
\* ever was: for a row that was open at midnight by the one UPDATE of
\* finalize_snapshots_before, for a backfilled one although its queries were
\* asked one by one while accounts went, because the day is over when they are.
THEOREM FinalizedCountsTrue == Spec => []FinalizedCountsAreTrue
<1>1. Init => CountedTruly /\ ClosedTruly
    BY DEF Init, CountedTruly, Started, ClosedTruly, Finalized
<1>2. Inv /\ Inv' /\ CountedTruly /\ [Next]_vars => CountedTruly'
    BY StepKeepsCountedTruly, StatsAssumption
<1>3. Inv /\ Inv' /\ CountedTruly /\ ClosedTruly /\ [Next]_vars => ClosedTruly'
    <2> SUFFICES ASSUME Inv, Inv', CountedTruly, ClosedTruly, [Next]_vars,
                        NEW d \in Day, Finalized(d)', NEW f \in Claimed
                 PROVE  Truthful(f, d, snapshots[d].counts[f])'
        BY DEF ClosedTruly
    <2>1. PICK v : v = snapshots'[d].counts[f] OBVIOUS
    <2>2. d < today
        <3>1. today \in Day /\ today' \in Day /\ col.date \in Day /\ col'.date \in Day
              /\ col.date <= today
            BY DEF Inv, TypeOK, Collector, Dated
        <3>2. CASE Run BY <3>1, <3>2, RunRows, StatsAssumption DEF Day
        <3>3. CASE ~Run
            <4>1. Finalized(d) BY <3>3, OtherSteps, StatsAssumption DEF Finalized
            <4> QED BY <3>1, <4>1 DEF Inv, Dated, Day, StatsAssumption
        <3> QED BY <3>2, <3>3
    <2>3. Truthful(f, d, v)
        <3>1. CASE snapshots'[d] = snapshots[d]
            BY <2>1, <3>1 DEF ClosedTruly, Finalized
        <3>2. CASE Finalize /\ snapshots'[d] # snapshots[d]
            <4>1. /\ snapshots[d] \in Row
                  /\ snapshots'[d] = [snapshots[d] EXCEPT !.counts = Recounted(d), !.finalized = TRUE]
                BY <3>2, FinalizeRows, StatsAssumption
            <4>2. snapshots'[d].counts = Recounted(d) BY <4>1 DEF Row
            <4>3. Recounted(d)[f] = Cardinality(Left(f, d))
                BY DEF Recounted, Field, Left, Claimed
            <4> QED BY <2>1, <4>2, <4>3, ItemsOfADay, StatsAssumption DEF Inv
        <3>3. CASE InsertHistorical /\ snapshots'[d] # snapshots[d]
            <4>1. d = col.day /\ snapshots'[d].counts = col.counts
                BY <3>3, HistoricalRows, StatsAssumption
            <4>2. PICK n \in 1..6 : Order[n] = f BY DEF Claimed, Order
            <4> QED BY <2>1, <3>3, <4>1, <4>2 DEF InsertHistorical, CountedTruly
        <3>4. CASE UpsertCurrent /\ snapshots'[d] # snapshots[d]
            BY <3>4, CurrentRows, StatsAssumption DEF Finalized
        <3>5. CASE Apply /\ snapshots'[d] # snapshots[d]
            <4>1. /\ snapshots[d] # None /\ ~snapshots[d].finalized
                  /\ snapshots'[d] = [snapshots[d] EXCEPT !.b2 = Coalesce(col.b2, @)]
                BY <3>5, ApplyRows, StatsAssumption
            <4>2. snapshots'[d].finalized = snapshots[d].finalized
                BY <4>1 DEF Inv, TypeOK, Row
            <4> QED BY <4>1, <4>2 DEF Finalized
        <3>6. CASE Earliest \/ Count \/ List BY <3>1, <3>6 DEF Earliest, Count, List
        <3>7. CASE ~Run BY <3>1, <3>7, OtherSteps, StatsAssumption
        <3> QED BY <3>1, <3>2, <3>3, <3>4, <3>5, <3>6, <3>7 DEF Run
    <2>4. Truthful(f, d, v)' BY <2>2, <2>3, StaysTrue, StatsAssumption
    <2> QED BY <2>1, <2>4
<1>4. ClosedTruly => FinalizedCountsAreTrue
    <2> SUFFICES ASSUME ClosedTruly, NEW d \in Day, Finalized(d)
                 PROVE  LET c == snapshots[d].counts
                            Ever(t) == {x \in Item : TableOf[x] = t /\ born[x] # None /\ born[x] <= d} IN
                        /\ \A f \in {"user_count", "bucket_count", "send_count"} :
                              /\ Cardinality(Through(Source[f], d)) <= c[f]
                              /\ c[f] <= Cardinality(Ever(Source[f]))
                        /\ Cardinality(SendsOn(d)) <= c["daily_send_count"]
                        /\ c["daily_send_count"] <= Cardinality({x \in Ever("send_history") : born[x] = d})
        BY DEF FinalizedCountsAreTrue
    <2> DEFINE Ever(t) == {x \in Item : TableOf[x] = t /\ born[x] # None /\ born[x] <= d}
    <2>1. \A f \in Claimed : Truthful(f, d, snapshots[d].counts[f]) BY DEF ClosedTruly
    <2>2. \A f \in {"user_count", "bucket_count", "send_count"} :
              Left(f, d) = Through(Source[f], d) /\ EverThere(f, d) = Ever(Source[f])
        BY DEF Left, EverThere
    <2>3. /\ Left("daily_send_count", d) = SendsOn(d)
          /\ EverThere("daily_send_count", d) = {x \in Ever("send_history") : born[x] = d}
        BY DEF Left, EverThere, Day
    <2> QED BY <2>1, <2>2, <2>3 DEF Truthful, Claimed
<1> QED BY <1>1, <1>2, <1>3, <1>4, Invariance, PTL DEF Spec
=============================================================================
