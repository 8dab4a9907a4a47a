------------------------------ MODULE DailyStats ------------------------------
(***************************************************************************)
(* The analytics of the platform: EventWriter.WriteEvent called by the     *)
(* workers, the ClickHouse tables events_log (ReplacingMergeTree) and      *)
(* daily_event_stats (SummingMergeTree) with the materialized view between *)
(* them (migrations/clickhouse), the merges ClickHouse runs whenever it    *)
(* likes, and the daily-events query with the range check of its handler.  *)
(*                                                                         *)
(* A table is a bag of rows: a merge joins two rows with equal sorting     *)
(* keys.  An event is delivered, and so written, more than once; a day may *)
(* pass between the moment its row is dated and the insert.                *)
(***************************************************************************)
EXTENDS Integers, FiniteSets, Bags, FiniteSetsExt

CONSTANTS
    Events,
    Groups,       \* pairs of source and event type
    Writers,      \* worker goroutines
    NoRow,        \* what a writer holds between two writes
    LastDay,      \* bound: the days there are
    MaxWrites,    \* bound: deliveries of an event
    Faults,       \* "insert": an insert may fail; "view": its view may fail alone
    QueryDays,    \* days a query may name, counted from today
    MaxRange,     \* 366
    MaxDuration   \* the longest time.Duration, in days

ASSUME StatsAssumption ==
    /\ LastDay \in Nat /\ MaxWrites \in Nat
    /\ Faults \subseteq {"insert", "view"}
    /\ QueryDays \subseteq Int
    /\ MaxRange \in Nat /\ MaxDuration \in Nat /\ MaxRange < MaxDuration

Days    == 0..LastDay
LogRows == [day : Days, event : Events]

VARIABLES
    today,     \* the UTC date
    group,     \* source and event type of an event
    holds,     \* the row a writer has dated and not sent yet, or NoRow
    writes,    \* writes started by event
    log,       \* events_log, a bag of LogRows
    stats,     \* daily_event_stats, a bag of [day, group, count]
    inserted,  \* history: inserts the view took, by day and group
    missed     \* history: inserts the view failed on, by day and group

tables  == <<log, stats>>
history == <<inserted, missed>>
vars    == <<today, group, holds, writes, tables, history>>

Init ==
    /\ today = 0
    /\ group \in [Events -> Groups]
    /\ holds = [w \in Writers |-> NoRow]
    /\ writes = [e \in Events |-> 0]
    /\ log = EmptyBag
    /\ stats = EmptyBag
    /\ inserted = [x \in Days \X Groups |-> 0]
    /\ missed = [x \in Days \X Groups |-> 0]

-----------------------------------------------------------------------------
\* WriteEvent of e on writer w, with the date of the row.
DateRow(w, e, day) ==
    /\ holds[w] = NoRow /\ writes[e] < MaxWrites
    /\ holds' = [holds EXCEPT ![w] = [day |-> day, event |-> e]]
    /\ writes' = [writes EXCEPT ![e] = @ + 1]
    /\ UNCHANGED <<today, group, tables, history>>

\* Faulty variant: the date in a time zone west of UTC.
StartWriteLocalTime(w, e) == DateRow(w, e, today - 1)

\* ProcessedAt is not set before the event is processed: the row is dated now,
\* before the batch is prepared.
StartWrite(w, e) == DateRow(w, e, today)

Plus(bag, row) == bag (+) SetToBag({row})

\* batch.Send: the rows of the insert go through the view, one count a group.
\* An error is logged by the caller, and no write is tried again here.
Send(w) ==
    LET row == holds[w]
        g == group[row.event] IN
    /\ row # NoRow
    /\ holds' = [holds EXCEPT ![w] = NoRow]
    /\ \/ /\ log' = Plus(log, row)
          /\ stats' = Plus(stats, [day |-> row.day, group |-> g, count |-> 1])
          /\ inserted' = [inserted EXCEPT ![<<row.day, g>>] = @ + 1]
          /\ UNCHANGED missed
       \/ /\ "view" \in Faults
          /\ log' = Plus(log, row)
          /\ missed' = [missed EXCEPT ![<<row.day, g>>] = @ + 1]
          /\ UNCHANGED <<stats, inserted>>
       \/ "insert" \in Faults /\ UNCHANGED <<tables, history>>
    /\ UNCHANGED <<today, group, writes>>

Midnight ==
    /\ today < LastDay
    /\ today' = today + 1
    /\ UNCHANGED <<group, holds, writes, tables, history>>

\* ReplacingMergeTree, ORDER BY (date, source, event_type, event_id): of rows with
\* equal keys a merge keeps one.
MergeLog ==
    /\ \E row \in BagToSet(log) : log[row] > 1 /\ log' = log (-) SetToBag({row})
    /\ UNCHANGED <<today, group, holds, writes, stats, history>>

\* Rows r and s of daily_event_stats become one.
Join(r, s, count) ==
    LET both == SetToBag({r}) (+) SetToBag({s}) IN
    /\ both \sqsubseteq stats
    /\ stats' = Plus(stats (-) both, [r EXCEPT !.count = count])
    /\ UNCHANGED <<today, group, holds, writes, log, history>>

\* Faulty variant: the engine of events_log, which keeps one of the rows.
MergeStatsReplacing ==
    \E r, s \in BagToSet(stats) : r.day = s.day /\ r.group = s.group /\ Join(r, s, s.count)

\* Faulty variant: a sorting key without the date.
MergeStatsAnyDay ==
    \E r, s \in BagToSet(stats) : r.group = s.group /\ Join(r, s, r.count + s.count)

\* SummingMergeTree(event_count), ORDER BY (date, source, event_type).
MergeStats ==
    \E r, s \in BagToSet(stats) :
        r.day = s.day /\ r.group = s.group /\ Join(r, s, r.count + s.count)

\* Every day is over, every write done and every part merged.
Done ==
    /\ today = LastDay
    /\ \A w \in Writers : holds[w] = NoRow
    /\ \A e \in Events : writes[e] = MaxWrites
    /\ UNCHANGED vars

Next ==
    \/ \E w \in Writers : Send(w) \/ \E e \in Events : StartWrite(w, e)
    \/ Midnight \/ MergeLog \/ MergeStats \/ Done

Spec == Init /\ [][Next]_vars

-----------------------------------------------------------------------------
(* The query, and the check of its range.                                   *)

\* sum(event_count) of the rows of a day and a group.
SumOf(d, g) ==
    MapThenSumSet(LAMBDA r : r.count * stats[r],
                  {r \in BagToSet(stats) : r.day = d /\ r.group = g})

\* Faulty variant: the rows as they are, which are not merged yet.
DailyEventsUnsummed(from, to) == {r \in BagToSet(stats) : r.day >= from /\ r.day <= to}

\* EventQuerier.DailyEvents: a row for every day and group the table has.
DailyEvents(from, to) ==
    {[day |-> r.day, group |-> r.group, count |-> SumOf(r.day, r.group)] :
        r \in {x \in BagToSet(stats) : x.day >= from /\ x.day <= to}}

\* Time.Sub saturates.
Sub(to, from) ==
    CASE to - from > MaxDuration  -> MaxDuration
      [] to - from < -MaxDuration -> -MaxDuration
      [] OTHER                    -> to - from

\* AnalyticsHandler.DailyEvents goes on to the query; it answers 400 otherwise.
Accepts(from, to) == ~(to < from) /\ ~(Sub(to, from) > MaxRange)

-----------------------------------------------------------------------------
TypeOK ==
    /\ today \in Days
    /\ group \in [Events -> Groups]
    /\ holds \in [Writers -> LogRows \cup {NoRow}]
    /\ writes \in [Events -> 0..MaxWrites]
    /\ IsABag(log) /\ BagToSet(log) \subseteq LogRows
    /\ IsABag(stats) /\ BagToSet(stats) \subseteq [day : Days, group : Groups, count : Nat]
    /\ inserted \in [Days \X Groups -> Nat] /\ missed \in [Days \X Groups -> Nat]

\* The dates a query may name.
Dates == {today + d : d \in QueryDays}

\* Every answer is exact: it has each day and group with an insert once, with the
\* number of its inserts, whatever ClickHouse has merged by then.
\* (event_querier.go:26-72, migrations/clickhouse/002)
AnswersExact ==
    \A from, to \in Dates : Accepts(from, to) =>
        DailyEvents(from, to) =
            {[day |-> x[1], group |-> x[2], count |-> inserted[x]] :
                x \in {y \in Days \X Groups : y[1] >= from /\ y[1] <= to /\ inserted[y] > 0}}

\* The statistics of a day fall short of the events events_log has for it only by
\* inserts the view failed on, and so count too few only where a write returned an
\* error.
\* (event_writer.go:42-66, migrations/clickhouse/001, 002)
StatsCoverLog ==
    \A d \in Days, g \in Groups :
        Cardinality({r \in BagToSet(log) : r.day = d /\ group[r.event] = g})
            <= SumOf(d, g) + missed[<<d, g>>]

\* The figures of a day that is over change only by a write that was dated on it
\* before midnight, and they never shrink.  (event_writer.go:36-62)
PastDaysStand ==
    [][\A d \in Days, g \in Groups : SumOf(d, g)' # SumOf(d, g) =>
          /\ SumOf(d, g)' > SumOf(d, g)
          /\ \E w \in Writers : holds[w] # NoRow /\ holds[w].day = d /\ holds'[w] = NoRow]_vars
=============================================================================
