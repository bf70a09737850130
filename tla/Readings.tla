-------------------------------- MODULE Readings --------------------------------
(***************************************************************************)
(* The readings of one device and who they belong to: the rows the worker  *)
(* stores, the sensor windows (a name for a probe over a period), and what *)
(* the panel draws of them: the chart, the CSV, the table and the summary  *)
(* cards of telemetry_series.py and main.py.                               *)
(*                                                                         *)
(* A sample is the second it was received and the keys it carries a number *)
(* for; the number itself is the sample's place in the sequence, so that   *)
(* an average is the set of the samples averaged.  The name of a window is *)
(* its place in the sequence of windows.  A window stores either the key   *)
(* of the telemetry frame or, from before the key was configured, the name *)
(* of the driver (driver = TRUE), which no frame carries.                  *)
(*                                                                         *)
(* The panel runs in two processes and nothing locks a window: a request   *)
(* reads it, and commits in a step of its own, within the same second.     *)
(***************************************************************************)
EXTENDS Integers, Sequences, FiniteSetsExt, SequencesExt

CONSTANTS
  Tabs,             \* requests that may be handled at the same time
  Keys, Plotted,    \* keys of the telemetry frame, those that make a line of a chart
  Buckets,          \* _BUCKETS: widths of a range and the seconds of a bucket
  GapMinSamples, GapMultiplier, GapMinSeconds, GapMargin,
  DefaultSpan, MaxRange,            \* of parse_telemetry_range
  PerPage,                          \* rows of a page of the table
  CardRows, CardAge,                \* rows and seconds last_readings looks back
  MaxTime, MaxSamples, MaxWindows   \* bounds

ASSUME ReadingsAssumption ==
  /\ Plotted \subseteq Keys /\ IsFiniteSet(Keys)
  /\ Buckets # <<>> /\ Buckets \in Seq([span : Nat, seconds : Nat \ {0}])
  /\ {GapMinSamples, GapMultiplier, GapMinSeconds, GapMargin, DefaultSpan, MaxRange,
      CardAge, MaxTime, MaxSamples, MaxWindows} \subseteq Nat
  /\ {PerPage, CardRows} \subseteq Nat \ {0}

Open == -1     \* ends_at is null
Absent == -1   \* an argument the query did not give

VARIABLES
  clock,      \* the second it is
  samples,    \* the telemetry rows, in the order they arrived
  windows,    \* the rows of sensor_windows
  request,    \* request[t]: the window the request t read, and what it will do
  contested   \* history: a window was closed or reassigned a second time

vars == <<clock, samples, windows, request, contested>>

NoRequest == [window |-> 0, reassign |-> FALSE, open |-> FALSE]

Window(k, driver, starts) == [key |-> k, driver |-> driver, starts |-> starts, ends |-> Open]

------------------------------------------------------------------------------
(* The rows and the windows change.                                         *)

\* A device of before the windows, or one whose windows an earlier release made.
Init ==
  /\ clock = 0 /\ samples = <<>> /\ contested = FALSE
  /\ \/ windows = <<>>
     \/ \E k \in Keys : windows = <<Window(k, TRUE, 0)>>
  /\ request = [t \in Tabs |-> NoRequest]

Tick ==
  /\ clock < MaxTime
  /\ \A t \in Tabs : request[t] = NoRequest
  /\ clock' = clock + 1
  /\ UNCHANGED <<samples, windows, request, contested>>

\* A frame is stored; a probe that does not answer is null in it.
Store ==
  /\ Len(samples) < MaxSamples
  /\ \E carried \in SUBSET Keys : samples' = Append(samples, [at |-> clock, keys |-> carried])
  /\ UNCHANGED <<clock, windows, request, contested>>

\* A handler loads the window.
ReadWindow(t) ==
  /\ request[t] = NoRequest
  /\ \E w \in DOMAIN windows, reassign \in BOOLEAN :
       /\ reassign => Len(windows) + Cardinality({u \in Tabs : request[u].reassign}) < MaxWindows
       /\ request' = [request EXCEPT ![t] =
            [window |-> w, reassign |-> reassign, open |-> windows[w].ends = Open]]
  /\ UNCHANGED <<clock, samples, windows, contested>>

\* Mutant: the old window stays open.
Reassigned_OldStaysOpen(r) ==
  Append(windows, Window(windows[r.window].key, windows[r.window].driver, clock))

\* Mutant: the window gets its new name in place.
Reassigned_InPlace(r) ==
  LET old == windows[r.window] IN [windows EXCEPT ![r.window] = Window(old.key, old.driver, clock)]

\* What the handler of a reassignment writes: an end if the window it read had
\* none, and a window from then on for the same key.
Reassigned(r) ==
  LET old == windows[r.window]
      ended == IF r.open THEN [windows EXCEPT ![r.window].ends = clock] ELSE windows
  IN  Append(ended, Window(old.key, old.driver, clock))

Retired(r) ==
  IF r.open THEN [windows EXCEPT ![r.window].ends = clock] ELSE windows

CommitWindow(t) ==
  LET r == request[t] IN
  /\ r # NoRequest
  /\ windows' = IF r.reassign THEN Reassigned(r) ELSE Retired(r)
  /\ contested' = (contested \/ (windows[r.window].ends # Open /\ (r.reassign \/ r.open)))
  /\ request' = [request EXCEPT ![t] = NoRequest]
  /\ UNCHANGED <<clock, samples>>

\* One window for each sensor of the newest configuration, from the first row on,
\* for a device without any. sensor_payload_key: what is typed in the field wins, also when it is the name
\* of the driver; a driver without a key is the key of its driver.
ensure_sensor_windows(sensors) ==
  LET configured == SetToSeq({k \in Keys : sensors[k] # "absent"})
      starts == IF samples = <<>> THEN clock ELSE samples[1].at
  IN  IF windows # <<>> THEN windows
      ELSE [i \in DOMAIN configured |-> Window(configured[i], sensors[configured[i]] = "driver", starts)]

\* A stored driver name becomes the key of that driver.
repair_sensor_window_keys(ws) == [i \in DOMAIN ws |-> [ws[i] EXCEPT !.driver = FALSE]]

\* init_db runs each time the container of the panel starts, before it serves.
Boot ==
  /\ \E sensors \in [Keys -> {"absent", "key", "driver"}] :
       windows' = repair_sensor_window_keys(ensure_sensor_windows(sensors))
  /\ request' = [t \in Tabs |-> NoRequest]
  /\ UNCHANGED <<clock, samples, contested>>

Next == Tick \/ Store \/ Boot \/ \E t \in Tabs : ReadWindow(t) \/ CommitWindow(t)

Spec == Init /\ [][Next]_vars

------------------------------------------------------------------------------
(* What the panel shows.                                                    *)

\* The range asked for, or none.
parse_telemetry_range(from, to) ==
  LET end == IF to = Absent THEN clock ELSE to
      start == IF from = Absent THEN end - DefaultSpan ELSE from
  IN  [ok |-> start <= end /\ end - start <= MaxRange, from |-> start, to |-> end]

InRange(range) == {i \in DOMAIN samples : range.from <= samples[i].at /\ samples[i].at <= range.to}

\* Mutant: a window that starts with the range's last second is not in it.
window_covers_Strict(w, range) ==
  /\ windows[w].starts < range.to
  /\ windows[w].ends = Open \/ windows[w].ends >= range.from

window_covers(w, range) ==
  /\ windows[w].starts <= range.to
  /\ windows[w].ends = Open \/ windows[w].ends >= range.from

series_for_range(range) ==
  {w \in DOMAIN windows : windows[w].key \in Plotted /\ window_covers(w, range)}

\* The sample carries a number under the key the window stores.
Reads(w, i) == ~windows[w].driver /\ windows[w].key \in samples[i].keys

\* The half-open period of a window: an end belongs to the next window.
InForce(w, i) ==
  /\ samples[i].at >= windows[w].starts
  /\ windows[w].ends = Open \/ samples[i].at < windows[w].ends

Slot(t, resolution) == t - (t % resolution)

bucket_seconds(range) ==
  LET wide == {b \in DOMAIN Buckets : range.to - range.from <= Buckets[b].span}
  IN  Buckets[IF wide = {} THEN Len(Buckets) ELSE Min(wide)].seconds

\* The members of a set of numbers, smallest first.
Ascending(S) ==
  [n \in 1..Cardinality(S) |-> CHOOSE i \in S : Cardinality({j \in S : j < i}) = n - 1]

DoubleMedian(deltas) ==   \* twice the median, so that it is a whole number
  LET sorted == SortSeq(deltas, <)
      middle == Len(sorted) \div 2
  IN  IF Len(sorted) % 2 = 1 THEN 2 * sorted[middle + 1]
      ELSE sorted[middle] + sorted[middle + 1]

\* A silence lasts that long (twice, like the median).
Outage2(deltas) ==
  Max({DoubleMedian(deltas) * GapMultiplier, 2 * GapMinSeconds}) + 2 * GapMargin

\* The silences among rows.  The steps that are zero are left out of deltas and
\* not of stamps, so that after one the two no longer speak of the same rows.
silence_spans(rows) ==
  LET order  == Ascending(rows)
      stamps == [n \in DOMAIN order |-> samples[order[n]].at]
      steps  == Ascending({n \in 1..(Len(stamps) - 1) : stamps[n + 1] > stamps[n]})
      deltas == [n \in DOMAIN steps |-> stamps[steps[n] + 1] - stamps[steps[n]]]
  IN  IF Len(stamps) < GapMinSamples \/ Len(deltas) < GapMinSamples THEN {}
      ELSE {[from |-> stamps[n], to |-> stamps[n + 1]] :
              n \in {m \in DOMAIN deltas : 2 * deltas[m] >= Outage2(deltas)}}

\* Mutant: a bucket is emptied if its label falls inside the silence.
Blanked_ByItsLabel(slot, resolution, silences) ==
  \E s \in silences : s.from <= slot /\ slot < s.to

\* _fill_gaps: a bucket that overlaps a silence is emptied.
Blanked(slot, resolution, silences) ==
  \E s \in silences : slot < s.to /\ slot + resolution > s.from

\* bucket_rows: point by point and series by series, the samples averaged.
bucket_rows(rows, series, resolution) ==
  LET silences == silence_spans(rows) IN
  [slot \in {Slot(samples[i].at, resolution) : i \in rows} |->
     [w \in series |->
        IF Blanked(slot, resolution, silences) THEN {}
        ELSE {i \in rows : Slot(samples[i].at, resolution) = slot /\ InForce(w, i) /\ Reads(w, i)}]]

Chart(range) == bucket_rows(InRange(range), series_for_range(range), bucket_seconds(range))

\* The column of a window in the CSV of the range.
CsvColumn(w, range) ==
  {i \in InRange(range) :
     ~(samples[i].at < windows[w].starts)
     /\ ~(windows[w].ends # Open /\ samples[i].at >= windows[w].ends) /\ Reads(w, i)}

\* Mutant: the page asked for, also past the last one.
TablePage_NotClamped(range, page) ==
  LET Newer(i) == Cardinality({j \in InRange(range) : j > i})
  IN  {i \in InRange(range) : (page - 1) * PerPage <= Newer(i) /\ Newer(i) < page * PerPage}

\* The rows of a page, newest first; a page past the last one is the last one.
TablePage(range, page) ==
  LET total == Cardinality(InRange(range))
      pages == Max({1, (total + PerPage - 1) \div PerPage})
      shown == Min({Max({page, 1}), pages})
      Newer(i) == Cardinality({j \in InRange(range) : j > i})
  IN  {i \in InRange(range) : (shown - 1) * PerPage <= Newer(i) /\ Newer(i) < shown * PerPage}

\* Mutant: the rows are read in the order they came, and as many as the limit.
Card_OldestFirst(w) ==
  LET recent == {i \in DOMAIN samples : samples[i].at >= clock - CardAge /\ i <= CardRows}
  IN  Max({0} \cup {i \in recent : Reads(w, i)})

\* last_readings: the sample on the card of an open window, 0 if there is none.
Card(w) ==
  LET recent == {i \in DOMAIN samples : samples[i].at >= clock - CardAge /\ i > Len(samples) - CardRows}
  IN  Max({0} \cup {i \in recent : Reads(w, i)})

------------------------------------------------------------------------------
(* Properties.                                                              *)

\* Times are in the past, a request names a window there is.
TypeOK ==
  /\ clock \in 0..MaxTime
  /\ samples \in Seq([at : 0..clock, keys : SUBSET Keys]) /\ Len(samples) <= MaxSamples
  /\ windows \in Seq([key : Keys, driver : BOOLEAN, starts : 0..clock, ends : {Open} \cup 0..clock])
  /\ Len(windows) <= Max({MaxWindows, Cardinality(Keys)})
  /\ request \in [Tabs -> [window : 0..Len(windows), reassign : BOOLEAN, open : BOOLEAN]]
  /\ contested \in BOOLEAN

Owners(i) == {w \in DOMAIN windows : InForce(w, i) /\ Reads(w, i)}

\* "Closing the old window is what stops the two aliases from both claiming the
\* new samples": a reading has one owner, across reassignments and restarts of
\* the panel, unless a window that was already closed was posted again.
OneOwner ==
  ~contested => \A i \in DOMAIN samples : \A v, w \in Owners(i) :
                  windows[v].key = windows[w].key => v = w

\* "The history stays": a reading of a past second keeps the owners it has,
\* whatever is closed, reassigned or repaired.
HistoryKept ==
  [][~contested' => \A i \in DOMAIN samples :
       samples[i].at < clock => \A w \in Owners(i) : w \in Owners(i)']_vars

\* The answers are about what is committed: asking while a request is being handled
\* shows what asking before it showed.
Ranges == IF \E t \in Tabs : request[t] # NoRequest THEN {} ELSE
  {parse_telemetry_range(from, to) : from, to \in {Absent} \cup 0..clock}

Answered == {range \in Ranges : range.ok}

\* Every reading of a range is in the column of each window that owns it, and in
\* no other: the choice of the columns (window_covers) never leaves out a window
\* that owns one, at either edge of the range, and the chart holds nothing else.
ShownToItsOwner ==
  \A range \in Answered :
    LET series == series_for_range(range)
        column == [w \in series |-> CsvColumn(w, range)]
        chart  == Chart(range)
    IN  /\ \A i \in InRange(range) : \A w \in Owners(i) :
             windows[w].key \in Plotted => w \in series /\ i \in column[w]
        /\ \A w \in series : column[w] = {i \in InRange(range) : w \in Owners(i)}
        /\ \A slot \in DOMAIN chart, w \in series : chart[slot][w] \subseteq column[w]

\* The gaps between two rows that lie next to each other, past the threshold.
Outages(rows) ==
  LET gaps == {i \in rows : i + 1 \in rows}
      Gap(i) == samples[i + 1].at - samples[i].at
      deltas == [n \in 1..Cardinality(gaps) |-> Gap(Ascending(gaps)[n])]
  IN  IF Cardinality(gaps) < GapMinSamples THEN {} ELSE {i \in gaps : 2 * Gap(i) >= Outage2(deltas)}

NoTwoTogether(rows) == \A i, j \in rows : samples[i].at = samples[j].at => i = j

\* "The line breaks instead of bridging": no line joins two readings with an
\* outage between them, not even within one bucket, and a reading is left out of
\* the chart only for an outage its bucket touches. Of the ranges without two
\* rows of the same second: with two of them the chart is wrong (README, 6).
OutageBreaksTheLine ==
  \A range \in Answered :
    LET rows  == InRange(range)
        chart == Chart(range)
        width == bucket_seconds(range)
        outages == Outages(rows)
        Joined(p, q) == p <= q /\ \A slot \in DOMAIN chart : slot <= p \/ q <= slot
    IN  NoTwoTogether(rows) =>
          \A w \in series_for_range(range) :
            /\ \A o \in outages, p, q \in DOMAIN chart :
                 Joined(p, q) => \A i \in chart[p][w], j \in chart[q][w] : ~(i <= o /\ o < j)
            /\ \A i \in rows : LET p == Slot(samples[i].at, width) IN
                 w \in Owners(i) /\ i \notin chart[p][w] =>
                   \E o \in outages : p < samples[o + 1].at /\ samples[o].at < p + width

\* "It must not lie about freshness": of the readings a name owns, if any is
\* recent enough, the card of the name shows the newest.
CardIsNewest ==
  \A w \in DOMAIN windows :
    LET owned == {i \in DOMAIN samples : /\ w \in Owners(i)
                                        /\ clock - samples[i].at <= CardAge /\ Len(samples) - i < CardRows}
    IN  windows[w].ends = Open /\ owned # {} => Card(w) = Max(owned)

\* Turning the pages shows every row of the range once, and asking for a page
\* before the first or past the last shows rows whenever there are any.
PagesShowAll ==
  \A range \in Answered :
    LET rows == InRange(range)
        last == Max({1, (Cardinality(rows) + PerPage - 1) \div PerPage})
    IN  /\ \A i \in rows : \E p \in 1..last : {q \in 1..last : i \in TablePage(range, q)} = {p}
        /\ rows # {} => \A p \in {0, last + 1} : TablePage(range, p) # {}
===============================================================================
