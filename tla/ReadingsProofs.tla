----------------------------- MODULE ReadingsProofs -----------------------------
(***************************************************************************)
(* Theorems about Readings for all keys, requests, windows and samples.    *)
(*                                                                         *)
(* Who a reading belongs to rests on Apart: of two windows of the same key *)
(* one ended before the other began, as long as no window that was closed  *)
(* already was closed or reassigned again. A commit keeps that, although   *)
(* it writes what an earlier read left to write, because a request that    *)
(* found the window closed can only be about a window that stays closed    *)
(* (Pending). That the card shows the newest reading needs the order the   *)
(* samples arrived in (Arrived) as well; so does the line of a chart: the  *)
(* rows of a range are a run, the silences are the outages of that run,    *)
(* and the bucket an outage begins in lies between the readings around it. *)
(***************************************************************************)
EXTENDS Readings, SequenceTheorems, FiniteSetTheorems, WellFoundedInduction, TLAPS

WindowRows == [key : Keys, driver : BOOLEAN, starts : 0..clock, ends : {Open} \cup 0..clock]
SampleRows == [at : 0..clock, keys : SUBSET Keys]

Types ==
  /\ clock \in Nat
  /\ samples \in Seq(SampleRows)
  /\ windows \in Seq(WindowRows)
  /\ request \in [Tabs -> [window : Nat, reassign : BOOLEAN, open : BOOLEAN]]
  /\ contested \in BOOLEAN

\* The samples are in the order of their times.
Arrived == \A i, j \in DOMAIN samples : i <= j => samples[i].at <= samples[j].at

\* A request is about a window there is, and one it found closed is closed.
Pending ==
  \A t \in Tabs : request[t] # NoRequest =>
    /\ request[t].window \in DOMAIN windows
    /\ ~request[t].open => windows[request[t].window].ends # Open

Before(v, w) == windows[v].ends # Open /\ windows[v].ends <= windows[w].starts

Apart ==
  ~contested => \A v, w \in DOMAIN windows :
                  v # w /\ windows[v].key = windows[w].key => Before(v, w) \/ Before(w, v)

Inv == Types /\ Arrived /\ Pending /\ Apart

\* What HistoryKept says of a step.
Kept ==
  ~contested' => \A i \in DOMAIN samples :
     samples[i].at < clock => \A w \in Owners(i) : w \in Owners(i)'

-----------------------------------------------------------------------------
(* The operators *)

LEMMA Limits ==
  /\ Plotted \subseteq Keys /\ IsFiniteSet(Keys)
  /\ GapMinSamples \in Nat /\ DefaultSpan \in Nat /\ MaxRange \in Nat /\ CardAge \in Nat
  /\ MaxTime \in Nat /\ MaxSamples \in Nat /\ MaxWindows \in Nat
  /\ PerPage \in Nat \ {0} /\ CardRows \in Nat \ {0}
BY ReadingsAssumption

\* A window that ends, in a sequence of them.
LEMMA Ending ==
  ASSUME Types, NEW w \in DOMAIN windows
  PROVE  LET s == [windows EXCEPT ![w].ends = clock] IN
         /\ s \in Seq(WindowRows) /\ Len(s) = Len(windows)
         /\ \A v \in DOMAIN windows :
              /\ s[v].key = windows[v].key /\ s[v].driver = windows[v].driver /\ s[v].starts = windows[v].starts
              /\ s[v].ends = IF v = w THEN clock ELSE windows[v].ends
<1>1. windows \in Seq(WindowRows) /\ clock \in 0..clock
  BY DEF Types
<1>2. windows[w] \in WindowRows /\ \A v \in DOMAIN windows : windows[v] \in WindowRows
  BY <1>1
<1>3. [windows[w] EXCEPT !.ends = clock] \in WindowRows
  BY <1>1, <1>2 DEF WindowRows
<1>4. DOMAIN windows = 1..Len(windows) /\ Len(windows) \in Nat
  BY <1>1
<1> DEFINE s == [windows EXCEPT ![w].ends = clock]
<1>5. \A v \in DOMAIN windows : s[v] = IF v = w THEN [windows[w] EXCEPT !.ends = clock] ELSE windows[v]
  OBVIOUS
<1>6. s \in Seq(WindowRows) /\ Len(s) = Len(windows)
  <2>1. DOMAIN s = 1..Len(windows)
    BY <1>4
  <2>2. \A v \in 1..Len(windows) : s[v] \in WindowRows
    BY <1>2, <1>3, <1>4, <1>5
  <2>3. s = [v \in 1..Len(windows) |-> s[v]]
    BY <2>1
  <2> HIDE DEF s
  <2>4. s \in [1..Len(windows) -> WindowRows]
    BY <2>2, <2>3
  <2> QED
    BY <1>4, <2>4, SeqDef, LenProperties
<1>7. ASSUME NEW v \in DOMAIN windows
      PROVE  /\ s[v].key = windows[v].key /\ s[v].driver = windows[v].driver /\ s[v].starts = windows[v].starts
             /\ s[v].ends = IF v = w THEN clock ELSE windows[v].ends
  <2>1. s[v] = IF v = w THEN [windows[v] EXCEPT !.ends = clock] ELSE windows[v]
    BY <1>5
  <2>2. windows[v] \in WindowRows
    BY <1>2
  <2> HIDE DEF s
  <2> QED
    BY <2>1, <2>2 DEF WindowRows
<1> QED
  BY <1>6, <1>7

\* A window that begins, after a sequence of them.
LEMMA Adding ==
  ASSUME Types, NEW s \in Seq(WindowRows), NEW w \in DOMAIN windows
  PROVE  LET n == Window(windows[w].key, windows[w].driver, clock)
             a == Append(s, n) IN
         /\ n.key = windows[w].key /\ n.starts = clock /\ n.ends = Open
         /\ a \in Seq(WindowRows) /\ Len(a) = Len(s) + 1 /\ a[Len(s) + 1] = n
         /\ \A v \in DOMAIN s : a[v] = s[v]
<1>1. windows[w] \in WindowRows /\ clock \in 0..clock
  BY DEF Types
<1> DEFINE n == Window(windows[w].key, windows[w].driver, clock)
<1>2. n \in WindowRows /\ n.key = windows[w].key /\ n.starts = clock /\ n.ends = Open
  BY <1>1 DEF WindowRows, Window
<1> HIDE DEF n
<1>3. /\ Append(s, n) \in Seq(WindowRows) /\ Len(Append(s, n)) = Len(s) + 1
      /\ Append(s, n)[Len(s) + 1] = n /\ \A v \in DOMAIN s : Append(s, n)[v] = s[v]
  BY <1>2
<1> QED
  BY <1>2, <1>3 DEF n

\* What a commit does to the windows: the one it read may end, one may be added.
LEMMA Committed ==
  ASSUME Inv, NEW t \in Tabs, CommitWindow(t)
  PROVE  LET r == request[t] IN
         /\ r.window \in DOMAIN windows /\ ~r.open => windows[r.window].ends # Open
         /\ windows' \in Seq(WindowRows) /\ Len(windows) <= Len(windows')
         /\ \A v \in DOMAIN windows :
              /\ windows'[v].key = windows[v].key /\ windows'[v].driver = windows[v].driver
              /\ windows'[v].starts = windows[v].starts
              /\ windows'[v].ends = IF r.open /\ v = r.window THEN clock ELSE windows[v].ends
         /\ \A v \in DOMAIN windows' : v \in DOMAIN windows \/
              (/\ r.reassign /\ v = Len(windows) + 1
               /\ windows'[v].key = windows[r.window].key /\ windows'[v].starts = clock /\ windows'[v].ends = Open)
<1> DEFINE r == request[t]
           ended == IF r.open THEN [windows EXCEPT ![r.window].ends = clock] ELSE windows
           n == Window(windows[r.window].key, windows[r.window].driver, clock)
<1>1. Types
  BY DEF Inv
<1>2. r.window \in DOMAIN windows /\ ~r.open => windows[r.window].ends # Open
  BY DEF Inv, Pending, CommitWindow
<1>3. r.window \in DOMAIN windows
  BY DEF Inv, Pending, CommitWindow
<1>4. windows' = IF r.reassign THEN Append(ended, n) ELSE ended
  BY DEF CommitWindow, Reassigned, Retired
<1>5. /\ ended \in Seq(WindowRows) /\ Len(ended) = Len(windows)
      /\ \A v \in DOMAIN windows :
           /\ ended[v].key = windows[v].key /\ ended[v].driver = windows[v].driver
           /\ ended[v].starts = windows[v].starts
           /\ ended[v].ends = IF r.open /\ v = r.window THEN clock ELSE windows[v].ends
  <2>1. CASE r.open
    <3>1. ended = [windows EXCEPT ![r.window].ends = clock]
      BY <2>1
    <3> HIDE DEF ended, r
    <3> QED
      BY <1>1, <1>3, <2>1, <3>1, Ending
  <2>2. CASE ~r.open
    BY <1>1, <2>2 DEF Types
  <2> QED
    BY <2>1, <2>2
<1>6. /\ n.key = windows[r.window].key /\ n.starts = clock /\ n.ends = Open
      /\ Append(ended, n) \in Seq(WindowRows) /\ Len(Append(ended, n)) = Len(ended) + 1
      /\ Append(ended, n)[Len(ended) + 1] = n
      /\ \A v \in DOMAIN ended : Append(ended, n)[v] = ended[v]
  <2> HIDE DEF ended, r
  <2> QED
    BY <1>1, <1>3, <1>5, Adding
<1> HIDE DEF ended, n, r
<1>7. Len(windows) \in Nat /\ DOMAIN windows = 1..Len(windows) /\ DOMAIN ended = 1..Len(windows)
  BY <1>1, <1>5 DEF Types
<1>8. CASE r.reassign
  <2>1. DOMAIN windows' = 1..Len(windows) + 1
    BY <1>4, <1>5, <1>6, <1>8
  <2>2. \A v \in DOMAIN windows : windows'[v] = ended[v]
    BY <1>4, <1>6, <1>7, <1>8
  <2>3. \A v \in DOMAIN windows' : v \in DOMAIN windows \/ v = Len(windows) + 1
    BY <1>7, <2>1
  <2>4. windows'[Len(windows) + 1] = n
    BY <1>4, <1>5, <1>6, <1>8
  <2>5. windows' \in Seq(WindowRows) /\ Len(windows) <= Len(windows')
    BY <1>4, <1>5, <1>6, <1>7, <1>8
  <2> QED
    BY <1>2, <1>3, <1>5, <1>6, <1>8, <2>2, <2>3, <2>4, <2>5 DEF r
<1>9. CASE ~r.reassign
  <2>1. windows' = ended
    BY <1>4, <1>9
  <2>2. DOMAIN windows' = DOMAIN windows
    BY <1>7, <2>1
  <2>3. Len(windows) <= Len(windows')
    BY <1>5, <1>7, <2>1
  <2> QED
    BY <1>2, <1>3, <1>5, <2>1, <2>2, <2>3 DEF r
<1> QED
  BY <1>8, <1>9

-----------------------------------------------------------------------------
(* The steps *)

LEMMA TickKeeps ==
  ASSUME Inv, Tick
  PROVE  Inv' /\ Kept
<1>1. /\ clock \in Nat /\ clock' = clock + 1
      /\ UNCHANGED <<samples, windows, request, contested>>
  BY DEF Inv, Types, Tick
<1>2. Types'
  <2>1. WindowRows \subseteq WindowRows' /\ SampleRows \subseteq SampleRows'
    BY <1>1 DEF WindowRows, SampleRows
  <2>2. Seq(WindowRows) \subseteq Seq(WindowRows')
    BY <2>1
  <2>3. Seq(SampleRows) \subseteq Seq(SampleRows')
    BY <2>1
  <2> QED
    BY <1>1, <2>2, <2>3 DEF Inv, Types
<1>3. Arrived' /\ Pending' /\ Apart'
  BY <1>1 DEF Inv, Arrived, Pending, Apart, Before
<1>4. Kept
  BY <1>1 DEF Kept, Owners, InForce, Reads
<1> QED
  BY <1>2, <1>3, <1>4 DEF Inv

LEMMA StoreKeeps ==
  ASSUME Inv, Store
  PROVE  Inv' /\ Kept
<1>1. PICK carried \in SUBSET Keys : samples' = Append(samples, [at |-> clock, keys |-> carried])
  BY DEF Store
<1>2. UNCHANGED <<clock, windows, request, contested>>
  BY DEF Store
<1> DEFINE n == [at |-> clock, keys |-> carried]
<1>3. n \in SampleRows /\ n.at = clock
  BY DEF SampleRows, Inv, Types
<1>4. samples \in Seq(SampleRows) /\ samples' = Append(samples, n)
  BY <1>1 DEF Inv, Types
<1> HIDE DEF n
<1>5. /\ samples' \in Seq(SampleRows) /\ Len(samples') = Len(samples) + 1 /\ Len(samples) \in Nat
      /\ DOMAIN samples = 1..Len(samples) /\ DOMAIN samples' = 1..Len(samples) + 1
      /\ \A i \in DOMAIN samples : samples'[i] = samples[i] /\ samples[i] \in SampleRows
      /\ samples'[Len(samples) + 1] = n
  BY <1>3, <1>4
<1>6. Types'
  BY <1>2, <1>5 DEF Inv, Types, SampleRows, WindowRows
<1>7. Arrived'
  <2> SUFFICES ASSUME NEW i \in DOMAIN samples', NEW j \in DOMAIN samples', i <= j
               PROVE  samples'[i].at <= samples'[j].at
    BY DEF Arrived
  <2>1. CASE j \in DOMAIN samples
    <3>1. i \in DOMAIN samples
      BY <1>5, <2>1
    <3> QED
      BY <1>5, <2>1, <3>1 DEF Inv, Arrived
  <2>2. CASE j = Len(samples) + 1
    <3>1. samples'[j].at = clock /\ clock \in Nat
      BY <1>3, <1>5, <2>2 DEF Inv, Types
    <3>2. i \in DOMAIN samples \/ i = j
      BY <1>5, <2>2
    <3>3. i \in DOMAIN samples => samples'[i].at \in 0..clock
      BY <1>5 DEF SampleRows
    <3> QED
      BY <3>1, <3>2, <3>3
  <2> QED
    BY <1>5, <2>1, <2>2
<1>8. Pending' /\ Apart'
  BY <1>2 DEF Inv, Pending, Apart, Before
<1>9. Kept
  BY <1>2, <1>5 DEF Kept, Owners, InForce, Reads
<1> QED
  BY <1>6, <1>7, <1>8, <1>9 DEF Inv

LEMMA ReadWindowKeeps ==
  ASSUME Inv, NEW t \in Tabs, ReadWindow(t)
  PROVE  Inv' /\ Kept
<1>1. PICK w \in DOMAIN windows, reassign \in BOOLEAN :
        request' = [request EXCEPT ![t] = [window |-> w, reassign |-> reassign, open |-> windows[w].ends = Open]]
  BY DEF ReadWindow
<1>2. UNCHANGED <<clock, samples, windows, contested>>
  BY DEF ReadWindow
<1> DEFINE r == [window |-> w, reassign |-> reassign, open |-> windows[w].ends = Open]
<1>3. w \in Nat
  BY DEF Inv, Types
<1>4. r \in [window : Nat, reassign : BOOLEAN, open : BOOLEAN] /\ r.window = w /\ r.open = (windows[w].ends = Open)
  BY <1>3
<1>5. request' = [request EXCEPT ![t] = r]
  BY <1>1
<1> HIDE DEF r
<1>6. \A u \in Tabs : request'[u] = IF u = t THEN r ELSE request[u]
  BY <1>5 DEF Inv, Types
<1>7. Types'
  BY <1>2, <1>4, <1>5 DEF Inv, Types, SampleRows, WindowRows
<1>8. Arrived' /\ Apart'
  BY <1>2 DEF Inv, Arrived, Apart, Before
<1>9. Pending'
  BY <1>2, <1>4, <1>6 DEF Inv, Pending
<1>10. Kept
  BY <1>2 DEF Kept, Owners, InForce, Reads
<1> QED
  BY <1>7, <1>8, <1>9, <1>10 DEF Inv

LEMMA CommitWindowKeeps ==
  ASSUME Inv, NEW t \in Tabs, CommitWindow(t)
  PROVE  Inv' /\ Kept
<1> DEFINE r == request[t]
<1>1. /\ r.window \in DOMAIN windows /\ ~r.open => windows[r.window].ends # Open
      /\ windows' \in Seq(WindowRows) /\ Len(windows) <= Len(windows')
      /\ \A v \in DOMAIN windows :
           /\ windows'[v].key = windows[v].key /\ windows'[v].driver = windows[v].driver
           /\ windows'[v].starts = windows[v].starts
           /\ windows'[v].ends = IF r.open /\ v = r.window THEN clock ELSE windows[v].ends
      /\ \A v \in DOMAIN windows' : v \in DOMAIN windows \/
           (/\ r.reassign /\ v = Len(windows) + 1
            /\ windows'[v].key = windows[r.window].key /\ windows'[v].starts = clock /\ windows'[v].ends = Open)
  BY Committed
<1>2. /\ UNCHANGED <<clock, samples>> /\ request' = [request EXCEPT ![t] = NoRequest]
      /\ contested' = (contested \/ (windows[r.window].ends # Open /\ (r.reassign \/ r.open)))
      /\ r # NoRequest
  BY DEF CommitWindow
<1> HIDE DEF r
<1>3. r.window \in DOMAIN windows
  BY DEF Inv, Pending, CommitWindow, r
<1>4. /\ windows \in Seq(WindowRows) /\ Len(windows) \in Nat /\ DOMAIN windows = 1..Len(windows)
      /\ Len(windows') \in Nat /\ DOMAIN windows' = 1..Len(windows') /\ DOMAIN windows \subseteq DOMAIN windows'
      /\ clock \in Nat
  BY <1>1 DEF Inv, Types
<1>5. \A v \in DOMAIN windows : windows[v].starts \in 0..clock /\ windows[v].ends \in {Open} \cup 0..clock
  <2>1. \A v \in DOMAIN windows : windows[v] \in WindowRows
    BY <1>4
  <2> QED
    BY <2>1 DEF WindowRows
<1>6. Types'
  <2>1. NoRequest \in [window : Nat, reassign : BOOLEAN, open : BOOLEAN]
    BY DEF NoRequest
  <2>2. request' \in [Tabs -> [window : Nat, reassign : BOOLEAN, open : BOOLEAN]]
    BY <1>2, <2>1 DEF Inv, Types
  <2>3. WindowRows' = WindowRows /\ SampleRows' = SampleRows
    BY <1>2 DEF WindowRows, SampleRows
  <2>4. contested' \in BOOLEAN
    BY <1>2
  <2> QED
    BY <1>1, <1>2, <2>2, <2>3, <2>4 DEF Inv, Types
<1>7. Arrived'
  BY <1>2 DEF Inv, Arrived
<1>8. Pending'
  <2> SUFFICES ASSUME NEW u \in Tabs, request'[u] # NoRequest
               PROVE  /\ request'[u].window \in DOMAIN windows'
                      /\ ~request'[u].open => windows'[request'[u].window].ends # Open
    BY DEF Pending
  <2>1. request'[u] = request[u]
    BY <1>2 DEF Inv, Types
  <2>2. request[u].window \in DOMAIN windows /\ (~request[u].open => windows[request[u].window].ends # Open)
    BY <2>1 DEF Inv, Pending
  <2>3. clock # Open
    BY <1>4 DEF Open
  <2> QED
    BY <1>1, <1>4, <2>1, <2>2, <2>3
<1>9. ASSUME ~contested'
      PROVE  /\ ~contested
             /\ (r.reassign \/ r.open) => r.open /\ windows[r.window].ends = Open
  <2>1. ~contested /\ ~(windows[r.window].ends # Open /\ (r.reassign \/ r.open))
    BY <1>2, <1>9
  <2>2. ~r.open => windows[r.window].ends # Open
    BY DEF Inv, Pending, CommitWindow, r
  <2> QED
    BY <2>1, <2>2
<1>10. Apart'
  <2> SUFFICES ASSUME ~contested',
                      NEW v \in DOMAIN windows', NEW w \in DOMAIN windows',
                      v # w, windows'[v].key = windows'[w].key
               PROVE  Before(v, w)' \/ Before(w, v)'
    BY DEF Apart
  <2>1. \A a, b \in DOMAIN windows : a # b /\ windows[a].key = windows[b].key => Before(a, b) \/ Before(b, a)
    BY <1>9 DEF Inv, Apart
  <2>2. clock # Open
    BY <1>4 DEF Open
  \* What was before another still is: a window that ends now was before none.
  <2>3. ASSUME NEW a \in DOMAIN windows, NEW b \in DOMAIN windows, Before(a, b)
        PROVE  Before(a, b)'
    <3>1. ~(r.open /\ a = r.window)
      BY <1>9, <2>3 DEF Before
    <3> QED
      BY <1>1, <2>3, <3>1 DEF Before
  \* And every other window of the key is before the one that begins now.
  <2>4. ASSUME r.reassign, NEW a \in DOMAIN windows, windows[a].key = windows[r.window].key
        PROVE  windows'[a].ends # Open /\ windows'[a].ends <= clock
    <3>1. r.open /\ windows[r.window].ends = Open
      BY <1>9, <2>4
    <3>2. CASE a = r.window
      BY <1>1, <1>4, <2>2, <3>1, <3>2
    <3>3. CASE a # r.window
      <4>1. Before(a, r.window)
        BY <1>3, <2>1, <2>4, <3>1, <3>3 DEF Before
      <4> QED
        BY <1>1, <1>4, <1>5, <3>3, <4>1 DEF Before
    <3> QED
      BY <3>2, <3>3
  <2>5. CASE v \in DOMAIN windows /\ w \in DOMAIN windows
    <3>1. windows[v].key = windows[w].key
      BY <1>1, <2>5
    <3>2. Before(v, w) \/ Before(w, v)
      BY <2>1, <2>5, <3>1
    <3> QED
      BY <2>3, <2>5, <3>2
  <2>6. CASE v \in DOMAIN windows /\ w \notin DOMAIN windows
    <3>1. r.reassign /\ windows'[w].key = windows[r.window].key /\ windows'[w].starts = clock
      BY <1>1, <2>6
    <3>2. windows[v].key = windows[r.window].key
      BY <1>1, <2>6, <3>1
    <3>3. windows'[v].ends # Open /\ windows'[v].ends <= clock
      BY <2>4, <2>6, <3>1, <3>2
    <3> QED
      BY <3>1, <3>3 DEF Before
  <2>7. CASE v \notin DOMAIN windows /\ w \in DOMAIN windows
    <3>1. r.reassign /\ windows'[v].key = windows[r.window].key /\ windows'[v].starts = clock
      BY <1>1, <2>7
    <3>2. windows[w].key = windows[r.window].key
      BY <1>1, <2>7, <3>1
    <3>3. windows'[w].ends # Open /\ windows'[w].ends <= clock
      BY <2>4, <2>7, <3>1, <3>2
    <3> QED
      BY <3>1, <3>3 DEF Before
  <2>8. v \in DOMAIN windows \/ w \in DOMAIN windows
    BY <1>1
  <2> QED
    BY <2>5, <2>6, <2>7, <2>8
<1>11. Kept
  <2> SUFFICES ASSUME ~contested', NEW i \in DOMAIN samples, samples[i].at < clock, NEW w \in Owners(i)
               PROVE  w \in Owners(i)'
    BY DEF Kept
  <2>1. w \in DOMAIN windows /\ InForce(w, i) /\ Reads(w, i)
    BY DEF Owners
  <2>2. w \in DOMAIN windows' /\ Reads(w, i)'
    BY <1>1, <1>2, <1>4, <2>1 DEF Reads
  <2>3. InForce(w, i)'
    BY <1>1, <1>2, <2>1 DEF InForce
  <2> QED
    BY <2>2, <2>3 DEF Owners
<1> QED
  BY <1>6, <1>7, <1>8, <1>10, <1>11 DEF Inv

\* SetToSeq numbers the elements of a finite set, each once.
LEMMA NumberedOnce ==
  ASSUME NEW S, IsFiniteSet(S)
  PROVE  /\ SetToSeq(S) \in [1..Cardinality(S) -> S] /\ Cardinality(S) \in Nat
         /\ \A i, j \in 1..Cardinality(S) : SetToSeq(S)[i] = SetToSeq(S)[j] => i = j
<1>1. Cardinality(S) \in Nat /\ ExistsBijection(1..Cardinality(S), S)
  BY FS_CardinalityType
<1>2. PICK f \in [1..Cardinality(S) -> S] : \A a, b \in 1..Cardinality(S) : f[a] = f[b] => a = b
  BY <1>1 DEF ExistsBijection, Bijection, Injection, IsInjective
<1>3. IsInjective(f)
  BY <1>2 DEF IsInjective
<1>4. SetToSeq(S) \in [1..Cardinality(S) -> S] /\ IsInjective(SetToSeq(S))
  BY <1>3 DEF SetToSeq
<1> QED
  BY <1>1, <1>4 DEF IsInjective

\* What a start of the panel does to the windows: a window stays what it is, but
\* for the driver's name; of windows that are made none has the key of another.
LEMMA Booted ==
  ASSUME Inv, Boot
  PROVE  /\ windows' \in Seq(WindowRows)
         /\ \/ /\ DOMAIN windows' = DOMAIN windows
               /\ \A v \in DOMAIN windows :
                    /\ windows'[v].key = windows[v].key /\ windows'[v].starts = windows[v].starts
                    /\ windows'[v].ends = windows[v].ends /\ windows'[v].driver = FALSE
            \/ /\ DOMAIN windows = {}
               /\ \A v, w \in DOMAIN windows' : windows'[v].key = windows'[w].key => v = w
<1>1. PICK sensors \in [Keys -> {"absent", "key", "driver"}] :
        windows' = repair_sensor_window_keys(ensure_sensor_windows(sensors))
  BY DEF Boot
<1> DEFINE ws == ensure_sensor_windows(sensors)
<1>2. windows' = [i \in DOMAIN ws |-> [ws[i] EXCEPT !.driver = FALSE]]
  BY <1>1 DEF repair_sensor_window_keys
<1>3. windows \in Seq(WindowRows) /\ clock \in Nat
  BY DEF Inv, Types
<1>4. ASSUME NEW n \in Nat, ws \in [1..n -> WindowRows]
      PROVE  /\ windows' \in Seq(WindowRows) /\ DOMAIN windows' = 1..n
             /\ \A v \in 1..n :
                  /\ windows'[v].key = ws[v].key /\ windows'[v].starts = ws[v].starts
                  /\ windows'[v].ends = ws[v].ends /\ windows'[v].driver = FALSE
  <2>1. DOMAIN ws = 1..n /\ \A v \in 1..n : ws[v] \in WindowRows
    BY <1>4
  <2> HIDE DEF ws
  <2>2. \A v \in 1..n : windows'[v] = [ws[v] EXCEPT !.driver = FALSE]
    BY <1>2, <2>1
  <2>3. \A v \in 1..n :
          /\ windows'[v] \in WindowRows
          /\ windows'[v].key = ws[v].key /\ windows'[v].starts = ws[v].starts
          /\ windows'[v].ends = ws[v].ends /\ windows'[v].driver = FALSE
    <3> SUFFICES ASSUME NEW v \in 1..n
                 PROVE  /\ windows'[v] \in WindowRows
                        /\ windows'[v].key = ws[v].key /\ windows'[v].starts = ws[v].starts
                        /\ windows'[v].ends = ws[v].ends /\ windows'[v].driver = FALSE
      OBVIOUS
    <3>1. windows'[v] = [ws[v] EXCEPT !.driver = FALSE] /\ ws[v] \in WindowRows
      BY <2>1, <2>2
    <3> QED
      BY <3>1 DEF WindowRows
  <2>4. DOMAIN windows' = 1..n
    BY <1>2, <2>1
  <2>5. windows' \in [1..n -> WindowRows]
    BY <1>2, <2>1, <2>3, <2>4
  <2> QED
    BY <2>3, <2>4, <2>5, SeqDef
<1>5. CASE windows # <<>>
  <2>1. ws = windows
    BY <1>5 DEF ensure_sensor_windows
  <2>2. Len(windows) \in Nat /\ windows \in [1..Len(windows) -> WindowRows] /\ DOMAIN windows = 1..Len(windows)
    BY <1>3, LenProperties
  <2>3. /\ windows' \in Seq(WindowRows) /\ DOMAIN windows' = 1..Len(windows)
        /\ \A v \in 1..Len(windows) :
             /\ windows'[v].key = ws[v].key /\ windows'[v].starts = ws[v].starts
             /\ windows'[v].ends = ws[v].ends /\ windows'[v].driver = FALSE
    BY <1>4, <2>1, <2>2
  <2> HIDE DEF ws
  <2> QED
    BY <2>1, <2>2, <2>3
<1>6. CASE windows = <<>>
  <2> DEFINE Configured == {k \in Keys : sensors[k] # "absent"}
             names == SetToSeq(Configured)
             n == Cardinality(Configured)
             starts == IF samples = <<>> THEN clock ELSE samples[1].at
  <2>1. IsFiniteSet(Configured)
    BY Limits, FS_Subset
  <2>2. /\ names \in [1..n -> Configured] /\ n \in Nat
        /\ \A i, j \in 1..n : names[i] = names[j] => i = j
    BY <2>1, NumberedOnce
  <2>3. ws = [i \in DOMAIN names |-> Window(names[i], sensors[names[i]] = "driver", starts)]
    BY <1>6 DEF ensure_sensor_windows
  <2>4. starts \in 0..clock
    <3>1. CASE samples = <<>>
      BY <1>3, <3>1
    <3>2. CASE samples # <<>>
      <4>1. samples \in Seq(SampleRows)
        BY DEF Inv, Types
      <4>2. samples[1] \in SampleRows
        BY <3>2, <4>1, EmptySeq, LenProperties, ElementOfSeq
      <4> QED
        BY <3>2, <4>2 DEF SampleRows
    <3> QED
      BY <3>1, <3>2
  <2>5. Configured \subseteq Keys
    OBVIOUS
  <2> HIDE DEF ws, names, n, Configured, starts
  <2>6. \A i \in 1..n : /\ names[i] \in Keys
                        /\ ws[i] = Window(names[i], sensors[names[i]] = "driver", starts)
    BY <2>2, <2>3, <2>5
  <2>11. \A k \in Keys, b \in BOOLEAN : Window(k, b, starts) \in WindowRows /\ Window(k, b, starts).key = k
    BY <1>3, <2>4 DEF Window, WindowRows
  <2>7. \A i \in 1..n : ws[i] \in WindowRows /\ ws[i].key = names[i]
    <3> SUFFICES ASSUME NEW i \in 1..n PROVE ws[i] \in WindowRows /\ ws[i].key = names[i]
      OBVIOUS
    <3> DEFINE b == sensors[names[i]] = "driver"
    <3>1. b \in BOOLEAN /\ names[i] \in Keys /\ ws[i] = Window(names[i], b, starts)
      BY <2>6
    <3> HIDE DEF b
    <3> QED
      BY <2>11, <3>1
  <2>8. ws \in [1..n -> WindowRows]
    <3>1. DOMAIN ws = 1..n
      BY <2>2, <2>3
    <3> QED
      BY <2>2, <2>3, <2>7, <3>1
  <2>9. /\ windows' \in Seq(WindowRows) /\ DOMAIN windows' = 1..n
        /\ \A v \in 1..n : windows'[v].key = ws[v].key
    BY <1>4, <2>2, <2>8
  <2>10. DOMAIN windows = {}
    BY <1>6
  <2> QED
    BY <2>2, <2>7, <2>9, <2>10
<1> QED
  BY <1>5, <1>6

LEMMA BootKeeps ==
  ASSUME Inv, Boot
  PROVE  Inv' /\ Kept
<1>1. /\ windows' \in Seq(WindowRows)
      /\ \/ /\ DOMAIN windows' = DOMAIN windows
            /\ \A v \in DOMAIN windows :
                 /\ windows'[v].key = windows[v].key /\ windows'[v].starts = windows[v].starts
                 /\ windows'[v].ends = windows[v].ends /\ windows'[v].driver = FALSE
         \/ /\ DOMAIN windows = {}
            /\ \A v, w \in DOMAIN windows' : windows'[v].key = windows'[w].key => v = w
  BY Booted
<1>2. UNCHANGED <<clock, samples, contested>> /\ request' = [t \in Tabs |-> NoRequest]
  BY DEF Boot
<1>3. Types'
  <2>1. NoRequest \in [window : Nat, reassign : BOOLEAN, open : BOOLEAN]
    BY DEF NoRequest
  <2>2. request' \in [Tabs -> [window : Nat, reassign : BOOLEAN, open : BOOLEAN]]
    BY <1>2, <2>1
  <2>3. WindowRows' = WindowRows /\ SampleRows' = SampleRows
    BY <1>2 DEF WindowRows, SampleRows
  <2> QED
    BY <1>1, <1>2, <2>2, <2>3 DEF Inv, Types
<1>4. Arrived'
  BY <1>2 DEF Inv, Arrived
<1>5. Pending'
  BY <1>2 DEF Pending
<1>6. CASE /\ DOMAIN windows' = DOMAIN windows
           /\ \A v \in DOMAIN windows :
                /\ windows'[v].key = windows[v].key /\ windows'[v].starts = windows[v].starts
                /\ windows'[v].ends = windows[v].ends /\ windows'[v].driver = FALSE
  <2>1. Apart'
    <3> SUFFICES ASSUME ~contested, NEW v \in DOMAIN windows, NEW w \in DOMAIN windows,
                        v # w, windows[v].key = windows[w].key
                 PROVE  Before(v, w)' \/ Before(w, v)'
      BY <1>2, <1>6 DEF Apart
    <3>1. Before(v, w) \/ Before(w, v)
      BY DEF Inv, Apart
    <3> QED
      BY <1>6, <3>1 DEF Before
  <2>2. Kept
    <3> SUFFICES ASSUME NEW i \in DOMAIN samples, NEW w \in Owners(i) PROVE w \in Owners(i)'
      BY DEF Kept
    <3>1. w \in DOMAIN windows /\ InForce(w, i) /\ Reads(w, i)
      BY DEF Owners
    <3>2. w \in DOMAIN windows' /\ InForce(w, i)' /\ Reads(w, i)'
      BY <1>2, <1>6, <3>1 DEF InForce, Reads
    <3> QED
      BY <3>2 DEF Owners
  <2> QED
    BY <1>3, <1>4, <1>5, <2>1, <2>2 DEF Inv
<1>7. CASE /\ DOMAIN windows = {}
           /\ \A v, w \in DOMAIN windows' : windows'[v].key = windows'[w].key => v = w
  <2>1. Apart'
    BY <1>7 DEF Apart
  <2>2. Kept
    BY <1>7 DEF Kept, Owners
  <2> QED
    BY <1>3, <1>4, <1>5, <2>1, <2>2 DEF Inv
<1> QED
  BY <1>1, <1>6, <1>7

LEMMA InitHolds == Init => Inv
<1> SUFFICES ASSUME Init PROVE Inv
  OBVIOUS
<1>1. NoRequest \in [window : Nat, reassign : BOOLEAN, open : BOOLEAN]
  BY DEF NoRequest
<1>2. /\ windows \in Seq(WindowRows)
      /\ \A v, w \in DOMAIN windows : v = w
  <2>1. CASE windows = <<>>
    BY <2>1
  <2>2. CASE \E k \in Keys : windows = <<Window(k, TRUE, 0)>>
    <3>1. PICK k \in Keys : windows = <<Window(k, TRUE, 0)>>
      BY <2>2
    <3> DEFINE n == Window(k, TRUE, 0)
    <3>2. n \in WindowRows
      BY DEF Init, Window, WindowRows
    <3> HIDE DEF n
    <3>3. windows = <<n>>
      BY <3>1 DEF n
    <3> QED
      BY <3>2, <3>3
  <2> QED
    BY <2>1, <2>2 DEF Init
<1>3. Types
  <2>1. clock \in Nat /\ samples \in Seq(SampleRows)
    BY DEF Init
  <2>2. contested \in BOOLEAN
    BY DEF Init
  <2>3. request \in [Tabs -> [window : Nat, reassign : BOOLEAN, open : BOOLEAN]]
    BY <1>1 DEF Init
  <2> QED
    BY <1>2, <2>1, <2>2, <2>3 DEF Types
<1>4. Arrived /\ Pending
  BY DEF Init, Arrived, Pending
<1>5. Apart
  BY <1>2 DEF Apart
<1> QED
  BY <1>3, <1>4, <1>5 DEF Inv

LEMMA StepKeeps == Inv /\ [Next]_vars => Inv' /\ (Kept \/ UNCHANGED vars)
<1> SUFFICES ASSUME Inv, [Next]_vars PROVE Inv' /\ (Kept \/ UNCHANGED vars)
  OBVIOUS
<1>1. CASE UNCHANGED vars
  BY <1>1 DEF vars, Inv, Types, Arrived, Pending, Apart, Before, WindowRows, SampleRows
<1>2. CASE Next
  <2>1. ASSUME NEW t \in Tabs, ReadWindow(t) PROVE Inv' /\ Kept
    BY <2>1, ReadWindowKeeps
  <2>2. ASSUME NEW t \in Tabs, CommitWindow(t) PROVE Inv' /\ Kept
    BY <2>2, CommitWindowKeeps
  <2>3. CASE Tick \/ Store \/ Boot
    BY <2>3, TickKeeps, StoreKeeps, BootKeeps
  <2> QED
    BY <1>2, <2>1, <2>2, <2>3 DEF Next
<1> QED
  BY <1>1, <1>2

LEMMA InvHolds == Spec => []Inv
BY InitHolds, StepKeeps, PTL DEF Spec

-----------------------------------------------------------------------------
(* Who a reading belongs to *)

\* Of two windows of a key at most one owns a reading, whatever interleaving of
\* assign_sensor_window and retire_sensor_window (backend/app/main.py) made them.
THEOREM OneOwnerHolds == Spec => []OneOwner
<1>1. ASSUME Inv PROVE OneOwner
  <2> SUFFICES ASSUME ~contested, NEW i \in DOMAIN samples, NEW v \in Owners(i), NEW w \in Owners(i),
                      windows[v].key = windows[w].key, v # w
               PROVE  FALSE
    BY DEF OneOwner
  <2>1. /\ v \in DOMAIN windows /\ w \in DOMAIN windows
        /\ InForce(v, i) /\ InForce(w, i)
    BY DEF Owners
  <2>2. Before(v, w) \/ Before(w, v)
    BY <1>1, <2>1 DEF Inv, Apart
  <2>3. samples[i] \in SampleRows /\ windows[v] \in WindowRows /\ windows[w] \in WindowRows
    BY <1>1, <2>1 DEF Inv, Types
  <2>4. /\ samples[i].at \in Int /\ windows[v].starts \in Int /\ windows[w].starts \in Int
        /\ windows[v].ends \in Int /\ windows[w].ends \in Int
    BY <1>1, <2>3 DEF SampleRows, WindowRows, Open
  <2> QED
    BY <2>1, <2>2, <2>4 DEF Before, InForce
<1> QED
  BY <1>1, InvHolds, PTL

\* No later request or start of the panel takes a stored reading from its window.
THEOREM HistoryKeptHolds == Spec => HistoryKept
<1>1. Inv /\ [Next]_vars =>
        [~contested' => \A i \in DOMAIN samples :
           samples[i].at < clock => \A w \in Owners(i) : w \in Owners(i)']_vars
  BY StepKeeps DEF Kept
<1> QED
  BY <1>1, InvHolds, PTL DEF Spec, HistoryKept

-----------------------------------------------------------------------------
(* What the panel shows of it *)

LEMMA RangeTypes ==
  ASSUME Inv, NEW range \in Answered
  PROVE  range.from \in Int /\ range.to \in Int
<1>1. PICK from \in {Absent} \cup 0..clock, to \in {Absent} \cup 0..clock :
        range = parse_telemetry_range(from, to)
  BY DEF Answered, Ranges
<1>2. clock \in Nat /\ DefaultSpan \in Nat
  BY Limits DEF Inv, Types
<1> QED
  BY <1>1, <1>2 DEF parse_telemetry_range, Absent

LEMMA Times ==
  ASSUME Inv
  PROVE  /\ clock \in Nat
         /\ \A i \in DOMAIN samples : samples[i].at \in Nat /\ samples[i].at <= clock
         /\ \A w \in DOMAIN windows : windows[w].starts \in Nat /\ windows[w].ends \in Int
<1>1. \A i \in DOMAIN samples : samples[i] \in SampleRows
  BY DEF Inv, Types
<1>2. \A w \in DOMAIN windows : windows[w] \in WindowRows
  BY DEF Inv, Types
<1> QED
  BY <1>1, <1>2 DEF Inv, Types, SampleRows, WindowRows, Open

\* The chart, the CSV and the choice of their columns (windows_for_range,
\* device_telemetry_csv) agree about every reading of every range, with whatever
\* buckets, spans and limits.
THEOREM ShownToItsOwnerHolds == Spec => []ShownToItsOwner
<1>1. ASSUME Inv, NEW range \in Answered
      PROVE  LET series == series_for_range(range)
                 column == [w \in series |-> CsvColumn(w, range)]
                 chart  == Chart(range)
             IN  /\ \A i \in InRange(range) : \A w \in Owners(i) :
                      windows[w].key \in Plotted => w \in series /\ i \in column[w]
                 /\ \A w \in series : column[w] = {i \in InRange(range) : w \in Owners(i)}
                 /\ \A slot \in DOMAIN chart, w \in series : chart[slot][w] \subseteq column[w]
  <2> DEFINE series == series_for_range(range)
             column == [w \in series |-> CsvColumn(w, range)]
             chart  == Chart(range)
  <2>1. range.from \in Int /\ range.to \in Int
    BY <1>1, RangeTypes
  <2>2. \A w \in DOMAIN windows : CsvColumn(w, range) = {i \in InRange(range) : w \in Owners(i)}
    <3> SUFFICES ASSUME NEW w \in DOMAIN windows, NEW i \in InRange(range)
                 PROVE  i \in CsvColumn(w, range) <=> w \in Owners(i)
      BY DEF CsvColumn
    <3>1. i \in DOMAIN samples
      BY DEF InRange
    <3>2. samples[i].at \in Int /\ windows[w].starts \in Int /\ windows[w].ends \in Int
      BY <1>1, <3>1, Times
    <3> QED
      BY <3>2 DEF CsvColumn, Owners, InForce
  <2>3. series \subseteq DOMAIN windows
    BY DEF series_for_range
  <2>4. ASSUME NEW i \in InRange(range), NEW w \in Owners(i), windows[w].key \in Plotted
        PROVE  w \in series /\ i \in CsvColumn(w, range)
    <3>1. /\ i \in DOMAIN samples /\ range.from <= samples[i].at /\ samples[i].at <= range.to
          /\ w \in DOMAIN windows /\ InForce(w, i)
      BY DEF InRange, Owners
    <3>2. samples[i].at \in Int /\ windows[w].starts \in Int /\ windows[w].ends \in Int
      BY <1>1, <3>1, Times
    <3>3. window_covers(w, range)
      BY <2>1, <3>1, <3>2 DEF window_covers, InForce
    <3> QED
      BY <2>2, <2>4, <3>1, <3>3 DEF series_for_range
  <2>5. ASSUME NEW slot \in DOMAIN chart, NEW w \in series
        PROVE  chart[slot][w] \subseteq CsvColumn(w, range)
    <3>1. chart[slot][w] \subseteq {i \in InRange(range) : InForce(w, i) /\ Reads(w, i)}
      BY <2>5 DEF Chart, bucket_rows
    <3>2. {i \in InRange(range) : InForce(w, i) /\ Reads(w, i)} \subseteq {i \in InRange(range) : w \in Owners(i)}
      BY <2>3 DEF Owners
    <3> QED
      BY <2>2, <2>3, <3>1, <3>2
  <2> HIDE DEF series, chart
  <2>6. \A w \in series : column[w] = CsvColumn(w, range)
    OBVIOUS
  <2> HIDE DEF column
  <2>7. \A i \in InRange(range) : \A w \in Owners(i) :
          windows[w].key \in Plotted => w \in series /\ i \in column[w]
    BY <2>4, <2>6
  <2>8. \A w \in series : column[w] = {i \in InRange(range) : w \in Owners(i)}
    BY <2>2, <2>3, <2>6
  <2>9. \A slot \in DOMAIN chart, w \in series : chart[slot][w] \subseteq column[w]
    BY <2>5, <2>6
  <2> QED
    BY <2>7, <2>8, <2>9 DEF series, column, chart
<1>2. Inv => ShownToItsOwner
  BY <1>1 DEF ShownToItsOwner
<1> QED
  BY <1>2, InvHolds, PTL

\* The largest and the smallest of a bounded set of numbers.
LEMMA SmallestIsThere ==
  ASSUME NEW S \in SUBSET Nat, S # {}
  PROVE  \E m \in S : \A x \in S : m <= x
<1> DEFINE R == {p \in Nat \X Nat : p[1] < p[2]}
<1>1. IsWellFoundedOn(R, Nat)
  BY NatLessThanWellFounded DEF OpToRel
<1>2. PICK m \in S : \A x \in S : <<x, m>> \notin R
  <2> HIDE DEF R
  <2> QED
    BY <1>1, WFMin, Zenon
<1>3. ASSUME NEW x \in S PROVE m <= x
  <2>1. x \in Nat /\ m \in Nat /\ ~(<<x, m>> \in R)
    BY <1>2
  <2>2. ~(x < m)
    BY <2>1
  <2> QED
    BY <2>1, <2>2
<1> QED
  BY <1>3

LEMMA MaxIsThere ==
  ASSUME NEW S \in SUBSET Nat, NEW n \in Nat, S # {}, \A x \in S : x <= n
  PROVE  Max(S) \in S /\ \A x \in S : x <= Max(S)
<1> DEFINE T == {n - x : x \in S}
<1>1. T \in SUBSET Nat /\ T # {}
  <2>1. \A x \in S : n - x \in Nat
    OBVIOUS
  <2>2. PICK x \in S : TRUE
    OBVIOUS
  <2>3. n - x \in T
    BY <2>2
  <2>4. \A y \in T : y \in Nat
    BY <2>1
  <2> QED
    BY <2>3, <2>4
<1>2. PICK m \in T : \A y \in T : m <= y
  <2> HIDE DEF T
  <2> QED
    BY <1>1, SmallestIsThere
<1>3. PICK x \in S : m = n - x
  OBVIOUS
<1>4. ASSUME NEW y \in S PROVE x >= y
  <2>1. n - y \in T
    OBVIOUS
  <2> QED
    BY <1>2, <1>3, <2>1
<1>5. \E z \in S : \A y \in S : z >= y
  BY <1>4
<1>6. Max(S) \in S /\ \A y \in S : Max(S) >= y
  BY <1>5, Zenon DEF Max
<1> QED
  BY <1>6

\* last_readings shows on the card of a name the newest reading it owns, however
\* many names the probe had before: none of the rows after it can be another's.
THEOREM CardIsNewestHolds == Spec => []CardIsNewest
<1>1. ASSUME Inv, NEW w \in DOMAIN windows, windows[w].ends = Open
      PROVE  LET owned == {i \in DOMAIN samples :
                             /\ w \in Owners(i)
                             /\ clock - samples[i].at <= CardAge /\ Len(samples) - i < CardRows}
             IN  owned # {} => Card(w) = Max(owned)
  <2> DEFINE owned == {i \in DOMAIN samples :
                         /\ w \in Owners(i)
                         /\ clock - samples[i].at <= CardAge /\ Len(samples) - i < CardRows}
             recent == {i \in DOMAIN samples : samples[i].at >= clock - CardAge /\ i > Len(samples) - CardRows}
             read == {i \in recent : Reads(w, i)}
  <2> SUFFICES ASSUME owned # {} PROVE Card(w) = Max(owned)
    OBVIOUS
  <2>1. Len(samples) \in Nat /\ DOMAIN samples = 1..Len(samples)
    BY <1>1 DEF Inv, Types
  <2>2. /\ clock \in Nat /\ CardAge \in Nat /\ CardRows \in Nat /\ windows[w].starts \in Nat
        /\ \A i \in DOMAIN samples : samples[i].at \in Nat
    BY <1>1, Times, Limits
  <2>3. ASSUME NEW i \in owned PROVE i \in read
    BY <2>1, <2>2 DEF Owners
  <2>4. ASSUME NEW i \in read, NEW j \in owned, j <= i PROVE i \in owned
    <3>1. samples[j].at >= windows[w].starts /\ samples[j].at <= samples[i].at
      BY <1>1, <2>4 DEF Owners, InForce, Inv, Arrived
    <3>2. InForce(w, i)
      BY <1>1, <2>2, <3>1 DEF InForce
    <3> QED
      BY <1>1, <2>1, <2>2, <3>2 DEF Owners
  <2>5. PICK j \in owned : TRUE
    OBVIOUS
  <2>6. read \subseteq 1..Len(samples) /\ owned \subseteq 1..Len(samples)
    BY <2>1
  <2>7. Card(w) = Max({0} \cup read)
    BY DEF Card
  <2>8. owned # {} /\ j \in owned
    BY <2>5
  <2> HIDE DEF owned, read, recent
  <2> DEFINE m == Max({0} \cup read)
             o == Max(owned)
  <2> HIDE DEF m, o
  <2>9. m \in {0} \cup read /\ \A x \in {0} \cup read : x <= m
    <3> DEFINE S == {0} \cup read
    <3>1. S \in SUBSET Nat /\ S # {} /\ \A x \in S : x <= Len(samples)
      BY <2>1, <2>6
    <3> HIDE DEF S
    <3>2. Max(S) \in S /\ \A x \in S : x <= Max(S)
      BY <2>1, <3>1, MaxIsThere
    <3> QED
      BY <3>2 DEF S, m
  <2>10. o \in owned /\ \A x \in owned : x <= o
    <3>1. owned \in SUBSET Nat /\ \A x \in owned : x <= Len(samples)
      BY <2>1, <2>6
    <3> QED
      BY <2>1, <2>8, <3>1, MaxIsThere DEF o
  <2>11. o <= m /\ m # 0
    BY <2>3, <2>6, <2>9, <2>10
  <2>12. m \in owned
    BY <2>4, <2>9, <2>10, <2>11
  <2>13. m = o
    BY <2>6, <2>10, <2>11, <2>12
  <2> QED
    BY <2>7, <2>13 DEF m, o
<1>2. Inv => CardIsNewest
  BY <1>1 DEF CardIsNewest
<1> QED
  BY <1>2, InvHolds, PTL

-----------------------------------------------------------------------------
(* The pages of the table *)

LEMMA Division ==
  ASSUME NEW n \in Nat, NEW d \in Nat \ {0}
  PROVE  /\ n \div d \in Nat
         /\ (n \div d) * d <= n /\ n < (n \div d) * d + d
OBVIOUS

\* Products with a positive number are in the order of what is multiplied.
LEMMA Multiples ==
  ASSUME NEW a \in Int, NEW b \in Int, NEW d \in Nat \ {0}
  PROVE  /\ a <= b => a * d <= b * d
         /\ a * d < b * d => a < b
         /\ (a - 1) * d = a * d - d
<1>1. \A x \in Nat : x * d \in Nat
  OBVIOUS
<1>2. (b - a) * d = b * d - a * d /\ (a - 1) * d = a * d - d /\ a * d \in Int /\ b * d \in Int
  OBVIOUS
<1>3. a <= b => a * d <= b * d
  <2> SUFFICES ASSUME a <= b PROVE a * d <= b * d
    OBVIOUS
  <2>1. b - a \in Nat
    OBVIOUS
  <2>2. (b - a) * d \in Nat
    BY <1>1, <2>1
  <2> QED
    BY <1>2, <2>2
<1>4. (a - b) * d = a * d - b * d
  OBVIOUS
<1>5. a * d < b * d => a < b
  <2> SUFFICES ASSUME ~(a < b) PROVE ~(a * d < b * d)
    OBVIOUS
  <2>1. a - b \in Nat
    OBVIOUS
  <2>2. (a - b) * d \in Nat
    BY <1>1, <2>1
  <2> QED
    BY <1>2, <1>4, <2>2
<1> QED
  BY <1>2, <1>3, <1>5

LEMMA MaxOfTwo ==
  ASSUME NEW a \in Int, NEW b \in Int
  PROVE  Max({a, b}) = IF a >= b THEN a ELSE b
<1>1. \E z \in {a, b} : \A y \in {a, b} : z >= y
  OBVIOUS
<1>2. Max({a, b}) \in {a, b} /\ \A y \in {a, b} : Max({a, b}) >= y
  BY <1>1, Zenon DEF Max
<1> QED
  BY <1>2

LEMMA MinOfTwo ==
  ASSUME NEW a \in Int, NEW b \in Int
  PROVE  Min({a, b}) = IF a <= b THEN a ELSE b
<1>1. \E z \in {a, b} : \A y \in {a, b} : z <= y
  OBVIOUS
<1>2. Min({a, b}) \in {a, b} /\ \A y \in {a, b} : Min({a, b}) <= y
  BY <1>1, Zenon DEF Min
<1> QED
  BY <1>2

\* The rows of a range that are newer than one of them, and the number of pages.
Newer(range, i) == Cardinality({j \in InRange(range) : j > i})
Pages(range) == Max({1, (Cardinality(InRange(range)) + PerPage - 1) \div PerPage})

LEMMA RowsOfRange ==
  ASSUME Inv, NEW range
  PROVE  /\ InRange(range) \in SUBSET (1..Len(samples)) /\ Len(samples) \in Nat
         /\ IsFiniteSet(InRange(range)) /\ Cardinality(InRange(range)) \in Nat
         /\ InRange(range) # {} => Cardinality(InRange(range)) > 0
<1>1. Len(samples) \in Nat /\ DOMAIN samples = 1..Len(samples)
  BY DEF Inv, Types
<1>2. InRange(range) \in SUBSET (1..Len(samples))
  BY <1>1 DEF InRange
<1>3. IsFiniteSet(1..Len(samples))
  BY <1>1, FS_Interval
<1>4. IsFiniteSet(InRange(range))
  BY <1>2, <1>3, FS_Subset
<1>5. Cardinality(InRange(range)) \in Nat
  BY <1>4, FS_CardinalityType
<1>6. InRange(range) # {} => Cardinality(InRange(range)) # 0
  BY <1>4, FS_EmptySet
<1> QED
  BY <1>1, <1>2, <1>4, <1>5, <1>6

\* There are as many pages as it takes.
LEMMA PagesAreEnough ==
  ASSUME Inv, NEW range
  PROVE  /\ Pages(range) \in Nat /\ Pages(range) >= 1
         /\ Cardinality(InRange(range)) <= Pages(range) * PerPage
         /\ InRange(range) # {} => (Pages(range) - 1) * PerPage < Cardinality(InRange(range))
<1> DEFINE total == Cardinality(InRange(range))
           whole == (total + PerPage - 1) \div PerPage
<1>1. total \in Nat /\ PerPage \in Nat \ {0}
  BY RowsOfRange, Limits
<1>2. total + PerPage - 1 \in Nat
  BY <1>1
<1>3. whole \in Nat /\ whole * PerPage <= total + PerPage - 1 /\ total + PerPage - 1 < whole * PerPage + PerPage
  BY <1>1, <1>2, Division
<1>4. InRange(range) # {} => total > 0
  BY RowsOfRange
<1>5. Pages(range) = IF 1 >= whole THEN 1 ELSE whole
  BY <1>3, MaxOfTwo DEF Pages
<1> HIDE DEF total, whole
<1>6. whole * PerPage \in Nat
  BY <1>1, <1>3
<1>7. total <= whole * PerPage
  BY <1>1, <1>3, <1>6
<1>8. Pages(range) \in Nat /\ Pages(range) >= 1 /\ whole <= Pages(range)
  BY <1>3, <1>5
<1>9. total <= Pages(range) * PerPage
  <2>1. whole * PerPage <= Pages(range) * PerPage
    BY <1>1, <1>3, <1>8, Multiples
  <2>2. Pages(range) * PerPage \in Int
    BY <1>1, <1>8
  <2> QED
    BY <1>1, <1>6, <1>7, <2>1, <2>2
<1>10. ASSUME total > 0 PROVE (Pages(range) - 1) * PerPage < total
  <2>1. CASE Pages(range) = whole
    <3>1. (whole - 1) * PerPage = whole * PerPage - PerPage
      BY <1>1, <1>3, Multiples
    <3> QED
      BY <1>1, <1>3, <1>6, <2>1, <3>1
  <2>2. CASE Pages(range) = 1
    <3>1. (1 - 1) * PerPage = 0
      BY <1>1
    <3> QED
      BY <1>10, <2>2, <3>1
  <2> QED
    BY <1>5, <2>1, <2>2
<1> QED
  BY <1>4, <1>8, <1>9, <1>10 DEF total

\* The newest row has none above it, the oldest all the others, any fewer than all.
LEMMA Places ==
  ASSUME Inv, NEW range
  PROVE  /\ \A i \in InRange(range) : Newer(range, i) \in Nat /\ Newer(range, i) < Cardinality(InRange(range))
         /\ InRange(range) # {} => /\ \E i \in InRange(range) : Newer(range, i) = 0
                                   /\ \E i \in InRange(range) : Newer(range, i) = Cardinality(InRange(range)) - 1
<1> DEFINE rows == InRange(range)
           Above(i) == {j \in rows : j > i}
<1>1. /\ rows \in SUBSET (1..Len(samples)) /\ Len(samples) \in Nat
      /\ IsFiniteSet(rows) /\ Cardinality(rows) \in Nat
  BY RowsOfRange
<1>2. \A i \in rows : Newer(range, i) = Cardinality(Above(i))
  BY DEF Newer
<1> HIDE DEF rows
<1>3. ASSUME NEW i \in rows PROVE Cardinality(rows \ {i}) = Cardinality(rows) - 1 /\ IsFiniteSet(rows \ {i})
  BY <1>1, FS_RemoveElement
<1>4. ASSUME NEW i \in rows PROVE Cardinality(Above(i)) \in Nat /\ Cardinality(Above(i)) < Cardinality(rows)
  <2>1. Above(i) \in SUBSET (rows \ {i})
    BY <1>1
  <2>2. IsFiniteSet(Above(i)) /\ Cardinality(Above(i)) <= Cardinality(rows \ {i})
    BY <1>3, <2>1, FS_Subset
  <2>3. Cardinality(Above(i)) \in Nat
    BY <2>2, FS_CardinalityType
  <2> HIDE DEF Above
  <2> QED
    BY <1>1, <1>3, <2>2, <2>3
<1>5. ASSUME rows # {} PROVE \E i \in rows : Cardinality(Above(i)) = 0
  <2>1. rows \in SUBSET Nat /\ \A x \in rows : x <= Len(samples)
    BY <1>1
  <2>2. Max(rows) \in rows /\ \A x \in rows : x <= Max(rows)
    BY <1>1, <1>5, <2>1, MaxIsThere
  <2>3. Above(Max(rows)) = {}
    <3> SUFFICES ASSUME NEW x \in rows PROVE ~(x > Max(rows))
      OBVIOUS
    <3>1. x <= Max(rows) /\ x \in Nat /\ Max(rows) \in Nat
      BY <2>1, <2>2
    <3> QED
      BY <3>1
  <2>4. Cardinality(Above(Max(rows))) = 0
    BY <2>3, FS_EmptySet
  <2> QED
    BY <2>2, <2>4
<1>6. ASSUME rows # {} PROVE \E i \in rows : Cardinality(Above(i)) = Cardinality(rows) - 1
  <2>1. rows \in SUBSET Nat
    BY <1>1
  <2>2. PICK i \in rows : \A x \in rows : i <= x
    BY <1>6, <2>1, SmallestIsThere
  <2>3. Above(i) = rows \ {i}
    <3>1. \A j \in rows : j > i <=> j # i
      BY <2>1, <2>2
    <3> QED
      BY <3>1
  <2> HIDE DEF Above
  <2>4. Cardinality(Above(i)) = Cardinality(rows) - 1
    BY <1>3, <2>3
  <2> QED
    BY <2>4
<1> QED
  BY <1>2, <1>4, <1>5, <1>6 DEF rows

\* Which rows are on a page.
LEMMA OnPage ==
  ASSUME Inv, NEW range, NEW page \in Int, NEW shown \in Int,
         \/ page \in 1..Pages(range) /\ shown = page
         \/ page = 0 /\ shown = 1
         \/ page = Pages(range) + 1 /\ shown = Pages(range)
  PROVE  TablePage(range, page) =
           {i \in InRange(range) : (shown - 1) * PerPage <= Newer(range, i) /\ Newer(range, i) < shown * PerPage}
<1> DEFINE last == Pages(range)
           least == Max({page, 1})
<1>1. last \in Nat /\ last >= 1
  BY PagesAreEnough
<1>2. least = IF page >= 1 THEN page ELSE 1
  BY MaxOfTwo
<1>3. /\ least \in Int
      /\ \/ page \in 1..last /\ shown = page
         \/ page = 0 /\ shown = 1
         \/ page = last + 1 /\ shown = last
  BY <1>2
<1> HIDE DEF last, least
<1>4. Min({least, last}) = IF least <= last THEN least ELSE last
  BY <1>1, <1>3, MinOfTwo
<1>5. Min({least, last}) = shown
  BY <1>1, <1>2, <1>3, <1>4
<1>6. Min({Max({page, 1}), Max({1, (Cardinality(InRange(range)) + PerPage - 1) \div PerPage})}) = shown
  BY <1>5 DEF Pages, last, least
<1> QED
  BY <1>6 DEF TablePage, Newer

\* device_telemetry_rows_json shows each row of a range on one of its pages, and
\* has something to show on any page asked for, for every size of a page.
THEOREM PagesShowAllHolds == Spec => []PagesShowAll
<1>1. ASSUME Inv, NEW range \in Answered
      PROVE  LET rows == InRange(range)
                 last == Max({1, (Cardinality(rows) + PerPage - 1) \div PerPage})
             IN  /\ \A i \in rows : \E p \in 1..last : {q \in 1..last : i \in TablePage(range, q)} = {p}
                 /\ rows # {} => \A p \in {0, last + 1} : TablePage(range, p) # {}
  <2> DEFINE rows == InRange(range)
             last == Pages(range)
             total == Cardinality(rows)
  <2>1. /\ last \in Nat /\ last >= 1 /\ total <= last * PerPage
        /\ rows # {} => (last - 1) * PerPage < total
    BY <1>1, PagesAreEnough
  <2>2. PerPage \in Nat \ {0} /\ total \in Nat /\ (rows # {} => total > 0)
    BY <1>1, Limits, RowsOfRange
  <2>3. /\ \A i \in rows : Newer(range, i) \in Nat /\ Newer(range, i) < total
        /\ rows # {} => (\E i \in rows : Newer(range, i) = 0) /\ \E i \in rows : Newer(range, i) = total - 1
    BY <1>1, Places
  <2>4. \A q \in 1..last : TablePage(range, q) =
           {i \in rows : (q - 1) * PerPage <= Newer(range, i) /\ Newer(range, i) < q * PerPage}
    BY <1>1, <2>1, OnPage
  <2>5. TablePage(range, 0) = {i \in rows : (1 - 1) * PerPage <= Newer(range, i) /\ Newer(range, i) < 1 * PerPage}
    BY <1>1, <2>1, OnPage
  <2>6. TablePage(range, last + 1) =
           {i \in rows : (last - 1) * PerPage <= Newer(range, i) /\ Newer(range, i) < last * PerPage}
    BY <1>1, <2>1, OnPage
  <2> HIDE DEF rows, last, total
  <2>7. ASSUME NEW i \in rows
        PROVE  \E p \in 1..last : {q \in 1..last : i \in TablePage(range, q)} = {p}
    <3> DEFINE n == Newer(range, i)
               p == (n \div PerPage) + 1
    <3>1. n \in Nat /\ n < total
      BY <2>3
    <3>2. n \div PerPage \in Nat /\ (n \div PerPage) * PerPage <= n /\ n < (n \div PerPage) * PerPage + PerPage
      BY <2>2, <3>1, Division
    <3> HIDE DEF n
    <3>3. /\ p \in Nat /\ p >= 1 /\ p - 1 = n \div PerPage
          /\ (p - 1) * PerPage <= n /\ n < p * PerPage
      <4>1. p \in Nat /\ p >= 1 /\ p - 1 = n \div PerPage
        BY <3>2
      <4>2. (p - 1) * PerPage = p * PerPage - PerPage /\ p * PerPage \in Int
        BY <2>2, <4>1, Multiples
      <4> HIDE DEF p
      <4>3. (p - 1) * PerPage <= n /\ n < (p - 1) * PerPage + PerPage
        BY <3>2, <4>1
      <4> QED
        BY <2>2, <3>1, <4>1, <4>2, <4>3
    <3> HIDE DEF p
    <3>4. p \in 1..last
      <4>1. (p - 1) * PerPage < last * PerPage
        <5>1. last * PerPage \in Int /\ (p - 1) * PerPage \in Int
          BY <2>1, <2>2, <3>3
        <5> QED
          BY <2>1, <2>2, <3>1, <3>3, <5>1
      <4>2. p - 1 < last
        BY <2>1, <2>2, <3>3, <4>1, Multiples
      <4> QED
        BY <2>1, <3>3, <4>2
    <3>5. i \in TablePage(range, p)
      BY <2>4, <3>3, <3>4 DEF n
    <3>6. ASSUME NEW q \in 1..last, i \in TablePage(range, q) PROVE q = p
      <4>1. (q - 1) * PerPage <= n /\ n < q * PerPage
        BY <2>4, <3>6 DEF n
      <4>2. /\ (q - 1) * PerPage \in Int /\ q * PerPage \in Int
            /\ (p - 1) * PerPage \in Int /\ p * PerPage \in Int
        BY <2>1, <2>2, <3>3
      <4>3. (q - 1) * PerPage < p * PerPage /\ (p - 1) * PerPage < q * PerPage
        BY <3>1, <3>3, <4>1, <4>2
      <4>4. q - 1 < p /\ p - 1 < q
        BY <2>1, <2>2, <3>3, <4>3, Multiples
      <4> QED
        BY <2>1, <3>3, <4>4
    <3> QED
      BY <3>4, <3>5, <3>6
  <2>8. ASSUME rows # {} PROVE TablePage(range, 0) # {} /\ TablePage(range, last + 1) # {}
    <3>1. PICK i \in rows : Newer(range, i) = 0
      BY <2>3, <2>8
    <3>2. i \in TablePage(range, 0)
      BY <2>2, <2>5, <3>1
    <3>3. PICK j \in rows : Newer(range, j) = total - 1
      BY <2>3, <2>8
    <3> DEFINE first == (last - 1) * PerPage
               next == last * PerPage
    <3>4. first \in Int /\ next \in Int /\ first < total /\ total <= next
      BY <2>1, <2>2, <2>8
    <3> HIDE DEF first, next
    <3>5. first <= total - 1 /\ total - 1 < next
      BY <2>2, <3>4
    <3>6. j \in TablePage(range, last + 1)
      BY <2>6, <3>3, <3>5 DEF first, next
    <3> QED
      BY <3>2, <3>6
  <2> QED
    BY <2>7, <2>8 DEF rows, last, Pages
<1>2. ASSUME Inv PROVE PagesShowAll
  <2> SUFFICES ASSUME NEW range \in Answered
               PROVE  LET rows == InRange(range)
                          last == Max({1, (Cardinality(rows) + PerPage - 1) \div PerPage})
                      IN  /\ \A i \in rows : \E p \in 1..last : {q \in 1..last : i \in TablePage(range, q)} = {p}
                          /\ rows # {} => \A p \in {0, last + 1} : TablePage(range, p) # {}
    BY Zenon DEF PagesShowAll
  <2> QED
    BY <1>1, <1>2
<1> QED
  BY <1>2, InvHolds, PTL

-----------------------------------------------------------------------------
(* Silences and outages *)

\* The numbers of an interval, smallest first.
LEMMA AscendingInterval ==
  ASSUME NEW a \in Int, NEW b \in Int, NEW n \in Nat, n = IF a > b THEN 0 ELSE b - a + 1
  PROVE  Cardinality(a..b) = n /\ Ascending(a..b) = [m \in 1..n |-> a + m - 1]
<1>1. Cardinality(a..b) = n
  BY FS_Interval
<1>2. ASSUME NEW i \in a..b PROVE Cardinality({j \in a..b : j < i}) = i - a
  <2>1. {j \in a..b : j < i} = a..(i - 1)
    OBVIOUS
  <2>2. Cardinality(a..(i - 1)) = IF a > i - 1 THEN 0 ELSE (i - 1) - a + 1
    BY FS_Interval
  <2>3. Cardinality({j \in a..b : j < i}) = Cardinality(a..(i - 1))
    BY <2>1
  <2>4. (IF a > i - 1 THEN 0 ELSE (i - 1) - a + 1) = i - a
    OBVIOUS
  <2> QED
    BY <2>2, <2>3, <2>4
<1>3. ASSUME NEW m \in 1..n
      PROVE  (CHOOSE i \in a..b : Cardinality({j \in a..b : j < i}) = m - 1) = a + m - 1
  <2>1. a + m - 1 \in a..b /\ (a + m - 1) - a = m - 1
    OBVIOUS
  <2>2. Cardinality({j \in a..b : j < a + m - 1}) = m - 1
    BY <1>2, <2>1
  <2>3. \A i \in a..b : Cardinality({j \in a..b : j < i}) = m - 1 => i = a + m - 1
    BY <1>2
  <2> QED
    BY <2>1, <2>2, <2>3
<1> QED
  BY <1>1, <1>3 DEF Ascending

\* The rows of a range are next to each other.
LEMMA RowsAreARun ==
  ASSUME Inv, NEW range \in Answered
  PROVE  \E a \in Nat, b \in Nat : a <= b + 1 /\ InRange(range) = a..b
<1> DEFINE rows == InRange(range)
<1>1. rows \in SUBSET (1..Len(samples)) /\ Len(samples) \in Nat /\ DOMAIN samples = 1..Len(samples)
  BY RowsOfRange DEF Inv, Types
<1>2. CASE rows = {}
  <2>1. rows = 1..0
    BY <1>2
  <2> QED
    BY <2>1
<1>3. CASE rows # {}
  <2>1. rows \in SUBSET Nat /\ \A x \in rows : x <= Len(samples)
    BY <1>1
  <2>2. PICK a \in rows : \A x \in rows : a <= x
    BY <1>3, <2>1, SmallestIsThere
  <2>3. PICK b \in rows : \A x \in rows : x <= b
    BY <1>1, <1>3, <2>1, MaxIsThere
  <2>4. ASSUME NEW i \in a..b PROVE i \in rows
    <3>1. i \in DOMAIN samples /\ a \in DOMAIN samples /\ b \in DOMAIN samples /\ a <= i /\ i <= b
      BY <1>1, <2>1, <2>2, <2>3
    <3>2. samples[a].at <= samples[i].at /\ samples[i].at <= samples[b].at
      BY <3>1 DEF Inv, Arrived
    <3>3. /\ samples[a].at \in Int /\ samples[b].at \in Int /\ samples[i].at \in Int
          /\ range.from \in Int /\ range.to \in Int
      BY <3>1, Times, RangeTypes
    <3> QED
      BY <2>2, <2>3, <3>1, <3>2, <3>3 DEF InRange
  <2> HIDE DEF rows
  <2>5. rows = a..b
    <3>1. \A x \in rows : x \in Nat /\ a <= x /\ x <= b /\ x \in a..b
      BY <2>1, <2>2, <2>3
    <3> QED
      BY <2>4, <3>1, Zenon
  <2>6. a \in Nat /\ b \in Nat /\ a <= b + 1
    BY <2>1, <2>2, <2>3
  <2> QED
    BY <2>5, <2>6 DEF rows
<1> QED
  BY <1>2, <1>3

\* The number of steps between the rows from a to b, how long they are, and those that
\* are an outage.
Between(a, b) == IF b <= a THEN 0 ELSE b - a

Steps(a, b) == [m \in 1..Between(a, b) |-> samples[a + m].at - samples[a + m - 1].at]

Longer(a, b) == {i \in a..(b - 1) : 2 * (samples[i + 1].at - samples[i].at) >= Outage2(Steps(a, b))}

Span(i) == [from |-> samples[i].at, to |-> samples[i + 1].at]

LEMMA OutagesOfRun ==
  ASSUME Inv, NEW a \in Nat, NEW b \in Nat
  PROVE  Outages(a..b) = IF Between(a, b) < GapMinSamples THEN {} ELSE Longer(a, b)
<1> DEFINE d == Between(a, b)
           gaps == {i \in a..b : i + 1 \in a..b}
           Gap(i) == samples[i + 1].at - samples[i].at
           deltas == [n \in 1..Cardinality(gaps) |-> Gap(Ascending(gaps)[n])]
<1>1. gaps = a..(b - 1)
  OBVIOUS
<1>2. d \in Nat /\ d = IF a > b - 1 THEN 0 ELSE (b - 1) - a + 1
  BY DEF Between
<1>3. Cardinality(gaps) = d /\ Ascending(gaps) = [m \in 1..d |-> a + m - 1]
  <2>1. a \in Int /\ b - 1 \in Int
    OBVIOUS
  <2> HIDE DEF d
  <2>2. Cardinality(a..(b - 1)) = d /\ Ascending(a..(b - 1)) = [m \in 1..d |-> a + m - 1]
    BY <1>2, <2>1, AscendingInterval
  <2> HIDE DEF gaps
  <2> QED
    BY <1>1, <2>2
<1>4. Outages(a..b) = IF Cardinality(gaps) < GapMinSamples THEN {} ELSE {i \in gaps : 2 * Gap(i) >= Outage2(deltas)}
  BY DEF Outages
<1>5. deltas = Steps(a, b)
  <2>1. deltas = [m \in 1..d |-> Gap(Ascending(gaps)[m])]
    BY <1>3
  <2>2. \A m \in 1..d : Gap(Ascending(gaps)[m]) = samples[a + m].at - samples[a + m - 1].at
    <3> SUFFICES ASSUME NEW m \in 1..d
                 PROVE  Gap(Ascending(gaps)[m]) = samples[a + m].at - samples[a + m - 1].at
      OBVIOUS
    <3>1. Ascending(gaps)[m] = a + m - 1 /\ (a + m - 1) + 1 = a + m
      BY <1>3
    <3> HIDE DEF gaps
    <3> QED
      BY <3>1
  <2> QED
    BY <2>1, <2>2 DEF Steps
<1>6. {i \in gaps : 2 * Gap(i) >= Outage2(Steps(a, b))} = Longer(a, b)
  BY <1>1 DEF Longer
<1> HIDE DEF deltas, gaps
<1> QED
  BY <1>3, <1>4, <1>5, <1>6

LEMMA SilencesOfRun ==
  ASSUME Inv, NEW a \in Nat, NEW b \in Nat, a <= b + 1, a..b \subseteq DOMAIN samples, NoTwoTogether(a..b)
  PROVE  silence_spans(a..b) =
           IF Between(a, b) < GapMinSamples THEN {} ELSE {Span(i) : i \in Longer(a, b)}
<1> DEFINE d == Between(a, b)
           n == b - a + 1
           order  == Ascending(a..b)
           stamps == [m \in DOMAIN order |-> samples[order[m]].at]
           later  == {m \in 1..(Len(stamps) - 1) : stamps[m + 1] > stamps[m]}
           steps  == Ascending(later)
           deltas == [m \in DOMAIN steps |-> stamps[steps[m] + 1] - stamps[steps[m]]]
<1>1. silence_spans(a..b) =
        IF Len(stamps) < GapMinSamples \/ Len(deltas) < GapMinSamples THEN {}
        ELSE {[from |-> stamps[m], to |-> stamps[m + 1]] :
                m \in {k \in DOMAIN deltas : 2 * deltas[k] >= Outage2(deltas)}}
  BY DEF silence_spans
<1>2. n \in Nat /\ n = IF a > b THEN 0 ELSE b - a + 1
  OBVIOUS
<1>3. order = [m \in 1..n |-> a + m - 1]
  BY <1>2, AscendingInterval
<1>4. \A i \in a..b : i \in DOMAIN samples /\ samples[i].at \in Nat
  BY Times
<1> HIDE DEF order
<1>5. stamps = [m \in 1..n |-> samples[a + m - 1].at]
  BY <1>3
<1>6. \A m \in 1..n : stamps[m] = samples[a + m - 1].at /\ stamps[m] \in Nat /\ a + m - 1 \in a..b
  <2> SUFFICES ASSUME NEW m \in 1..n
               PROVE  stamps[m] = samples[a + m - 1].at /\ stamps[m] \in Nat /\ a + m - 1 \in a..b
    OBVIOUS
  <2>1. a + m - 1 \in a..b
    BY <1>2
  <2>2. stamps[m] = samples[a + m - 1].at
    <3> HIDE DEF n
    <3> QED
      BY <1>5
  <2> QED
    BY <1>4, <2>1, <2>2
<1> HIDE DEF stamps
<1>7. Len(stamps) = n /\ DOMAIN stamps = 1..n
  <2>1. stamps \in [1..n -> Nat]
    BY <1>5, <1>6
  <2> QED
    BY <1>2, <2>1, SeqDef, LenProperties
<1>0. d \in Nat /\ d = IF b <= a THEN 0 ELSE b - a
  BY DEF Between
<1> HIDE DEF n, d
<1>8. later = 1..(n - 1)
  <2>1. later \subseteq 1..(n - 1)
    BY <1>7
  <2>2. ASSUME NEW m \in 1..(n - 1) PROVE stamps[m + 1] > stamps[m]
    <3>1. m \in 1..n /\ m + 1 \in 1..n /\ a + (m + 1) - 1 = (a + m - 1) + 1
      BY <1>2
    <3>2. /\ stamps[m] = samples[a + m - 1].at /\ stamps[m + 1] = samples[a + (m + 1) - 1].at
          /\ stamps[m] \in Nat /\ stamps[m + 1] \in Nat
          /\ a + m - 1 \in a..b /\ a + (m + 1) - 1 \in a..b
      BY <1>6, <3>1
    <3>3. samples[a + m - 1].at <= samples[a + (m + 1) - 1].at
      BY <1>4, <3>1, <3>2 DEF Inv, Arrived
    <3>4. samples[a + m - 1].at # samples[a + (m + 1) - 1].at
      BY <3>1, <3>2 DEF NoTwoTogether
    <3> QED
      BY <3>2, <3>3, <3>4
  <2> QED
    BY <1>7, <2>1, <2>2
<1>9. d = IF 1 > n - 1 THEN 0 ELSE (n - 1) - 1 + 1
  <2>1. n - 1 = b - a
    BY DEF n
  <2>2. CASE b <= a
    BY <1>0, <2>1, <2>2
  <2>3. CASE ~(b <= a)
    BY <1>0, <2>1, <2>3
  <2> QED
    BY <2>2, <2>3
<1>10. steps = [m \in 1..d |-> 1 + m - 1]
  <2>1. 1 \in Int /\ n - 1 \in Int
    BY <1>2
  <2>2. Ascending(1..(n - 1)) = [m \in 1..d |-> 1 + m - 1]
    BY <1>0, <1>9, <2>1, AscendingInterval
  <2> HIDE DEF later
  <2> QED
    BY <1>8, <2>2
<1> HIDE DEF steps
<1>11. DOMAIN steps = 1..d /\ \A m \in 1..d : steps[m] = m
  BY <1>10
<1>12. \A m \in 1..d : m \in 1..n /\ m + 1 \in 1..n /\ a + (m + 1) - 1 = a + m
  BY <1>2, <1>9
<1>13. \A m \in 1..d : stamps[m] = samples[a + m - 1].at /\ stamps[m + 1] = samples[a + m].at
  BY <1>6, <1>12
<1>14. deltas = Steps(a, b)
  <2>1. deltas = [m \in 1..d |-> stamps[m + 1] - stamps[m]]
    BY <1>11
  <2> QED
    BY <1>13, <2>1 DEF Steps, d
<1>15. Len(deltas) = d /\ DOMAIN deltas = 1..d
  <2>1. \A m \in 1..d : stamps[m + 1] - stamps[m] \in Int
    BY <1>6, <1>12
  <2>2. deltas \in [1..d -> Int]
    BY <1>11, <2>1
  <2> HIDE DEF deltas
  <2> QED
    BY <1>0, <2>2, SeqDef, LenProperties
<1>16. \A m \in 1..d : deltas[m] = samples[a + m].at - samples[a + m - 1].at
  BY <1>11, <1>13
<1> HIDE DEF deltas
<1>17. (n < GapMinSamples \/ d < GapMinSamples) <=> d < GapMinSamples
  BY <1>0, <1>2, <1>9, Limits
<1> DEFINE long == {k \in 1..d : 2 * deltas[k] >= Outage2(Steps(a, b))}
           spans == {[from |-> stamps[m], to |-> stamps[m + 1]] : m \in long}
<1>18. silence_spans(a..b) = IF d < GapMinSamples THEN {} ELSE spans
  BY <1>1, <1>7, <1>14, <1>15, <1>17
<1>19. ASSUME NEW m \in long
       PROVE  /\ a + m - 1 \in Longer(a, b)
              /\ [from |-> stamps[m], to |-> stamps[m + 1]] = Span(a + m - 1)
  <2>1. a + m - 1 \in a..(b - 1) /\ (a + m - 1) + 1 = a + m
    BY <1>0
  <2> QED
    BY <1>13, <1>16, <2>1 DEF Longer, Span
<1>20. ASSUME NEW i \in Longer(a, b)
       PROVE  /\ i - a + 1 \in long
              /\ [from |-> stamps[i - a + 1], to |-> stamps[(i - a + 1) + 1]] = Span(i)
  <2>1. i \in a..(b - 1) /\ 2 * (samples[i + 1].at - samples[i].at) >= Outage2(Steps(a, b))
    BY DEF Longer
  <2>2. i - a + 1 \in 1..d /\ a + (i - a + 1) = i + 1 /\ a + (i - a + 1) - 1 = i
    BY <1>0, <2>1
  <2> QED
    BY <1>13, <1>16, <2>1, <2>2 DEF Span
<1> HIDE DEF long
<1>21. spans = {Span(i) : i \in Longer(a, b)}
  BY <1>19, <1>20
<1> QED
  BY <1>18, <1>21 DEF d

\* silence_spans finds the outages of a range, if no two of its rows came together.
LEMMA SilencesAreOutages ==
  ASSUME Inv, NEW range \in Answered, NoTwoTogether(InRange(range))
  PROVE  /\ silence_spans(InRange(range)) = {Span(o) : o \in Outages(InRange(range))}
         /\ \A o \in Outages(InRange(range)) : o \in InRange(range) /\ o + 1 \in InRange(range)
<1>1. PICK a \in Nat, b \in Nat : a <= b + 1 /\ InRange(range) = a..b
  BY RowsAreARun
<1>2. a..b \subseteq DOMAIN samples
  BY <1>1 DEF InRange
<1>3. silence_spans(a..b) = IF Between(a, b) < GapMinSamples THEN {} ELSE {Span(i) : i \in Longer(a, b)}
  BY <1>1, <1>2, SilencesOfRun
<1>4. Outages(a..b) = IF Between(a, b) < GapMinSamples THEN {} ELSE Longer(a, b)
  BY OutagesOfRun
<1>5. silence_spans(a..b) = {Span(o) : o \in Outages(a..b)}
  BY <1>3, <1>4
<1>6. \A o \in Outages(a..b) : o \in a..b /\ o + 1 \in a..b
  BY <1>4 DEF Longer
<1> QED
  BY <1>1, <1>5, <1>6

-----------------------------------------------------------------------------
(* The line of a chart *)

LEMMA SlotOf ==
  ASSUME NEW t \in Nat, NEW r \in Nat \ {0}
  PROVE  /\ Slot(t, r) \in Int /\ Slot(t, r) <= t /\ t < Slot(t, r) + r
         /\ Slot(t, r) = (t \div r) * r
<1>1. t % r \in 0..(r - 1)
  OBVIOUS
<1>2. t = (t \div r) * r + (t % r)
  OBVIOUS
<1>3. (t \div r) * r \in Int
  BY Division
<1> QED
  BY <1>1, <1>2, <1>3 DEF Slot

LEMMA SlotsAscend ==
  ASSUME NEW t \in Nat, NEW u \in Nat, t <= u, NEW r \in Nat \ {0}
  PROVE  Slot(t, r) <= Slot(u, r)
<1>1. PICK a \in Nat : Slot(t, r) = a * r
  BY SlotOf, Division
<1>2. PICK c \in Nat : Slot(u, r) = c * r
  BY SlotOf, Division
<1> SUFFICES ASSUME ~(Slot(t, r) <= Slot(u, r)) PROVE FALSE
  OBVIOUS
<1>3. Slot(t, r) \in Int /\ Slot(u, r) \in Int /\ Slot(t, r) <= t /\ u < Slot(u, r) + r
  BY SlotOf
<1>4. c < a
  BY <1>1, <1>2, <1>3, Multiples
<1>5. c * r <= (a - 1) * r /\ (a - 1) * r = a * r - r
  BY <1>4, Multiples
<1> QED
  BY <1>1, <1>2, <1>3, <1>5

LEMMA BucketSeconds ==
  ASSUME NEW range
  PROVE  bucket_seconds(range) \in Nat \ {0}
<1> DEFINE wide == {n \in DOMAIN Buckets : range.to - range.from <= Buckets[n].span}
           chosen == IF wide = {} THEN Len(Buckets) ELSE Min(wide)
<1>1. Buckets \in Seq([span : Nat, seconds : Nat \ {0}]) /\ Buckets # <<>>
  BY ReadingsAssumption
<1>2. DOMAIN Buckets = 1..Len(Buckets) /\ Len(Buckets) \in Nat \ {0}
  BY <1>1
<1>3. ASSUME wide # {} PROVE Min(wide) \in wide
  <2>1. wide \in SUBSET Nat
    BY <1>2
  <2> HIDE DEF wide
  <2>2. PICK m \in wide : \A x \in wide : m <= x
    BY <1>3, <2>1, SmallestIsThere
  <2> QED
    BY <2>2, Zenon DEF Min
<1>4. chosen \in DOMAIN Buckets
  <2>1. CASE wide = {}
    BY <1>2, <2>1
  <2>2. CASE wide # {}
    <3>1. Min(wide) \in DOMAIN Buckets
      BY <1>3, <2>2
    <3> HIDE DEF wide
    <3> QED
      BY <2>2, <3>1
  <2> QED
    BY <2>1, <2>2
<1>5. bucket_seconds(range) = Buckets[chosen].seconds
  BY DEF bucket_seconds
<1> HIDE DEF chosen
<1>6. Buckets[chosen] \in [span : Nat, seconds : Nat \ {0}]
  <2>1. chosen \in 1..Len(Buckets)
    BY <1>2, <1>4
  <2> QED
    BY <1>1, <2>1, ElementOfSeq
<1> QED
  BY <1>5, <1>6

\* _fill_gaps breaks the line of each name at every outage of the range, wherever the
\* buckets begin, and empties no bucket that no outage touches.
THEOREM OutageBreaksTheLineHolds == Spec => []OutageBreaksTheLine
<1>1. ASSUME Inv, NEW range \in Answered, NoTwoTogether(InRange(range)), NEW w \in series_for_range(range)
      PROVE  LET rows  == InRange(range)
                 chart == Chart(range)
                 width == bucket_seconds(range)
                 outages == Outages(rows)
                 Joined(p, q) == p <= q /\ \A slot \in DOMAIN chart : slot <= p \/ q <= slot
             IN  /\ \A o \in outages, p, q \in DOMAIN chart :
                      Joined(p, q) => \A i \in chart[p][w], j \in chart[q][w] : ~(i <= o /\ o < j)
                 /\ \A i \in rows : LET p == Slot(samples[i].at, width) IN
                      w \in Owners(i) /\ i \notin chart[p][w] =>
                        \E o \in outages : p < samples[o + 1].at /\ samples[o].at < p + width
  <2> DEFINE rows  == InRange(range)
             chart == Chart(range)
             width == bucket_seconds(range)
             outages == Outages(rows)
             silences == silence_spans(rows)
             Joined(p, q) == p <= q /\ \A slot \in DOMAIN chart : slot <= p \/ q <= slot
             SlotOfRow(i) == Slot(samples[i].at, width)
  <2>1. width \in Nat \ {0}
    BY BucketSeconds
  <2>2. silences = {Span(o) : o \in outages} /\ \A o \in outages : o \in rows /\ o + 1 \in rows
    BY <1>1, SilencesAreOutages
  <2>3. rows \in SUBSET Nat /\ \A i \in rows : i \in DOMAIN samples /\ samples[i].at \in Nat
    <3>1. rows \in SUBSET (1..Len(samples)) /\ Len(samples) \in Nat
      BY <1>1, RowsOfRange
    <3>2. rows \subseteq DOMAIN samples
      BY DEF InRange
    <3>3. \A i \in DOMAIN samples : samples[i].at \in Nat
      BY <1>1, Times
    <3> HIDE DEF rows
    <3> QED
      BY <3>1, <3>2, <3>3
  <2>4. \A i, j \in rows : i <= j => samples[i].at <= samples[j].at
    BY <1>1, <2>3 DEF Inv, Arrived
  <2>5. DOMAIN chart = {SlotOfRow(i) : i \in rows}
    BY DEF Chart, bucket_rows
  <2>6. ASSUME NEW p \in DOMAIN chart
        PROVE  chart[p][w] = IF Blanked(p, width, silences) THEN {}
                             ELSE {i \in rows : SlotOfRow(i) = p /\ InForce(w, i) /\ Reads(w, i)}
    BY <1>1, <2>6 DEF Chart, bucket_rows
  <2>7. ASSUME NEW o \in outages, NEW p, p = SlotOfRow(o)
        PROVE  Blanked(p, width, silences)
    <3>1. o \in rows /\ o + 1 \in rows /\ o <= o + 1 /\ o # o + 1
      BY <2>2, <2>3
    <3>2. samples[o].at \in Nat /\ samples[o + 1].at \in Nat /\ samples[o].at < samples[o + 1].at
      BY <1>1, <2>3, <2>4, <3>1 DEF NoTwoTogether
    <3>3. p \in Int /\ p <= samples[o].at /\ samples[o].at < p + width
      BY <2>1, <2>7, <3>2, SlotOf
    <3>4. Span(o) \in silences /\ Span(o).from = samples[o].at /\ Span(o).to = samples[o + 1].at
      BY <2>2 DEF Span
    <3>5. p < Span(o).to /\ p + width > Span(o).from
      BY <2>1, <3>2, <3>3, <3>4
    <3> QED
      BY <3>4, <3>5 DEF Blanked
  <2>8. ASSUME NEW p \in Int, Blanked(p, width, silences)
        PROVE  \E o \in outages : p < samples[o + 1].at /\ samples[o].at < p + width
    <3>1. PICK s \in silences : p < s.to /\ p + width > s.from
      BY <2>8 DEF Blanked
    <3>2. PICK o \in outages : s = Span(o)
      BY <2>2
    <3>3. s.from = samples[o].at /\ s.to = samples[o + 1].at
      BY <3>2 DEF Span
    <3>4. samples[o].at \in Nat
      BY <2>2, <2>3
    <3> QED
      BY <2>1, <3>1, <3>3, <3>4
  <2> HIDE DEF chart, rows, width, outages, silences
  <2>9. ASSUME NEW o \in outages, NEW p \in DOMAIN chart, NEW q \in DOMAIN chart, Joined(p, q),
               NEW i \in chart[p][w], NEW j \in chart[q][w], i <= o, o < j
        PROVE  FALSE
    <3>1. /\ ~Blanked(p, width, silences) /\ i \in rows /\ SlotOfRow(i) = p
          /\ ~Blanked(q, width, silences) /\ j \in rows /\ SlotOfRow(j) = q
      BY <2>6, <2>9
    <3>2. o \in rows /\ i <= o /\ o <= j
      <4>1. o \in rows
        BY <2>2
      <4>2. o \in Nat /\ j \in Nat
        BY <2>3, <3>1, <4>1
      <4>3. i <= o /\ o < j
        BY <2>9, Zenon
      <4> QED
        BY <4>1, <4>2, <4>3
    <3>3. samples[i].at <= samples[o].at /\ samples[o].at <= samples[j].at
      BY <2>4, <3>1, <3>2
    <3>4. p <= SlotOfRow(o) /\ SlotOfRow(o) <= q
      BY <2>1, <2>3, <3>1, <3>2, <3>3, SlotsAscend
    <3>5. SlotOfRow(o) \in DOMAIN chart
      BY <2>5, <3>2
    <3>6. SlotOfRow(o) <= p \/ q <= SlotOfRow(o)
      BY <2>9, <3>5
    <3>7. p \in Int /\ q \in Int /\ SlotOfRow(o) \in Int
      BY <2>1, <2>3, <3>1, <3>2, SlotOf
    <3>8. SlotOfRow(o) = p \/ SlotOfRow(o) = q
      BY <3>4, <3>6, <3>7
    <3> QED
      BY <2>7, <3>1, <3>8
  <2>10. ASSUME NEW i \in rows, w \in Owners(i), i \notin chart[SlotOfRow(i)][w]
         PROVE  \E o \in outages : SlotOfRow(i) < samples[o + 1].at /\ samples[o].at < SlotOfRow(i) + width
    <3>1. SlotOfRow(i) \in DOMAIN chart /\ SlotOfRow(i) \in Int
      BY <2>1, <2>3, <2>5, SlotOf
    <3>2. InForce(w, i) /\ Reads(w, i)
      BY <2>10 DEF Owners
    <3>3. Blanked(SlotOfRow(i), width, silences)
      BY <2>6, <2>10, <3>1, <3>2
    <3> QED
      BY <2>8, <3>1, <3>3
  <2> QED
    BY <2>9, <2>10 DEF chart, rows, width, outages
<1>2. Inv => OutageBreaksTheLine
  BY <1>1 DEF OutageBreaksTheLine
<1> QED
  BY <1>2, InvHolds, PTL
=================================================================================
