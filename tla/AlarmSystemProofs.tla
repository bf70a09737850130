--------------------------- MODULE AlarmSystemProofs ---------------------------
(***************************************************************************)
(* Theorems about AlarmSystem for every number of phones, jobs and alarms, *)
(* every delay and timeout and every number of mishaps, with transactions  *)
(* taken one at a time.                                                    *)
(*                                                                         *)
(* The inductive invariant IInv says that the committed database is typed, *)
(* has at most one job in flight, stays within the limit of the queue, and *)
(* has nothing queued that speaks for a silenced alarm.  What makes it     *)
(* inductive is that each transaction only Reaches databases of that kind, *)
(* and that losing a transaction keeps the old rows.                       *)
(*                                                                         *)
(* A second invariant, Whole, rests on it: ids beyond the last are unused, *)
(* every later call of a cascade has the call before it answered or timed  *)
(* out at a smaller id, the rule has one open alarm at most, and each open *)
(* alarm has a repetition scheduled or, while nobody has confirmed it, a   *)
(* call that works for it.                                                 *)
(*                                                                         *)
(* First come the operators of ModemJobs: the types, Good (IInv of one     *)
(* database value), the order of the cascade (Ordered) and the pursuit of  *)
(* an alarm (Pursued). Then those of Alarms, and the actions.              *)
(***************************************************************************)
EXTENDS AlarmSystem, WellFoundedInduction, FiniteSetTheorems, TLAPS

\* The least element of a set of job ids is in it.
LEMMA MinOfJobs ==
  ASSUME NEW S \in SUBSET JobIds, S # {}
  PROVE  /\ Min(S) \in S
         /\ \A j \in S : Min(S) <= j
<1> DEFINE R == {p \in Nat \X Nat : p[1] < p[2]}
<1>1. S \subseteq Nat
  BY ModemJobsAssumption DEF JobIds
<1>2. IsWellFoundedOn(R, Nat)
  BY NatLessThanWellFounded DEF OpToRel
<1>3. PICK m \in S : \A j \in S : <<j, m>> \notin R
  <2> HIDE DEF R
  <2> QED
    BY <1>1, <1>2, WFMin, Zenon
<1>4. ASSUME NEW j \in S PROVE m <= j
  <2>1. j \in Nat /\ m \in Nat /\ ~ (<<j, m>> \in R)
    BY <1>1, <1>3
  <2>2. ~ (j < m)
    BY <2>1
  <2> QED
    BY <2>1, <2>2
<1> QED
  BY <1>4 DEF Min

-----------------------------------------------------------------------------
(* The job queue: types *)

\* Replacing the job rows of a database by well-typed rows.
LEMMA SetJobs ==
  ASSUME NEW d \in Databases, NEW J \in [JobIds -> Jobs]
  PROVE  /\ [d EXCEPT !.jobs = J] \in Databases
         /\ [d EXCEPT !.jobs = J].jobs = J
         /\ [d EXCEPT !.jobs = J].last = d.last
         /\ [d EXCEPT !.jobs = J].events = d.events
         /\ [d EXCEPT !.jobs = J].lastEvent = d.lastEvent
BY DEF Databases

\* Replacing the alarm rows of a database by well-typed rows.
LEMMA SetEvents ==
  ASSUME NEW d \in Databases, NEW E \in [EventIds -> Events]
  PROVE  /\ [d EXCEPT !.events = E] \in Databases
         /\ [d EXCEPT !.events = E].events = E
         /\ [d EXCEPT !.events = E].last = d.last
         /\ [d EXCEPT !.events = E].jobs = d.jobs
         /\ [d EXCEPT !.events = E].lastEvent = d.lastEvent
BY DEF Databases

\* What FinishAll does to the rows.
LEMMA FinishAllType ==
  ASSUME NEW d \in Databases, NEW S, NEW status \in Statuses
  PROVE  LET x == FinishAll(d, S, status) IN
         /\ x \in Databases
         /\ x.last = d.last /\ x.events = d.events /\ x.lastEvent = d.lastEvent
         /\ \A j \in JobIds : j \notin S => x.jobs[j] = d.jobs[j]
         /\ \A j \in S \cap JobIds : x.jobs[j].status = status /\ x.jobs[j].age = 0
         /\ \A j \in JobIds : /\ x.jobs[j].event = d.jobs[j].event
                              /\ x.jobs[j].notice = d.jobs[j].notice
                              /\ x.jobs[j].cmd = d.jobs[j].cmd
                              /\ x.jobs[j].phone = d.jobs[j].phone
<1> DEFINE J == [j \in JobIds |->
      IF j \in S THEN [d.jobs[j] EXCEPT !.status = status, !.wait = 0, !.age = 0]
                 ELSE d.jobs[j]]
<1>1. d.jobs \in [JobIds -> Jobs]
  BY DEF Databases
<1>2. \A j \in JobIds :
        [d.jobs[j] EXCEPT !.status = status, !.wait = 0, !.age = 0] \in Jobs
  BY <1>1 DEF Jobs
<1>3. J \in [JobIds -> Jobs]
  BY <1>1, <1>2
<1>4. FinishAll(d, S, status) = [d EXCEPT !.jobs = J]
  BY DEF FinishAll
<1>5. \A j \in JobIds :
        /\ J[j].event = d.jobs[j].event
        /\ J[j].notice = d.jobs[j].notice
        /\ J[j].cmd = d.jobs[j].cmd
        /\ J[j].phone = d.jobs[j].phone
        /\ j \in S => J[j].status = status /\ J[j].age = 0
        /\ j \notin S => J[j] = d.jobs[j]
  BY <1>1 DEF Jobs
<1> HIDE DEF J
<1> QED
  BY <1>3, <1>4, <1>5, SetJobs

-----------------------------------------------------------------------------
(* The job queue: the invariants of one database value *)

OneSent(d) == \A i, j \in Sent(d) : i = j

\* Job j may wait in the queue: its alarm, if it speaks for one, is not silenced.
MayWait(d, job) == job.event # NoEvent /\ ~job.notice => ~Silenced(d, job.event)

Quiet(d) == \A j \in Queued(d) : MayWait(d, d.jobs[j])

Limited(d) == Cardinality(Active(d)) <= MaxQueuedJobs

Good(d) == d \in Databases /\ OneSent(d) /\ Quiet(d) /\ Limited(d)

Final == {"done", "failed", "cancelled"}

\* The active jobs of a database are finitely many.
LEMMA ActiveFinite ==
  ASSUME NEW d
  PROVE  IsFiniteSet(Active(d)) /\ Cardinality(Active(d)) \in Nat
<1>1. IsFiniteSet(JobIds)
  BY FS_Interval, ModemJobsAssumption DEF JobIds
<1>2. Active(d) \in SUBSET JobIds
  BY DEF Active, Queued, Sent, InStatus
<1> QED
  BY <1>1, <1>2, FS_Subset, FS_CardinalityType

\* With no more active jobs than before the limit still holds.
LEMMA LimitedMono ==
  ASSUME NEW d, NEW x, Limited(d), Active(x) \subseteq Active(d)
  PROVE  Limited(x)
<1>1. Cardinality(Active(x)) <= Cardinality(Active(d))
  BY ActiveFinite, FS_Subset
<1> QED
  BY <1>1, ActiveFinite, ModemJobsAssumption DEF Limited

\* With no more queued jobs, the same contents and no newly silenced alarm, the
\* queue stays quiet.
LEMMA QuietMono ==
  ASSUME NEW d \in Databases, NEW x \in Databases, Quiet(d),
         Queued(x) \subseteq Queued(d),
         \A j \in JobIds : /\ x.jobs[j].event = d.jobs[j].event
                            /\ x.jobs[j].notice = d.jobs[j].notice,
         \A e \in EventIds : Silenced(x, e) => Silenced(d, e)
  PROVE  Quiet(x)
<1> SUFFICES ASSUME NEW j \in Queued(x),
                    x.jobs[j].event # NoEvent, ~x.jobs[j].notice
             PROVE  ~Silenced(x, x.jobs[j].event)
  BY DEF Quiet, MayWait
<1>1. j \in JobIds /\ j \in Queued(d)
  BY DEF Queued, InStatus
<1>2. d.jobs[j].event \in EventIds
  BY <1>1 DEF Databases, Jobs
<1>3. ~Silenced(d, d.jobs[j].event)
  BY <1>1, <1>2 DEF Quiet, MayWait
<1> QED
  BY <1>1, <1>2, <1>3

\* Finishing jobs keeps the invariants and takes them out of the queue.
LEMMA FinishAllGood ==
  ASSUME NEW d, Good(d), NEW S, NEW status \in Final
  PROVE  LET x == FinishAll(d, S, status) IN
         /\ Good(x)
         /\ Queued(x) = Queued(d) \ S /\ Sent(x) = Sent(d) \ S
         /\ x.last = d.last /\ x.events = d.events /\ x.lastEvent = d.lastEvent
         /\ \A j \in JobIds : /\ x.jobs[j].event = d.jobs[j].event
                              /\ x.jobs[j].notice = d.jobs[j].notice
                              /\ x.jobs[j].cmd = d.jobs[j].cmd
<1> DEFINE x == FinishAll(d, S, status)
<1>1. d \in Databases /\ status \in Statuses
  BY DEF Good, Final, Statuses
<1>2. /\ x \in Databases
      /\ x.last = d.last /\ x.events = d.events /\ x.lastEvent = d.lastEvent
      /\ \A j \in JobIds : j \notin S => x.jobs[j] = d.jobs[j]
      /\ \A j \in S \cap JobIds : x.jobs[j].status = status
      /\ \A j \in JobIds : /\ x.jobs[j].event = d.jobs[j].event
                           /\ x.jobs[j].notice = d.jobs[j].notice
                           /\ x.jobs[j].cmd = d.jobs[j].cmd
  BY <1>1, FinishAllType
<1> HIDE DEF x
<1>3. Queued(x) = Queued(d) \ S /\ Sent(x) = Sent(d) \ S
  BY <1>2 DEF Queued, Sent, InStatus, Final
<1>4. OneSent(x)
  BY <1>3 DEF Good, OneSent
<1>5. Quiet(x)
  <2>1. \A e \in EventIds : Silenced(x, e) => Silenced(d, e)
    BY <1>2 DEF Silenced
  <2> QED
    BY <1>1, <1>2, <1>3, <2>1, QuietMono DEF Good
<1>6. Limited(x)
  BY <1>3, LimitedMono DEF Good, Active
<1> QED
  BY <1>2, <1>3, <1>4, <1>5, <1>6 DEF Good, x

\* Scheduling the repetition touches nothing but rearm_at.
LEMMA ScheduleAlarmRearmGood ==
  ASSUME NEW d, Good(d), NEW e \in EventIds
  PROVE  LET x == ScheduleAlarmRearm(d, e) IN
         /\ Good(x)
         /\ x.jobs = d.jobs /\ x.last = d.last /\ x.lastEvent = d.lastEvent
         /\ \A f \in EventIds : /\ x.events[f].acked = d.events[f].acked
                               /\ x.events[f].state = d.events[f].state
                               /\ x.events[f].kind = d.events[f].kind
<1> DEFINE x == ScheduleAlarmRearm(d, e)
           E == [d.events EXCEPT ![e].rearm = HysteresisOf(d, e)]
<1>1. d \in Databases /\ d.events \in [EventIds -> Events]
  BY DEF Good, Databases
<1>2. HysteresisOf(d, e) \in Nat
  BY ModemJobsAssumption DEF HysteresisOf
<1>3. E \in [EventIds -> Events]
  BY <1>1, <1>2 DEF Events
<1>4. x = d \/ x = [d EXCEPT !.events = E]
  BY DEF ScheduleAlarmRearm
<1>5. /\ x \in Databases
      /\ x.jobs = d.jobs /\ x.last = d.last /\ x.lastEvent = d.lastEvent
      /\ x.events = d.events \/ x.events = E
  <2> HIDE DEF E, x
  <2>1. LET y == [d EXCEPT !.events = E] IN
        /\ y \in Databases /\ y.events = E
        /\ y.jobs = d.jobs /\ y.last = d.last /\ y.lastEvent = d.lastEvent
    BY <1>1, <1>3, SetEvents
  <2> QED
    BY <1>1, <1>4, <2>1
<1>6. \A f \in EventIds : /\ x.events[f].acked = d.events[f].acked
                         /\ x.events[f].state = d.events[f].state
                         /\ x.events[f].kind = d.events[f].kind
  <2>1. \A f \in EventIds : /\ E[f].acked = d.events[f].acked
                           /\ E[f].state = d.events[f].state
                           /\ E[f].kind = d.events[f].kind
    BY <1>1 DEF Events
  <2> HIDE DEF E, x
  <2> QED
    BY <1>5, <2>1
<1> HIDE DEF x, E
<1>7. Queued(x) = Queued(d) /\ Sent(x) = Sent(d) /\ Active(x) = Active(d)
  BY <1>5 DEF Queued, Sent, Active, InStatus
<1>8. Quiet(x)
  <2>1. \A f \in EventIds : Silenced(x, f) => Silenced(d, f)
    BY <1>6 DEF Silenced
  <2> QED
    BY <1>1, <1>5, <1>7, <2>1, QuietMono DEF Good
<1> QED
  BY <1>5, <1>6, <1>7, <1>8 DEF Good, OneSent, Limited, x

\* Every new job is typed, silent about silenced alarms and within the limit.
LEMMA EnqueueModemJobsGood ==
  ASSUME NEW d, Good(d), NEW n \in Nat, NEW job \in Jobs, MayWait(d, job)
  PROVE  LET x == EnqueueModemJobs(d, n, job) IN
         /\ Good(x)
         /\ Sent(x) \subseteq Sent(d)
         /\ \A j \in Sent(x) : x.jobs[j] = d.jobs[j]
         /\ x.events = d.events /\ x.last = d.last + n /\ x.lastEvent = d.lastEvent
         /\ Active(x) \subseteq Active(d) \cup (d.last + 1 .. x.last)
<1> DEFINE x == EnqueueModemJobs(d, n, job)
           a == Cardinality(Active(d))
           new == d.last + 1 .. d.last + n
           J == [j \in JobIds |->
             IF j \notin new THEN d.jobs[j]
             ELSE IF a + (j - d.last) <= MaxQueuedJobs
                    THEN [job EXCEPT !.status = "queued"]
                    ELSE [job EXCEPT !.status = "failed", !.wait = 0]]
<1>1. d \in Databases /\ d.jobs \in [JobIds -> Jobs] /\ d.last \in Nat
  BY DEF Good, Databases
<1>2. /\ [job EXCEPT !.status = "queued"] \in Jobs
      /\ [job EXCEPT !.status = "failed", !.wait = 0] \in Jobs
  BY DEF Jobs, Statuses
<1>3. J \in [JobIds -> Jobs]
  <2> HIDE DEF new, a
  <2> QED
    BY <1>1, <1>2
<1>4. x = [d EXCEPT !.last = d.last + n, !.jobs = J]
  BY DEF EnqueueModemJobs
<1>5. /\ x \in Databases /\ x.jobs = J /\ x.last = d.last + n
      /\ x.events = d.events /\ x.lastEvent = d.lastEvent
  <2> DEFINE m == d.last + n
  <2>1. m \in Nat
    BY <1>1
  <2>2. x = [d EXCEPT !.last = m, !.jobs = J]
    BY <1>4
  <2> HIDE DEF J, x, m
  <2>3. /\ x \in Databases /\ x.jobs = J /\ x.last = m
        /\ x.events = d.events /\ x.lastEvent = d.lastEvent
    BY <1>1, <1>3, <2>1, <2>2 DEF Databases
  <2> QED
    BY <2>3 DEF m
<1>6. \A j \in JobIds :
        \/ x.jobs[j] = d.jobs[j]
        \/ /\ x.jobs[j].event = job.event /\ x.jobs[j].notice = job.notice
           /\ \/ x.jobs[j].status = "failed"
              \/ /\ x.jobs[j].status = "queued"
                 /\ j \in d.last + 1 .. d.last + (MaxQueuedJobs - a)
                 /\ j \in d.last + 1 .. d.last + n
  <2> SUFFICES ASSUME NEW j \in JobIds, J[j] # d.jobs[j]
               PROVE  /\ J[j].event = job.event /\ J[j].notice = job.notice
                      /\ \/ J[j].status = "failed"
                         \/ /\ J[j].status = "queued"
                            /\ j \in d.last + 1 .. d.last + (MaxQueuedJobs - a)
                            /\ j \in d.last + 1 .. d.last + n
    <3> HIDE DEF J, x
    <3> QED
      BY <1>5
  <2>1. j \in Nat /\ j \in new
    BY ModemJobsAssumption DEF JobIds
  <2>2. a \in Nat
    BY ActiveFinite
  <2>3. CASE a + (j - d.last) <= MaxQueuedJobs
    <3>1. J[j] = [job EXCEPT !.status = "queued"]
      BY <2>1, <2>3
    <3>2. j \in d.last + 1 .. d.last + (MaxQueuedJobs - a)
      <4> HIDE DEF a
      <4> QED
        BY <1>1, <2>1, <2>2, <2>3, ModemJobsAssumption
    <3> QED
      BY <2>1, <3>1, <3>2 DEF Jobs
  <2>4. CASE ~(a + (j - d.last) <= MaxQueuedJobs)
    <3>1. J[j] = [job EXCEPT !.status = "failed", !.wait = 0]
      BY <2>1, <2>4
    <3> QED
      BY <3>1 DEF Jobs
  <2> QED
    BY <2>3, <2>4
<1> HIDE DEF x, J, new
<1>7. Sent(x) \subseteq Sent(d) /\ \A j \in Sent(x) : x.jobs[j] = d.jobs[j]
  BY <1>6 DEF Sent, InStatus
<1>8. OneSent(x)
  BY <1>7 DEF Good, OneSent
<1>9. Quiet(x)
  <2> SUFFICES ASSUME NEW j \in Queued(x) PROVE MayWait(x, x.jobs[j])
    BY DEF Quiet
  <2>1. \A e : Silenced(x, e) <=> Silenced(d, e)
    BY <1>5 DEF Silenced
  <2>2. CASE x.jobs[j] = d.jobs[j]
    BY <2>1, <2>2 DEF Good, Quiet, MayWait, Queued, InStatus
  <2>3. CASE x.jobs[j].event = job.event /\ x.jobs[j].notice = job.notice
    BY <2>1, <2>3 DEF MayWait
  <2> QED
    BY <1>6, <2>2, <2>3 DEF Queued, InStatus
<1>10. Limited(x)
  <2> DEFINE room == d.last + 1 .. d.last + (MaxQueuedJobs - a)
  <2>1. Active(x) \subseteq Active(d) \cup room
    BY <1>6 DEF Active, Queued, Sent, InStatus
  <2>2. a \in Nat /\ a <= MaxQueuedJobs /\ MaxQueuedJobs \in Nat
    BY ActiveFinite, ModemJobsAssumption DEF Good, Limited
  <2> HIDE DEF a
  <2>3. IsFiniteSet(room) /\ Cardinality(room) = MaxQueuedJobs - a
    <3> DEFINE lo == d.last + 1
               hi == d.last + (MaxQueuedJobs - a)
    <3>2. lo \in Int /\ hi \in Int /\ hi - lo + 1 = MaxQueuedJobs - a
      BY <1>1, <2>2
    <3>3. lo > hi => MaxQueuedJobs - a = 0
      BY <1>1, <2>2
    <3> HIDE DEF lo, hi
    <3>4. /\ IsFiniteSet(lo..hi)
          /\ Cardinality(lo..hi) = IF lo > hi THEN 0 ELSE hi - lo + 1
      BY <3>2, FS_Interval
    <3>5. Cardinality(lo..hi) = MaxQueuedJobs - a
      BY <3>2, <3>3, <3>4
    <3> QED
      BY <3>4, <3>5 DEF lo, hi
  <2> HIDE DEF room
  <2>4. /\ IsFiniteSet(Active(d) \cup room)
        /\ Cardinality(Active(d) \cup room)
             = a + (MaxQueuedJobs - a) - Cardinality(Active(d) \cap room)
    BY <2>3, ActiveFinite, FS_Union DEF a
  <2>5. Cardinality(Active(d) \cap room) \in Nat
    BY ActiveFinite, FS_Subset, FS_CardinalityType
  <2>6. Cardinality(Active(x)) <= Cardinality(Active(d) \cup room)
    BY <2>1, <2>4, FS_Subset
  <2> QED
    BY <2>2, <2>4, <2>5, <2>6, ActiveFinite DEF Limited
<1>11. Active(x) \subseteq Active(d) \cup (d.last + 1 .. x.last)
  BY <1>5, <1>6 DEF Active, Queued, Sent, InStatus
<1> QED
  BY <1>5, <1>7, <1>8, <1>9, <1>10, <1>11 DEF Good, x

\* Job j is as much in flight in x as it was in d.
StillSent(d, x, j) ==
  /\ j \in Sent(d)
  /\ x.jobs[j].event = d.jobs[j].event /\ x.jobs[j].notice = d.jobs[j].notice

\* The active jobs of x are jobs that were active in d and new ones.
Grows(d, x) ==
  /\ d.last <= x.last
  /\ Active(x) \subseteq Active(d) \cup (d.last + 1 .. x.last)

\* How the queue's operators lead from one good database to another: no alarm is
\* raised or silenced, and a job that went out speaks for no silenced alarm.
Follows(d, x) ==
  /\ Good(x)
  /\ Grows(d, x)
  /\ x.lastEvent = d.lastEvent
  /\ \A e \in EventIds : Silenced(x, e) <=> Silenced(d, e)
  /\ \A j \in Sent(x) : StillSent(d, x, j) \/ MayWait(x, x.jobs[j])

LEMMA GrowsTransitive ==
  ASSUME NEW d, NEW x, NEW y, Good(d), Good(x), Good(y), Grows(d, x), Grows(x, y)
  PROVE  Grows(d, y)
<1>1. d.last \in Nat /\ x.last \in Nat /\ y.last \in Nat
  BY DEF Good, Databases
<1>2. d.last <= x.last /\ x.last <= y.last /\ d.last <= y.last
  BY <1>1 DEF Grows
<1>3. \A j : j \in d.last + 1 .. x.last \/ j \in x.last + 1 .. y.last
               => j \in d.last + 1 .. y.last
  BY <1>1, <1>2
<1> QED
  BY <1>2, <1>3 DEF Grows

\* Rows that only lose their place in the queue.
LEMMA GrowsByNothing ==
  ASSUME NEW d, NEW x, Good(d), x.last = d.last, Active(x) \subseteq Active(d)
  PROVE  Grows(d, x)
<1>1. d.last \in Nat
  BY DEF Good, Databases
<1> QED
  BY <1>1 DEF Grows

LEMMA FollowsTransitive ==
  ASSUME NEW d, NEW x, NEW y, Good(d), Follows(d, x), Follows(x, y)
  PROVE  Follows(d, y)
<1>0. Grows(d, y)
  <2>1. Good(d) /\ Good(x) /\ Good(y)
    BY DEF Follows
  <2> QED
    BY <2>1, GrowsTransitive DEF Follows
<1> SUFFICES ASSUME NEW j \in Sent(y), ~MayWait(y, y.jobs[j])
             PROVE  StillSent(d, y, j)
  BY <1>0 DEF Follows
<1>1. StillSent(x, y, j)
  BY DEF Follows
<1>2. x.jobs[j].event \in {NoEvent} \cup EventIds
  BY <1>1 DEF StillSent, Sent, InStatus, Follows, Good, Databases, Jobs
<1>3. ~MayWait(x, x.jobs[j])
  BY <1>1, <1>2 DEF StillSent, MayWait, Follows
<1> QED
  BY <1>1, <1>3 DEF Follows, StillSent, Grows

LEMMA FinishFollows ==
  ASSUME NEW d, Good(d), NEW S, NEW status \in Final
  PROVE  Follows(d, FinishAll(d, S, status))
<1> DEFINE x == FinishAll(d, S, status)
<1>1. /\ Good(x)
      /\ Queued(x) = Queued(d) \ S /\ Sent(x) = Sent(d) \ S
      /\ x.last = d.last /\ x.events = d.events /\ x.lastEvent = d.lastEvent
      /\ \A j \in JobIds : /\ x.jobs[j].event = d.jobs[j].event
                           /\ x.jobs[j].notice = d.jobs[j].notice
  BY FinishAllGood
<1> HIDE DEF x
<1>2. \A e \in EventIds : Silenced(x, e) <=> Silenced(d, e)
  BY <1>1 DEF Silenced
<1>3. \A j \in Sent(x) : StillSent(d, x, j)
  BY <1>1 DEF StillSent, Sent, InStatus
<1>4. Grows(d, x)
  BY <1>1, GrowsByNothing DEF Active
<1> QED
  BY <1>1, <1>2, <1>3, <1>4 DEF Follows, x

\* What a timeout does to the rows.
LEMMA TimeOutType ==
  ASSUME NEW d \in Databases, NEW j \in JobIds
  PROVE  LET x == TimeOut(d, j) IN
         /\ x \in Databases
         /\ x.last = d.last /\ x.events = d.events /\ x.lastEvent = d.lastEvent
         /\ x.jobs[j].status = "failed"
         /\ \A i \in JobIds : i # j => x.jobs[i] = d.jobs[i]
         /\ \A i \in JobIds : /\ x.jobs[i].event = d.jobs[i].event
                              /\ x.jobs[i].notice = d.jobs[i].notice
                              /\ x.jobs[i].cmd = d.jobs[i].cmd
                              /\ x.jobs[i].phone = d.jobs[i].phone
                              /\ x.jobs[i].age = d.jobs[i].age
<1> DEFINE J == [d.jobs EXCEPT ![j].status = "failed"]
<1>1. d.jobs \in [JobIds -> Jobs]
  BY DEF Databases
<1>2. J \in [JobIds -> Jobs]
  BY <1>1 DEF Jobs, Statuses
<1>3. TimeOut(d, j) = [d EXCEPT !.jobs = J]
  BY <1>1 DEF TimeOut, Databases
<1>4. /\ J[j].status = "failed"
      /\ \A i \in JobIds : i # j => J[i] = d.jobs[i]
      /\ \A i \in JobIds : /\ J[i].event = d.jobs[i].event
                           /\ J[i].notice = d.jobs[i].notice
                           /\ J[i].cmd = d.jobs[i].cmd
                           /\ J[i].phone = d.jobs[i].phone
                           /\ J[i].age = d.jobs[i].age
  BY <1>1 DEF Jobs
<1> HIDE DEF J
<1> QED
  BY <1>2, <1>3, <1>4, SetJobs

LEMMA TimeOutFollows ==
  ASSUME NEW d, Good(d), NEW j \in JobIds
  PROVE  Follows(d, TimeOut(d, j))
<1> DEFINE x == TimeOut(d, j)
<1>1. d \in Databases
  BY DEF Good
<1>2. /\ x \in Databases
      /\ x.last = d.last /\ x.events = d.events /\ x.lastEvent = d.lastEvent
      /\ x.jobs[j].status = "failed"
      /\ \A i \in JobIds : i # j => x.jobs[i] = d.jobs[i]
      /\ \A i \in JobIds : /\ x.jobs[i].event = d.jobs[i].event
                           /\ x.jobs[i].notice = d.jobs[i].notice
  BY <1>1, TimeOutType
<1> HIDE DEF x
<1>3. Queued(x) = Queued(d) \ {j} /\ Sent(x) = Sent(d) \ {j}
  BY <1>2 DEF Queued, Sent, InStatus
<1>4. \A e \in EventIds : Silenced(x, e) <=> Silenced(d, e)
  BY <1>2 DEF Silenced
<1>5. Good(x)
  <2>1. Quiet(x)
    BY <1>1, <1>2, <1>3, <1>4, QuietMono DEF Good
  <2>2. Limited(x)
    BY <1>3, LimitedMono DEF Good, Active
  <2> QED
    BY <1>2, <1>3, <2>1, <2>2 DEF Good, OneSent
<1>6. \A i \in Sent(x) : StillSent(d, x, i)
  BY <1>2, <1>3 DEF StillSent, Sent, InStatus
<1>7. Grows(d, x)
  BY <1>2, <1>3, GrowsByNothing DEF Active
<1> QED
  BY <1>2, <1>4, <1>5, <1>6, <1>7 DEF Follows, x

\* Scheduling the repetition of an alarm changes nothing Follows speaks of.
LEMMA ScheduleFollows ==
  ASSUME NEW d, Good(d), NEW e \in EventIds
  PROVE  Follows(d, ScheduleAlarmRearm(d, e))
<1> DEFINE x == ScheduleAlarmRearm(d, e)
<1>1. /\ Good(x)
      /\ x.jobs = d.jobs /\ x.last = d.last /\ x.lastEvent = d.lastEvent
      /\ \A f \in EventIds : /\ x.events[f].acked = d.events[f].acked
                            /\ x.events[f].state = d.events[f].state
  BY ScheduleAlarmRearmGood
<1> HIDE DEF x
<1>2. Grows(d, x)
  BY <1>1, GrowsByNothing DEF Active, Queued, Sent, InStatus
<1> QED
  BY <1>1, <1>2 DEF Follows, StillSent, Silenced, Sent, InStatus, x

LEMMA FollowsReflexive ==
  ASSUME NEW d, Good(d)
  PROVE  Follows(d, d)
BY GrowsByNothing DEF Follows, StillSent

\* The cascade never puts back in the queue what was silenced, and sends nothing.
LEMMA MaybeEscalateFollows ==
  ASSUME NEW d, Good(d), NEW j \in JobIds
  PROVE  Follows(d, MaybeEscalateCall(d, j))
<1> DEFINE job == d.jobs[j]
           x == MaybeEscalateCall(d, j)
<1>1. d \in Databases /\ job \in Jobs
  BY DEF Good, Databases
<1>2. CASE ~MayEscalate(d, job)
  <2>1. x = d
    BY <1>2 DEF MaybeEscalateCall
  <2> QED
    BY <2>1, FollowsReflexive
<1>3. CASE MayEscalate(d, job) /\ (~job.cascade \/ job.phone + 1 >= CallPhones)
  <2>1. x = ScheduleAlarmRearm(d, job.event)
    BY <1>3 DEF MaybeEscalateCall
  <2>2. job.event \in EventIds
    BY <1>3 DEF MayEscalate, IsOpen
  <2> QED
    BY <2>1, <2>2, ScheduleFollows
<1>4. CASE MayEscalate(d, job) /\ ~(~job.cascade \/ job.phone + 1 >= CallPhones)
  <2> DEFINE next == NextCall(d, job)
  <2>1. x = EnqueueModemJobs(d, 1, next)
    BY <1>4 DEF MaybeEscalateCall
  <2>2. next \in Jobs /\ next.event = job.event
    <3>1. DelayOf(d, job.event) \in Nat /\ job.phone + 1 \in Nat
      BY <1>1, ModemJobsAssumption DEF DelayOf, Jobs
    <3> QED
      BY <1>1, <3>1 DEF NextCall, NewJob, Jobs, Commands, Statuses
  <2>3. MayWait(d, next)
    BY <1>4, <2>2 DEF MayEscalate, IsOpen, MayWait, Silenced
  <2> HIDE DEF next, x
  <2>4. /\ Good(x) /\ Sent(x) \subseteq Sent(d)
        /\ \A i \in Sent(x) : x.jobs[i] = d.jobs[i]
        /\ x.events = d.events /\ x.last = d.last + 1 /\ x.lastEvent = d.lastEvent
        /\ Active(x) \subseteq Active(d) \cup (d.last + 1 .. x.last)
    BY <2>1, <2>2, <2>3, EnqueueModemJobsGood
  <2>5. Grows(d, x)
    BY <1>1, <2>4 DEF Grows, Databases
  <2> QED
    BY <2>4, <2>5 DEF Follows, StillSent, Silenced, x
<1> QED
  BY <1>2, <1>3, <1>4

\* A job that ends, however f makes it end, and what follows it.
LEMMA EndOfJobFollows ==
  ASSUME NEW d, Good(d), NEW f, Follows(d, f), NEW j \in JobIds
  PROVE  Follows(d, MaybeEscalateCall(f, j))
<1> DEFINE x == MaybeEscalateCall(f, j)
<1>1. Follows(f, x)
  BY MaybeEscalateFollows DEF Follows
<1> HIDE DEF x
<1>2. Follows(d, x)
  BY <1>1, FollowsTransitive
<1> QED
  BY <1>2 DEF x

LEMMA JobIsDoneFollows ==
  ASSUME NEW d, Good(d), NEW j \in JobIds
  PROVE  Follows(d, JobIsDone(d, j))
<1>1. "done" \in Final
  BY DEF Final
<1> QED
  BY <1>1, FinishFollows, EndOfJobFollows DEF JobIsDone

LEMMA CompleteUnnamedFollows ==
  ASSUME NEW d, Good(d), NEW cmd
  PROVE  Follows(d, CompleteUnnamed(d, cmd))
<1> DEFINE S == {j \in Sent(d) : d.jobs[j].cmd = cmd}
<1>1. CASE S = {}
  BY <1>1, FollowsReflexive DEF CompleteUnnamed
<1>2. CASE S # {}
  <2>1. S \in SUBSET JobIds
    BY DEF Sent, InStatus
  <2> DEFINE m == Min(S)
  <2>2. m \in JobIds
    BY <1>2, <2>1, MinOfJobs
  <2>3. CompleteUnnamed(d, cmd) = JobIsDone(d, m)
    BY <1>2 DEF CompleteUnnamed
  <2> HIDE DEF m
  <2> QED
    BY <2>2, <2>3, JobIsDoneFollows
<1> QED
  BY <1>1, <1>2

LEMMA CompleteModemJobFollows ==
  ASSUME NEW d, Good(d), NEW j \in JobIds
  PROVE  Follows(d, CompleteModemJob(d, j))
<1>1. CASE d.jobs[j].status = "none"
  BY <1>1, CompleteUnnamedFollows DEF CompleteModemJob
<1>2. CASE d.jobs[j].status # "none"
  BY <1>2, JobIsDoneFollows DEF CompleteModemJob
<1> QED
  BY <1>1, <1>2

LEMMA ExpireSentJobFollows ==
  ASSUME NEW d, Good(d)
  PROVE  Follows(d, ExpireSentJob(d))
<1> DEFINE S == {j \in JobIds : Overdue(d.jobs[j])}
<1>1. CASE S = {}
  BY <1>1, FollowsReflexive DEF ExpireSentJob
<1>2. CASE S # {}
  <2> DEFINE m == Min(S)
  <2>1. m \in JobIds
    BY <1>2, MinOfJobs
  <2>2. ExpireSentJob(d) = MaybeEscalateCall(TimeOut(d, m), m)
    BY <1>2 DEF ExpireSentJob
  <2> HIDE DEF m
  <2> QED
    BY <2>1, <2>2, TimeOutFollows, EndOfJobFollows
<1> QED
  BY <1>1, <1>2

\* Sending a queued job while none is in flight.
LEMMA MarkSentFollows ==
  ASSUME NEW d, Good(d), Sent(d) = {}, NEW m \in Queued(d)
  PROVE  Follows(d, MarkSent(d, m))
<1> DEFINE x == MarkSent(d, m)
           J == [d.jobs EXCEPT ![m].status = "sent", ![m].age = 0]
<1>1. d \in Databases /\ d.jobs \in [JobIds -> Jobs] /\ m \in JobIds
  BY DEF Good, Databases, Queued, InStatus
<1>2. J \in [JobIds -> Jobs]
  BY <1>1 DEF Jobs, Statuses
<1>3. x = [d EXCEPT !.jobs = J]
  BY <1>1 DEF MarkSent, Databases, Jobs
<1>4. \A j \in JobIds : /\ J[j].event = d.jobs[j].event
                       /\ J[j].notice = d.jobs[j].notice
                       /\ J[j].status = IF j = m THEN "sent" ELSE d.jobs[j].status
  BY <1>1 DEF Jobs
<1> HIDE DEF J, x
<1>5. /\ x \in Databases /\ x.jobs = J
      /\ x.last = d.last /\ x.events = d.events /\ x.lastEvent = d.lastEvent
  BY <1>1, <1>2, <1>3, SetJobs
<1>6. Sent(x) = {m} /\ Queued(x) = Queued(d) \ {m}
  BY <1>1, <1>4, <1>5 DEF Sent, Queued, InStatus
<1>7. \A e \in EventIds : Silenced(x, e) <=> Silenced(d, e)
  BY <1>5 DEF Silenced
<1>8. Quiet(x)
  BY <1>1, <1>4, <1>5, <1>6, <1>7, QuietMono DEF Good
<1>9. Limited(x)
  BY <1>6, LimitedMono DEF Good, Active
<1>10. MayWait(x, x.jobs[m])
  <2>1. MayWait(d, d.jobs[m])
    BY DEF Good, Quiet
  <2> QED
    BY <1>1, <1>4, <1>5, <2>1 DEF MayWait, Silenced
<1>11. Grows(d, x)
  BY <1>5, <1>6, GrowsByNothing DEF Active
<1> QED
  BY <1>5, <1>6, <1>7, <1>8, <1>9, <1>10, <1>11 DEF Follows, Good, OneSent, x

\* The databases of a pump: what the expiry left, or the first job that is not
\* refused goes out.
LEMMA PumpOutcomes ==
  ASSUME NEW d, NEW y \in PumpModemQueue(d)
  PROVE  LET x == ExpireSentJob(d) IN
         \/ y = x
         \/ Sent(x) = {} /\ \E F \in SUBSET ReadyRun(x) : y = SendFirst(x, F)
BY DEF PumpModemQueue, Refused

\* pump_modem_queue, however many publications fail.
LEMMA PumpFollows ==
  ASSUME NEW d, Good(d), NEW z \in PumpModemQueue(d)
  PROVE  Follows(d, z)
<1>1. PICK x : x = ExpireSentJob(d)
  OBVIOUS
<1>2. Follows(d, x) /\ Good(x)
  BY <1>1, ExpireSentJobFollows DEF Follows
<1>3. CASE z = x
  BY <1>2, <1>3
<1>4. ASSUME Sent(x) = {}, NEW F \in SUBSET ReadyRun(x), z = SendFirst(x, F) PROVE Follows(d, z)
  <2> DEFINE y == FinishAll(x, F, "failed")
             rest == ReadyRun(x) \ F
  <2>1. ReadyRun(x) \subseteq Queued(x) /\ rest \in SUBSET JobIds
    BY DEF ReadyRun, Queued, InStatus
  <2>2. /\ Good(y) /\ Follows(x, y)
        /\ Queued(y) = Queued(x) \ F /\ Sent(y) = Sent(x) \ F
    <3>1. "failed" \in Final
      BY DEF Final
    <3> QED
      BY <1>2, <3>1, FinishAllGood, FinishFollows
  <2>3. Follows(d, y)
    BY <1>2, <2>2, FollowsTransitive
  <2>4. CASE rest = {}
    <3>1. z = y
      BY <1>4, <2>4 DEF SendFirst
    <3> QED
      BY <2>3, <3>1
  <2>5. CASE rest # {}
    <3>1. z = MarkSent(y, Min(rest))
      BY <1>4, <2>5 DEF SendFirst
    <3>2. Min(rest) \in rest
      <4> HIDE DEF rest
      <4> QED
        BY <2>1, <2>5, MinOfJobs
    <3>3. PICK m : m = Min(rest)
      OBVIOUS
    <3> HIDE DEF y
    <3>4. m \in Queued(y) /\ Sent(y) = {}
      BY <1>4, <2>1, <2>2, <3>2, <3>3
    <3>5. Follows(y, MarkSent(y, m))
      BY <2>2, <3>4, MarkSentFollows
    <3> QED
      BY <2>3, <3>1, <3>3, <3>5, FollowsTransitive
  <2> QED
    BY <2>4, <2>5
<1> QED
  BY <1>1, <1>3, <1>4, PumpOutcomes

LEMMA PumpedFollows ==
  ASSUME NEW S, \A d \in S : Good(d), NEW x \in Pumped(S)
  PROVE  \E d \in S : Follows(d, x)
BY PumpFollows DEF Pumped
-----------------------------------------------------------------------------
(* The job queue: the cascade of an alarm and its pursuit *)

\* The call before that of job, to the same alarm, has ended: it was answered or
\* it timed out, which is what an age tells from a call that was never sent.
CalledBefore(d, i, job) ==
  /\ d.jobs[i].cmd = "test_call"
  /\ d.jobs[i].event = job.event
  /\ d.jobs[i].phone = job.phone - 1
  /\ \/ d.jobs[i].status = "done"
     \/ d.jobs[i].status = "failed" /\ d.jobs[i].age > 0

Unused(d) == \A j \in JobIds : j > d.last => d.jobs[j].status = "none" /\ d.jobs[j].phone = 0

InOrder(d) ==
  \A j \in JobIds : d.jobs[j].phone > 0 =>
    \E i \in JobIds : i < j /\ CalledBefore(d, i, d.jobs[j])

Ordered(d) == Unused(d) /\ InOrder(d)

\* Job j works for alarm e: its call waits, is in flight, or was never sent.
WorksFor(d, j, e) ==
  /\ d.jobs[j].event = e
  /\ d.jobs[j].cmd = "test_call"
  /\ \/ d.jobs[j].status \in {"queued", "sent"}
     \/ d.jobs[j].status = "failed" /\ d.jobs[j].age = 0

Rearmed(d, e) == d.events[e].rearm # NoRearm

\* An open alarm that is to be repeated has its repetition scheduled or, while
\* nobody has confirmed it, a call that works for it.
Pursued(d, e) ==
  IsOpen(d, e) /\ HysteresisOf(d, e) > 0 =>
    \/ Rearmed(d, e)
    \/ ~d.events[e].acked /\ \E j \in JobIds : WorksFor(d, j, e)

\* The alarms of x are those of d but for the instants of their repetitions.
SameAlarms(d, x) ==
  /\ x.lastEvent = d.lastEvent
  /\ \A e \in EventIds : /\ x.events[e].state = d.events[e].state
                         /\ x.events[e].kind = d.events[e].kind
                         /\ x.events[e].acked = d.events[e].acked

\* How the queue's operators lead from one database to another: the cascade stays
\* in order and, unless the ids of the bounded model are used up, no alarm that
\* was pursued is given up.
Keeps(d, x) ==
  /\ Good(x) /\ Ordered(x)
  /\ d.last <= x.last
  /\ SameAlarms(d, x)
  /\ x.last <= MaxJobs => \A e \in EventIds : Pursued(d, e) => Pursued(x, e)

LEMMA KeepsTransitive ==
  ASSUME NEW d, NEW x, NEW y, Good(d), Keeps(d, x), Keeps(x, y)
  PROVE  Keeps(d, y)
<1>1. d.last \in Nat /\ x.last \in Nat /\ y.last \in Nat
  BY DEF Good, Databases, Keeps
<1>2. d.last <= x.last /\ x.last <= y.last
  BY DEF Keeps
<1>3. d.last <= y.last /\ (y.last <= MaxJobs => x.last <= MaxJobs)
  BY <1>1, <1>2, ModemJobsAssumption
<1>4. SameAlarms(d, y)
  BY DEF Keeps, SameAlarms
<1> QED
  BY <1>3, <1>4 DEF Keeps

LEMMA KeepsReflexive ==
  ASSUME NEW d, Good(d), Ordered(d)
  PROVE  Keeps(d, d)
<1>1. d.last <= d.last
  BY DEF Good, Databases
<1> QED
  BY <1>1 DEF Keeps, SameAlarms

\* A call that ended for the next phone to be called was in use.
LEMMA CalledIsUsed ==
  ASSUME NEW d, Good(d), Ordered(d), NEW i \in JobIds, d.jobs[i].status # "none"
  PROVE  i <= d.last
<1>1. i \in Nat /\ d.last \in Nat
  BY ModemJobsAssumption DEF Good, Databases, JobIds
<1> QED
  BY <1>1 DEF Ordered, Unused

\* An alarm whose row and whose jobs are what they were is pursued as before.
LEMMA PursuedMono ==
  ASSUME NEW d, NEW x, NEW e, Pursued(d, e),
         x.events[e].state = d.events[e].state,
         x.events[e].kind = d.events[e].kind,
         x.events[e].acked = d.events[e].acked,
         Rearmed(d, e) => Rearmed(x, e),
         \A j \in JobIds : WorksFor(d, j, e) => WorksFor(x, j, e)
  PROVE  Pursued(x, e)
BY DEF Pursued, IsOpen, HysteresisOf

\* What EnqueueModemJobs does to the rows.
LEMMA EnqueueRows ==
  ASSUME NEW d \in Databases, NEW n \in Nat, NEW job \in Jobs
  PROVE  LET x == EnqueueModemJobs(d, n, job) IN
         /\ x.last = d.last + n /\ x.events = d.events /\ x.lastEvent = d.lastEvent
         /\ \A j \in JobIds : j \notin d.last + 1 .. d.last + n => x.jobs[j] = d.jobs[j]
         /\ \A j \in JobIds \cap (d.last + 1 .. d.last + n) :
              /\ x.jobs[j].event = job.event /\ x.jobs[j].cmd = job.cmd
              /\ x.jobs[j].phone = job.phone /\ x.jobs[j].age = job.age
              /\ x.jobs[j].status \in {"queued", "failed"}
<1> DEFINE x == EnqueueModemJobs(d, n, job)
           new == d.last + 1 .. d.last + n
           fits(j) == Cardinality(Active(d)) + (j - d.last) <= MaxQueuedJobs
           row(j) == IF fits(j) THEN [job EXCEPT !.status = "queued"]
                                ELSE [job EXCEPT !.status = "failed", !.wait = 0]
           J == [j \in JobIds |-> IF j \notin new THEN d.jobs[j] ELSE row(j)]
<1>1. x = [d EXCEPT !.last = d.last + n, !.jobs = J]
  BY DEF EnqueueModemJobs
<1>2. \A j : /\ row(j).event = job.event /\ row(j).cmd = job.cmd
             /\ row(j).phone = job.phone /\ row(j).age = job.age
             /\ row(j).status \in {"queued", "failed"}
  <2> HIDE DEF fits
  <2> QED
    BY DEF Jobs
<1> HIDE DEF row, x
<1>3. \A j \in JobIds : J[j] = IF j \notin new THEN d.jobs[j] ELSE row(j)
  OBVIOUS
<1> HIDE DEF J
<1>4. /\ x.last = d.last + n /\ x.events = d.events /\ x.lastEvent = d.lastEvent
      /\ x.jobs = J
  BY <1>1 DEF Databases
<1> HIDE DEF new
<1>5. /\ \A j \in JobIds : j \notin new => x.jobs[j] = d.jobs[j]
      /\ \A j \in JobIds \cap new :
           /\ x.jobs[j].event = job.event /\ x.jobs[j].cmd = job.cmd
           /\ x.jobs[j].phone = job.phone /\ x.jobs[j].age = job.age
           /\ x.jobs[j].status \in {"queued", "failed"}
  BY <1>2, <1>3, <1>4
<1> QED
  BY <1>4, <1>5 DEF new, x

\* New jobs disturb neither the cascade, if the call before theirs has ended, nor
\* what is being pursued.
LEMMA EnqueueKeeps ==
  ASSUME NEW d, Good(d), Ordered(d), NEW n \in Nat, NEW job \in Jobs, MayWait(d, job),
         job.phone > 0 => \E i \in JobIds : CalledBefore(d, i, job)
  PROVE  Keeps(d, EnqueueModemJobs(d, n, job))
<1> DEFINE x == EnqueueModemJobs(d, n, job)
           new == d.last + 1 .. d.last + n
<1>1. d \in Databases /\ d.last \in Nat
  BY DEF Good, Databases
<1>2. /\ Good(x)
      /\ x.last = d.last + n /\ x.events = d.events /\ x.lastEvent = d.lastEvent
  BY EnqueueModemJobsGood
<1>3. /\ \A j \in JobIds : j \notin new => x.jobs[j] = d.jobs[j]
      /\ \A j \in JobIds \cap new : x.jobs[j].event = job.event /\ x.jobs[j].phone = job.phone
  BY <1>1, EnqueueRows
<1> HIDE DEF x
<1>4. \A j \in JobIds : /\ j \in Nat
                        /\ j \in new => j > d.last /\ j <= x.last
                        /\ j > x.last => j > d.last /\ j \notin new
  BY <1>1, <1>2, ModemJobsAssumption DEF JobIds
<1> HIDE DEF new
<1>5. Unused(x)
  BY <1>3, <1>4 DEF Ordered, Unused
<1>6. \A i \in JobIds : d.jobs[i].status # "none" => x.jobs[i] = d.jobs[i] /\ i <= d.last
  BY <1>3, <1>4, CalledIsUsed DEF Ordered, Unused
<1>7. \A i \in JobIds : \A r : CalledBefore(d, i, r) => CalledBefore(x, i, r) /\ i <= d.last
  BY <1>6 DEF CalledBefore
<1>8. InOrder(x)
  <2> SUFFICES ASSUME NEW j \in JobIds, x.jobs[j].phone > 0
               PROVE  \E i \in JobIds : i < j /\ CalledBefore(x, i, x.jobs[j])
    BY DEF InOrder
  <2>1. CASE j \notin new
    <3>1. x.jobs[j] = d.jobs[j]
      BY <1>3, <2>1
    <3>2. PICK i \in JobIds : i < j /\ CalledBefore(d, i, d.jobs[j])
      BY <3>1 DEF Ordered, InOrder
    <3> QED
      BY <1>7, <3>1, <3>2
  <2>2. CASE j \in new
    <3>1. x.jobs[j].event = job.event /\ x.jobs[j].phone = job.phone
      BY <1>3, <2>2
    <3>2. PICK i \in JobIds : CalledBefore(d, i, job)
      BY <3>1
    <3>3. CalledBefore(x, i, x.jobs[j])
      BY <1>7, <3>1, <3>2 DEF CalledBefore
    <3>4. i < j
      BY <1>1, <1>4, <1>7, <2>2, <3>2
    <3> QED
      BY <3>3, <3>4
  <2> QED
    BY <2>1, <2>2
<1>9. ASSUME NEW e \in EventIds, Pursued(d, e) PROVE Pursued(x, e)
  <2>1. \A j \in JobIds : WorksFor(d, j, e) => WorksFor(x, j, e)
    BY <1>6 DEF WorksFor
  <2> QED
    BY <1>2, <1>9, <2>1, PursuedMono DEF Rearmed
<1>10. d.last <= x.last
  BY <1>1, <1>2
<1> QED
  BY <1>2, <1>5, <1>8, <1>9, <1>10 DEF Keeps, SameAlarms, Ordered, x

\* Scheduling a repetition gives up no alarm, and pursues the one it is for.
LEMMA ScheduleKeeps ==
  ASSUME NEW d, Good(d), Ordered(d), NEW e \in EventIds
  PROVE  LET x == ScheduleAlarmRearm(d, e) IN
         /\ Keeps(d, x)
         /\ IsOpen(d, e) /\ ~d.events[e].acked => Pursued(x, e)
<1> DEFINE x == ScheduleAlarmRearm(d, e)
<1>1. /\ Good(x)
      /\ x.jobs = d.jobs /\ x.last = d.last /\ x.lastEvent = d.lastEvent
      /\ \A f \in EventIds : /\ x.events[f].acked = d.events[f].acked
                            /\ x.events[f].state = d.events[f].state
                            /\ x.events[f].kind = d.events[f].kind
  BY ScheduleAlarmRearmGood
<1>2. d \in Databases /\ d.last \in Nat /\ d.events \in [EventIds -> Events]
  BY DEF Good, Databases
<1>3. HysteresisOf(d, e) \in Nat
  BY ModemJobsAssumption DEF HysteresisOf
<1>4. \/ x = d /\ (d.events[e].acked \/ d.events[e].state # "open" \/ HysteresisOf(d, e) = 0)
      \/ x = [d EXCEPT !.events[e].rearm = HysteresisOf(d, e)]
  BY DEF ScheduleAlarmRearm
<1>5. \A f \in EventIds : Rearmed(d, f) => Rearmed(x, f)
  <2>1. CASE x = d
    BY <2>1
  <2>2. CASE x = [d EXCEPT !.events[e].rearm = HysteresisOf(d, e)]
    BY <1>2, <1>3, <2>2 DEF Rearmed, NoRearm, Databases, Events
  <2> QED
    BY <1>4, <2>1, <2>2
<1>6. \/ d.events[e].acked \/ d.events[e].state # "open" \/ HysteresisOf(d, e) = 0
      \/ Rearmed(x, e)
  <2>1. CASE x = [d EXCEPT !.events[e].rearm = HysteresisOf(d, e)]
    BY <1>2, <1>3, <2>1 DEF Rearmed, NoRearm, Databases, Events
  <2> QED
    BY <1>4, <2>1
<1> HIDE DEF x
<1>7. Ordered(x)
  BY <1>1 DEF Ordered, Unused, InOrder, CalledBefore
<1>8. ASSUME NEW f \in EventIds, Pursued(d, f) PROVE Pursued(x, f)
  <2>1. \A j \in JobIds : WorksFor(d, j, f) => WorksFor(x, j, f)
    BY <1>1 DEF WorksFor
  <2> QED
    BY <1>1, <1>5, <1>8, <2>1, PursuedMono
<1>9. HysteresisOf(x, e) = HysteresisOf(d, e)
  BY <1>1 DEF HysteresisOf
<1>10. d.last <= x.last
  BY <1>1, <1>2
<1>11. IsOpen(d, e) /\ ~d.events[e].acked => Pursued(x, e)
  BY <1>3, <1>6, <1>9 DEF Pursued, IsOpen
<1> QED
  BY <1>1, <1>7, <1>8, <1>10, <1>11 DEF Keeps, SameAlarms, x

\* Whatever becomes of queued jobs, the cascade stays in order.
LEMMA QueuedOrdered ==
  ASSUME NEW d, Ordered(d), NEW x, x.last = d.last,
         \A j \in JobIds : d.jobs[j].status # "queued" => x.jobs[j] = d.jobs[j],
         \A j \in JobIds : /\ x.jobs[j].event = d.jobs[j].event
                            /\ x.jobs[j].cmd = d.jobs[j].cmd
                            /\ x.jobs[j].phone = d.jobs[j].phone
  PROVE  Ordered(x)
<1>1. Unused(x)
  BY DEF Ordered, Unused
<1>2. \A i \in JobIds : \A r : CalledBefore(d, i, r) => CalledBefore(x, i, r)
  BY DEF CalledBefore
<1>3. InOrder(x)
  <2> SUFFICES ASSUME NEW j \in JobIds, x.jobs[j].phone > 0
               PROVE  \E i \in JobIds : i < j /\ CalledBefore(x, i, x.jobs[j])
    BY DEF InOrder
  <2>1. PICK i \in JobIds : i < j /\ CalledBefore(d, i, d.jobs[j])
    BY DEF Ordered, InOrder
  <2>2. CalledBefore(x, i, x.jobs[j])
    BY <1>2, <2>1 DEF CalledBefore
  <2> QED
    BY <2>1, <2>2
<1> QED
  BY <1>1, <1>3 DEF Ordered

\* Queued jobs that fail or go out, alone or several, leave the cascade and what is
\* pursued as they were.
LEMMA QueuedKeeps ==
  ASSUME NEW d, Good(d), Ordered(d), NEW x, Good(x),
         x.last = d.last, x.events = d.events, x.lastEvent = d.lastEvent,
         NEW S \in SUBSET Queued(d),
         \A j \in JobIds : j \notin S => x.jobs[j] = d.jobs[j],
         \A j \in S : \/ x.jobs[j].status = "sent"
                      \/ x.jobs[j].status = "failed" /\ x.jobs[j].age = 0,
         \A j \in JobIds : /\ x.jobs[j].event = d.jobs[j].event
                            /\ x.jobs[j].cmd = d.jobs[j].cmd
                            /\ x.jobs[j].phone = d.jobs[j].phone
  PROVE  Keeps(d, x)
<1>1. \A j \in S : j \in JobIds /\ d.jobs[j].status = "queued"
  BY DEF Queued, InStatus
<1>2. Ordered(x)
  BY <1>1, QueuedOrdered
<1>3. ASSUME NEW e \in EventIds, Pursued(d, e) PROVE Pursued(x, e)
  <2>1. \A j \in JobIds : WorksFor(d, j, e) => WorksFor(x, j, e)
    BY <1>1 DEF WorksFor
  <2> QED
    BY <1>3, <2>1, PursuedMono DEF Rearmed
<1>4. d.last <= x.last
  BY DEF Good, Databases
<1> QED
  BY <1>2, <1>3, <1>4 DEF Keeps, SameAlarms

LEMMA FinishQueuedKeeps ==
  ASSUME NEW d, Good(d), Ordered(d), NEW S \in SUBSET Queued(d)
  PROVE  Keeps(d, FinishAll(d, S, "failed"))
<1> DEFINE x == FinishAll(d, S, "failed")
<1>1. d \in Databases /\ "failed" \in Statuses /\ "failed" \in Final
  BY DEF Good, Statuses, Final
<1>2. Good(x)
  BY <1>1, FinishAllGood
<1>3. /\ x.last = d.last /\ x.events = d.events /\ x.lastEvent = d.lastEvent
      /\ \A j \in JobIds : j \notin S => x.jobs[j] = d.jobs[j]
      /\ \A j \in S \cap JobIds : x.jobs[j].status = "failed" /\ x.jobs[j].age = 0
      /\ \A j \in JobIds : /\ x.jobs[j].event = d.jobs[j].event
                           /\ x.jobs[j].cmd = d.jobs[j].cmd
                           /\ x.jobs[j].phone = d.jobs[j].phone
  BY <1>1, FinishAllType
<1> HIDE DEF x
<1>4. S \subseteq JobIds
  BY DEF Queued, InStatus
<1>5. Keeps(d, x)
  BY <1>2, <1>3, <1>4, QueuedKeeps
<1> QED
  BY <1>5 DEF x

LEMMA MarkSentKeeps ==
  ASSUME NEW d, Good(d), Ordered(d), Sent(d) = {}, NEW m \in Queued(d)
  PROVE  Keeps(d, MarkSent(d, m))
<1> DEFINE x == MarkSent(d, m)
           J == [d.jobs EXCEPT ![m].status = "sent", ![m].age = 0]
<1>1. d \in Databases /\ d.jobs \in [JobIds -> Jobs] /\ m \in JobIds
  BY DEF Good, Databases, Queued, InStatus
<1>2. J \in [JobIds -> Jobs]
  BY <1>1 DEF Jobs, Statuses
<1>3. x = [d EXCEPT !.jobs = J]
  BY <1>1 DEF MarkSent, Databases, Jobs
<1>4. /\ \A j \in JobIds \ {m} : J[j] = d.jobs[j]
      /\ J[m].status = "sent"
      /\ \A j \in JobIds : /\ J[j].event = d.jobs[j].event
                           /\ J[j].cmd = d.jobs[j].cmd
                           /\ J[j].phone = d.jobs[j].phone
  BY <1>1 DEF Jobs
<1>5. Good(x)
  BY MarkSentFollows DEF Follows
<1> HIDE DEF J, x
<1>6. /\ x.jobs = J
      /\ x.last = d.last /\ x.events = d.events /\ x.lastEvent = d.lastEvent
  BY <1>1, <1>2, <1>3, SetJobs
<1>7. Keeps(d, x)
  <2> DEFINE S == {m}
  <2>1. S \in SUBSET Queued(d)
    OBVIOUS
  <2>2. /\ \A j \in JobIds : j \notin S => x.jobs[j] = d.jobs[j]
        /\ \A j \in S : \/ x.jobs[j].status = "sent"
                        \/ x.jobs[j].status = "failed" /\ x.jobs[j].age = 0
        /\ \A j \in JobIds : /\ x.jobs[j].event = d.jobs[j].event
                             /\ x.jobs[j].cmd = d.jobs[j].cmd
                             /\ x.jobs[j].phone = d.jobs[j].phone
    BY <1>4, <1>6
  <2> HIDE DEF S
  <2> QED
    BY <1>5, <1>6, <2>1, <2>2, QueuedKeeps
<1> QED
  BY <1>7 DEF x

\* The call of job j has ended in f, answered or timed out, and nothing else
\* changed.
EndsJob(d, f, j) ==
  /\ f.last = d.last /\ f.events = d.events /\ f.lastEvent = d.lastEvent
  /\ d.jobs[j].status # "none"
  /\ \/ f.jobs[j].status = "done"
     \/ f.jobs[j].status = "failed" /\ f.jobs[j].age > 0
  /\ \A i \in JobIds : i # j => f.jobs[i] = d.jobs[i]
  /\ f.jobs[j].event = d.jobs[j].event
  /\ f.jobs[j].cmd = d.jobs[j].cmd
  /\ f.jobs[j].phone = d.jobs[j].phone

\* When a call ends the next one joins the queue or the repetition of its alarm is
\* scheduled: the alarm it worked for is not given up.
LEMMA EndOfJobKeeps ==
  ASSUME NEW d, Good(d), Ordered(d), NEW j \in JobIds, NEW f, Good(f), EndsJob(d, f, j)
  PROVE  Keeps(d, MaybeEscalateCall(f, j))
<1> DEFINE job == f.jobs[j]
           e == job.event
           x == MaybeEscalateCall(f, j)
<1>1. f \in Databases /\ job \in Jobs /\ f.last \in Nat
  BY DEF Good, Databases
<1>2. Ordered(f)
  <2>1. Unused(f)
    BY CalledIsUsed, ModemJobsAssumption DEF Ordered, Unused, EndsJob, JobIds, Good, Databases
  <2>2. \A i \in JobIds : \A r : CalledBefore(d, i, r) => CalledBefore(f, i, r)
    BY DEF CalledBefore, EndsJob
  <2>3. \A i \in JobIds : f.jobs[i].phone = d.jobs[i].phone /\ f.jobs[i].event = d.jobs[i].event
    BY DEF EndsJob
  <2>4. InOrder(f)
    <3> SUFFICES ASSUME NEW k \in JobIds, f.jobs[k].phone > 0
                 PROVE  \E i \in JobIds : i < k /\ CalledBefore(f, i, f.jobs[k])
      BY DEF InOrder
    <3>1. PICK i \in JobIds : i < k /\ CalledBefore(d, i, d.jobs[k])
      BY <2>3 DEF Ordered, InOrder
    <3>2. CalledBefore(f, i, f.jobs[k])
      BY <2>2, <2>3, <3>1 DEF CalledBefore
    <3> QED
      BY <3>1, <3>2
  <2> QED
    BY <2>1, <2>4 DEF Ordered
<1>3. ASSUME NEW g \in EventIds, Pursued(d, g), ~(MayEscalate(f, job) /\ g = e)
      PROVE  Pursued(f, g)
  <2>1. CASE Rearmed(d, g) \/ ~(IsOpen(d, g) /\ HysteresisOf(d, g) > 0)
    BY <2>1 DEF Pursued, EndsJob, Rearmed, IsOpen, HysteresisOf
  <2>2. CASE ~d.events[g].acked /\ (\E i \in JobIds : WorksFor(d, i, g)) /\ IsOpen(d, g)
    <3>1. PICK i \in JobIds : WorksFor(d, i, g)
      BY <2>2
    <3>2. i # j
      BY <1>3, <2>2, <3>1 DEF WorksFor, MayEscalate, EndsJob, IsOpen
    <3>3. WorksFor(f, i, g)
      BY <3>1, <3>2 DEF WorksFor, EndsJob
    <3> QED
      BY <2>2, <3>3 DEF Pursued, EndsJob
  <2> QED
    BY <1>3, <2>1, <2>2 DEF Pursued
<1>4. Keeps(f, x) /\ (MayEscalate(f, job) /\ x.last <= MaxJobs => Pursued(x, e))
  <2>1. CASE ~MayEscalate(f, job)
    <3>1. x = f
      BY <2>1 DEF MaybeEscalateCall
    <3> QED
      BY <1>2, <2>1, <3>1, KeepsReflexive
  <2>2. CASE MayEscalate(f, job) /\ (~job.cascade \/ job.phone + 1 >= CallPhones)
    <3>1. x = ScheduleAlarmRearm(f, e)
      BY <2>2 DEF MaybeEscalateCall
    <3>2. e \in EventIds /\ IsOpen(f, e) /\ ~f.events[e].acked
      BY <2>2 DEF MayEscalate, IsOpen
    <3> HIDE DEF e, x
    <3> QED
      BY <1>2, <3>1, <3>2, ScheduleKeeps
  <2>3. CASE MayEscalate(f, job) /\ ~(~job.cascade \/ job.phone + 1 >= CallPhones)
    <3> DEFINE next == NextCall(f, job)
               n == f.last + 1
    <3>1. x = EnqueueModemJobs(f, 1, next)
      BY <2>3 DEF MaybeEscalateCall
    <3>2. DelayOf(f, e) \in Nat /\ job.phone + 1 \in Nat
      BY <1>1, ModemJobsAssumption DEF DelayOf, Jobs
    <3>3. /\ next \in Jobs /\ next.event = e /\ next.cmd = "test_call" /\ next.age = 0
          /\ next.phone = job.phone + 1
      BY <1>1, <3>2 DEF NextCall, NewJob, Jobs, Commands, Statuses
    <3>4. MayWait(f, next)
      BY <2>3, <3>3 DEF MayEscalate, IsOpen, MayWait, Silenced
    <3>5. CalledBefore(f, j, next)
      <4>1. next.phone - 1 = job.phone
        BY <1>1, <3>3 DEF Jobs
      <4> HIDE DEF next
      <4> QED
        BY <2>3, <3>3, <4>1 DEF CalledBefore, EndsJob, MayEscalate
    <3> HIDE DEF next, x
    <3>6. Keeps(f, x)
      BY <1>2, <3>1, <3>3, <3>4, <3>5, EnqueueKeeps
    <3>7. /\ x.last = n /\ x.events = f.events
          /\ n \in JobIds => /\ x.jobs[n].event = e /\ x.jobs[n].cmd = "test_call"
                             /\ x.jobs[n].status \in {"queued", "failed"}
                             /\ x.jobs[n].age = 0
      <4>1. n \in f.last + 1 .. f.last + 1
        BY <1>1
      <4> QED
        BY <1>1, <3>1, <3>3, <4>1, EnqueueRows
    <3>8. x.last <= MaxJobs => n \in JobIds
      BY <1>1, <3>7, ModemJobsAssumption DEF JobIds
    <3>9. x.last <= MaxJobs => WorksFor(x, n, e)
      BY <3>7, <3>8 DEF WorksFor
    <3> QED
      BY <2>3, <3>6, <3>7, <3>8, <3>9 DEF Pursued, MayEscalate
  <2> QED
    BY <2>1, <2>2, <2>3
<1> HIDE DEF x, e
<1>5. ASSUME x.last <= MaxJobs, NEW g \in EventIds, Pursued(d, g) PROVE Pursued(x, g)
  <2>1. CASE MayEscalate(f, job) /\ g = e
    BY <1>4, <1>5, <2>1
  <2>2. CASE ~(MayEscalate(f, job) /\ g = e)
    <3>1. Pursued(f, g)
      BY <1>3, <1>5, <2>2
    <3> QED
      BY <1>4, <1>5, <3>1 DEF Keeps
  <2> QED
    BY <2>1, <2>2
<1> QED
  BY <1>4, <1>5 DEF Keeps, SameAlarms, EndsJob, x

LEMMA JobIsDoneKeeps ==
  ASSUME NEW d, Good(d), Ordered(d), NEW j \in JobIds, d.jobs[j].status # "none"
  PROVE  Keeps(d, JobIsDone(d, j))
<1> DEFINE f == FinishAll(d, {j}, "done")
<1>1. d \in Databases /\ "done" \in Statuses /\ "done" \in Final
  BY DEF Good, Statuses, Final
<1>2. Good(f)
  BY <1>1, FinishAllGood
<1>3. EndsJob(d, f, j)
  BY <1>1, FinishAllType DEF EndsJob
<1>4. JobIsDone(d, j) = MaybeEscalateCall(f, j)
  BY DEF JobIsDone
<1> HIDE DEF f
<1> QED
  BY <1>2, <1>3, <1>4, EndOfJobKeeps

\* complete_modem_job, for a message that names no job.
LEMMA CompleteUnnamedKeeps ==
  ASSUME NEW d, Good(d), Ordered(d), NEW cmd
  PROVE  Keeps(d, CompleteUnnamed(d, cmd))
<1> DEFINE S == {j \in Sent(d) : d.jobs[j].cmd = cmd}
<1>1. CASE S = {}
  BY <1>1, KeepsReflexive DEF CompleteUnnamed
<1>2. CASE S # {}
  <2> DEFINE m == Min(S)
  <2>1. S \in SUBSET JobIds
    BY DEF Sent, InStatus
  <2>2. m \in S
    BY <1>2, <2>1, MinOfJobs
  <2>3. CompleteUnnamed(d, cmd) = JobIsDone(d, m)
    BY <1>2 DEF CompleteUnnamed
  <2> HIDE DEF m
  <2>4. m \in JobIds /\ d.jobs[m].status # "none"
    BY <2>2 DEF Sent, InStatus
  <2> QED
    BY <2>3, <2>4, JobIsDoneKeeps
<1> QED
  BY <1>1, <1>2

\* complete_modem_job, for an answer that may be late or repeated.
LEMMA CompleteModemJobKeeps ==
  ASSUME NEW d, Good(d), Ordered(d), NEW j \in JobIds
  PROVE  Keeps(d, CompleteModemJob(d, j))
<1>1. CASE d.jobs[j].status = "none"
  BY <1>1, CompleteUnnamedKeeps DEF CompleteModemJob
<1>2. CASE d.jobs[j].status # "none"
  BY <1>2, JobIsDoneKeeps DEF CompleteModemJob
<1> QED
  BY <1>1, <1>2

\* The first loop of pump_modem_queue.
LEMMA ExpireSentJobKeeps ==
  ASSUME NEW d, Good(d), Ordered(d)
  PROVE  Keeps(d, ExpireSentJob(d))
<1> DEFINE S == {j \in JobIds : Overdue(d.jobs[j])}
<1>1. CASE S = {}
  BY <1>1, KeepsReflexive DEF ExpireSentJob
<1>2. CASE S # {}
  <2> DEFINE m == Min(S)
             f == TimeOut(d, m)
  <2>1. m \in S /\ m \in JobIds
    BY <1>2, MinOfJobs
  <2>2. ExpireSentJob(d) = MaybeEscalateCall(f, m)
    BY <1>2 DEF ExpireSentJob
  <2> HIDE DEF m
  <2>3. d.jobs[m].status = "sent" /\ d.jobs[m].age > Timeout(d.jobs[m].cmd)
    BY <2>1 DEF Overdue
  <2>4. d \in Databases /\ d.jobs[m].age \in Nat /\ Timeout(d.jobs[m].cmd) \in Nat
    BY <2>1, ModemJobsAssumption DEF Good, Databases, Jobs, Timeout
  <2>5. d.jobs[m].age > 0
    BY <2>3, <2>4
  <2>6. EndsJob(d, f, m)
    BY <2>1, <2>3, <2>4, <2>5, TimeOutType DEF EndsJob
  <2>7. Good(f)
    BY <2>1, TimeOutFollows DEF Follows
  <2> HIDE DEF f
  <2> QED
    BY <2>1, <2>2, <2>6, <2>7, EndOfJobKeeps
<1> QED
  BY <1>1, <1>2

\* pump_modem_queue, however many publications fail.
LEMMA PumpKeeps ==
  ASSUME NEW d, Good(d), Ordered(d), NEW z \in PumpModemQueue(d)
  PROVE  Keeps(d, z)
<1>1. PICK x : x = ExpireSentJob(d)
  OBVIOUS
<1>2. Keeps(d, x) /\ Good(x) /\ Ordered(x)
  BY <1>1, ExpireSentJobKeeps DEF Keeps
<1>3. CASE z = x
  BY <1>2, <1>3
<1>4. ASSUME Sent(x) = {}, NEW F \in SUBSET ReadyRun(x), z = SendFirst(x, F) PROVE Keeps(d, z)
  <2> DEFINE y == FinishAll(x, F, "failed")
             rest == ReadyRun(x) \ F
  <2>1. F \in SUBSET Queued(x) /\ rest \subseteq Queued(x) /\ rest \in SUBSET JobIds
    BY DEF ReadyRun, Queued, InStatus
  <2>2. /\ Keeps(x, y) /\ Good(y) /\ Ordered(y)
        /\ Queued(y) = Queued(x) \ F /\ Sent(y) = Sent(x) \ F
    <3>1. "failed" \in Final
      BY DEF Final
    <3> QED
      BY <1>2, <2>1, <3>1, FinishAllGood, FinishQueuedKeeps DEF Keeps
  <2>3. Keeps(d, y)
    BY <1>2, <2>2, KeepsTransitive
  <2>4. CASE rest = {}
    <3>1. z = y
      BY <1>4, <2>4 DEF SendFirst
    <3> QED
      BY <2>3, <3>1
  <2>5. CASE rest # {}
    <3>1. z = MarkSent(y, Min(rest))
      BY <1>4, <2>5 DEF SendFirst
    <3>2. Min(rest) \in rest
      <4> HIDE DEF rest
      <4> QED
        BY <2>1, <2>5, MinOfJobs
    <3>3. PICK m : m = Min(rest)
      OBVIOUS
    <3> HIDE DEF y
    <3>4. m \in Queued(y) /\ Sent(y) = {}
      BY <1>4, <2>1, <2>2, <3>2, <3>3
    <3>5. Keeps(y, MarkSent(y, m))
      BY <2>2, <3>4, MarkSentKeeps
    <3> QED
      BY <2>3, <3>1, <3>3, <3>5, KeepsTransitive
  <2> QED
    BY <2>4, <2>5
<1> QED
  BY <1>1, <1>3, <1>4, PumpOutcomes

LEMMA PumpedKeeps ==
  ASSUME NEW S, \A d \in S : Good(d) /\ Ordered(d), NEW x \in Pumped(S)
  PROVE  \E d \in S : Keeps(d, x)
BY PumpKeeps DEF Pumped

-----------------------------------------------------------------------------
(* What the operators of Alarms preserve: each leads from a good database to a *)
(* good one, and what goes out meanwhile speaks for no silenced alarm.         *)

\* A transaction may lead from d to x: what it sends speaks for no alarm that is
\* silenced when it ends.
Reaches(d, x) ==
  /\ Good(x)
  /\ Grows(d, x)
  /\ \A j \in Sent(x) : j \in Sent(d) \/ MayWait(x, x.jobs[j])

LEMMA ReachesThenFollows ==
  ASSUME NEW d, NEW x, NEW y, Good(d), Reaches(d, x), Follows(x, y)
  PROVE  Reaches(d, y)
<1>1. Grows(d, y)
  BY GrowsTransitive DEF Reaches, Follows
<1> SUFFICES ASSUME NEW j \in Sent(y), ~MayWait(y, y.jobs[j])
             PROVE  j \in Sent(d)
  BY <1>1 DEF Reaches, Follows
<1>2. StillSent(x, y, j)
  BY DEF Follows
<1>3. x.jobs[j].event \in {NoEvent} \cup EventIds
  BY <1>2 DEF StillSent, Sent, InStatus, Reaches, Good, Databases, Jobs
<1>4. ~MayWait(x, x.jobs[j])
  BY <1>2, <1>3 DEF StillSent, MayWait, Follows
<1> QED
  BY <1>2, <1>4 DEF Reaches, StillSent

LEMMA ReachesReflexive ==
  ASSUME NEW d, Good(d)
  PROVE  Reaches(d, d)
BY GrowsByNothing DEF Reaches

LEMMA PumpedReaches ==
  ASSUME NEW d, Good(d), NEW S, \A x \in S : Reaches(d, x), NEW y \in Pumped(S)
  PROVE  Reaches(d, y)
<1>1. \A x \in S : Good(x)
  BY DEF Reaches
<1>2. PICK x \in S : Follows(x, y)
  BY <1>1, PumpedFollows
<1> QED
  BY <1>2, ReachesThenFollows

\* With the alarm rows E no queued job of f would speak for a silenced alarm.
QuietUnder(f, E) ==
  \A j \in Queued(f) :
    f.jobs[j].event # NoEvent /\ ~f.jobs[j].notice =>
      /\ ~E[f.jobs[j].event].acked
      /\ E[f.jobs[j].event].state \notin {"normalised", "confirmed"}

\* f with the alarm rows E, n of them in use.
WithEvents(f, E, n) == [f EXCEPT !.lastEvent = n, !.events = E]

\* Rewriting alarm rows so that no queued job speaks for a silenced alarm.
LEMMA SetEventsReaches ==
  ASSUME NEW d, Good(d), NEW f, Reaches(d, f), Sent(f) \subseteq Sent(d),
         NEW E \in [EventIds -> Events], NEW n \in 0..MaxEvents, QuietUnder(f, E)
  PROVE  LET x == WithEvents(f, E, n) IN
         /\ Reaches(d, x)
         /\ Sent(x) = Sent(f) /\ Queued(x) = Queued(f)
         /\ x.jobs = f.jobs /\ x.last = f.last /\ x.events = E /\ x.lastEvent = n
<1> DEFINE x == WithEvents(f, E, n)
<1>1. f \in Databases
  BY DEF Reaches, Good
<1>2. /\ x \in Databases
      /\ x.jobs = f.jobs /\ x.last = f.last /\ x.events = E /\ x.lastEvent = n
  BY <1>1 DEF Databases, WithEvents
<1> HIDE DEF x
<1>3. Sent(x) = Sent(f) /\ Queued(x) = Queued(f) /\ Active(x) = Active(f)
  BY <1>2 DEF Active, Queued, Sent, InStatus
<1>4. Quiet(x)
  BY <1>2, <1>3 DEF Quiet, MayWait, Silenced, QuietUnder
<1>5. Good(x)
  BY <1>2, <1>3, <1>4 DEF Reaches, Good, OneSent, Limited
<1>6. Grows(d, x)
  BY <1>2, <1>3 DEF Reaches, Grows
<1> QED
  BY <1>2, <1>3, <1>5, <1>6 DEF Reaches, x

-----------------------------------------------------------------------------
(* Raising an alarm *)

\* Jobs that speak for an alarm nobody silenced, or for none, join the queue.
LEMMA EnqueueReaches ==
  ASSUME NEW d, Good(d), NEW f, Reaches(d, f), Sent(f) \subseteq Sent(d),
         NEW n \in Nat, NEW job \in Jobs, MayWait(f, job)
  PROVE  LET x == EnqueueModemJobs(f, n, job) IN
         /\ Reaches(d, x) /\ Sent(x) \subseteq Sent(d)
         /\ x.events = f.events /\ x.lastEvent = f.lastEvent
<1> DEFINE x == EnqueueModemJobs(f, n, job)
<1>1. Good(f)
  BY DEF Reaches
<1>2. /\ Good(x) /\ Sent(x) \subseteq Sent(f)
      /\ x.events = f.events /\ x.last = f.last + n /\ x.lastEvent = f.lastEvent
      /\ Active(x) \subseteq Active(f) \cup (f.last + 1 .. x.last)
  BY <1>1, EnqueueModemJobsGood
<1> HIDE DEF x
<1>3. Grows(f, x)
  BY <1>1, <1>2 DEF Grows, Good, Databases
<1>4. Grows(d, x)
  BY <1>1, <1>2, <1>3, GrowsTransitive DEF Reaches
<1> QED
  BY <1>2, <1>4 DEF Reaches, x

LEMMA NewJobType ==
  ASSUME NEW cmd \in Commands, NEW e \in {NoEvent} \cup EventIds
  PROVE  NewJob(cmd, e) \in Jobs
BY DEF NewJob, Jobs, Statuses

LEMMA RaiseAlarmReaches ==
  ASSUME NEW d, Good(d), d.lastEvent < MaxEvents, NEW kind \in Kinds
  PROVE  LET x == RaiseAlarm(d, kind) IN
         /\ Reaches(d, x) /\ Sent(x) \subseteq Sent(d)
         /\ x.lastEvent = d.lastEvent + 1
<1> DEFINE e == d.lastEvent + 1
           row == [state |-> "open", kind |-> kind, acked |-> FALSE, rearm |-> NoRearm]
           E == [d.events EXCEPT ![e] = row]
           open == WithEvents(d, E, e)
           sms == NewJob("test_sms", e)
           texts == EnqueueModemJobs(open, SmsPhones, sms)
           call == [NewJob("test_call", e) EXCEPT
                      !.cascade = (kind = "agenda" \/ EscalateCalls)]
           n == IF CallPhones > 0 THEN 1 ELSE 0
           x == EnqueueModemJobs(texts, n, call)
<1>1. d \in Databases /\ d.events \in [EventIds -> Events] /\ d.lastEvent \in 0..MaxEvents
  BY DEF Good, Databases
<1>2. e \in EventIds /\ e \in 0..MaxEvents
  BY <1>1, ModemJobsAssumption DEF EventIds
<1>3. row \in Events
  BY DEF Events, EventStates
<1>4. /\ E \in [EventIds -> Events]
      /\ \A f \in EventIds : E[f] = IF f = e THEN row ELSE d.events[f]
  <2> HIDE DEF row, e
  <2> QED
    BY <1>1, <1>2, <1>3
<1>5. QuietUnder(d, E)
  <2> SUFFICES ASSUME NEW j \in Queued(d), d.jobs[j].event # NoEvent, ~d.jobs[j].notice
               PROVE  /\ ~E[d.jobs[j].event].acked
                      /\ E[d.jobs[j].event].state \notin {"normalised", "confirmed"}
    BY DEF QuietUnder
  <2>1. d.jobs[j].event \in EventIds
    BY <1>1 DEF Databases, Jobs, Queued, InStatus
  <2>2. ~Silenced(d, d.jobs[j].event)
    BY DEF Good, Quiet, MayWait
  <2> HIDE DEF E
  <2> QED
    BY <1>4, <2>1, <2>2 DEF Silenced
<1>6. Reaches(d, open) /\ Sent(open) = Sent(d) /\ open.events = E /\ open.lastEvent = e
  <2> HIDE DEF E, e
  <2> QED
    BY <1>2, <1>4, <1>5, ReachesReflexive, SetEventsReaches
<1>7. RaiseAlarm(d, kind) = x
  <2>1. open = [d EXCEPT !.lastEvent = e, !.events[e] = row]
    BY <1>1 DEF Databases, WithEvents
  <2> QED
    BY <2>1 DEF RaiseAlarm
<1>8. ~Silenced(open, e)
  <2>1. open.events[e] = row
    <3> HIDE DEF open, E, row
    <3> QED
      BY <1>2, <1>4, <1>6
  <2> HIDE DEF open, e
  <2> QED
    BY <2>1 DEF Silenced
<1>9. sms \in Jobs /\ sms.event = e /\ MayWait(open, sms)
  <2> HIDE DEF open, e
  <2> QED
    BY <1>2, <1>8, NewJobType DEF Commands, MayWait, NewJob
<1> HIDE DEF open, sms
<1>10. /\ Reaches(d, texts) /\ Sent(texts) \subseteq Sent(d)
       /\ texts.events = open.events /\ texts.lastEvent = e
  <2> HIDE DEF e
  <2> QED
    BY <1>6, <1>9, ModemJobsAssumption, EnqueueReaches
<1> HIDE DEF texts
<1>11. call \in Jobs /\ call.event = e
  <2> HIDE DEF e
  <2> QED
    BY <1>2, ModemJobsAssumption DEF NewJob, Jobs, Commands, Statuses
<1>12. MayWait(texts, call)
  <2> HIDE DEF e, call
  <2> QED
    BY <1>8, <1>10, <1>11 DEF MayWait, Silenced
<1>13. n \in Nat
  OBVIOUS
<1> HIDE DEF call, n
<1>14. Reaches(d, x) /\ Sent(x) \subseteq Sent(d) /\ x.lastEvent = e
  <2> HIDE DEF e
  <2> QED
    BY <1>10, <1>11, <1>12, <1>13, EnqueueReaches
<1> HIDE DEF x
<1> QED
  BY <1>7, <1>14

LEMMA DispatchAlarmReaches ==
  ASSUME NEW d, Good(d), d.lastEvent < MaxEvents, NEW kind \in Kinds,
         NEW y \in DispatchAlarm(d, kind)
  PROVE  Reaches(d, y)
<1> DEFINE x == RaiseAlarm(d, kind)
<1>1. Reaches(d, x) /\ Good(x) /\ x.lastEvent = d.lastEvent + 1
  BY RaiseAlarmReaches DEF Reaches
<1> HIDE DEF x
<1>2. ASSUME NEW z \in Pumped({x})
      PROVE  Reaches(d, z) /\ Good(z) /\ z.lastEvent \in EventIds
  <2>1. Follows(x, z)
    BY <1>1, PumpedFollows
  <2>2. x.lastEvent \in EventIds
    BY <1>1, ModemJobsAssumption DEF Good, Databases, EventIds
  <2> QED
    BY <1>1, <2>1, <2>2, ReachesThenFollows DEF Follows
<1>3. CASE CallPhones > 0
  BY <1>2, <1>3 DEF DispatchAlarm, x
<1>4. CASE ~(CallPhones > 0)
  <2>1. PICK z \in Pumped({x}) : y = ScheduleAlarmRearm(z, z.lastEvent)
    BY <1>4 DEF DispatchAlarm, x
  <2>2. Follows(z, y)
    BY <1>2, <2>1, ScheduleFollows
  <2> QED
    BY <1>2, <2>2, ReachesThenFollows
<1> QED
  BY <1>3, <1>4

-----------------------------------------------------------------------------
(* Closing, silencing and wiping alarms *)

\* Closing an alarm that leaves nothing in the queue, for whatever reason.
LEMMA CloseAlarmReaches ==
  ASSUME NEW d, Good(d), NEW f, Reaches(d, f), Sent(f) \subseteq Sent(d),
         NEW e \in EventIds, NEW why \in EventStates,
         \/ why \notin {"normalised", "confirmed"}
         \/ \A j \in Queued(f) : f.jobs[j].event = e => f.jobs[j].notice
  PROVE  LET x == CloseAlarm(f, e, why) IN
         Reaches(d, x) /\ Sent(x) \subseteq Sent(d)
<1> DEFINE E == [f.events EXCEPT ![e].state = why]
           x == CloseAlarm(f, e, why)
<1>1. Good(f) /\ f \in Databases /\ f.events \in [EventIds -> Events]
  BY DEF Reaches, Good, Databases
<1>2. /\ E \in [EventIds -> Events]
      /\ \A g \in EventIds : /\ E[g].acked = f.events[g].acked
                            /\ E[g].state = IF g = e THEN why ELSE f.events[g].state
  BY <1>1 DEF Events
<1>3. x = WithEvents(f, E, f.lastEvent) /\ f.lastEvent \in 0..MaxEvents
  BY <1>1 DEF CloseAlarm, WithEvents, Databases
<1>4. QuietUnder(f, E)
  <2> SUFFICES ASSUME NEW j \in Queued(f), f.jobs[j].event # NoEvent, ~f.jobs[j].notice
               PROVE  /\ ~E[f.jobs[j].event].acked
                      /\ E[f.jobs[j].event].state \notin {"normalised", "confirmed"}
    BY DEF QuietUnder
  <2>1. f.jobs[j].event \in EventIds
    BY <1>1 DEF Databases, Jobs, Queued, InStatus
  <2>2. ~Silenced(f, f.jobs[j].event)
    BY <1>1 DEF Good, Quiet, MayWait
  <2> HIDE DEF E
  <2> QED
    BY <1>2, <2>1, <2>2 DEF Silenced
<1> HIDE DEF E, x
<1> QED
  BY <1>2, <1>3, <1>4, SetEventsReaches DEF x

LEMMA CancelReaches ==
  ASSUME NEW d, Good(d), NEW S
  PROVE  LET x == FinishAll(d, S, "cancelled") IN
         /\ Reaches(d, x) /\ Sent(x) = Sent(d) \ S /\ Queued(x) = Queued(d) \ S
         /\ x.events = d.events /\ x.lastEvent = d.lastEvent
         /\ \A j \in JobIds : /\ x.jobs[j].event = d.jobs[j].event
                              /\ x.jobs[j].notice = d.jobs[j].notice
<1>1. "cancelled" \in Final
  BY DEF Final
<1> DEFINE x == FinishAll(d, S, "cancelled")
<1>2. Follows(d, x)
  BY <1>1, FinishFollows
<1>3. /\ Sent(x) = Sent(d) \ S /\ Queued(x) = Queued(d) \ S
      /\ x.events = d.events /\ x.lastEvent = d.lastEvent
      /\ \A j \in JobIds : /\ x.jobs[j].event = d.jobs[j].event
                           /\ x.jobs[j].notice = d.jobs[j].notice
  BY <1>1, FinishAllGood
<1> HIDE DEF x
<1>4. Reaches(d, x)
  BY <1>2, ReachesReflexive, ReachesThenFollows
<1> QED
  BY <1>3, <1>4 DEF x

LEMMA NormaliseAlarmReaches ==
  ASSUME NEW d, Good(d), NEW e \in EventIds, NEW y \in NormaliseAlarm(d, e)
  PROVE  Reaches(d, y)
<1> DEFINE S == {j \in Queued(d) : d.jobs[j].event = e /\ ~d.jobs[j].notice}
           f == FinishAll(d, S, "cancelled")
           closed == CloseAlarm(f, e, "normalised")
           notice == [NewJob("test_sms", e) EXCEPT !.notice = TRUE]
           x == EnqueueModemJobs(closed, SmsPhones, notice)
<1>1. /\ Reaches(d, f) /\ Sent(f) \subseteq Sent(d)
      /\ \A j \in Queued(f) : f.jobs[j].event = e => f.jobs[j].notice
  <2> HIDE DEF f
  <2>1. /\ Reaches(d, f) /\ Sent(f) = Sent(d) \ S /\ Queued(f) = Queued(d) \ S
        /\ \A j \in JobIds : /\ f.jobs[j].event = d.jobs[j].event
                             /\ f.jobs[j].notice = d.jobs[j].notice
    BY CancelReaches DEF f
  <2>2. \A j \in Queued(d) : j \in JobIds
    BY DEF Queued, InStatus
  <2> QED
    BY <2>1, <2>2
<1>2. NormaliseAlarm(d, e) = IF ClearBySms /\ SmsPhones > 0 THEN Pumped({x}) ELSE {closed}
  BY DEF NormaliseAlarm, CancelAlarmJobs
<1> HIDE DEF f
<1>3. Reaches(d, closed) /\ Sent(closed) \subseteq Sent(d)
  BY <1>1, CloseAlarmReaches DEF EventStates
<1>4. notice \in Jobs /\ MayWait(closed, notice)
  BY DEF NewJob, Jobs, Commands, Statuses, MayWait
<1> HIDE DEF closed, notice
<1>5. Reaches(d, x)
  BY <1>3, <1>4, ModemJobsAssumption, EnqueueReaches
<1> HIDE DEF x
<1> QED
  BY <1>2, <1>3, <1>5, PumpedReaches

\* Silencing the device leaves nothing of the silenced alarms in the queue.
LEMMA AcknowledgeReaches ==
  ASSUME NEW d, Good(d)
  PROVE  Reaches(d, AcknowledgeDevice(d)) /\ Sent(AcknowledgeDevice(d)) \subseteq Sent(d)
<1> DEFINE targets == {e \in OpenAlarms(d) : ~d.events[e].acked}
           S == {j \in Queued(d) : d.jobs[j].event \in targets /\ ~d.jobs[j].notice}
           E == [e \in EventIds |->
             IF e \notin targets THEN d.events[e]
             ELSE [d.events[e] EXCEPT
                     !.acked = TRUE,
                     !.rearm = IF HysteresisOf(d, e) > 0 THEN HysteresisOf(d, e) ELSE NoRearm,
                     !.state = IF IsManual(d, e) THEN "confirmed" ELSE "open"]]
           f == FinishAll(d, S, "cancelled")
<1>1. d \in Databases /\ d.events \in [EventIds -> Events] /\ d.lastEvent \in 0..MaxEvents
  BY DEF Good, Databases
<1>2. E \in [EventIds -> Events]
  <2>1. \A e \in EventIds : HysteresisOf(d, e) \in Nat
    BY ModemJobsAssumption DEF HysteresisOf
  <2> SUFFICES ASSUME NEW e \in EventIds PROVE E[e] \in Events
    OBVIOUS
  <2> HIDE DEF targets
  <2> QED
    BY <1>1, <2>1 DEF Events, EventStates
<1>3. \A e \in EventIds : e \notin targets => E[e] = d.events[e]
  OBVIOUS
<1>4. AcknowledgeDevice(d) = WithEvents(f, E, d.lastEvent)
  <2> HIDE DEF targets
  <2>1. FinishAll([d EXCEPT !.events = E], S, "cancelled")
          = [FinishAll(d, S, "cancelled") EXCEPT !.lastEvent = d.lastEvent, !.events = E]
    BY <1>1 DEF FinishAll, Databases
  <2> QED
    BY <2>1 DEF AcknowledgeDevice, WithEvents, targets
<1> HIDE DEF E, f
<1>5. /\ Reaches(d, f) /\ Sent(f) = Sent(d) \ S /\ Queued(f) = Queued(d) \ S
      /\ \A j \in JobIds : /\ f.jobs[j].event = d.jobs[j].event
                           /\ f.jobs[j].notice = d.jobs[j].notice
  <2> HIDE DEF S
  <2> QED
    BY CancelReaches DEF f
<1>6. QuietUnder(f, E)
  <2> SUFFICES ASSUME NEW j \in Queued(f), f.jobs[j].event # NoEvent, ~f.jobs[j].notice
               PROVE  /\ ~E[f.jobs[j].event].acked
                      /\ E[f.jobs[j].event].state \notin {"normalised", "confirmed"}
    BY DEF QuietUnder
  <2>1. j \in Queued(d) /\ j \in JobIds /\ j \notin S
    BY <1>5 DEF Queued, InStatus
  <2>2. f.jobs[j].event = d.jobs[j].event /\ ~d.jobs[j].notice
    BY <1>5, <2>1
  <2>3. d.jobs[j].event \in EventIds \ targets
    BY <1>1, <2>1, <2>2 DEF Databases, Jobs
  <2>4. ~Silenced(d, d.jobs[j].event)
    BY <2>1, <2>2 DEF Good, Quiet, MayWait
  <2> HIDE DEF targets
  <2> QED
    BY <1>3, <2>2, <2>3, <2>4 DEF Silenced
<1>7. Sent(f) \subseteq Sent(d)
  BY <1>5
<1> HIDE DEF S, targets
<1> QED
  BY <1>1, <1>2, <1>4, <1>5, <1>6, <1>7, SetEventsReaches

LEMMA WipeEventsReaches ==
  ASSUME NEW d, Good(d)
  PROVE  Reaches(d, WipeEvents(d)) /\ Sent(WipeEvents(d)) = Sent(d)
<1> DEFINE E == [e \in EventIds |->
             IF d.events[e].state = "none" THEN d.events[e]
                                           ELSE [d.events[e] EXCEPT !.state = "deleted"]]
<1>1. d \in Databases /\ d.events \in [EventIds -> Events] /\ d.lastEvent \in 0..MaxEvents
  BY DEF Good, Databases
<1>2. /\ E \in [EventIds -> Events]
      /\ \A e \in EventIds : /\ E[e].acked = d.events[e].acked
                            /\ E[e].state \in {"none", "deleted"}
  BY <1>1 DEF Events, EventStates
<1>3. WipeEvents(d) = WithEvents(d, E, d.lastEvent)
  BY <1>1 DEF WipeEvents, WithEvents, Databases
<1> HIDE DEF E
<1>4. QuietUnder(d, E)
  <2> SUFFICES ASSUME NEW j \in Queued(d), d.jobs[j].event # NoEvent, ~d.jobs[j].notice
               PROVE  /\ ~E[d.jobs[j].event].acked
                      /\ E[d.jobs[j].event].state \notin {"normalised", "confirmed"}
    BY DEF QuietUnder
  <2>1. d.jobs[j].event \in EventIds
    BY <1>1 DEF Databases, Jobs, Queued, InStatus
  <2>2. ~Silenced(d, d.jobs[j].event)
    BY DEF Good, Quiet, MayWait
  <2> QED
    BY <1>2, <2>1, <2>2 DEF Silenced
<1> QED
  BY <1>1, <1>2, <1>3, <1>4, ReachesReflexive, SetEventsReaches

\* The greatest element of a set of alarm ids is in it.
LEMMA MaxOfEvents ==
  ASSUME NEW S \in SUBSET EventIds, S # {}
  PROVE  Max(S) \in S
<1> DEFINE T == {MaxEvents - e : e \in S}
           R == {p \in Nat \X Nat : p[1] < p[2]}
<1>1. T \subseteq Nat /\ T # {}
  <2>1. \A e \in S : MaxEvents - e \in Nat
    BY ModemJobsAssumption DEF EventIds
  <2>2. PICK e \in S : TRUE
    OBVIOUS
  <2>3. MaxEvents - e \in T
    OBVIOUS
  <2> QED
    BY <2>1, <2>3
<1>2. IsWellFoundedOn(R, Nat)
  BY NatLessThanWellFounded DEF OpToRel
<1>3. PICK m \in T : \A t \in T : <<t, m>> \notin R
  <2> HIDE DEF R, T
  <2> QED
    BY <1>1, <1>2, WFMin, Zenon
<1>4. PICK g \in S : m = MaxEvents - g
  OBVIOUS
<1>5. ASSUME NEW e \in S PROVE g >= e
  <2>1. e \in Nat /\ g \in Nat /\ MaxEvents \in Nat
    BY ModemJobsAssumption DEF EventIds
  <2>2. MaxEvents - e \in T
    OBVIOUS
  <2>3. ~ (MaxEvents - e < MaxEvents - g)
    BY <1>1, <1>3, <1>4, <2>2
  <2> QED
    BY <2>1, <2>3
<1> QED
  BY <1>5 DEF Max

LEMMA OpenAlarmEventType ==
  ASSUME NEW d, OpenOfRule(d) # {}
  PROVE  OpenAlarmEvent(d) \in EventIds /\ OpenAlarmEvent(d) \in OpenOfRule(d)
<1>1. OpenOfRule(d) \in SUBSET EventIds
  BY DEF OpenOfRule
<1> QED
  BY <1>1, MaxOfEvents DEF OpenAlarmEvent

LEMMA RecycleReaches ==
  ASSUME NEW d, Good(d)
  PROVE  Reaches(d, RecycleOpenAlarm(d)) /\ Sent(RecycleOpenAlarm(d)) \subseteq Sent(d)
<1>1. CASE OpenOfRule(d) = {}
  BY <1>1, ReachesReflexive DEF RecycleOpenAlarm
<1>2. CASE OpenOfRule(d) # {}
  <2>1. "recycled" \in EventStates /\ "recycled" \notin {"normalised", "confirmed"}
    BY DEF EventStates
  <2>2. Reaches(d, d)
    BY ReachesReflexive
  <2> QED
    BY <1>2, <2>1, <2>2, OpenAlarmEventType, CloseAlarmReaches DEF RecycleOpenAlarm
<1> QED
  BY <1>1, <1>2

-----------------------------------------------------------------------------
(* One open alarm of the rule, its cascade in order and its pursuit *)

Single(d) ==
  /\ \A e, f \in OpenOfRule(d) : e = f
  /\ \A e \in EventIds : e > d.lastEvent => d.events[e].state = "none"

AllPursued(d) == \A e \in EventIds : Pursued(d, e)

Sound(d) == Ordered(d) /\ Single(d) /\ (d.last <= MaxJobs => AllPursued(d))

LEMMA SameAlarmsSingle ==
  ASSUME NEW d, NEW x, Single(d), SameAlarms(d, x)
  PROVE  Single(x)
BY DEF Single, SameAlarms, OpenOfRule, IsOpen, OfRule

LEMMA KeepsSound ==
  ASSUME NEW d, Good(d), Sound(d), NEW x, Keeps(d, x)
  PROVE  Sound(x)
<1>1. Single(x)
  BY SameAlarmsSingle DEF Keeps, Sound
<1>2. x.last <= MaxJobs => d.last <= MaxJobs
  BY ModemJobsAssumption DEF Keeps, Good, Databases
<1> QED
  BY <1>1, <1>2 DEF Keeps, Sound, AllPursued

LEMMA PumpedSound ==
  ASSUME NEW S, \A d \in S : Good(d) /\ Sound(d), NEW x \in Pumped(S)
  PROVE  Sound(x)
<1>1. PICK d \in S : Keeps(d, x)
  BY PumpedKeeps DEF Sound
<1> QED
  BY <1>1, KeepsSound

\* The alarm that is raised is open and, if anybody is to be called, pursued.
LEMMA RaiseAlarmSound ==
  ASSUME NEW d, Good(d), Sound(d), d.lastEvent < MaxEvents, NEW kind \in Kinds,
         kind = "agenda" \/ OpenOfRule(d) = {}
  PROVE  LET x == RaiseAlarm(d, kind)
             e == d.lastEvent + 1 IN
         /\ Good(x) /\ Ordered(x) /\ Single(x)
         /\ x.lastEvent = e /\ e \in EventIds
         /\ IsOpen(x, e) /\ ~x.events[e].acked
         /\ x.last <= MaxJobs => \A g \in EventIds \ {e} : Pursued(x, g)
         /\ x.last <= MaxJobs /\ CallPhones > 0 => Pursued(x, e)
<1> DEFINE e == d.lastEvent + 1
           row == [state |-> "open", kind |-> kind, acked |-> FALSE, rearm |-> NoRearm]
           E == [d.events EXCEPT ![e] = row]
           open == WithEvents(d, E, e)
           sms == NewJob("test_sms", e)
           texts == EnqueueModemJobs(open, SmsPhones, sms)
           call == [NewJob("test_call", e) EXCEPT
                      !.cascade = (kind = "agenda" \/ EscalateCalls)]
           n == IF CallPhones > 0 THEN 1 ELSE 0
           x == EnqueueModemJobs(texts, n, call)
<1>1. /\ d \in Databases /\ d.events \in [EventIds -> Events]
      /\ d.lastEvent \in Nat /\ d.last \in Nat
  BY ModemJobsAssumption DEF Good, Databases
<1>2. e \in EventIds /\ e \in Nat /\ e > d.lastEvent /\ e \in 0..MaxEvents
  BY <1>1, ModemJobsAssumption DEF EventIds
<1>3. x = RaiseAlarm(d, kind)
  <2>1. open = [d EXCEPT !.lastEvent = e, !.events[e] = row]
    BY <1>1 DEF Databases, WithEvents
  <2> QED
    BY <2>1 DEF RaiseAlarm
<1>4. Good(x) /\ x.lastEvent = e
  <2> HIDE DEF x
  <2> QED
    BY <1>3, RaiseAlarmReaches DEF Reaches
<1>5. /\ \A g \in EventIds : E[g] = IF g = e THEN row ELSE d.events[g]
      /\ E \in [EventIds -> Events]
  <2>1. row \in Events
    BY DEF Events, EventStates
  <2> HIDE DEF row, e
  <2> QED
    BY <1>1, <1>2, <2>1
<1>6. row.state = "open" /\ row.kind = kind /\ ~row.acked
  OBVIOUS
<1> HIDE DEF E, row
<1>7. /\ open.jobs = d.jobs /\ open.last = d.last
      /\ open.events = E /\ open.lastEvent = e
      /\ open \in Databases
  <2> HIDE DEF e
  <2> QED
    BY <1>1, <1>2, <1>5 DEF Databases, WithEvents
<1> HIDE DEF open
<1>8. /\ sms \in Jobs /\ sms.event = e /\ sms.phone = 0
      /\ call \in Jobs /\ call.event = e /\ call.phone = 0 /\ call.cmd = "test_call"
      /\ call.age = 0 /\ n \in Nat
  <2> HIDE DEF e
  <2> QED
    BY <1>2, ModemJobsAssumption DEF NewJob, Jobs, Commands, Statuses
<1>9. CallPhones > 0 => n = 1
  OBVIOUS
<1> HIDE DEF sms, call, n
<1>10. open.events[e] = row
  BY <1>2, <1>5, <1>7
<1> HIDE DEF e
<1>11. Good(open) /\ Ordered(open)
  <2>1. Queued(open) = Queued(d) /\ Sent(open) = Sent(d) /\ Active(open) = Active(d)
    BY <1>7 DEF Queued, Sent, Active, InStatus
  <2>2. Quiet(open)
    <3>1. \A g \in EventIds : Silenced(open, g) => Silenced(d, g)
      BY <1>5, <1>6, <1>7 DEF Silenced
    <3> QED
      BY <1>1, <1>7, <2>1, <3>1, QuietMono DEF Good
  <2>3. Ordered(open)
    BY <1>7 DEF Sound, Ordered, Unused, InOrder, CalledBefore
  <2> QED
    BY <1>7, <2>1, <2>2, <2>3 DEF Good, OneSent, Limited
<1>12. Single(open)
  <2>1. \A g \in OpenOfRule(open) : g = e \/ g \in OpenOfRule(d)
    BY <1>5, <1>7 DEF OpenOfRule, IsOpen, OfRule
  <2>2. kind = "agenda" => e \notin OpenOfRule(open)
    BY <1>6, <1>10 DEF OpenOfRule, OfRule
  <2>3. \A g \in EventIds : g > e => g # e /\ g > d.lastEvent
    BY <1>1, <1>2 DEF EventIds
  <2>4. \A g \in EventIds : g > open.lastEvent => open.events[g].state = "none"
    BY <1>5, <1>7, <2>3 DEF Sound, Single
  <2> QED
    BY <2>1, <2>2, <2>4 DEF Sound, Single
<1>13. open.last <= MaxJobs => \A g \in EventIds \ {e} : Pursued(open, g)
  <2> SUFFICES ASSUME open.last <= MaxJobs, NEW g \in EventIds \ {e} PROVE Pursued(open, g)
    OBVIOUS
  <2>1. Pursued(d, g)
    BY <1>7 DEF Sound, AllPursued
  <2>2. open.events[g] = d.events[g]
    BY <1>5, <1>7
  <2> QED
    BY <1>7, <2>1, <2>2, PursuedMono DEF Rearmed, WorksFor
<1>14. MayWait(open, sms) /\ ~Silenced(open, e)
  BY <1>6, <1>8, <1>10 DEF MayWait, Silenced
<1>15. Keeps(open, texts) /\ texts.events = open.events
  <2>1. Keeps(open, texts)
    BY <1>8, <1>11, <1>14, ModemJobsAssumption, EnqueueKeeps
  <2>2. texts.events = open.events
    BY <1>7, <1>8, ModemJobsAssumption, EnqueueRows
  <2> QED
    BY <2>1, <2>2
<1> HIDE DEF texts
<1>16. Good(texts) /\ Ordered(texts) /\ texts \in Databases /\ texts.last \in Nat
  BY <1>15 DEF Keeps, Good, Databases
<1>17. MayWait(texts, call)
  BY <1>8, <1>14, <1>15 DEF MayWait, Silenced
<1>18. Keeps(texts, x) /\ x.events = texts.events /\ x.last = texts.last + n
  <2>1. Keeps(texts, x)
    BY <1>8, <1>16, <1>17, EnqueueKeeps
  <2>2. x.events = texts.events /\ x.last = texts.last + n
    BY <1>8, <1>16, EnqueueRows
  <2> QED
    BY <2>1, <2>2
<1>19. Keeps(open, x)
  BY <1>11, <1>15, <1>18, KeepsTransitive
<1>20. Single(x) /\ Ordered(x)
  BY <1>12, <1>19, SameAlarmsSingle DEF Keeps
<1>21. x.last <= MaxJobs => \A g \in EventIds \ {e} : Pursued(x, g)
  <2>1. x.last <= MaxJobs => open.last <= MaxJobs
    BY <1>1, <1>4, <1>7, <1>19, ModemJobsAssumption DEF Keeps, Good, Databases
  <2> QED
    BY <1>13, <1>19, <2>1 DEF Keeps
<1>22. IsOpen(x, e) /\ ~x.events[e].acked
  BY <1>2, <1>6, <1>10, <1>15, <1>18 DEF IsOpen
<1>23. x.last <= MaxJobs /\ CallPhones > 0 => Pursued(x, e)
  <2> SUFFICES ASSUME x.last <= MaxJobs, CallPhones > 0
               PROVE  \E j \in JobIds : WorksFor(x, j, e)
    BY <1>22 DEF Pursued
  <2> DEFINE m == texts.last + 1
  <2>1. m \in JobIds /\ m \in texts.last + 1 .. texts.last + n
    BY <1>9, <1>16, <1>18, ModemJobsAssumption DEF JobIds
  <2> HIDE DEF m
  <2>2. WorksFor(x, m, e)
    BY <1>8, <1>16, <2>1, EnqueueRows DEF WorksFor
  <2> QED
    BY <2>1, <2>2
<1> HIDE DEF x
<1> QED
  BY <1>2, <1>3, <1>4, <1>20, <1>21, <1>22, <1>23 DEF e

\* With nobody to call, the repetition is scheduled once the alarm is dispatched.
LEMMA DispatchAlarmSound ==
  ASSUME NEW d, Good(d), Sound(d), d.lastEvent < MaxEvents, NEW kind \in Kinds,
         kind = "agenda" \/ OpenOfRule(d) = {}, NEW y \in DispatchAlarm(d, kind)
  PROVE  Sound(y)
<1> DEFINE x == RaiseAlarm(d, kind)
           e == d.lastEvent + 1
<1>1. /\ Good(x) /\ Ordered(x) /\ Single(x)
      /\ x.lastEvent = e /\ e \in EventIds
      /\ IsOpen(x, e) /\ ~x.events[e].acked
      /\ x.last <= MaxJobs => \A g \in EventIds \ {e} : Pursued(x, g)
      /\ x.last <= MaxJobs /\ CallPhones > 0 => Pursued(x, e)
  BY RaiseAlarmSound
<1>2. DispatchAlarm(d, kind) = IF CallPhones > 0 THEN Pumped({x})
                               ELSE {ScheduleAlarmRearm(z, z.lastEvent) : z \in Pumped({x})}
  BY DEF DispatchAlarm
<1> HIDE DEF x, e
<1>3. ASSUME NEW z \in Pumped({x})
      PROVE  /\ Keeps(x, z) /\ Single(z)
             /\ z.last <= MaxJobs => \A g \in EventIds \ {e} : Pursued(z, g)
             /\ z.last <= MaxJobs /\ CallPhones > 0 => Pursued(z, e)
  <2>1. Keeps(x, z)
    BY <1>1, PumpedKeeps
  <2>2. z.last <= MaxJobs => x.last <= MaxJobs
    BY <1>1, <2>1, ModemJobsAssumption DEF Keeps, Good, Databases
  <2> QED
    BY <1>1, <2>1, <2>2, SameAlarmsSingle DEF Keeps
<1>4. CASE CallPhones > 0
  <2>1. y \in Pumped({x})
    BY <1>2, <1>4
  <2>2. Single(y) /\ Ordered(y)
    BY <1>3, <2>1 DEF Keeps
  <2>3. y.last <= MaxJobs => AllPursued(y)
    BY <1>3, <1>4, <2>1 DEF AllPursued
  <2> QED
    BY <2>2, <2>3 DEF Sound
<1>5. CASE ~(CallPhones > 0)
  <2>1. PICK z \in Pumped({x}) : y = ScheduleAlarmRearm(z, z.lastEvent)
    BY <1>2, <1>5
  <2>2. /\ Good(z) /\ Ordered(z) /\ Single(z)
        /\ z.last <= MaxJobs => \A g \in EventIds \ {e} : Pursued(z, g)
        /\ z.lastEvent = e /\ IsOpen(z, e) /\ ~z.events[e].acked
    BY <1>1, <1>3 DEF Keeps, SameAlarms, IsOpen
  <2>3. Keeps(z, y) /\ Pursued(y, e)
    BY <1>1, <2>1, <2>2, ScheduleKeeps
  <2>4. Single(y)
    BY <2>2, <2>3, SameAlarmsSingle DEF Keeps
  <2>5. y.last <= MaxJobs => z.last <= MaxJobs
    BY <2>2, <2>3, ModemJobsAssumption DEF Keeps, Good, Databases
  <2>6. y.last <= MaxJobs => AllPursued(y)
    BY <2>2, <2>3, <2>5 DEF Keeps, AllPursued
  <2> QED
    BY <2>3, <2>4, <2>6 DEF Keeps, Sound
<1> QED
  BY <1>4, <1>5

\* Cancelling queued jobs gives up only the alarms they worked for.
LEMMA CancelSound ==
  ASSUME NEW d, Good(d), Ordered(d), NEW S \in SUBSET Queued(d)
  PROVE  LET x == FinishAll(d, S, "cancelled") IN
         /\ Good(x) /\ Ordered(x)
         /\ x.last = d.last /\ x.events = d.events /\ x.lastEvent = d.lastEvent
         /\ \A e \in EventIds :
              (\A j \in S : d.jobs[j].event # e) /\ Pursued(d, e) => Pursued(x, e)
<1> DEFINE x == FinishAll(d, S, "cancelled")
<1>1. d \in Databases /\ "cancelled" \in Statuses /\ "cancelled" \in Final
  BY DEF Good, Statuses, Final
<1>2. Good(x)
  BY <1>1, FinishAllGood
<1>3. /\ x.last = d.last /\ x.events = d.events /\ x.lastEvent = d.lastEvent
      /\ \A j \in JobIds : j \notin S => x.jobs[j] = d.jobs[j]
      /\ \A j \in JobIds : /\ x.jobs[j].event = d.jobs[j].event
                           /\ x.jobs[j].cmd = d.jobs[j].cmd
                           /\ x.jobs[j].phone = d.jobs[j].phone
  BY <1>1, FinishAllType
<1> HIDE DEF x
<1>4. \A j \in S : d.jobs[j].status = "queued"
  BY DEF Queued, InStatus
<1>5. Ordered(x)
  BY <1>3, <1>4, QueuedOrdered
<1>6. ASSUME NEW e \in EventIds, \A j \in S : d.jobs[j].event # e, Pursued(d, e)
      PROVE  Pursued(x, e)
  <2>1. \A j \in JobIds : WorksFor(d, j, e) => WorksFor(x, j, e)
    BY <1>3, <1>6 DEF WorksFor
  <2> QED
    BY <1>3, <1>6, <2>1, PursuedMono DEF Rearmed
<1> QED
  BY <1>2, <1>3, <1>5, <1>6 DEF x

\* Closing an open alarm of a database in which every other one is pursued.
LEMMA CloseAlarmSound ==
  ASSUME NEW d, Good(d), Ordered(d), Single(d), NEW e \in EventIds, IsOpen(d, e),
         NEW why \in EventStates \ {"open"},
         d.last <= MaxJobs => \A g \in EventIds \ {e} : Pursued(d, g)
  PROVE  LET x == CloseAlarm(d, e, why) IN
         Sound(x) /\ OpenOfRule(x) = OpenOfRule(d) \ {e}
<1> DEFINE x == CloseAlarm(d, e, why)
           E == [d.events EXCEPT ![e].state = why]
<1>1. d \in Databases /\ d.events \in [EventIds -> Events] /\ d.lastEvent \in Nat
  BY ModemJobsAssumption DEF Good, Databases
<1>2. x = [d EXCEPT !.events = E]
  BY <1>1 DEF CloseAlarm, Databases
<1>3. /\ \A g \in EventIds : g # e => E[g] = d.events[g]
      /\ E[e].state = why /\ why # "open"
  BY <1>1 DEF Events
<1> HIDE DEF E, x
<1>4. /\ x.jobs = d.jobs /\ x.last = d.last /\ x.lastEvent = d.lastEvent /\ x.events = E
  BY <1>1, <1>2 DEF Databases
<1>5. Ordered(x)
  BY <1>4 DEF Ordered, Unused, InOrder, CalledBefore
<1>6. OpenOfRule(x) = OpenOfRule(d) \ {e}
  BY <1>3, <1>4 DEF OpenOfRule, IsOpen, OfRule
<1>7. Single(x)
  <2>1. \A g \in EventIds : g > d.lastEvent => g # e
    BY DEF Single, IsOpen
  <2> QED
    BY <1>3, <1>4, <1>6, <2>1 DEF Single
<1>8. ASSUME NEW g \in EventIds, x.last <= MaxJobs PROVE Pursued(x, g)
  <2>1. CASE g = e
    BY <1>3, <1>4, <2>1 DEF Pursued, IsOpen
  <2>2. CASE g # e
    <3>1. Pursued(d, g) /\ x.events[g] = d.events[g]
      BY <1>3, <1>4, <1>8, <2>2
    <3> QED
      BY <1>4, <3>1, PursuedMono DEF Rearmed, WorksFor
  <2> QED
    BY <2>1, <2>2
<1> QED
  BY <1>5, <1>6, <1>7, <1>8 DEF Sound, AllPursued, x

\* What the normalised alarm had in the queue may go: it is closed.
LEMMA NormaliseAlarmSound ==
  ASSUME NEW d, Good(d), Sound(d), NEW e \in EventIds, IsOpen(d, e),
         NEW y \in NormaliseAlarm(d, e)
  PROVE  Sound(y)
<1> DEFINE S == {j \in Queued(d) : d.jobs[j].event = e /\ ~d.jobs[j].notice}
           f == FinishAll(d, S, "cancelled")
           closed == CloseAlarm(f, e, "normalised")
           notice == [NewJob("test_sms", e) EXCEPT !.notice = TRUE]
           x == EnqueueModemJobs(closed, SmsPhones, notice)
<1>1. NormaliseAlarm(d, e) = IF ClearBySms /\ SmsPhones > 0 THEN Pumped({x}) ELSE {closed}
  BY DEF NormaliseAlarm, CancelAlarmJobs
<1>2. S \in SUBSET Queued(d) /\ \A g \in EventIds \ {e} : \A j \in S : d.jobs[j].event # g
  OBVIOUS
<1>3. \A j \in Queued(f) : f.jobs[j].event = e => f.jobs[j].notice
  <2>1. /\ Queued(f) = Queued(d) \ S
        /\ \A j \in JobIds : /\ f.jobs[j].event = d.jobs[j].event
                             /\ f.jobs[j].notice = d.jobs[j].notice
    BY CancelReaches
  <2>2. \A j \in Queued(d) : j \in JobIds
    BY DEF Queued, InStatus
  <2> HIDE DEF f
  <2> QED
    BY <2>1, <2>2
<1> HIDE DEF S
<1>4. /\ Good(f) /\ Ordered(f)
      /\ f.last = d.last /\ f.events = d.events /\ f.lastEvent = d.lastEvent
      /\ \A g \in EventIds \ {e} : Pursued(d, g) => Pursued(f, g)
  BY <1>2, CancelSound DEF Sound
<1> HIDE DEF f
<1>5. Single(f) /\ IsOpen(f, e)
  BY <1>4, SameAlarmsSingle DEF SameAlarms, Sound, IsOpen
<1>6. Sound(closed)
  <2>1. "normalised" \in EventStates \ {"open"}
    BY DEF EventStates
  <2>2. f.last <= MaxJobs => \A g \in EventIds \ {e} : Pursued(f, g)
    BY <1>4 DEF Sound, AllPursued
  <2> QED
    BY <1>4, <1>5, <2>1, <2>2, CloseAlarmSound
<1>7. Good(closed)
  BY <1>3, <1>4, ReachesReflexive, CloseAlarmReaches DEF EventStates, Reaches
<1>8. notice \in Jobs /\ notice.phone = 0 /\ MayWait(closed, notice)
  BY DEF NewJob, Jobs, Commands, Statuses, MayWait
<1> HIDE DEF closed, notice
<1>9. Keeps(closed, x)
  BY <1>6, <1>7, <1>8, ModemJobsAssumption, EnqueueKeeps DEF Sound
<1>10. Sound(x) /\ Good(x)
  BY <1>6, <1>7, <1>9, KeepsSound DEF Keeps
<1> HIDE DEF x
<1>11. CASE ClearBySms /\ SmsPhones > 0
  <2>1. y \in Pumped({x})
    BY <1>1, <1>11
  <2> QED
    BY <1>10, <2>1, PumpedSound
<1>12. CASE ~(ClearBySms /\ SmsPhones > 0)
  BY <1>1, <1>6, <1>12
<1> QED
  BY <1>11, <1>12

\* The alarm due to repeat is closed, so that none of the rule is open.
LEMMA RecycleSound ==
  ASSUME NEW d, Good(d), Sound(d)
  PROVE  LET x == RecycleOpenAlarm(d) IN
         Sound(x) /\ OpenOfRule(x) = {} /\ x.lastEvent = d.lastEvent
<1>1. CASE OpenOfRule(d) = {}
  BY <1>1 DEF RecycleOpenAlarm
<1>2. CASE OpenOfRule(d) # {}
  <2> DEFINE e == OpenAlarmEvent(d)
             x == CloseAlarm(d, e, "recycled")
  <2>1. e \in EventIds /\ e \in OpenOfRule(d) /\ IsOpen(d, e)
    BY <1>2, OpenAlarmEventType DEF OpenOfRule
  <2>2. RecycleOpenAlarm(d) = x
    BY <1>2 DEF RecycleOpenAlarm
  <2>3. x.lastEvent = d.lastEvent
    BY DEF CloseAlarm, Good, Databases
  <2> HIDE DEF e
  <2>4. Sound(x) /\ OpenOfRule(x) = OpenOfRule(d) \ {e}
    BY <2>1, CloseAlarmSound DEF Sound, AllPursued, EventStates
  <2>5. OpenOfRule(x) = {}
    <3> HIDE DEF x
    <3> QED
      BY <2>1, <2>4 DEF Sound, Single
  <2> HIDE DEF x
  <2> QED
    BY <2>2, <2>3, <2>4, <2>5
<1> QED
  BY <1>1, <1>2

\* An alarm that stays open when it is confirmed has its repetition scheduled.
LEMMA AcknowledgeSound ==
  ASSUME NEW d, Good(d), Sound(d)
  PROVE  Sound(AcknowledgeDevice(d))
<1> DEFINE targets == {e \in OpenAlarms(d) : ~d.events[e].acked}
           S == {j \in Queued(d) : d.jobs[j].event \in targets /\ ~d.jobs[j].notice}
           R(e) == IF HysteresisOf(d, e) > 0 THEN HysteresisOf(d, e) ELSE NoRearm
           W(e) == IF IsManual(d, e) THEN "confirmed" ELSE "open"
           E == [e \in EventIds |->
             IF e \notin targets THEN d.events[e]
             ELSE [d.events[e] EXCEPT !.acked = TRUE, !.rearm = R(e), !.state = W(e)]]
           f == FinishAll(d, S, "cancelled")
           x == AcknowledgeDevice(d)
<1>1. d \in Databases /\ d.events \in [EventIds -> Events]
  BY DEF Good, Databases
<1>2. x = WithEvents(f, E, d.lastEvent)
  <2> HIDE DEF targets
  <2>1. FinishAll([d EXCEPT !.events = E], S, "cancelled")
          = [FinishAll(d, S, "cancelled") EXCEPT !.lastEvent = d.lastEvent, !.events = E]
    BY <1>1 DEF FinishAll, Databases
  <2> QED
    BY <2>1 DEF AcknowledgeDevice, WithEvents, targets
<1>3. S \in SUBSET Queued(d) /\ \A g \in EventIds \ targets : \A j \in S : d.jobs[j].event # g
  OBVIOUS
<1>4. \A e \in EventIds :
        /\ e \notin targets => E[e] = d.events[e]
        /\ e \in targets => /\ E[e].kind = d.events[e].kind
                            /\ E[e].rearm = R(e)
                            /\ d.events[e].state = "open"
  <2> HIDE DEF R, W
  <2>1. \A e \in targets : d.events[e].state = "open"
    BY DEF OpenAlarms, IsOpen
  <2> HIDE DEF targets
  <2> QED
    BY <1>1, <2>1 DEF Events
<1>5. \A e \in EventIds : d.events[e].state = "open" /\ e \notin targets => d.events[e].acked
  BY DEF OpenAlarms, IsOpen
<1>6. \A e \in EventIds : HysteresisOf(d, e) > 0 => R(e) # NoRearm
  BY ModemJobsAssumption DEF HysteresisOf, NoRearm
<1> HIDE DEF E, S, targets, R, x
<1>7. /\ Good(f) /\ Ordered(f)
      /\ f.last = d.last /\ f.events = d.events /\ f.lastEvent = d.lastEvent
  BY <1>3, CancelSound DEF Sound
<1> HIDE DEF f
<1>8. /\ x.jobs = f.jobs /\ x.last = d.last /\ x.events = E /\ x.lastEvent = d.lastEvent
  BY <1>2, <1>7 DEF WithEvents, Good, Databases
<1>9. Ordered(x)
  BY <1>7, <1>8 DEF Ordered, Unused, InOrder, CalledBefore
<1>10. Single(x)
  <2>1. OpenOfRule(x) \subseteq OpenOfRule(d)
    BY <1>4, <1>8 DEF OpenOfRule, IsOpen, OfRule
  <2>2. \A e \in EventIds : e > d.lastEvent => e \notin targets
    BY <1>4 DEF Sound, Single
  <2> QED
    BY <1>4, <1>8, <2>1, <2>2 DEF Sound, Single
<1>11. ASSUME NEW e \in EventIds, x.last <= MaxJobs PROVE Pursued(x, e)
  <2> SUFFICES ASSUME IsOpen(x, e), HysteresisOf(x, e) > 0 PROVE Rearmed(x, e)
    BY DEF Pursued
  <2>1. HysteresisOf(d, e) = HysteresisOf(x, e)
    BY <1>4, <1>8 DEF HysteresisOf
  <2>2. CASE e \in targets
    BY <1>4, <1>6, <1>8, <2>1, <2>2 DEF Rearmed
  <2>3. CASE e \notin targets
    <3>1. x.events[e] = d.events[e] /\ d.events[e].acked /\ IsOpen(d, e)
      BY <1>4, <1>5, <1>8, <2>3 DEF IsOpen
    <3>2. Pursued(d, e)
      BY <1>8, <1>11 DEF Sound, AllPursued
    <3> QED
      BY <2>1, <3>1, <3>2 DEF Pursued, Rearmed
  <2> QED
    BY <2>2, <2>3
<1> QED
  BY <1>9, <1>10, <1>11 DEF Sound, AllPursued, x

LEMMA WipeEventsSound ==
  ASSUME NEW d, Good(d), Sound(d)
  PROVE  Sound(WipeEvents(d))
<1> DEFINE x == WipeEvents(d)
           E == [e \in EventIds |->
             IF d.events[e].state = "none" THEN d.events[e]
                                           ELSE [d.events[e] EXCEPT !.state = "deleted"]]
<1>1. \A e \in EventIds : /\ E[e].state # "open"
                          /\ d.events[e].state = "none" => E[e].state = "none"
  BY DEF Good, Databases, Events
<1>2. x = [d EXCEPT !.events = E]
  BY DEF WipeEvents
<1> HIDE DEF E, x
<1>3. x.jobs = d.jobs /\ x.last = d.last /\ x.lastEvent = d.lastEvent /\ x.events = E
  BY <1>2 DEF Good, Databases
<1>4. Ordered(x)
  BY <1>3 DEF Sound, Ordered, Unused, InOrder, CalledBefore
<1>5. \A e : ~IsOpen(x, e)
  BY <1>1, <1>3 DEF IsOpen
<1>6. Single(x)
  BY <1>1, <1>3, <1>5 DEF Sound, Single, OpenOfRule
<1> QED
  BY <1>4, <1>5, <1>6 DEF Sound, AllPursued, Pursued, x

-----------------------------------------------------------------------------
(* The remaining operators on databases *)

LEMMA NoJobType ==
  ASSUME NEW cmd \in Commands
  PROVE  NoJob(cmd) \in Jobs /\ NoJob(cmd).status = "none" /\ NoJob(cmd).event = NoEvent
BY DEF NoJob, NewJob, Jobs, Statuses

LEMMA EmptyDatabaseGood == Good(EmptyDatabase)
<1> DEFINE x == EmptyDatabase
           row == [state |-> "none", kind |-> "rule", acked |-> FALSE, rearm |-> NoRearm]
<1>1. "test_sms" \in Commands
  BY DEF Commands
<1>2. row \in Events
  BY DEF Events, EventStates, Kinds
<1>3. x \in Databases
  <2>1. [j \in JobIds |-> NoJob("test_sms")] \in [JobIds -> Jobs]
    BY <1>1, NoJobType
  <2>2. [e \in EventIds |-> row] \in [EventIds -> Events]
    BY <1>2
  <2>3. 0 \in 0..MaxEvents
    BY ModemJobsAssumption
  <2> QED
    BY <2>1, <2>2, <2>3 DEF EmptyDatabase, Databases
<1>4. Queued(x) = {} /\ Sent(x) = {} /\ Active(x) = {}
  <2>1. \A j \in JobIds : x.jobs[j].status = "none"
    BY <1>1, NoJobType DEF EmptyDatabase
  <2> HIDE DEF x
  <2> QED
    BY <2>1 DEF Queued, Sent, Active, InStatus
<1> HIDE DEF x
<1>5. Limited(x)
  <2>1. Cardinality({}) = 0
    BY FS_EmptySet
  <2> QED
    BY <1>4, <2>1, ModemJobsAssumption DEF Limited
<1> QED
  BY <1>3, <1>4, <1>5 DEF Good, OneSent, Quiet, x

\* A lost transaction leaves the active jobs and the alarms as they were.
LEMMA RolledBackGood ==
  ASSUME NEW d, Good(d), NEW dd, Good(dd), Grows(d, dd)
  PROVE  LET x == RolledBack(d, dd) IN
         /\ Good(x) /\ x.events = d.events
         /\ \A j \in JobIds : \/ x.jobs[j] = d.jobs[j] /\ j \notin d.last + 1 .. dd.last
                              \/ x.jobs[j].status = "none" /\ x.jobs[j].event = NoEvent
<1> DEFINE x == RolledBack(d, dd)
           new == d.last + 1 .. dd.last
           J == [j \in JobIds |-> IF j \in new THEN NoJob(dd.jobs[j].cmd) ELSE d.jobs[j]]
<1>1. /\ d \in Databases /\ dd \in Databases /\ dd.last \in Nat
      /\ d.jobs \in [JobIds -> Jobs] /\ dd.jobs \in [JobIds -> Jobs]
  BY DEF Good, Databases
<1>2. \A j \in JobIds : dd.jobs[j].cmd \in Commands
  BY <1>1 DEF Jobs
<1>3. /\ J \in [JobIds -> Jobs]
      /\ \A j \in JobIds : \/ J[j] = d.jobs[j] /\ j \notin new
                           \/ J[j].status = "none" /\ J[j].event = NoEvent
  <2> HIDE DEF new
  <2> QED
    BY <1>1, <1>2, NoJobType
<1>4. x = [d EXCEPT !.last = dd.last, !.jobs = J]
  BY DEF RolledBack
<1> HIDE DEF J, x
<1>5. x \in Databases /\ x.jobs = J /\ x.events = d.events
  BY <1>1, <1>3, <1>4 DEF Databases
<1>6. \A j \in JobIds : \/ x.jobs[j] = d.jobs[j] /\ j \notin new
                        \/ x.jobs[j].status = "none" /\ x.jobs[j].event = NoEvent
  BY <1>3, <1>5
<1>7. Queued(x) \subseteq Queued(d) /\ Sent(x) \subseteq Sent(d)
  BY <1>6 DEF Queued, Sent, InStatus
<1>8. Quiet(x)
  <2> SUFFICES ASSUME NEW j \in Queued(x) PROVE MayWait(x, x.jobs[j])
    BY DEF Quiet
  <2>1. j \in Queued(d) /\ x.jobs[j] = d.jobs[j]
    BY <1>6, <1>7 DEF Queued, InStatus
  <2> QED
    BY <1>5, <2>1 DEF Good, Quiet, MayWait, Silenced
<1>9. Limited(x)
  BY <1>7, LimitedMono DEF Good, Active
<1> QED
  BY <1>5, <1>6, <1>7, <1>8, <1>9 DEF Good, OneSent, x

\* Time passing changes no status and silences nothing.
LEMMA ElapseTickGood ==
  ASSUME NEW d, Good(d)
  PROVE  Good(ElapseTick(d))
<1> DEFINE x == ElapseTick(d)
           J == [j \in JobIds |->
             [d.jobs[j] EXCEPT
               !.wait = IF @ > 0 THEN @ - 1 ELSE 0,
               !.age  = IF d.jobs[j].status = "sent" /\ ~Overdue(d.jobs[j]) THEN @ + 1 ELSE @]]
           E == [e \in EventIds |->
             [d.events[e] EXCEPT !.rearm = IF @ > 0 THEN @ - 1 ELSE @]]
<1>1. /\ d \in Databases
      /\ d.jobs \in [JobIds -> Jobs] /\ d.events \in [EventIds -> Events]
  BY DEF Good, Databases
<1>2. /\ J \in [JobIds -> Jobs]
      /\ \A j \in JobIds : /\ J[j].status = d.jobs[j].status
                           /\ J[j].event = d.jobs[j].event
                           /\ J[j].notice = d.jobs[j].notice
  <2> DEFINE W(j) == IF d.jobs[j].wait > 0 THEN d.jobs[j].wait - 1 ELSE 0
             A(j) == IF d.jobs[j].status = "sent" /\ ~Overdue(d.jobs[j])
                       THEN d.jobs[j].age + 1 ELSE d.jobs[j].age
  <2>1. \A j \in JobIds : W(j) \in Nat /\ A(j) \in Nat
    BY <1>1 DEF Jobs
  <2>2. J = [j \in JobIds |-> [d.jobs[j] EXCEPT !.wait = W(j), !.age = A(j)]]
    OBVIOUS
  <2> HIDE DEF W, A, J
  <2>3. \A j \in JobIds : J[j] = [d.jobs[j] EXCEPT !.wait = W(j), !.age = A(j)]
    BY <2>2
  <2>4. \A j \in JobIds : d.jobs[j] \in Jobs
    BY <1>1
  <2>5. \A j \in JobIds : /\ J[j] \in Jobs
                          /\ J[j].status = d.jobs[j].status
                          /\ J[j].event = d.jobs[j].event
                          /\ J[j].notice = d.jobs[j].notice
    BY <2>1, <2>3, <2>4 DEF Jobs
  <2> QED
    BY <2>2, <2>5
<1>3. /\ E \in [EventIds -> Events]
      /\ \A e \in EventIds : /\ E[e].acked = d.events[e].acked
                             /\ E[e].state = d.events[e].state
  BY <1>1 DEF Events, NoRearm
<1>4. x = [d EXCEPT !.jobs = J, !.events = E]
  BY DEF ElapseTick
<1> HIDE DEF J, E, x
<1>5. x \in Databases /\ x.jobs = J /\ x.events = E
  BY <1>1, <1>2, <1>3, <1>4 DEF Databases
<1>6. Queued(x) = Queued(d) /\ Sent(x) = Sent(d) /\ Active(x) = Active(d)
  BY <1>2, <1>5 DEF Queued, Sent, Active, InStatus
<1>7. Quiet(x)
  <2>1. \A e \in EventIds : Silenced(x, e) => Silenced(d, e)
    BY <1>3, <1>5 DEF Silenced
  <2> QED
    BY <1>1, <1>2, <1>5, <1>6, <2>1, QuietMono DEF Good
<1> QED
  BY <1>5, <1>6, <1>7 DEF Good, OneSent, Limited, x

\* A lost transaction leaves the alarms and their jobs as they were.
LEMMA RolledBackSound ==
  ASSUME NEW d, Good(d), Sound(d), NEW dd, Good(dd), d.last <= dd.last
  PROVE  Sound(RolledBack(d, dd)) /\ RolledBack(d, dd).last = dd.last
<1> DEFINE x == RolledBack(d, dd)
           new == d.last + 1 .. dd.last
           J == [j \in JobIds |-> IF j \in new THEN NoJob(dd.jobs[j].cmd) ELSE d.jobs[j]]
<1>1. /\ d \in Databases /\ d.last \in Nat /\ dd.last \in Nat
      /\ d.jobs \in [JobIds -> Jobs]
  BY DEF Good, Databases
<1>2. \A j \in JobIds : /\ j \notin new => J[j] = d.jobs[j]
                        /\ j \in new => J[j].status = "none" /\ J[j].phone = 0
  <2> HIDE DEF new
  <2> QED
    BY DEF NoJob, NewJob
<1>3. x = [d EXCEPT !.last = dd.last, !.jobs = J]
  BY DEF RolledBack
<1>4. \A j \in JobIds : j \in Nat /\ (j \in new <=> j > d.last /\ j <= dd.last)
  BY <1>1, ModemJobsAssumption DEF JobIds
<1> HIDE DEF J, x, new
<1>5. x.jobs = J /\ x.last = dd.last /\ x.events = d.events /\ x.lastEvent = d.lastEvent
  BY <1>1, <1>3 DEF Databases
<1>6. \A j \in JobIds : d.jobs[j].status # "none" \/ d.jobs[j].phone > 0 => x.jobs[j] = d.jobs[j]
  BY <1>1, <1>2, <1>4, <1>5 DEF Sound, Ordered, Unused
<1>7. Unused(x)
  BY <1>1, <1>2, <1>4, <1>5 DEF Sound, Ordered, Unused
<1>8. InOrder(x)
  <2> SUFFICES ASSUME NEW j \in JobIds, x.jobs[j].phone > 0
               PROVE  \E i \in JobIds : i < j /\ CalledBefore(x, i, x.jobs[j])
    BY DEF InOrder
  <2>1. x.jobs[j] = d.jobs[j]
    BY <1>2, <1>5
  <2>2. PICK i \in JobIds : i < j /\ CalledBefore(d, i, d.jobs[j])
    BY <2>1 DEF Sound, Ordered, InOrder
  <2>3. CalledBefore(x, i, x.jobs[j])
    BY <1>6, <2>1, <2>2 DEF CalledBefore
  <2> QED
    BY <2>2, <2>3
<1>9. Single(x)
  BY <1>5, SameAlarmsSingle DEF SameAlarms, Sound
<1>10. ASSUME NEW e \in EventIds, x.last <= MaxJobs PROVE Pursued(x, e)
  <2>1. Pursued(d, e)
    BY <1>1, <1>5, <1>10, ModemJobsAssumption DEF Sound, AllPursued
  <2>2. \A j \in JobIds : WorksFor(d, j, e) => WorksFor(x, j, e)
    BY <1>6 DEF WorksFor
  <2> QED
    BY <1>5, <2>1, <2>2, PursuedMono DEF Rearmed
<1> QED
  BY <1>5, <1>7, <1>8, <1>9, <1>10 DEF Sound, Ordered, AllPursued, x

\* Time only ages what is in flight and never runs out of a repetition.
LEMMA ElapseTickSound ==
  ASSUME NEW d, Good(d), Sound(d)
  PROVE  Sound(ElapseTick(d)) /\ ElapseTick(d).last = d.last
<1> DEFINE x == ElapseTick(d)
           w(j) == IF d.jobs[j].wait > 0 THEN d.jobs[j].wait - 1 ELSE 0
           a(j) == IF d.jobs[j].status = "sent" /\ ~Overdue(d.jobs[j])
                     THEN d.jobs[j].age + 1 ELSE d.jobs[j].age
           r(e) == IF d.events[e].rearm > 0 THEN d.events[e].rearm - 1 ELSE d.events[e].rearm
           J == [j \in JobIds |-> [d.jobs[j] EXCEPT !.wait = w(j), !.age = a(j)]]
           E == [e \in EventIds |-> [d.events[e] EXCEPT !.rearm = r(e)]]
<1>1. /\ d \in Databases /\ d.last \in Nat
      /\ d.jobs \in [JobIds -> Jobs] /\ d.events \in [EventIds -> Events]
  BY DEF Good, Databases
<1>2. x = [d EXCEPT !.jobs = J, !.events = E]
  BY DEF ElapseTick
<1>3. \A j \in JobIds : d.jobs[j].status # "sent" => a(j) = d.jobs[j].age
  OBVIOUS
<1>4. \A e \in EventIds : d.events[e].rearm # NoRearm => r(e) # NoRearm
  BY <1>1 DEF Events, NoRearm
<1> HIDE DEF w, a, r
<1>5. \A j \in JobIds : /\ J[j].status = d.jobs[j].status
                        /\ J[j].cmd = d.jobs[j].cmd
                        /\ J[j].event = d.jobs[j].event
                        /\ J[j].phone = d.jobs[j].phone
                        /\ d.jobs[j].status # "sent" => J[j].age = d.jobs[j].age
  BY <1>1, <1>3 DEF Jobs
<1>6. \A e \in EventIds : /\ E[e].state = d.events[e].state
                          /\ E[e].kind = d.events[e].kind
                          /\ E[e].acked = d.events[e].acked
                          /\ d.events[e].rearm # NoRearm => E[e].rearm # NoRearm
  BY <1>1, <1>4 DEF Events
<1> HIDE DEF J, E, x
<1>7. x.jobs = J /\ x.last = d.last /\ x.events = E /\ x.lastEvent = d.lastEvent
  BY <1>1, <1>2 DEF Databases
<1>8. Unused(x)
  BY <1>5, <1>7 DEF Sound, Ordered, Unused
<1>9. InOrder(x)
  <2> SUFFICES ASSUME NEW j \in JobIds, x.jobs[j].phone > 0
               PROVE  \E i \in JobIds : i < j /\ CalledBefore(x, i, x.jobs[j])
    BY DEF InOrder
  <2>1. PICK i \in JobIds : i < j /\ CalledBefore(d, i, d.jobs[j])
    BY <1>5, <1>7 DEF Sound, Ordered, InOrder
  <2>2. CalledBefore(x, i, x.jobs[j])
    BY <1>5, <1>7, <2>1 DEF CalledBefore
  <2> QED
    BY <2>1, <2>2
<1>10. Single(x)
  BY <1>6, <1>7, SameAlarmsSingle DEF SameAlarms, Sound
<1>11. ASSUME NEW e \in EventIds, x.last <= MaxJobs PROVE Pursued(x, e)
  <2>1. Pursued(d, e)
    BY <1>7, <1>11 DEF Sound, AllPursued
  <2>2. \A j \in JobIds : WorksFor(d, j, e) => WorksFor(x, j, e)
    BY <1>5, <1>7 DEF WorksFor
  <2> QED
    BY <1>6, <1>7, <2>1, <2>2, PursuedMono DEF Rearmed
<1> QED
  BY <1>7, <1>8, <1>9, <1>10, <1>11 DEF Sound, Ordered, AllPursued, x

-----------------------------------------------------------------------------
(* Transactions *)

IInv == TypeOK /\ Good(db)

\* What a step has to establish.
Safe == IInv' /\ CommandsAllowed

\* What leaves for the device is what db and d tell apart.
LEMMA DeliverType ==
  ASSUME TypeOK, NEW d, Deliver(d)
  PROVE  /\ inbox' \in [JobIds -> Nat]
         /\ \A j \in JobIds : inbox'[j] > inbox[j] => j \in Published(db, d)
BY DEF TypeOK, Deliver

\* What leaves for the device while db becomes d, whether d is committed or lost,
\* speaks for no silenced alarm.
LEMMA CommitSafe ==
  ASSUME IInv, NEW d, Reaches(db, d), db' = d,
         \A j \in JobIds : inbox'[j] > inbox[j] => j \in Published(db, d)
  PROVE  Good(db)' /\ CommandsAllowed
<1>1. Good(db)'
  BY DEF Reaches
<1>2. ASSUME NEW j \in JobIds, inbox'[j] > inbox[j]
      PROVE  MayWait(d, d.jobs[j])
  BY <1>2 DEF Published, Reaches
<1> QED
  BY <1>1, <1>2 DEF CommandsAllowed, MayWait

LEMMA LoseSafe ==
  ASSUME IInv, NEW d, Reaches(db, d), db' = RolledBack(db, d),
         \A j \in JobIds : inbox'[j] > inbox[j] => j \in Published(db, d)
  PROVE  Good(db)' /\ CommandsAllowed
<1> DEFINE x == RolledBack(db, d)
<1>1. /\ Good(x) /\ x.events = db.events
      /\ \A j \in JobIds : \/ x.jobs[j] = db.jobs[j] /\ j \notin db.last + 1 .. d.last
                           \/ x.jobs[j].status = "none" /\ x.jobs[j].event = NoEvent
  BY RolledBackGood DEF IInv, Reaches
<1> HIDE DEF x
<1>2. ASSUME NEW j \in JobIds, inbox'[j] > inbox[j], x.jobs[j].event # NoEvent,
             ~x.jobs[j].notice
      PROVE  ~Silenced(x, x.jobs[j].event)
  <2>1. x.jobs[j] = db.jobs[j] /\ j \notin db.last + 1 .. d.last
    BY <1>1, <1>2
  <2>2. j \in Sent(d) /\ j \notin Sent(db)
    BY <1>2 DEF Published
  <2>3. j \in Queued(db)
    BY <2>1, <2>2 DEF Reaches, Grows, Active
  <2> QED
    BY <1>1, <1>2, <2>1, <2>3 DEF IInv, Good, Quiet, MayWait, Silenced
<1> QED
  BY <1>1, <1>2 DEF CommandsAllowed, x

\* A transaction is safe if what it computes is reachable in the sense above.
LEMMA TransactSafe ==
  ASSUME IInv, NEW d, Reaches(db, d), Transact(d)
  PROVE  Good(db)' /\ CommandsAllowed /\ inbox' \in [JobIds -> Nat] /\ mishaps' \in Nat
<1>1. CASE Commit(d)
  <2>1. mishaps' \in Nat
    BY <1>1 DEF Commit, IInv, TypeOK
  <2> QED
    BY <1>1, <2>1, DeliverType, CommitSafe DEF Commit, IInv
<1>2. CASE LoseAfterPublish(d)
  <2>1. mishaps' \in Nat
    BY <1>2 DEF LoseAfterPublish, IInv, TypeOK
  <2> QED
    BY <1>2, <2>1, DeliverType, LoseSafe DEF LoseAfterPublish, IInv
<1> QED
  BY <1>1, <1>2 DEF Transact

\* A step that publishes nothing and rewrites the database.
LEMMA QuietStepSafe ==
  ASSUME IInv, Reaches(db, db'), UNCHANGED inbox
  PROVE  Good(db)' /\ CommandsAllowed
<1>1. \A j \in JobIds : ~(inbox'[j] > inbox[j])
  BY DEF IInv, TypeOK
<1> QED
  BY <1>1 DEF Reaches, CommandsAllowed

\* A step that leaves the database alone and puts no command on its way.
LEMMA IdleSafe ==
  ASSUME IInv, UNCHANGED db,
         \A j \in JobIds : ~(inbox'[j] > inbox[j])
  PROVE  Good(db)' /\ CommandsAllowed
BY DEF IInv, CommandsAllowed

\* Whatever is made of a reachable database by pumping it is reachable.
LEMMA PumpOfOne ==
  ASSUME NEW d, Good(d), NEW x, Reaches(d, x), NEW y \in Pumped({x})
  PROVE  Reaches(d, y)
BY PumpedReaches

LEMMA CompleteReaches ==
  ASSUME NEW d, Good(d), NEW j \in JobIds
  PROVE  Reaches(d, CompleteModemJob(d, j))
BY CompleteModemJobFollows, ReachesReflexive, ReachesThenFollows

\* Taking a copy from the device or giving it one.
LEMMA RunningType ==
  ASSUME IInv, NEW j \in JobIds
  PROVE  /\ [running EXCEPT ![j] = @ + 1] \in [JobIds -> Nat]
         /\ running[j] > 0 => [running EXCEPT ![j] = @ - 1] \in [JobIds -> Nat]
         /\ inbox[j] > 0 =>
              /\ [inbox EXCEPT ![j] = @ - 1] \in [JobIds -> Nat]
              /\ \A i \in JobIds : ~([inbox EXCEPT ![j] = @ - 1][i] > inbox[i])
<1>1. inbox \in [JobIds -> Nat] /\ running \in [JobIds -> Nat]
  BY DEF IInv, TypeOK
<1>2. \A i \in JobIds : inbox[i] \in Nat /\ running[i] \in Nat
  BY <1>1
<1> QED
  BY <1>1, <1>2

-----------------------------------------------------------------------------
(* One lemma per action *)

LEMMA PumpDueSafe ==
  ASSUME IInv, PumpDue
  PROVE  Safe
<1>1. PICK d \in Pumped({db}) : Transact(d)
  BY DEF PumpDue
<1>2. Reaches(db, d)
  BY ReachesReflexive, PumpOfOne DEF IInv
<1> QED
  BY <1>1, <1>2, TransactSafe DEF PumpDue, Safe, IInv, TypeOK, Good

LEMMA TelemetryInRangeSafe ==
  ASSUME IInv, TelemetryInRange
  PROVE  Safe
<1>1. since' \in Nat \cup {NotHolding} /\ gate' \in Nat
  BY ModemJobsAssumption DEF TelemetryInRange, IInv, TypeOK
<1>2. PICK d : Reaches(db, d) /\ Transact(d)
  <2>1. CASE MayNormalise
    <3>1. PICK d \in Pumped(NormaliseAlarm(db, OpenAlarmEvent(db))) : Transact(d)
      BY <2>1 DEF TelemetryInRange
    <3>2. OpenAlarmEvent(db) \in EventIds
      BY <2>1, OpenAlarmEventType DEF MayNormalise
    <3>3. \A x \in NormaliseAlarm(db, OpenAlarmEvent(db)) : Reaches(db, x)
      BY <3>2, NormaliseAlarmReaches DEF IInv
    <3>4. Reaches(db, d)
      BY <3>3, PumpedReaches DEF IInv
    <3> QED
      BY <3>1, <3>4
  <2>2. CASE ~MayNormalise
    <3>1. PICK d \in Pumped({db}) : Transact(d)
      BY <2>2 DEF TelemetryInRange
    <3> QED
      BY <3>1, ReachesReflexive, PumpOfOne DEF IInv
  <2> QED
    BY <2>1, <2>2
<1> QED
  BY <1>1, <1>2, TransactSafe DEF TelemetryInRange, Safe, IInv, TypeOK, Good

LEMMA TelemetryWhileOpenSafe ==
  ASSUME IInv, TelemetryWhileOpen
  PROVE  Safe
<1>1. PICK d \in Pumped({db}) : Transact(d)
  BY DEF TelemetryWhileOpen
<1>2. Reaches(db, d)
  BY ReachesReflexive, PumpOfOne DEF IInv
<1> QED
  BY <1>1, <1>2, TransactSafe DEF TelemetryWhileOpen, Safe, IInv, TypeOK, Good

LEMMA TelemetryHeldBackSafe ==
  ASSUME IInv, TelemetryHeldBack
  PROVE  Safe
<1>1. PICK d \in Pumped({RecycleOpenAlarm(db)}) : Transact(d)
  BY DEF TelemetryHeldBack
<1>2. Reaches(db, d)
  BY RecycleReaches, PumpOfOne DEF IInv
<1>3. since' \in Nat \cup {NotHolding}
  BY DEF TelemetryHeldBack, IInv, TypeOK
<1> QED
  BY <1>1, <1>2, <1>3, TransactSafe DEF TelemetryHeldBack, Safe, IInv, TypeOK, Good

LEMMA TelemetryFiresSafe ==
  ASSUME IInv, TelemetryFires
  PROVE  Safe
<1> DEFINE f == RecycleOpenAlarm(db)
<1>1. PICK d \in Pumped(DispatchAlarm(f, "rule")) : Transact(d)
  BY DEF TelemetryFires
<1>2. Reaches(db, f) /\ Good(f) /\ Sent(f) \subseteq Sent(db)
  BY RecycleReaches DEF IInv, Reaches
<1>3. f.lastEvent < MaxEvents
  BY DEF TelemetryFires, RecycleOpenAlarm, CloseAlarm, IInv, TypeOK, Databases
<1>4. "rule" \in Kinds
  BY DEF Kinds
<1> HIDE DEF f
<1>5. \A x \in DispatchAlarm(f, "rule") : Reaches(f, x)
  BY <1>2, <1>3, <1>4, DispatchAlarmReaches
<1>6. Reaches(f, d)
  BY <1>1, <1>2, <1>5, PumpedReaches
<1>7. Reaches(db, d)
  <2>1. Grows(db, d)
    BY <1>2, <1>6, GrowsTransitive DEF Reaches, IInv
  <2> QED
    BY <1>2, <1>6, <2>1 DEF Reaches
<1>8. since' \in Nat \cup {NotHolding} /\ gate' \in Nat
  BY DEF TelemetryFires, IInv, TypeOK
<1> QED
  BY <1>1, <1>7, <1>8, TransactSafe DEF TelemetryFires, Safe, IInv, TypeOK, Good

LEMMA AnswerArrivesSafe ==
  ASSUME IInv, NEW j \in JobIds, AnswerArrives(j)
  PROVE  Safe
<1>1. running' \in [JobIds -> Nat]
  BY RunningType DEF AnswerArrives
<1>2. CASE archived
  <2>1. \A i \in JobIds : ~(inbox'[i] > inbox[i])
    BY <1>2 DEF AnswerArrives, IInv, TypeOK
  <2> QED
    BY <1>1, <1>2, <2>1, IdleSafe DEF AnswerArrives, Safe, IInv, TypeOK, Good
<1>3. CASE ~archived
  <2>1. PICK d \in Pumped({CompleteModemJob(db, j)}) : Transact(d)
    BY <1>3 DEF AnswerArrives
  <2>2. Reaches(db, d)
    BY CompleteReaches, PumpOfOne DEF IInv
  <2> QED
    BY <1>1, <2>1, <2>2, TransactSafe DEF AnswerArrives, Safe, IInv, TypeOK, Good
<1> QED
  BY <1>2, <1>3

LEMMA AnswerIsRepeatedSafe ==
  ASSUME IInv, NEW j \in JobIds, AnswerIsRepeated(j)
  PROVE  Safe
<1>1. PICK d \in Pumped({CompleteModemJob(db, j)}) :
        d.last <= MaxJobs /\ db' = d /\ Deliver(d)
  BY DEF AnswerIsRepeated
<1>2. Reaches(db, d)
  BY CompleteReaches, PumpOfOne DEF IInv
<1>3. /\ inbox' \in [JobIds -> Nat]
      /\ \A i \in JobIds : inbox'[i] > inbox[i] => i \in Published(db, d)
  BY <1>1, DeliverType DEF IInv
<1>4. Good(db)' /\ CommandsAllowed
  BY <1>1, <1>2, <1>3, CommitSafe
<1> QED
  BY <1>3, <1>4 DEF AnswerIsRepeated, Safe, IInv, TypeOK, Good

LEMMA InboundOkSafe ==
  ASSUME IInv, InboundOk
  PROVE  Safe
<1>1. PICK d \in Pumped({AcknowledgeDevice(db)}) : Transact(d)
  BY DEF InboundOk
<1>2. Reaches(db, d)
  BY AcknowledgeReaches, PumpOfOne DEF IInv
<1> QED
  BY <1>1, <1>2, TransactSafe DEF InboundOk, Safe, IInv, TypeOK, Good

LEMMA TriggerAlarmSafe ==
  ASSUME IInv, NEW kind \in PanelKinds, TriggerAlarm(kind)
  PROVE  Safe
<1>1. kind \in Kinds
  BY AlarmSystemAssumption DEF Kinds
<1>2. PICK d \in DispatchAlarm(db, kind) : Transact(d)
  BY DEF TriggerAlarm
<1>3. Reaches(db, d)
  BY <1>1, <1>2, DispatchAlarmReaches DEF TriggerAlarm, IInv
<1> QED
  BY <1>2, <1>3, TransactSafe DEF TriggerAlarm, Safe, IInv, TypeOK, Good

LEMMA TestModemSafe ==
  ASSUME IInv, NEW cmd \in Commands, TestModem(cmd)
  PROVE  Safe
<1> DEFINE job == NewJob(cmd, NoEvent)
           x == EnqueueModemJobs(db, 1, job)
<1>1. PICK d \in Pumped({x}) : Transact(d)
  BY DEF TestModem
<1>2. job \in Jobs
  BY NewJobType
<1>3. MayWait(db, job)
  BY DEF MayWait, NewJob
<1> HIDE DEF job
<1>4. Reaches(db, x)
  BY <1>2, <1>3, ReachesReflexive, EnqueueReaches DEF IInv
<1> HIDE DEF x
<1>5. Reaches(db, d)
  BY <1>4, PumpOfOne DEF IInv
<1> QED
  BY <1>1, <1>5, TransactSafe DEF TestModem, Safe, IInv, TypeOK, Good

LEMMA AcknowledgeSafe ==
  ASSUME IInv, db' = AcknowledgeDevice(db),
         UNCHANGED <<bad, since, gate, archived, inbox, running, mishaps>>
  PROVE  Safe
<1>1. Reaches(db, db')
  BY AcknowledgeReaches DEF IInv
<1> QED
  BY <1>1, QuietStepSafe DEF Safe, IInv, TypeOK, Good

LEMMA ClearEventsSafe ==
  ASSUME IInv, ClearEvents
  PROVE  Safe
<1>1. Reaches(db, db')
  BY WipeEventsReaches DEF ClearEvents, IInv
<1> QED
  BY <1>1, QuietStepSafe DEF ClearEvents, Safe, IInv, TypeOK, Good

LEMMA StartSmsSafe ==
  ASSUME IInv, NEW j \in JobIds, StartSms(j)
  PROVE  Safe
<1>1. /\ inbox' \in [JobIds -> Nat] /\ running' \in [JobIds -> Nat]
      /\ \A i \in JobIds : ~(inbox'[i] > inbox[i])
  BY RunningType DEF StartSms
<1> QED
  BY <1>1, IdleSafe DEF StartSms, Safe, IInv, TypeOK, Good

LEMMA StartCallSafe ==
  ASSUME IInv, NEW j \in JobIds, StartCall(j)
  PROVE  Safe
<1>1. running' \in [JobIds -> Nat] /\ inbox[j] > 0
  BY RunningType DEF StartCall
<1>2. CASE /\ inbox' = [inbox EXCEPT ![j] = @ - 1]
           /\ UNCHANGED db
  <2>1. /\ inbox' \in [JobIds -> Nat]
        /\ \A i \in JobIds : ~(inbox'[i] > inbox[i])
    BY <1>1, <1>2, RunningType
  <2> QED
    BY <1>1, <1>2, <2>1, IdleSafe DEF StartCall, Safe, IInv, TypeOK, Good
<1>3. ASSUME NEW final \in BOOLEAN,
             NEW d \in Pumped({IF final THEN CompleteUnnamed(db, "test_call") ELSE db}),
             db' = d,
             inbox' = [i \in JobIds |->
                inbox[i] + (IF i \in Published(db, d) THEN 1 ELSE 0)
                         - (IF i = j THEN 1 ELSE 0)]
      PROVE  Safe
  <2> DEFINE x == IF final THEN CompleteUnnamed(db, "test_call") ELSE db
  <2>1. Reaches(db, x)
    BY CompleteUnnamedFollows, ReachesReflexive, ReachesThenFollows DEF IInv
  <2>2. Reaches(db, d)
    <3>1. d \in Pumped({x})
      BY <1>3
    <3> HIDE DEF x
    <3> QED
      BY <2>1, <3>1, PumpOfOne DEF IInv
  <2>3. /\ inbox' \in [JobIds -> Nat]
        /\ \A i \in JobIds : inbox'[i] > inbox[i] => i \in Published(db, d)
    BY <1>1, <1>3 DEF IInv, TypeOK
  <2>4. Good(db)' /\ CommandsAllowed
    BY <1>3, <2>2, <2>3, CommitSafe
  <2> QED
    BY <1>1, <2>3, <2>4 DEF StartCall, Safe, IInv, TypeOK, Good
<1>4. CASE /\ ~archived
           /\ \E final \in {IsFinalCallEvent(m) : m \in CallProgress} :
                \E d \in Pumped({IF final THEN CompleteUnnamed(db, "test_call") ELSE db}) :
                  /\ d.last <= MaxJobs
                  /\ db' = d
                  /\ inbox' = [i \in JobIds |->
                       inbox[i] + (IF i \in Published(db, d) THEN 1 ELSE 0)
                                - (IF i = j THEN 1 ELSE 0)]
  <2>1. \A final \in {IsFinalCallEvent(m) : m \in CallProgress} : final \in BOOLEAN
    BY DEF IsFinalCallEvent
  <2> QED
    BY <1>3, <1>4, <2>1
<1> QED
  BY <1>2, <1>4 DEF StartCall

LEMMA LoseCommandSafe ==
  ASSUME IInv, NEW j \in JobIds, LoseCommand(j)
  PROVE  Safe
<1>1. /\ inbox' \in [JobIds -> Nat]
      /\ \A i \in JobIds : ~(inbox'[i] > inbox[i])
  BY RunningType DEF LoseCommand
<1> QED
  BY <1>1, IdleSafe DEF LoseCommand, Safe, IInv, TypeOK, Good

LEMMA TickSafe ==
  ASSUME IInv, Tick
  PROVE  Safe
<1>1. Good(db)'
  BY ElapseTickGood DEF Tick, IInv
<1>2. since' \in Nat \cup {NotHolding} /\ gate' \in Nat
  BY DEF Tick, IInv, TypeOK, NotHolding
<1>3. CommandsAllowed
  BY DEF Tick, IInv, TypeOK, CommandsAllowed
<1> QED
  BY <1>1, <1>2, <1>3 DEF Tick, Safe, IInv, TypeOK, Good

\* The steps that touch neither the database nor what is on its way.
LEMMA OtherStepsSafe ==
  ASSUME IInv,
         \/ ForgetTimers \/ ArchiveDevice \/ RestoreDevice \/ ReadingChanges
         \/ \E j \in JobIds : LoseAnswer(j)
         \/ UNCHANGED vars
  PROVE  Safe
<1>1. UNCHANGED <<db, inbox>>
  BY DEF ForgetTimers, ArchiveDevice, RestoreDevice, ReadingChanges, LoseAnswer, vars
<1>2. Good(db)' /\ CommandsAllowed
  BY <1>1, IdleSafe DEF IInv, TypeOK
<1>3. running' \in [JobIds -> Nat]
  <2>1. CASE \E j \in JobIds : LoseAnswer(j)
    BY <2>1, RunningType DEF LoseAnswer
  <2>2. CASE UNCHANGED running
    BY <2>2 DEF IInv, TypeOK
  <2> QED
    BY <2>1, <2>2 DEF ForgetTimers, ArchiveDevice, RestoreDevice, ReadingChanges, vars
<1>4. /\ bad' \in BOOLEAN /\ archived' \in BOOLEAN /\ mishaps' \in Nat
      /\ since' \in Nat \cup {NotHolding} /\ gate' \in Nat
  <2>1. mishaps \in Nat /\ mishaps + 1 \in Nat /\ NotHolding \in Nat \cup {NotHolding}
    BY DEF IInv, TypeOK
  <2>2. /\ bad \in BOOLEAN /\ archived \in BOOLEAN
        /\ since \in Nat \cup {NotHolding} /\ gate \in Nat
    BY DEF IInv, TypeOK
  <2>3. bad' \in BOOLEAN
    <3>1. CASE ReadingChanges
      BY <3>1 DEF ReadingChanges
    <3>2. CASE UNCHANGED bad
      BY <2>2, <3>2
    <3> QED
      BY <3>1, <3>2 DEF ForgetTimers, ArchiveDevice, RestoreDevice, LoseAnswer, vars
  <2>4. archived' \in BOOLEAN
    BY <2>2 DEF ForgetTimers, ArchiveDevice, RestoreDevice, ReadingChanges, LoseAnswer,
                vars
  <2>5. mishaps' \in Nat /\ since' \in Nat \cup {NotHolding} /\ gate' \in Nat
    BY <2>1, <2>2
       DEF ForgetTimers, ArchiveDevice, RestoreDevice, ReadingChanges, LoseAnswer, vars
  <2> QED
    BY <2>3, <2>4, <2>5
<1> QED
  BY <1>1, <1>2, <1>3, <1>4 DEF Safe, IInv, TypeOK, Good

-----------------------------------------------------------------------------
(* The theorems *)

LEMMA InitSafe == Init => IInv
<1> SUFFICES ASSUME Init PROVE IInv
  OBVIOUS
<1>1. Good(db)
  BY EmptyDatabaseGood DEF Init
<1> QED
  BY <1>1 DEF Init, IInv, TypeOK, Good

LEMMA StepSafe == IInv /\ [Next]_vars => IInv' /\ CommandsAllowed
<1> SUFFICES ASSUME IInv, [Next]_vars PROVE Safe
  BY DEF Safe
<1>1. CASE Worker
  <2>1. CASE Telemetry
    BY <2>1, TelemetryInRangeSafe, TelemetryWhileOpenSafe, TelemetryHeldBackSafe,
       TelemetryFiresSafe DEF Telemetry
  <2>2. CASE \E j \in JobIds : AnswerArrives(j) \/ AnswerIsRepeated(j)
    BY <2>2, AnswerArrivesSafe, AnswerIsRepeatedSafe
  <2> QED
    BY <1>1, <2>1, <2>2, PumpDueSafe, InboundOkSafe, OtherStepsSafe DEF Worker
<1>2. CASE Panel
  <2>1. CASE \E e \in EventIds : AckByLink(e) \/ AckByPanelOrReply(e)
    BY <2>1, AcknowledgeSafe DEF AckByLink, AckByPanelOrReply
  <2> QED
    BY <1>2, <2>1, TriggerAlarmSafe, TestModemSafe, ClearEventsSafe, OtherStepsSafe
       DEF Panel
<1>3. CASE DeviceAndWorld
  BY <1>3, StartSmsSafe, StartCallSafe, LoseCommandSafe, OtherStepsSafe, TickSafe
     DEF DeviceAndWorld
<1>4. CASE UNCHANGED vars
  BY <1>4, OtherStepsSafe
<1> QED
  BY <1>1, <1>2, <1>3, <1>4 DEF Next

LEMMA Invariance == Spec => []IInv
BY InitSafe, StepSafe, PTL DEF Spec

\* The variables keep their types.
THEOREM TypeCorrect == Spec => []TypeOK
<1>1. IInv => TypeOK
  BY DEF IInv
<1> QED
  BY <1>1, Invariance, PTL

\* Once an alarm is silenced nothing of it but its closing notice is queued:
\* cancel_alarm_jobs empties the queue and _maybe_escalate_call does not refill it.
THEOREM SilenceHolds == Spec => []SilencedStaysQuiet
<1>1. IInv => SilencedStaysQuiet
  BY DEF IInv, Good, Quiet, MayWait, SilencedStaysQuiet
<1> QED
  BY <1>1, Invariance, PTL

\* No command is published for a silenced alarm, even by a transaction that is
\* lost before it commits.
THEOREM CommandsHold == Spec => NoCommandForSilenced
<1>1. IInv /\ [Next]_vars => [CommandsAllowed]_vars
  BY StepSafe
<1> QED
  BY <1>1, Invariance, PTL DEF Spec, NoCommandForSilenced

-----------------------------------------------------------------------------
(* Alarms are single, pursued and called in order *)

Whole == db.last <= MaxJobs /\ Sound(db)

LEMMA InitWhole == Init => Whole
<1> SUFFICES ASSUME Init PROVE Whole
  OBVIOUS
<1>1. /\ db.last = 0
      /\ \A j \in JobIds : db.jobs[j].status = "none" /\ db.jobs[j].phone = 0
      /\ \A e \in EventIds : db.events[e].state = "none"
  BY DEF Init, EmptyDatabase, NoJob, NewJob
<1>2. Ordered(db)
  BY <1>1 DEF Ordered, Unused, InOrder
<1>3. \A e : ~IsOpen(db, e)
  BY <1>1 DEF IsOpen
<1>4. Single(db)
  BY <1>1, <1>3 DEF Single, OpenOfRule
<1> QED
  BY <1>1, <1>2, <1>3, <1>4, ModemJobsAssumption DEF Whole, Sound, AllPursued, Pursued

LEMMA TransactWhole ==
  ASSUME IInv, Whole, NEW d, Reaches(db, d), Sound(d), Transact(d)
  PROVE  Whole'
<1>1. CASE Commit(d)
  BY <1>1 DEF Commit, Whole
<1>2. CASE LoseAfterPublish(d)
  <2>1. db' = RolledBack(db, d) /\ d.last <= MaxJobs
    BY <1>2 DEF LoseAfterPublish
  <2>2. Good(db) /\ Sound(db) /\ Good(d) /\ db.last <= d.last
    BY DEF IInv, Whole, Reaches, Grows
  <2>3. Sound(RolledBack(db, d)) /\ RolledBack(db, d).last = d.last
    BY <2>2, RolledBackSound
  <2> QED
    BY <2>1, <2>3 DEF Whole
<1> QED
  BY <1>1, <1>2 DEF Transact

\* What becomes of a database when the queue of a sound one it reaches is pumped.
LEMMA PumpOfOneSound ==
  ASSUME NEW d, Good(d), NEW x, Reaches(d, x), Sound(x), NEW y \in Pumped({x})
  PROVE  Reaches(d, y) /\ Sound(y)
<1>1. Reaches(d, y)
  BY PumpOfOne
<1>2. Sound(y)
  BY PumpedSound DEF Reaches
<1> QED
  BY <1>1, <1>2

LEMMA CompleteSound ==
  ASSUME NEW d, Good(d), Sound(d), NEW j \in JobIds
  PROVE  Sound(CompleteModemJob(d, j))
BY CompleteModemJobKeeps, KeepsSound DEF Sound

LEMMA TelemetryWhole ==
  ASSUME IInv, Whole, Telemetry
  PROVE  Whole'
<1>1. Good(db) /\ Sound(db) /\ Reaches(db, db)
  BY ReachesReflexive DEF IInv, Whole
<1>2. CASE TelemetryInRange /\ MayNormalise
  <2> DEFINE e == OpenAlarmEvent(db)
             S == NormaliseAlarm(db, e)
  <2>1. PICK d \in Pumped(S) : Transact(d)
    BY <1>2 DEF TelemetryInRange
  <2>2. e \in EventIds /\ IsOpen(db, e)
    BY <1>2, OpenAlarmEventType DEF MayNormalise, OpenOfRule
  <2> HIDE DEF e
  <2>3. \A x \in S : Reaches(db, x) /\ Sound(x) /\ Good(x)
    BY <1>1, <2>2, NormaliseAlarmReaches, NormaliseAlarmSound DEF Reaches
  <2> HIDE DEF S
  <2>4. Reaches(db, d) /\ Sound(d)
    BY <1>1, <2>3, PumpedReaches, PumpedSound
  <2> QED
    BY <2>1, <2>4, TransactWhole
<1>3. CASE (TelemetryInRange /\ ~MayNormalise) \/ TelemetryWhileOpen
  <2>1. PICK d \in Pumped({db}) : Transact(d)
    BY <1>3 DEF TelemetryInRange, TelemetryWhileOpen
  <2> QED
    BY <1>1, <2>1, PumpOfOneSound, TransactWhole
<1>4. CASE TelemetryHeldBack
  <2>1. PICK d \in Pumped({RecycleOpenAlarm(db)}) : Transact(d)
    BY <1>4 DEF TelemetryHeldBack
  <2>2. Reaches(db, RecycleOpenAlarm(db)) /\ Sound(RecycleOpenAlarm(db))
    BY <1>1, RecycleReaches, RecycleSound
  <2> QED
    BY <1>1, <2>1, <2>2, PumpOfOneSound, TransactWhole
<1>5. CASE TelemetryFires
  <2> DEFINE f == RecycleOpenAlarm(db)
             S == DispatchAlarm(f, "rule")
  <2>1. PICK d \in Pumped(S) : Transact(d)
    BY <1>5 DEF TelemetryFires
  <2>2. /\ Good(f) /\ Sound(f) /\ OpenOfRule(f) = {} /\ f.lastEvent < MaxEvents
        /\ Reaches(db, f) /\ Sent(f) \subseteq Sent(db)
    BY <1>1, <1>5, RecycleReaches, RecycleSound DEF Reaches, TelemetryFires
  <2> HIDE DEF f
  <2>3. \A x \in S : Reaches(f, x) /\ Sound(x) /\ Good(x)
    BY <2>2, DispatchAlarmReaches, DispatchAlarmSound DEF Reaches, Kinds
  <2> HIDE DEF S
  <2>4. Reaches(f, d) /\ Sound(d)
    BY <2>1, <2>2, <2>3, PumpedReaches, PumpedSound
  <2>5. Reaches(db, d)
    <3>1. Grows(db, d)
      BY <1>1, <2>2, <2>4, GrowsTransitive DEF Reaches
    <3> QED
      BY <2>2, <2>4, <3>1 DEF Reaches
  <2> QED
    BY <2>1, <2>4, <2>5, TransactWhole
<1> QED
  BY <1>2, <1>3, <1>4, <1>5 DEF Telemetry

LEMMA AnswersWhole ==
  ASSUME IInv, Whole, NEW j \in JobIds, AnswerArrives(j) \/ AnswerIsRepeated(j)
  PROVE  Whole'
<1> DEFINE x == CompleteModemJob(db, j)
<1>1. Good(db) /\ Reaches(db, x) /\ Sound(x)
  BY CompleteReaches, CompleteSound DEF IInv, Whole
<1> HIDE DEF x
<1>2. CASE UNCHANGED db
  BY <1>2 DEF Whole
<1>3. CASE \E d \in Pumped({x}) : Transact(d)
  BY <1>1, <1>3, PumpOfOneSound, TransactWhole
<1>4. CASE \E d \in Pumped({x}) : d.last <= MaxJobs /\ db' = d /\ Deliver(d)
  BY <1>1, <1>4, PumpOfOneSound DEF Whole
<1> QED
  BY <1>2, <1>3, <1>4 DEF AnswerArrives, AnswerIsRepeated, x

LEMMA PanelWhole ==
  ASSUME IInv, Whole, Panel
  PROVE  Whole'
<1>1. Good(db) /\ Sound(db) /\ Reaches(db, db)
  BY ReachesReflexive DEF IInv, Whole
<1>2. ASSUME NEW kind \in PanelKinds, TriggerAlarm(kind)
      PROVE  Whole'
  <2>1. kind \in Kinds /\ (kind = "agenda" \/ OpenOfRule(db) = {}) /\ db.lastEvent < MaxEvents
    BY <1>2, AlarmSystemAssumption DEF Kinds, TriggerAlarm
  <2>2. PICK d \in DispatchAlarm(db, kind) : Transact(d)
    BY <1>2 DEF TriggerAlarm
  <2>3. Reaches(db, d) /\ Sound(d)
    BY <1>1, <2>1, DispatchAlarmReaches, DispatchAlarmSound
  <2> QED
    BY <2>2, <2>3, TransactWhole
<1>3. ASSUME NEW cmd \in Commands, TestModem(cmd)
      PROVE  Whole'
  <2> DEFINE job == NewJob(cmd, NoEvent)
             x == EnqueueModemJobs(db, 1, job)
  <2>1. PICK d \in Pumped({x}) : Transact(d)
    BY <1>3 DEF TestModem
  <2>2. job \in Jobs /\ MayWait(db, job) /\ job.phone = 0
    BY NewJobType DEF MayWait, NewJob
  <2> HIDE DEF job
  <2>3. Reaches(db, x)
    BY <1>1, <2>2, EnqueueReaches
  <2>4. Keeps(db, x)
    BY <1>1, <2>2, EnqueueKeeps DEF Sound
  <2>5. Sound(x)
    BY <1>1, <2>4, KeepsSound
  <2> HIDE DEF x
  <2> QED
    BY <1>1, <2>1, <2>3, <2>5, PumpOfOneSound, TransactWhole
<1>4. CASE db' = AcknowledgeDevice(db)
  <2>1. AcknowledgeDevice(db).last = db.last
    BY <1>1 DEF AcknowledgeDevice, FinishAll, Good, Databases
  <2> QED
    BY <1>1, <1>4, <2>1, AcknowledgeSound DEF Whole
<1>5. CASE ClearEvents
  <2>1. WipeEvents(db).last = db.last
    BY <1>1 DEF WipeEvents, Good, Databases
  <2> QED
    BY <1>1, <1>5, <2>1, WipeEventsSound DEF Whole, ClearEvents
<1>6. CASE UNCHANGED db
  BY <1>6 DEF Whole
<1> QED
  BY <1>2, <1>3, <1>4, <1>5, <1>6
     DEF Panel, AckByLink, AckByPanelOrReply, ArchiveDevice, RestoreDevice

LEMMA DeviceWhole ==
  ASSUME IInv, Whole, DeviceAndWorld
  PROVE  Whole'
<1>1. Good(db) /\ Sound(db) /\ Reaches(db, db)
  BY ReachesReflexive DEF IInv, Whole
<1>2. ASSUME NEW final, NEW d \in Pumped({IF final THEN CompleteUnnamed(db, "test_call") ELSE db}),
             d.last <= MaxJobs, db' = d
      PROVE  Whole'
  <2> DEFINE x == IF final THEN CompleteUnnamed(db, "test_call") ELSE db
  <2>1. d \in Pumped({x})
    BY <1>2
  <2>2. Keeps(db, x)
    BY <1>1, CompleteUnnamedKeeps, KeepsReflexive DEF Sound
  <2> HIDE DEF x
  <2>3. Good(x) /\ Sound(x) /\ Reaches(x, x)
    BY <1>1, <2>2, KeepsSound, ReachesReflexive DEF Keeps
  <2> QED
    BY <1>2, <2>1, <2>3, PumpOfOneSound DEF Whole
<1>3. CASE \E j \in JobIds : StartCall(j)
  <2>1. CASE UNCHANGED db
    BY <2>1 DEF Whole
  <2>2. CASE \E final \in {IsFinalCallEvent(m) : m \in CallProgress} :
               \E d \in Pumped({IF final THEN CompleteUnnamed(db, "test_call") ELSE db}) :
                 d.last <= MaxJobs /\ db' = d
    BY <1>2, <2>2
  <2> QED
    BY <1>3, <2>1, <2>2 DEF StartCall
<1>4. CASE Tick
  BY <1>1, <1>4, ElapseTickSound DEF Tick, Whole
<1>5. CASE UNCHANGED db
  BY <1>5 DEF Whole
<1> QED
  BY <1>3, <1>4, <1>5 DEF DeviceAndWorld, StartSms, LoseCommand, LoseAnswer, ReadingChanges

LEMMA StepWhole == IInv /\ Whole /\ [Next]_vars => Whole'
<1> SUFFICES ASSUME IInv, Whole, [Next]_vars PROVE Whole'
  OBVIOUS
<1>1. Good(db) /\ Sound(db) /\ Reaches(db, db)
  BY ReachesReflexive DEF IInv, Whole
<1>2. CASE PumpDue
  <2>1. PICK d \in Pumped({db}) : Transact(d)
    BY <1>2 DEF PumpDue
  <2> QED
    BY <1>1, <2>1, PumpOfOneSound, TransactWhole
<1>3. CASE InboundOk
  <2>1. PICK d \in Pumped({AcknowledgeDevice(db)}) : Transact(d)
    BY <1>3 DEF InboundOk
  <2>2. Reaches(db, AcknowledgeDevice(db)) /\ Sound(AcknowledgeDevice(db))
    BY <1>1, AcknowledgeReaches, AcknowledgeSound
  <2> QED
    BY <1>1, <2>1, <2>2, PumpOfOneSound, TransactWhole
<1>4. CASE ForgetTimers \/ UNCHANGED vars
  BY <1>4 DEF ForgetTimers, vars, Whole
<1> QED
  BY <1>2, <1>3, <1>4, TelemetryWhole, AnswersWhole, PanelWhole, DeviceWhole
     DEF Next, Worker

LEMMA WholeInvariance == Spec => []Whole
BY InitWhole, StepWhole, Invariance, PTL DEF Spec

\* _maybe_escalate_call calls the next phone only once the call before it was
\* answered or timed out, however late and repeated answers cross the timeouts.
THEOREM CascadeHolds == Spec => []CascadeInOrder
<1>1. Whole => CascadeInOrder
  <2> SUFFICES ASSUME Whole, NEW j \in JobIds, db.jobs[j].phone > 0
               PROVE  \E i \in 1..j - 1 :
                        /\ db.jobs[i].cmd = "test_call"
                        /\ db.jobs[i].event = db.jobs[j].event
                        /\ db.jobs[i].phone = db.jobs[j].phone - 1
                        /\ \/ db.jobs[i].status = "done"
                           \/ db.jobs[i].status = "failed" /\ db.jobs[i].age > 0
    BY DEF CascadeInOrder
  <2>1. PICK i \in JobIds : i < j /\ CalledBefore(db, i, db.jobs[j])
    BY DEF Whole, Sound, Ordered, InOrder
  <2>2. i \in 1..j - 1
    BY <2>1, ModemJobsAssumption DEF JobIds
  <2> QED
    BY <2>1, <2>2 DEF CalledBefore
<1> QED
  BY <1>1, WholeInvariance, PTL

\* An open alarm is never left without a call under way or a repetition scheduled,
\* unless the publication of its call was refused.
THEOREM PursuitHolds == Spec => []StillPursued
<1>1. Whole => StillPursued
  <2> SUFFICES ASSUME Whole, NEW e \in OpenOfRule(db), Hysteresis > 0
               PROVE  \/ db.events[e].rearm # NoRearm
                      \/ \E j \in JobIds :
                           /\ db.jobs[j].event = e /\ db.jobs[j].cmd = "test_call"
                           /\ \/ j \in Active(db)
                              \/ db.jobs[j].status = "failed" /\ db.jobs[j].age = 0
    BY DEF StillPursued
  <2>1. e \in EventIds /\ IsOpen(db, e) /\ HysteresisOf(db, e) > 0
    BY DEF OpenOfRule, OfRule, HysteresisOf
  <2>2. Pursued(db, e)
    BY <2>1 DEF Whole, Sound, AllPursued
  <2> QED
    BY <2>1, <2>2 DEF Pursued, Rearmed, WorksFor, Active, Queued, Sent, InStatus
<1> QED
  BY <1>1, WholeInvariance, PTL
=============================================================================
