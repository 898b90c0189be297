----------------------- MODULE DiscoveryScheduleProofs ----------------------
(* Proofs about DiscoverySchedule: whatever requests are in progress, also *)
(* before start_scheduler has run, and whether removals fail or not.       *)
EXTENDS DiscoverySchedule, TLAPS

(* A worker holds an entry exactly while it works. *)
LocalsSet ==
    /\ \A w \in Worker : IF at[w] = "idle" THEN hold[w] = NoEntry
                                           ELSE hold[w] \in Entry
    /\ at[Boot] \in {"idle", "schedule", "insert"}

-----------------------------------------------------------------------------
(* Types *)

LEMMA RowFacts ==
    /\ AdHoc \in Row
    /\ Scheduled \subseteq Row
    /\ \A x : IsScheduled(x) => x \in Row /\ x \notin Absent
    /\ \A x : CanSchedule(x) => IsScheduled(x)
    /\ [run |-> "scheduled", cron |-> DailyCron, enabled |-> TRUE] \in Row
    /\ NotYet \notin Row /\ Deleted \notin Row
  BY AbsentAssumption, CronAssumption
     DEF Row, IsScheduled, CanSchedule, Scheduled, Absent

LEMMA EntryFacts ==
    /\ \A e \in Entry : e.disc \in Discovery /\ e.row \in Row
    /\ \A d \in Discovery, r \in Row : [disc |-> d, row |-> r] \in Entry
    /\ NoEntry \notin Entry /\ NoEntry.disc = NotYet
  BY AbsentAssumption DEF Entry, NoEntry

LEMMA StoredRow ==
  ASSUME ScheduleTypeOK, NEW d \in Discovery, NEW r \in Row
  PROVE  /\ Stored(d, r) \in [Discovery -> Row \cup Absent]
         /\ \A c \in Discovery \ {d} : Stored(d, r)[c] = rows[c]
         /\ rows[d] \in Absent => Stored(d, r)[d] = rows[d]
         /\ rows[d] \notin Absent => Stored(d, r)[d] = r
  BY DEF ScheduleTypeOK, Stored

LEMMA TypeInit == Init => ScheduleTypeOK /\ LocalsSet
  BY DEF Init, ScheduleTypeOK, LocalsSet, Worker, Absent

LEMMA TypeStep ==
  ASSUME ScheduleTypeOK, LocalsSet, [Next]_vars
  PROVE  ScheduleTypeOK' /\ LocalsSet'
<1> USE RowFacts, EntryFacts, BootAssumption
<1> USE DEF ScheduleTypeOK, LocalsSet, Worker, table, scheduler, server, workers
<1>1. ASSUME NEW d \in Discovery, NEW row \in Row, CreateRow(d, row) \/ UpdateRow(d, row)
      PROVE  ScheduleTypeOK' /\ LocalsSet'
  BY <1>1 DEF CreateRow, UpdateRow
<1>2. ASSUME NEW d \in Discovery, DeleteRow(d)
      PROVE  ScheduleTypeOK' /\ LocalsSet'
  BY <1>2 DEF DeleteRow, Absent
<1>3. ASSUME NEW h \in Handler, NEW d \in Discovery, CreateDefaultJob(h, d)
      PROVE  ScheduleTypeOK' /\ LocalsSet'
  <2>1. PICK row \in Row :
          /\ rows' = [rows EXCEPT ![d] = row]
          /\ IF IsScheduled(row) THEN Go(h, "schedule", [disc |-> d, row |-> row])
                                 ELSE UNCHANGED <<at, hold>>
    BY <1>3 DEF CreateDefaultJob
  <2>2. UNCHANGED <<allowed, converting, scheduler, server, mine, edited>>
    BY <1>3 DEF CreateDefaultJob
  <2>3. QED
    BY <1>3, <2>1, <2>2 DEF Go
<1>4. ASSUME NEW h \in Handler, NEW d \in Discovery, StartSession(h, d)
      PROVE  ScheduleTypeOK' /\ LocalsSet'
  BY <1>4 DEF StartSession, Go
<1>5. ASSUME NEW h \in Handler, Compare(h)
      PROVE  ScheduleTypeOK' /\ LocalsSet'
  <2>1. hold[h] \in Entry
    BY <1>5 DEF Compare
  <2>2. Stored(hold[h].disc, hold[h].row) \in [Discovery -> Row \cup Absent]
    BY <2>1, StoredRow
  <2>3. QED
    BY <1>5, <2>1, <2>2 DEF Compare, Go
<1>6. ASSUME NEW h \in Handler, RemoveJob(h)
      PROVE  ScheduleTypeOK' /\ LocalsSet'
  BY <1>6 DEF RemoveJob, Go
<1>7. ASSUME NEW h \in Handler, WriteRow(h)
      PROVE  ScheduleTypeOK' /\ LocalsSet'
  <2>1. hold[h] \in Entry
    BY <1>7 DEF WriteRow
  <2>2. Stored(hold[h].disc, hold[h].row) \in [Discovery -> Row \cup Absent]
    BY <2>1, StoredRow
  <2>3. QED
    BY <1>7, <2>1, <2>2 DEF WriteRow, Go
<1>8. ASSUME NEW w \in Worker, Schedule(w)
      PROVE  ScheduleTypeOK' /\ LocalsSet'
  <2>1. hold[w] \in Entry
    BY <1>8 DEF Schedule
  <2>2. Stored(hold[w].disc, hold[w].row) \in [Discovery -> Row \cup Absent]
    BY <2>1, StoredRow
  <2>3. QED
    BY <1>8, <2>1, <2>2 DEF Schedule, Go, Disable
<1>9. ASSUME NEW w \in Worker, Insert(w)
      PROVE  ScheduleTypeOK' /\ LocalsSet'
  BY <1>9 DEF Insert, Go
<1>10. ASSUME NEW j \in Job, Fire(j)
       PROVE  ScheduleTypeOK' /\ LocalsSet'
  BY <1>10 DEF Fire
<1>11. ASSUME NEW e \in firing, EndFire(e) \/ FailFire(e)
       PROVE  ScheduleTypeOK' /\ LocalsSet'
  <2>1. Stored(e.disc, e.row) \in [Discovery -> Row \cup Absent]
    BY StoredRow
  <2>2. QED
    BY <1>11, <2>1 DEF EndFire, FailFire
<1>12. CASE BeginDowngrade \/ Upgrade
  BY <1>12 DEF BeginDowngrade, Upgrade
<1>13. ASSUME NEW d \in converting, Convert(d)
       PROVE  ScheduleTypeOK' /\ LocalsSet'
  <2>1. Stored(d, AdHoc) \in [Discovery -> Row \cup Absent]
    BY StoredRow
  <2>2. QED
    BY <1>13, <2>1 DEF Convert
<1>14. CASE LoadSchedule
  BY <1>14 DEF LoadSchedule
<1>15. ASSUME NEW e \in loaded, ScheduleNext(e)
       PROVE  ScheduleTypeOK' /\ LocalsSet'
  BY <1>15 DEF ScheduleNext, Go
<1>16. CASE StartTicking
  BY <1>16 DEF StartTicking
<1>17. CASE Restart
  BY <1>17 DEF Restart
<1>18. CASE UNCHANGED vars
  BY <1>18 DEF vars
<1>19. QED
  BY <1>1, <1>2, <1>3, <1>4, <1>5, <1>6, <1>7, <1>8, <1>9, <1>10, <1>11,
     <1>12, <1>13, <1>14, <1>15, <1>16, <1>17, <1>18
     DEF Next, UserStep, RequestStep, WorkerStep, JobStep, PlanStep, BootStep

(* The table, the scheduler and the workers keep their types, whenever      *)
(* requests arrive and however many at once.                               *)
THEOREM ScheduleTyped == Spec => []ScheduleTypeOK
<1>1. ScheduleTypeOK /\ LocalsSet /\ [Next]_vars => ScheduleTypeOK' /\ LocalsSet'
  BY TypeStep
<1>2. QED
  BY <1>1, TypeInit, PTL DEF Spec

-----------------------------------------------------------------------------
(* Deleted rows *)

LEMMA DeletedStep ==
  ASSUME ScheduleTypeOK, LocalsSet, [Next]_vars, NEW d \in Discovery,
         rows[d] = Deleted
  PROVE  rows'[d] = Deleted
<1> USE RowFacts, EntryFacts, AbsentAssumption
<1> USE DEF ScheduleTypeOK, LocalsSet, Worker, table, Absent
<1>1. ASSUME NEW c \in Discovery, NEW row \in Row, rows' = Stored(c, row)
      PROVE  rows'[d] = Deleted
  BY <1>1, StoredRow
<1>2. ASSUME NEW c \in Discovery, NEW row \in Row, CreateRow(c, row) \/ UpdateRow(c, row)
      PROVE  rows'[d] = Deleted
  BY <1>2 DEF CreateRow, UpdateRow
<1>3. ASSUME NEW c \in Discovery, DeleteRow(c) PROVE rows'[d] = Deleted
  BY <1>3 DEF DeleteRow
<1>4. ASSUME NEW h \in Handler, NEW c \in Discovery,
             CreateDefaultJob(h, c) \/ StartSession(h, c)
      PROVE  rows'[d] = Deleted
  BY <1>4 DEF CreateDefaultJob, StartSession
<1>5. ASSUME NEW h \in Handler, RequestStep(h) PROVE rows'[d] = Deleted
  BY <1>1, <1>5 DEF RequestStep, Compare, RemoveJob, WriteRow
<1>6. ASSUME NEW w \in Worker, WorkerStep(w) PROVE rows'[d] = Deleted
  BY <1>1, <1>6 DEF WorkerStep, Schedule, Insert, Disable
<1>7. CASE JobStep
  BY <1>1, <1>7 DEF JobStep, Fire, EndFire, FailFire
<1>8. CASE PlanStep
  BY <1>1, <1>8 DEF PlanStep, BeginDowngrade, Convert, Upgrade
<1>9. CASE BootStep \/ Restart \/ UNCHANGED vars
  BY <1>9 DEF BootStep, LoadSchedule, ScheduleNext, StartTicking, Restart, vars
<1>10. QED
  BY <1>2, <1>3, <1>4, <1>5, <1>6, <1>7, <1>8, <1>9 DEF Next, UserStep

(* A row that the API has deleted is not brought back by the copies of it  *)
(* that jobs, a session started by hand, a downgrade or the start of the   *)
(* server write: every one of those writes is an UPDATE.                   *)
THEOREM DeletedRowsStay == Spec => DeletedStays
<1>1. ScheduleTypeOK /\ LocalsSet /\ [Next]_vars => ScheduleTypeOK' /\ LocalsSet'
  BY TypeStep
<1>2. ScheduleTypeOK /\ LocalsSet /\ [Next]_vars =>
        [\A d \in Discovery : rows[d] = Deleted => rows'[d] = Deleted]_vars
  BY DeletedStep
<1>3. QED
  BY <1>1, <1>2, TypeInit, PTL DEF Spec, DeletedStays

-----------------------------------------------------------------------------
(* Jobs *)

(* A job stays with the scheduler until the process ends, unless a request *)
(* that works on a row of the same discovery removes it.                   *)
OnlyOwnJobRemoved ==
    [][\A j \in Job : jobs[j] # NoJob /\ jobs'[j] # jobs[j] =>
           \/ phase' = "serving"
           \/ \E h \in Handler : at[h] = "remove" /\ hold[h].disc = jobs[j].disc]_vars

(* A job about to be inserted is its worker's alone, and job_ids never      *)
(* leads from one discovery to the job of another.                         *)
JobsAreNamed ==
    /\ \A w \in Worker : at[w] = "insert" =>
           /\ mine[w] \in Job
           /\ jobs[mine[w]] = hold[w]
           /\ \A d \in Discovery : job_ids[d] # mine[w]
           /\ \A v \in Worker \ {w} : at[v] = "insert" => mine[v] # mine[w]
    /\ \A d \in Discovery :
           job_ids[d] \in Job /\ jobs[job_ids[d]] # NoJob =>
               jobs[job_ids[d]].disc = d

OwnJobInv == ScheduleTypeOK /\ LocalsSet /\ JobsAreNamed

LEMMA NamedInit == Init => JobsAreNamed
  BY AbsentAssumption DEF Init, JobsAreNamed, Worker

(* Schedule takes an id that nobody uses. *)
LEMMA ScheduleNames ==
  ASSUME OwnJobInv, NEW w \in Worker, Schedule(w)
  PROVE  /\ JobsAreNamed'
         /\ \A j \in Job : jobs[j] # NoJob => jobs'[j] = jobs[j]
<1> USE EntryFacts, AbsentAssumption
<1> USE DEF OwnJobInv, ScheduleTypeOK, LocalsSet, JobsAreNamed
<1>1. hold[w] \in Entry /\ at[w] = "schedule" /\ UNCHANGED job_ids
  BY DEF Schedule
<1>2. CASE CanSchedule(hold[w].row)
  <2>1. PICK j \in Job :
          /\ Free(j)
          /\ jobs' = [jobs EXCEPT ![j] = hold[w]]
          /\ mine' = [mine EXCEPT ![w] = j]
          /\ at' = [at EXCEPT ![w] = "insert"]
          /\ UNCHANGED hold
    BY <1>2 DEF Schedule, Go
  <2>2. /\ jobs[j] = NoJob
        /\ \A d \in Discovery : job_ids[d] # j
        /\ \A v \in Worker \ {w} : at[v] = "insert" => mine[v] # j
    BY <1>1, <2>1 DEF Free
  <2>3. QED
    BY <1>1, <2>1, <2>2
<1>3. CASE ~CanSchedule(hold[w].row)
  BY <1>1, <1>3 DEF Schedule, Go
<1>4. QED
  BY <1>2, <1>3

(* RemoveJob frees the job that job_ids has for the row at hand. *)
LEMMA RemoveNames ==
  ASSUME OwnJobInv, NEW h \in Handler, RemoveJob(h)
  PROVE  /\ JobsAreNamed'
         /\ \A j \in Job : jobs[j] # NoJob /\ jobs'[j] # jobs[j] =>
                at[h] = "remove" /\ hold[h].disc = jobs[j].disc
<1> USE EntryFacts, AbsentAssumption
<1> USE DEF OwnJobInv, ScheduleTypeOK, LocalsSet, JobsAreNamed, Worker
<1> DEFINE d == hold[h].disc
<1>1. /\ at[h] = "remove" /\ hold[h] \in Entry /\ d \in Discovery
      /\ UNCHANGED <<job_ids, mine, hold>>
      /\ \A w \in Worker : at'[w] = "insert" => at[w] = "insert"
  BY DEF RemoveJob, Go
<1>2. UNCHANGED jobs \/ (job_ids[d] \in Job /\ jobs' = [jobs EXCEPT ![job_ids[d]] = NoJob])
  BY <1>1 DEF RemoveJob
<1>3. QED
  BY <1>1, <1>2

LEMMA InsertNames ==
  ASSUME OwnJobInv, NEW w \in Worker, Insert(w) PROVE JobsAreNamed' /\ UNCHANGED jobs
<1> USE EntryFacts, AbsentAssumption
<1> USE DEF OwnJobInv, ScheduleTypeOK, LocalsSet, JobsAreNamed
<1>1. /\ at[w] = "insert" /\ hold[w] \in Entry /\ UNCHANGED jobs
      /\ job_ids' = [job_ids EXCEPT ![hold[w].disc] = mine[w]]
      /\ \A v \in Worker : at'[v] = "insert" =>
             v # w /\ at[v] = "insert" /\ mine'[v] = mine[v] /\ hold'[v] = hold[v]
  BY DEF Insert, Go
<1>2. QED
  BY <1>1

(* The other steps leave the jobs alone, and no worker comes to "insert". *)
LEMMA OtherNames ==
  ASSUME OwnJobInv,
         UNCHANGED <<jobs, mine>>, job_ids' = job_ids \/ \A d \in Discovery : job_ids'[d] = NoJob,
         \A v \in Worker : at'[v] = "insert" => at[v] = "insert" /\ hold'[v] = hold[v]
  PROVE  JobsAreNamed'
  BY AbsentAssumption DEF OwnJobInv, ScheduleTypeOK, JobsAreNamed

LEMMA NamesStep ==
  ASSUME OwnJobInv, [Next]_vars
  PROVE  /\ JobsAreNamed'
         /\ \A j \in Job : jobs[j] # NoJob /\ jobs'[j] # jobs[j] =>
                \/ phase' = "serving"
                \/ \E h \in Handler : at[h] = "remove" /\ hold[h].disc = jobs[j].disc
<1> DEFINE Quiet ==
      /\ UNCHANGED <<jobs, mine>>
      /\ job_ids' = job_ids \/ \A d \in Discovery : job_ids'[d] = NoJob
      /\ \A v \in Worker : at'[v] = "insert" => at[v] = "insert" /\ hold'[v] = hold[v]
<1> USE DEF table, scheduler, server, workers
<1>1. /\ Boot \in Worker
      /\ at \in [Worker -> {"idle", "compare", "remove", "write",
                           "schedule", "insert", "stuck"}]
      /\ hold \in [Worker -> Entry \cup {NoEntry}]
  BY DEF OwnJobInv, ScheduleTypeOK, Worker
<1>2. ASSUME Quiet PROVE JobsAreNamed' /\ UNCHANGED jobs
  BY <1>1, <1>2, OtherNames
<1>3. CASE UserStep
  <2>1. Quiet
    BY <1>3 DEF UserStep, CreateRow, UpdateRow, DeleteRow
  <2>2. QED
    BY <1>2, <2>1
<1>4. ASSUME NEW h \in Handler, NEW d \in Discovery,
             CreateDefaultJob(h, d) \/ StartSession(h, d)
      PROVE  JobsAreNamed' /\ UNCHANGED jobs
  <2>1. Quiet
    BY <1>1, <1>4 DEF CreateDefaultJob, StartSession, Go, Worker
  <2>2. QED
    BY <1>2, <2>1
<1>5. ASSUME NEW h \in Handler, Compare(h) \/ WriteRow(h)
      PROVE  JobsAreNamed' /\ UNCHANGED jobs
  <2>1. Quiet
    BY <1>1, <1>5 DEF Compare, WriteRow, Go, Worker
  <2>2. QED
    BY <1>2, <2>1
<1>6. CASE JobStep
  <2>1. Quiet
    BY <1>6 DEF JobStep, Fire, EndFire, FailFire
  <2>2. QED
    BY <1>2, <2>1
<1>7. CASE PlanStep
  <2>1. Quiet
    BY <1>7 DEF PlanStep, BeginDowngrade, Convert, Upgrade
  <2>2. QED
    BY <1>2, <2>1
<1>8. CASE BootStep
  <2>1. Quiet
    BY <1>1, <1>8 DEF BootStep, LoadSchedule, ScheduleNext, StartTicking, Go
  <2>2. QED
    BY <1>2, <2>1
<1>9. CASE UNCHANGED vars
  <2>1. Quiet
    BY <1>9 DEF vars
  <2>2. QED
    BY <1>2, <2>1
<1>10. CASE Restart
  <2>1. phase' = "serving"
    BY <1>10 DEF Restart
  <2>2. JobsAreNamed'
    BY <1>10, AbsentAssumption DEF Restart, JobsAreNamed
  <2>3. QED
    BY <2>1, <2>2
<1>11. ASSUME NEW w \in Worker, WorkerStep(w)
       PROVE  JobsAreNamed' /\ \A j \in Job : jobs[j] # NoJob => jobs'[j] = jobs[j]
  BY <1>11, ScheduleNames, InsertNames DEF WorkerStep
<1>12. ASSUME NEW h \in Handler, RequestStep(h)
       PROVE  /\ JobsAreNamed'
              /\ \A j \in Job : jobs[j] # NoJob /\ jobs'[j] # jobs[j] =>
                     at[h] = "remove" /\ hold[h].disc = jobs[j].disc
  BY <1>5, <1>12, RemoveNames DEF RequestStep
<1>13. QED
  BY <1>3, <1>4, <1>6, <1>7, <1>8, <1>9, <1>10, <1>11, <1>12 DEF Next

(* However requests overlap, before and after start_scheduler, and whether *)
(* removals fail or not: a request never removes the job of a discovery    *)
(* other than the one it updates.                                          *)
THEOREM OwnJobsOnly == Spec => OnlyOwnJobRemoved
<1>1. OwnJobInv /\ [Next]_vars => OwnJobInv'
  BY TypeStep, NamesStep DEF OwnJobInv
<1>2. OwnJobInv /\ [Next]_vars =>
        [\A j \in Job : jobs[j] # NoJob /\ jobs'[j] # jobs[j] =>
            \/ phase' = "serving"
            \/ \E h \in Handler : at[h] = "remove" /\ hold[h].disc = jobs[j].disc]_vars
  BY NamesStep
<1>3. Init => OwnJobInv
  BY TypeInit, NamedInit DEF OwnJobInv
<1>4. QED
  BY <1>1, <1>2, <1>3, PTL DEF Spec, OnlyOwnJobRemoved
=============================================================================
