------------------------ MODULE ServiceBindingsProofs -----------------------
(* Proofs about ServiceBindings.                                           *)
EXTENDS ServiceBindings, TLAPS

-----------------------------------------------------------------------------
(* The invariant, for every number of requests *)

LocalsSet ==
    \A r \in Request : at[r] \in {"upsert", "save"} => target[r] \in Service

(* Nothing in the set excludes or covers something in it. *)
Consistent(bs) == \A b, c \in bs : ~Excludes(b, c) /\ ~Covers(b, c)

(* Ports only, or interfaces only. *)
Uniform(bs) == \A b, c \in bs : IsPort(b) = IsPort(c)

(* A service of a report has ports or interfaces: ReportAssumption, and    *)
(* what is left of it once the first services have been handled.           *)
ReportOK(q) == \A i \in DOMAIN q : Uniform(q[i].bindings)

RestOfReport == \A r \in Request : ReportOK(todo[r])

(* A service is dropped for a port, hence had ports only. *)
OrphansArePorts == \A r \in Request : \A b \in orphans[r] : IsPort(b)

WorkConsistent ==
    \A r \in Request : at[r] \in {"create", "upsert", "insert", "save"} =>
        Consistent(work[r].bindings)

RowsConsistent == \A s \in Existing : Consistent(services[s].bindings)

BindingsInv ==
    /\ ServicesTypeOK
    /\ LocalsSet
    /\ RestOfReport
    /\ OrphansArePorts
    /\ WorkConsistent
    /\ RowsConsistent

-----------------------------------------------------------------------------
(* Lemmas about bindings and reports *)

(* A report without its first service is the rest of it, one place on. *)
LEMMA TailOfReport ==
    ASSUME NEW q \in Seq(Report), q # <<>>
    PROVE  /\ Head(q) \in Report
           /\ Head(q) = q[1]
           /\ 1 \in DOMAIN q
           /\ Tail(q) \in Seq(Report)
           /\ \A i \in DOMAIN Tail(q) :
                  /\ i \in Nat
                  /\ i + 1 # 1
                  /\ i + 1 \in DOMAIN q
                  /\ Tail(q)[i] = q[i + 1]
  <1>1. Len(q) \in Nat /\ Len(q) # 0
    OBVIOUS
  <1>2. Head(q) = q[1] /\ Head(q) \in Report /\ 1 \in DOMAIN q
    BY <1>1
  <1>3. Tail(q) \in Seq(Report) /\ Len(Tail(q)) = Len(q) - 1
    BY <1>1
  <1>4. ASSUME NEW i \in DOMAIN Tail(q)
        PROVE  i \in Nat /\ i + 1 # 1 /\ i + 1 \in DOMAIN q /\ Tail(q)[i] = q[i + 1]
    BY <1>1, <1>3, <1>4
  <1> QED
    BY <1>2, <1>3, <1>4

LEMMA ReportFields ==
    ASSUME NEW p \in Report
    PROVE  /\ p.def \in Definition
           /\ p.bindings \in SUBSET Binding
           /\ p = [def |-> p.def, bindings |-> p.bindings]
  BY DEF Report

LEMMA RowFields ==
    ASSUME NEW p \in Row
    PROVE  /\ p.def \in Definition
           /\ p.bindings \in SUBSET Binding
           /\ p.discovered \in BOOLEAN
           /\ p = [def |-> p.def, bindings |-> p.bindings, discovered |-> p.discovered]
  BY DEF Row

LEMMA DeduplicatedSubset ==
    ASSUME NEW bs
    PROVE  Deduplicated(bs) \subseteq bs
  BY DEF Deduplicated

LEMMA UniformNoConflicts ==
    ASSUME NEW bs, Uniform(bs)
    PROVE  NoConflicts(bs)
  BY DEF Uniform, NoConflicts, Excludes

(* Deduplication leaves nothing that covers something. *)
LEMMA DeduplicatedConsistent ==
    ASSUME NEW bs, NoConflicts(Deduplicated(bs))
    PROVE  Consistent(Deduplicated(bs))
  BY DEF Deduplicated, NoConflicts, Consistent

LEMMA ConsistentIs ==
    ASSUME NEW bs
    PROVE  Consistent(bs) <=> NoConflicts(bs) /\ Deduplicated(bs) = bs
  <1>1. Consistent(bs) => NoConflicts(bs) /\ Deduplicated(bs) = bs
    BY DEF Deduplicated, NoConflicts, Consistent
  <1>2. NoConflicts(bs) /\ Deduplicated(bs) = bs => Consistent(bs)
    <2>1. HAVE NoConflicts(bs) /\ Deduplicated(bs) = bs
    <2>2. \A c \in bs : \A b \in bs : ~Covers(b, c)
      BY <2>1 DEF Deduplicated
    <2> QED
      BY <2>1, <2>2 DEF NoConflicts, Consistent
  <1> QED
    BY <1>1, <1>2

LEMMA ExcludesSymmetric ==
    ASSUME NEW b, NEW c
    PROVE  Excludes(b, c) <=> Excludes(c, b)
  BY DEF Excludes, IsPort

(* upsert_service checks each new binding against the old ones, and drops   *)
(* the old ones that a new one covers: the result is consistent without a   *)
(* check.                                                                   *)
LEMMA MergedConsistent ==
    ASSUME NEW old, NEW new, Consistent(old), Consistent(new)
    PROVE  /\ Consistent(MergedBindings(old, new))
           /\ MergedBindings(old, new) \subseteq old \cup new
  <1> DEFINE added == {b \in new : \A c \in old : ~Covers(c, b) /\ ~Excludes(b, c)}
             kept == {c \in old : \A b \in added : ~Covers(b, c)}
  <1>1. MergedBindings(old, new) = kept \cup added
    BY DEF MergedBindings
  <1>2. kept \cup added \subseteq old \cup new
    OBVIOUS
  <1>3. ASSUME NEW b \in kept \cup added, NEW c \in kept \cup added
        PROVE  ~Excludes(b, c) /\ ~Covers(b, c)
    <2>1. CASE b \in kept /\ c \in kept
      BY <2>1 DEF Consistent
    <2>2. CASE b \in added /\ c \in added
      BY <2>2 DEF Consistent
    <2>3. CASE b \in kept /\ c \in added
      BY <2>3, ExcludesSymmetric
    <2>4. CASE b \in added /\ c \in kept
      BY <2>4
    <2> QED
      BY <1>3, <2>1, <2>2, <2>3, <2>4
  <1> HIDE DEF added, kept
  <1>4. Consistent(kept \cup added)
    BY <1>3 DEF Consistent
  <1> QED
    BY <1>1, <1>2, <1>4

-----------------------------------------------------------------------------
(* Types *)

LEMMA ExistingIsRow ==
    ASSUME ServicesTypeOK, NEW s \in Service
    PROVE  s \in Existing <=> services[s] \in Row
  <1>1. services[s] \in Row \cup {NoService, Gone}
    BY DEF ServicesTypeOK
  <1> QED
    BY <1>1, RowAssumption DEF Existing

LEMMA DoneType ==
    ASSUME ServicesTypeOK, NEW r \in Request, Done(r)
    PROVE  /\ at' \in [Request -> {"idle", "partition", "create", "upsert", "insert",
                                   "save"}]
           /\ todo' \in [Request -> Seq(Report)]
           /\ claimed' \in [Request -> SUBSET Binding]
           /\ orphans' \in [Request -> SUBSET Binding]
           /\ work' \in [Request -> Report]
           /\ target' \in [Request -> Service \cup {NoService}]
  <1>1. NoReport \in Report
    BY DefinitionAssumption DEF NoReport, Report
  <1>2. <<>> \in Seq(Report)
    OBVIOUS
  <1> QED
    BY <1>1, <1>2 DEF ServicesTypeOK, Done

LEMMA ResumeType ==
    ASSUME ServicesTypeOK, NEW r \in Request, Resume(r)
    PROVE  /\ at' \in [Request -> {"idle", "partition", "create", "upsert", "insert",
                                   "save"}]
           /\ todo' \in [Request -> Seq(Report)]
           /\ claimed' \in [Request -> SUBSET Binding]
           /\ orphans' \in [Request -> SUBSET Binding]
           /\ work' \in [Request -> Report]
           /\ target' \in [Request -> Service \cup {NoService}]
  <1>1. NoReport \in Report
    BY DefinitionAssumption DEF NoReport, Report
  <1> QED
    BY <1>1 DEF ServicesTypeOK, Resume

(* MergedBindings adds nothing. *)
LEMMA MergedSubset ==
    ASSUME NEW old, NEW new
    PROVE  MergedBindings(old, new) \subseteq old \cup new
  BY DEF MergedBindings

LEMMA ServicesTypeStep ==
    ASSUME ServicesTypeOK, [Next]_vars
    PROVE  ServicesTypeOK'
  <1>1. ASSUME NEW r \in Request, NEW report \in Reports, DiscoverHost(r, report)
        PROVE  ServicesTypeOK'
    <2>1. report \in Seq(Report)
      BY ReportAssumption
    <2> QED
      BY <1>1, <2>1 DEF ServicesTypeOK, DiscoverHost
  <1>2. ASSUME NEW r \in Request, Partition(r)
        PROVE  ServicesTypeOK'
    <2> DEFINE next == Head(todo[r])
               bad == Conflicting(next.bindings, Taken(r))
    <2>1. todo[r] \in Seq(Report) /\ todo[r] # <<>>
      BY <1>2 DEF ServicesTypeOK, Partition
    <2>2. next \in Report /\ Tail(todo[r]) \in Seq(Report)
      BY <2>1, TailOfReport
    <2>3. next.bindings \in SUBSET Binding
      BY <2>2, ReportFields
    <2>4. Deduplicated(next.bindings) \in SUBSET Binding
      BY <2>3, DeduplicatedSubset
    <2>5. [next EXCEPT !.bindings = Deduplicated(@)] \in Report
      BY <2>2, <2>4 DEF Report
    <2>6. Claims(next.bindings) \in SUBSET Binding
      BY <2>3 DEF Claims
    <2>7. /\ todo' = [todo EXCEPT ![r] = Tail(@)]
          /\ UNCHANGED <<services, target, lock>>
          /\ \/ /\ claimed' = [claimed EXCEPT ![r] = @ \cup Claims(next.bindings)]
                /\ work' = [work EXCEPT ![r] =
                             [next EXCEPT !.bindings = Deduplicated(@)]]
                /\ at' = [at EXCEPT ![r] = "create"]
                /\ UNCHANGED orphans
             \/ /\ orphans' = [orphans EXCEPT ![r] = @ \cup (next.bindings \ bad)]
                /\ UNCHANGED <<claimed, work, at>>
      BY <1>2 DEF Partition
    <2> DEFINE chosen == [next EXCEPT !.bindings = Deduplicated(@)]
               claims == Claims(next.bindings)
               rest == next.bindings \ bad
    <2>8. chosen \in Report /\ claims \in SUBSET Binding /\ rest \in SUBSET Binding
      BY <2>3, <2>5, <2>6
    <2>9. todo' \in [Request -> Seq(Report)]
      BY <2>2, <2>7 DEF ServicesTypeOK
    <2>10. CASE /\ claimed' = [claimed EXCEPT ![r] = @ \cup claims]
                /\ work' = [work EXCEPT ![r] = chosen]
                /\ at' = [at EXCEPT ![r] = "create"]
                /\ UNCHANGED orphans
      <3> HIDE DEF chosen, claims
      <3> QED
        BY <2>7, <2>8, <2>9, <2>10 DEF ServicesTypeOK
    <2>11. CASE /\ orphans' = [orphans EXCEPT ![r] = @ \cup rest]
                /\ UNCHANGED <<claimed, work, at>>
      <3> HIDE DEF rest
      <3> QED
        BY <2>7, <2>8, <2>9, <2>11 DEF ServicesTypeOK
    <2> QED
      BY <2>7, <2>10, <2>11
  <1>3. ASSUME NEW r \in Request, EndReport(r)
        PROVE  ServicesTypeOK'
    <2>1. CASE orphans[r] = {}
      BY <1>3, <2>1, DoneType DEF EndReport, ServicesTypeOK
    <2>2. CASE orphans[r] # {}
      <3>1. Deduplicated(orphans[r]) \in SUBSET Binding
        BY DeduplicatedSubset DEF ServicesTypeOK
      <3>2. [def |-> OpenPorts, bindings |-> Deduplicated(orphans[r])] \in Report
        BY <3>1, DefinitionAssumption DEF Report
      <3>3. /\ UNCHANGED <<services, todo, claimed, target, lock>>
            /\ at' = [at EXCEPT ![r] = "create"]
            /\ work' = [work EXCEPT ![r] =
                          [def |-> OpenPorts, bindings |-> Deduplicated(orphans[r])]]
            /\ orphans' = [orphans EXCEPT ![r] = {}]
        BY <1>3, <2>2 DEF EndReport
      <3> QED
        BY <3>2, <3>3 DEF ServicesTypeOK
    <2> QED
      BY <2>1, <2>2
  <1>4. ASSUME NEW r \in Request, Create(r)
        PROVE  ServicesTypeOK'
    <2>1. ASSUME NEW s \in Matching(work[r].def),
                 target' = [target EXCEPT ![r] = s],
                 work' = [work EXCEPT ![r].bindings =
                           MergedBindings(services[s].bindings, @)],
                 at' = [at EXCEPT ![r] = "upsert"],
                 UNCHANGED <<todo, claimed, orphans, services, lock>>
          PROVE  ServicesTypeOK'
      <3>1. s \in Service /\ services[s] \in Row
        BY ExistingIsRow DEF Matching, Existing
      <3>2. work[r] \in Report
        BY DEF ServicesTypeOK
      <3>3. MergedBindings(services[s].bindings, work[r].bindings) \in SUBSET Binding
        BY <3>1, <3>2, RowFields, ReportFields, MergedSubset
      <3>4. [work[r] EXCEPT !.bindings =
               MergedBindings(services[s].bindings, @)] \in Report
        BY <3>2, <3>3 DEF Report
      <3> QED
        BY <2>1, <3>1, <3>4 DEF ServicesTypeOK
    <2>2. ASSUME at' = [at EXCEPT ![r] = "insert"],
                 UNCHANGED <<todo, claimed, orphans, work, target, services, lock>>
          PROVE  ServicesTypeOK'
      BY <2>2 DEF ServicesTypeOK
    <2>3. ASSUME Done(r), UNCHANGED <<services, lock>>
          PROVE  ServicesTypeOK'
      BY <2>3, DoneType DEF ServicesTypeOK
    <2> QED
      BY <1>4, <2>1, <2>2, <2>3 DEF Create
  <1>5. ASSUME NEW r \in Request, Upsert(r)
        PROVE  ServicesTypeOK'
    <2>1. CASE target[r] \in Existing
      <3>1. target[r] \in Service /\ services[target[r]] \in Row
        BY <2>1, ExistingIsRow DEF Existing
      <3>2. work[r].bindings \in SUBSET Binding
        BY ReportFields DEF ServicesTypeOK
      <3>3. [services[target[r]] EXCEPT !.bindings = work[r].bindings] \in Row
        BY <3>1, <3>2 DEF Row
      <3>4. services' = [services EXCEPT ![target[r]] =
                           [services[target[r]] EXCEPT !.bindings = work[r].bindings]]
        BY <1>5, <2>1 DEF Upsert
      <3>5. services' \in [Service -> Row \cup {NoService, Gone}]
        BY <3>1, <3>3, <3>4 DEF ServicesTypeOK
      <3>6. Resume(r) /\ UNCHANGED lock
        BY <1>5, <2>1 DEF Upsert
      <3> QED
        BY <3>5, <3>6, ResumeType DEF ServicesTypeOK
    <2>2. CASE target[r] \notin Existing
      <3>1. Done(r) /\ UNCHANGED <<services, lock>>
        BY <1>5, <2>2 DEF Upsert
      <3> QED
        BY <3>1, DoneType DEF ServicesTypeOK
    <2> QED
      BY <2>1, <2>2
  <1>6. ASSUME NEW r \in Request, Insert(r)
        PROVE  ServicesTypeOK'
    <2>1. work[r].def \in Definition /\ work[r].bindings \in SUBSET Binding
      BY ReportFields DEF ServicesTypeOK
    <2>2. [def |-> work[r].def, bindings |-> work[r].bindings, discovered |-> TRUE]
            \in Row
      BY <2>1 DEF Row
    <2>3. services' \in [Service -> Row \cup {NoService, Gone}]
      BY <1>6, <2>2 DEF Insert, ServicesTypeOK
    <2>4. Resume(r) /\ UNCHANGED lock
      BY <1>6 DEF Insert
    <2> QED
      BY <2>3, <2>4, ResumeType DEF ServicesTypeOK
  <1>7. ASSUME NEW r \in Request, NEW s \in Service, NEW def \in Definition,
               NEW bs \in Edits, Submit(r, s, def, bs)
        PROVE  ServicesTypeOK'
    <2>1. Deduplicated(bs) \in SUBSET Binding
      BY EditAssumption, DeduplicatedSubset
    <2>2. [def |-> def, bindings |-> Deduplicated(bs)] \in Report
      BY <2>1 DEF Report
    <2> QED
      BY <1>7, <2>2 DEF Submit, ServicesTypeOK
  <1>8. ASSUME NEW r \in Request, Save(r)
        PROVE  ServicesTypeOK'
    <2>1. work[r].def \in Definition /\ work[r].bindings \in SUBSET Binding
      BY ReportFields DEF ServicesTypeOK
    <2>2. (target[r] \in Existing /\ services[target[r]].discovered) \in BOOLEAN
      <3>1. CASE target[r] \in Existing
        <4>1. services[target[r]] \in Row
          BY <3>1, ExistingIsRow DEF Existing
        <4> QED
          BY <3>1, <4>1, RowFields
      <3>2. CASE target[r] \notin Existing
        BY <3>2
      <3> QED
        BY <3>1, <3>2
    <2>3. [def |-> work[r].def, bindings |-> work[r].bindings,
           discovered |-> target[r] \in Existing /\ services[target[r]].discovered]
             \in Row
      BY <2>1, <2>2 DEF Row
    <2>4. services' \in [Service -> Row \cup {NoService, Gone}]
      BY <1>8, <2>3 DEF Save, ServicesTypeOK
    <2>5. Done(r) /\ lock' \in [Service -> SUBSET Request]
      BY <1>8 DEF Save, ServicesTypeOK
    <2> QED
      BY <2>4, <2>5, DoneType DEF ServicesTypeOK
  <1>9. ASSUME NEW s \in Service, Delete(s)
        PROVE  ServicesTypeOK'
    BY <1>9 DEF Delete, ServicesTypeOK, request
  <1>10. CASE UNCHANGED vars
    BY <1>10 DEF vars, request, ServicesTypeOK
  <1> QED
    BY <1>1, <1>2, <1>3, <1>4, <1>5, <1>6, <1>7, <1>8, <1>9, <1>10 DEF Next

(* Services, requests and locks have the values their columns and fields   *)
(* allow, however many requests overlap: what a report, a merge or an edit *)
(* leaves in a row are bindings.                                           *)
THEOREM ServicesTyped == Spec => []ServicesTypeOK
  <1>1. Init => ServicesTypeOK
    <2>1. NoReport \in Report
      BY DefinitionAssumption DEF NoReport, Report
    <2> QED
      BY <2>1 DEF Init, ServicesTypeOK
  <1>2. ServicesTypeOK /\ [Next]_vars => ServicesTypeOK'
    BY ServicesTypeStep
  <1> QED
    BY <1>1, <1>2, PTL DEF Spec

-----------------------------------------------------------------------------
(* Every service is consistent, however many requests overlap *)

RequestStep(r) ==
    \/ \E report \in Reports : DiscoverHost(r, report)
    \/ Partition(r)
    \/ EndReport(r)
    \/ Create(r)
    \/ Upsert(r)
    \/ Insert(r)
    \/ \E s \in Service, def \in Definition, bs \in Edits : Submit(r, s, def, bs)
    \/ Save(r)

LEMMA NextIs ==
    ASSUME [Next]_vars
    PROVE  \/ \E r \in Request : RequestStep(r)
           \/ \E s \in Service : Delete(s)
           \/ UNCHANGED vars
  BY DEF Next, RequestStep

(* A request leaves the others where they are. *)
LEMMA OthersKept ==
    ASSUME ServicesTypeOK, NEW r \in Request, RequestStep(r),
           NEW q \in Request, q # r
    PROVE  /\ at'[q] = at[q]
           /\ todo'[q] = todo[q]
           /\ orphans'[q] = orphans[q]
           /\ work'[q] = work[q]
           /\ target'[q] = target[q]
  <1> USE DEF ServicesTypeOK
  <1>1. CASE \E report \in Reports : DiscoverHost(r, report)
    BY <1>1 DEF DiscoverHost
  <1>2. CASE Partition(r)
    BY <1>2 DEF Partition
  <1>3. CASE EndReport(r)
    BY <1>3 DEF EndReport, Done
  <1>4. CASE Create(r)
    BY <1>4 DEF Create, Done
  <1>5. CASE Upsert(r)
    BY <1>5 DEF Upsert, Done, Resume
  <1>6. CASE Insert(r)
    BY <1>6 DEF Insert, Resume
  <1>7. CASE \E s \in Service, def \in Definition, bs \in Edits :
               Submit(r, s, def, bs)
    BY <1>7 DEF Submit
  <1>8. CASE Save(r)
    BY <1>8 DEF Save, Done
  <1> QED
    BY <1>1, <1>2, <1>3, <1>4, <1>5, <1>6, <1>7, <1>8 DEF RequestStep

LEMMA TargetSet ==
    ASSUME ServicesTypeOK, NEW r \in Request, RequestStep(r)
    PROVE  at'[r] \in {"upsert", "save"} => target'[r] \in Service
  <1>0. r \in DOMAIN at /\ r \in DOMAIN target
    BY DEF ServicesTypeOK
  <1>1. CASE \E report \in Reports : DiscoverHost(r, report)
    BY <1>0, <1>1 DEF DiscoverHost
  <1>2. CASE Partition(r)
    BY <1>0, <1>2 DEF Partition
  <1>3. CASE EndReport(r)
    BY <1>0, <1>3 DEF EndReport, Done
  <1>4. CASE Create(r)
    BY <1>0, <1>4 DEF Create, Done, Matching, Existing
  <1>5. CASE Upsert(r)
    BY <1>0, <1>5 DEF Upsert, Done, Resume
  <1>6. CASE Insert(r)
    BY <1>0, <1>6 DEF Insert, Resume
  <1>7. CASE \E s \in Service, def \in Definition, bs \in Edits :
               Submit(r, s, def, bs)
    BY <1>0, <1>7 DEF Submit
  <1>8. CASE Save(r)
    BY <1>0, <1>8 DEF Save, Done
  <1> QED
    BY <1>1, <1>2, <1>3, <1>4, <1>5, <1>6, <1>7, <1>8 DEF RequestStep

LEMMA ReportsOK ==
    ASSUME NEW q \in Reports
    PROVE  ReportOK(q)
  BY ReportAssumption DEF ReportOK, Uniform, IsPort

LEMMA TailOK ==
    ASSUME NEW q \in Seq(Report), q # <<>>, ReportOK(q)
    PROVE  ReportOK(Tail(q))
  BY TailOfReport DEF ReportOK

(* What Partition does to its request: the service at the head of the      *)
(* report becomes the one in work, or its free bindings become orphans.    *)
LEMMA PartitionIs ==
    ASSUME ServicesTypeOK, NEW r \in Request, Partition(r)
    PROVE  /\ at[r] = "partition"
           /\ todo[r] \in Seq(Report)
           /\ todo[r] # <<>>
           /\ todo'[r] = Tail(todo[r])
           /\ services' = services
           /\ \/ /\ at'[r] = "create"
                 /\ work'[r].bindings = Deduplicated(Head(todo[r]).bindings)
                 /\ orphans'[r] = orphans[r]
              \/ /\ at'[r] = "partition"
                 /\ \E b \in Head(todo[r]).bindings : IsPort(b)
                 /\ \E rest \in SUBSET Head(todo[r]).bindings :
                       orphans'[r] = orphans[r] \cup rest
  <1> DEFINE next == Head(todo[r])
             bad == Conflicting(next.bindings, Taken(r))
             rest == next.bindings \ bad
  <1>1. at[r] = "partition" /\ todo[r] \in Seq(Report) /\ todo[r] # <<>>
    BY DEF ServicesTypeOK, Partition
  <1>2. todo'[r] = Tail(todo[r]) /\ services' = services
    BY DEF ServicesTypeOK, Partition
  <1>3. next \in Report
    BY <1>1, TailOfReport
  <1>4. CASE bad = {}
    <2>1. /\ at' = [at EXCEPT ![r] = "create"]
          /\ work' = [work EXCEPT ![r] = [next EXCEPT !.bindings = Deduplicated(@)]]
          /\ orphans' = orphans
      BY <1>4 DEF Partition
    <2>2. [next EXCEPT !.bindings = Deduplicated(@)].bindings
            = Deduplicated(next.bindings)
      BY <1>3 DEF Report
    <2>3. /\ at'[r] = "create"
          /\ work'[r].bindings = Deduplicated(next.bindings)
          /\ orphans'[r] = orphans[r]
      <3> HIDE DEF next
      <3> QED
        BY <2>1, <2>2 DEF ServicesTypeOK
    <2> QED
      BY <1>1, <1>2, <2>3
  <1>5. CASE bad # {}
    <2>1. orphans' = [orphans EXCEPT ![r] = @ \cup rest] /\ at' = at
      BY <1>5 DEF Partition
    <2>2. \E b \in next.bindings : IsPort(b)
      BY <1>5 DEF Conflicting, Overlaps
    <2>3. rest \in SUBSET next.bindings
      OBVIOUS
    <2> HIDE DEF rest
    <2>4. orphans'[r] = orphans[r] \cup rest /\ at'[r] = "partition"
      BY <1>1, <2>1 DEF ServicesTypeOK
    <2> QED
      BY <1>1, <1>2, <2>2, <2>3, <2>4
  <1> QED
    BY <1>4, <1>5

LEMMA TodoStep ==
    ASSUME BindingsInv, NEW r \in Request, RequestStep(r)
    PROVE  ReportOK(todo'[r])
  <1>0. ServicesTypeOK /\ ReportOK(todo[r]) /\ r \in DOMAIN todo
    BY DEF BindingsInv, RestOfReport, ServicesTypeOK
  <1>00. ReportOK(<<>>)
    BY DEF ReportOK
  <1>1. CASE \E report \in Reports : DiscoverHost(r, report)
    BY <1>0, <1>1, ReportsOK DEF DiscoverHost
  <1>2. CASE Partition(r)
    BY <1>0, <1>2, PartitionIs, TailOK
  <1>3. CASE EndReport(r)
    BY <1>0, <1>00, <1>3 DEF EndReport, Done
  <1>4. CASE Create(r)
    BY <1>0, <1>00, <1>4 DEF Create, Done
  <1>5. CASE Upsert(r)
    BY <1>0, <1>00, <1>5 DEF Upsert, Done, Resume
  <1>6. CASE Insert(r)
    BY <1>0, <1>6 DEF Insert, Resume
  <1>7. CASE \E s \in Service, def \in Definition, bs \in Edits :
               Submit(r, s, def, bs)
    BY <1>0, <1>7 DEF Submit
  <1>8. CASE Save(r)
    BY <1>0, <1>00, <1>8 DEF Save, Done
  <1> QED
    BY <1>1, <1>2, <1>3, <1>4, <1>5, <1>6, <1>7, <1>8 DEF RequestStep

LEMMA OrphansStep ==
    ASSUME BindingsInv, NEW r \in Request, RequestStep(r)
    PROVE  \A b \in orphans'[r] : IsPort(b)
  <1>0. /\ ServicesTypeOK
        /\ r \in DOMAIN orphans
        /\ \A b \in orphans[r] : IsPort(b)
        /\ ReportOK(todo[r])
    BY DEF BindingsInv, RestOfReport, OrphansArePorts, ServicesTypeOK
  <1>1. CASE \E report \in Reports : DiscoverHost(r, report)
    BY <1>0, <1>1 DEF DiscoverHost
  <1>2. CASE Partition(r)
    <2>1. CASE orphans'[r] = orphans[r]
      BY <1>0, <2>1
    <2>2. ASSUME NEW b \in Head(todo[r]).bindings, IsPort(b),
                 NEW rest \in SUBSET Head(todo[r]).bindings,
                 orphans'[r] = orphans[r] \cup rest
          PROVE  \A c \in orphans'[r] : IsPort(c)
      <3>1. todo[r] \in Seq(Report) /\ todo[r] # <<>>
        BY <1>0, <1>2, PartitionIs
      <3>2. Head(todo[r]) = todo[r][1] /\ 1 \in DOMAIN todo[r]
        BY <3>1, TailOfReport
      <3>3. Uniform(Head(todo[r]).bindings)
        BY <1>0, <3>2 DEF ReportOK
      <3>4. \A c \in rest : IsPort(c)
        BY <2>2, <3>3 DEF Uniform
      <3> QED
        BY <1>0, <2>2, <3>4
    <2> QED
      BY <1>0, <1>2, <2>1, <2>2, PartitionIs
  <1>3. CASE EndReport(r)
    BY <1>0, <1>3 DEF EndReport, Done
  <1>4. CASE Create(r)
    BY <1>0, <1>4 DEF Create, Done
  <1>5. CASE Upsert(r)
    BY <1>0, <1>5 DEF Upsert, Done, Resume
  <1>6. CASE Insert(r)
    BY <1>0, <1>6 DEF Insert, Resume
  <1>7. CASE \E s \in Service, def \in Definition, bs \in Edits :
               Submit(r, s, def, bs)
    BY <1>0, <1>7 DEF Submit
  <1>8. CASE Save(r)
    BY <1>0, <1>8 DEF Save, Done
  <1> QED
    BY <1>1, <1>2, <1>3, <1>4, <1>5, <1>6, <1>7, <1>8 DEF RequestStep

(* What Create does: the service in work is merged with one of the host's, *)
(* will be inserted as it is, or the request ends.                         *)
LEMMA CreateIs ==
    ASSUME ServicesTypeOK, NEW r \in Request, Create(r)
    PROVE  /\ at[r] = "create"
           /\ services' = services
           /\ \/ /\ at'[r] = "upsert"
                 /\ target'[r] \in Existing
                 /\ work'[r].bindings =
                      MergedBindings(services[target'[r]].bindings, work[r].bindings)
                 /\ orphans'[r] = orphans[r] /\ todo'[r] = todo[r]
              \/ /\ at'[r] = "insert"
                 /\ work'[r] = work[r]
                 /\ orphans'[r] = orphans[r] /\ todo'[r] = todo[r]
              \/ Done(r)
  <1>1. at[r] = "create" /\ services' = services
    BY DEF Create
  <1>2. ASSUME NEW s \in Matching(work[r].def),
               target' = [target EXCEPT ![r] = s],
               work' = [work EXCEPT ![r].bindings =
                         MergedBindings(services[s].bindings, @)],
               at' = [at EXCEPT ![r] = "upsert"],
               UNCHANGED <<todo, claimed, orphans>>
        PROVE  /\ at'[r] = "upsert"
               /\ target'[r] \in Existing
               /\ work'[r].bindings =
                    MergedBindings(services[target'[r]].bindings, work[r].bindings)
               /\ orphans'[r] = orphans[r] /\ todo'[r] = todo[r]
    <2>1. target'[r] = s /\ s \in Existing /\ at'[r] = "upsert"
      BY <1>2 DEF ServicesTypeOK, Matching
    <2>2. work'[r] = [work[r] EXCEPT !.bindings =
                         MergedBindings(services[s].bindings, @)]
      BY <1>2 DEF ServicesTypeOK
    <2>3. work[r] \in Report
      BY DEF ServicesTypeOK
    <2>4. work'[r].bindings = MergedBindings(services[s].bindings, work[r].bindings)
      BY <2>2, <2>3 DEF Report
    <2> QED
      BY <1>2, <2>1, <2>4
  <1>3. ASSUME at' = [at EXCEPT ![r] = "insert"],
               UNCHANGED <<todo, claimed, orphans, work, target>>
        PROVE  /\ at'[r] = "insert"
               /\ work'[r] = work[r]
               /\ orphans'[r] = orphans[r] /\ todo'[r] = todo[r]
    BY <1>3 DEF ServicesTypeOK
  <1> QED
    BY <1>1, <1>2, <1>3 DEF Create

(* A request that has ended, or goes on to the next service, is as new. *)
LEMMA DoneIs ==
    ASSUME ServicesTypeOK, NEW r \in Request, Done(r)
    PROVE  at'[r] = "idle" /\ orphans'[r] = {} /\ todo'[r] = <<>>
  BY DEF ServicesTypeOK, Done

LEMMA ResumeIs ==
    ASSUME ServicesTypeOK, NEW r \in Request, Resume(r)
    PROVE  at'[r] = "partition" /\ orphans'[r] = orphans[r] /\ todo'[r] = todo[r]
  BY DEF ServicesTypeOK, Resume

(* What a step writes: the bindings in work, in the row of its target or   *)
(* in a fresh one.  Nothing else but a deletion changes a service.         *)
LEMMA RowsWritten ==
    ASSUME ServicesTypeOK, LocalsSet, NEW r \in Request, RequestStep(r),
           services' # services
    PROVE  /\ at[r] \in {"upsert", "insert", "save"}
           /\ at'[r] \in {"idle", "partition"}
           /\ at[r] = "save" => at'[r] = "idle"
           /\ at'[r] = "idle" => orphans'[r] = {}
           /\ orphans'[r] = orphans[r] \/ orphans'[r] = {}
           /\ todo'[r] = todo[r] \/ todo'[r] = <<>>
           /\ \E s \in Service :
                /\ at[r] \in {"upsert", "save"} => s = target[r]
                /\ Existing' = Existing \cup {s}
                /\ services'[s].bindings = work[r].bindings
                /\ \A u \in Service \ {s} : services'[u] = services[u]
  <1>0. r \in DOMAIN at /\ r \in DOMAIN target
    BY DEF ServicesTypeOK
  <1>1. ASSUME NEW s \in Service, NEW new \in Row,
               services' = [services EXCEPT ![s] = new]
        PROVE  /\ Existing' = Existing \cup {s}
               /\ services'[s] = new
               /\ \A u \in Service \ {s} : services'[u] = services[u]
    <2>1. services'[s] = new /\ \A u \in Service \ {s} : services'[u] = services[u]
      BY <1>1 DEF ServicesTypeOK
    <2>2. services'[s] \notin {NoService, Gone}
      BY <2>1, RowAssumption
    <2> QED
      BY <2>1, <2>2 DEF Existing
  <1>2. CASE \E report \in Reports : DiscoverHost(r, report)
    BY <1>2 DEF DiscoverHost
  <1>3. CASE Partition(r)
    BY <1>3 DEF Partition
  <1>4. CASE EndReport(r)
    BY <1>4 DEF EndReport
  <1>5. CASE Create(r)
    BY <1>5 DEF Create
  <1>6. CASE Upsert(r)
    <2>1. at[r] = "upsert" /\ target[r] \in Existing /\ Resume(r)
      BY <1>6 DEF Upsert
    <2> DEFINE s == target[r]
               new == [services[s] EXCEPT !.bindings = work[r].bindings]
    <2>2. s \in Service /\ services[s] \in Row
      BY <2>1, ExistingIsRow DEF Existing
    <2>3. work[r].bindings \in SUBSET Binding
      BY ReportFields DEF ServicesTypeOK
    <2>4. new \in Row /\ new.bindings = work[r].bindings
      BY <2>2, <2>3 DEF Row
    <2>5. services' = [services EXCEPT ![s] = new]
      BY <1>6, <2>1 DEF Upsert
    <2> HIDE DEF new
    <2>6. /\ Existing' = Existing \cup {s}
          /\ services'[s] = new
          /\ \A u \in Service \ {s} : services'[u] = services[u]
      BY <1>1, <2>2, <2>4, <2>5
    <2>7. at'[r] = "partition" /\ orphans'[r] = orphans[r] /\ todo'[r] = todo[r]
      BY <2>1, ResumeIs
    <2> QED
      BY <2>1, <2>2, <2>4, <2>6, <2>7
  <1>7. CASE Insert(r)
    <2> DEFINE new == [def |-> work[r].def, bindings |-> work[r].bindings,
                       discovered |-> TRUE]
    <2>1. PICK s \in Service : services' = [services EXCEPT ![s] = new]
      BY <1>7 DEF Insert, Unused
    <2>2. work[r].def \in Definition /\ work[r].bindings \in SUBSET Binding
      BY ReportFields DEF ServicesTypeOK
    <2>3. new \in Row /\ new.bindings = work[r].bindings
      BY <2>2 DEF Row
    <2> HIDE DEF new
    <2>4. /\ Existing' = Existing \cup {s}
          /\ services'[s] = new
          /\ \A u \in Service \ {s} : services'[u] = services[u]
      BY <1>1, <2>1, <2>3
    <2>5. at[r] = "insert" /\ Resume(r)
      BY <1>7 DEF Insert
    <2>6. at'[r] = "partition" /\ orphans'[r] = orphans[r] /\ todo'[r] = todo[r]
      BY <2>5, ResumeIs
    <2> QED
      BY <2>3, <2>4, <2>5, <2>6
  <1>8. CASE \E s \in Service, def \in Definition, bs \in Edits :
               Submit(r, s, def, bs)
    BY <1>8 DEF Submit
  <1>9. CASE Save(r)
    <2> DEFINE s == target[r]
               found == s \in Existing /\ services[s].discovered
               new == [def |-> work[r].def, bindings |-> work[r].bindings,
                       discovered |-> found]
    <2>1. at[r] = "save" /\ Done(r) /\ services' = [services EXCEPT ![s] = new]
      BY <1>9 DEF Save
    <2>2. s \in Service
      BY <2>1 DEF LocalsSet
    <2>3. work[r].def \in Definition /\ work[r].bindings \in SUBSET Binding
      BY ReportFields DEF ServicesTypeOK
    <2>4. found \in BOOLEAN
      <3>1. CASE s \in Existing
        BY <2>2, <3>1, ExistingIsRow, RowFields
      <3>2. CASE s \notin Existing
        BY <3>2
      <3> QED
        BY <3>1, <3>2
    <2>5. new \in Row /\ new.bindings = work[r].bindings
      <3> HIDE DEF found
      <3> QED
        BY <2>3, <2>4 DEF Row
    <2> HIDE DEF new
    <2>6. /\ Existing' = Existing \cup {s}
          /\ services'[s] = new
          /\ \A u \in Service \ {s} : services'[u] = services[u]
      BY <1>1, <2>1, <2>2, <2>5
    <2>7. at'[r] = "idle" /\ orphans'[r] = {} /\ todo'[r] = <<>>
      BY <2>1, DoneIs
    <2> QED
      BY <2>1, <2>2, <2>5, <2>6, <2>7
  <1> QED
    BY <1>2, <1>3, <1>4, <1>5, <1>6, <1>7, <1>8, <1>9 DEF RequestStep

LEMMA WorkStep ==
    ASSUME BindingsInv, NEW r \in Request, RequestStep(r)
    PROVE  at'[r] \in {"create", "upsert", "insert", "save"} =>
               Consistent(work'[r].bindings)
  <1>0. /\ ServicesTypeOK
        /\ r \in DOMAIN at
        /\ r \in DOMAIN work
    BY DEF BindingsInv, ServicesTypeOK
  <1>00. at[r] \in {"create", "upsert", "insert", "save"} =>
             Consistent(work[r].bindings)
    BY DEF BindingsInv, WorkConsistent
  <1>1. CASE \E report \in Reports : DiscoverHost(r, report)
    BY <1>0, <1>1 DEF DiscoverHost
  <1>2. CASE Partition(r)
    <2>1. CASE at'[r] = "partition"
      BY <2>1
    <2>2. CASE work'[r].bindings = Deduplicated(Head(todo[r]).bindings)
      <3>1. todo[r] \in Seq(Report) /\ todo[r] # <<>>
        BY <1>0, <1>2, PartitionIs
      <3>2. Head(todo[r]) = todo[r][1] /\ 1 \in DOMAIN todo[r]
        BY <3>1, TailOfReport
      <3>3. Uniform(Head(todo[r]).bindings)
        BY <3>2 DEF ReportOK, BindingsInv, RestOfReport
      <3>4. Uniform(Deduplicated(Head(todo[r]).bindings))
        BY <3>3 DEF Uniform, Deduplicated
      <3> QED
        BY <2>2, <3>4, UniformNoConflicts, DeduplicatedConsistent
    <2> QED
      BY <1>0, <1>2, <2>1, <2>2, PartitionIs
  <1>3. CASE EndReport(r)
    <2>1. CASE orphans[r] = {}
      BY <1>0, <1>3, <2>1, DoneIs DEF EndReport
    <2>2. CASE orphans[r] # {}
      <3>1. Uniform(Deduplicated(orphans[r]))
        BY DEF BindingsInv, OrphansArePorts, Uniform, Deduplicated, IsPort
      <3>2. work'[r].bindings = Deduplicated(orphans[r])
        BY <1>0, <1>3, <2>2 DEF EndReport
      <3> QED
        BY <3>1, <3>2, UniformNoConflicts, DeduplicatedConsistent
    <2> QED
      BY <2>1, <2>2
  <1>4. CASE Create(r)
    <2>1. CASE at'[r] = "upsert" /\ target'[r] \in Existing /\
               work'[r].bindings =
                 MergedBindings(services[target'[r]].bindings, work[r].bindings)
      <3>1. Consistent(work[r].bindings)
        BY <1>0, <1>00, <1>4, CreateIs
      <3>2. Consistent(services[target'[r]].bindings)
        BY <2>1 DEF BindingsInv, RowsConsistent
      <3> QED
        BY <2>1, <3>1, <3>2, MergedConsistent
    <2>2. CASE work'[r] = work[r]
      BY <1>0, <1>00, <1>4, <2>2, CreateIs
    <2>3. CASE Done(r)
      BY <1>0, <2>3, DoneIs
    <2> QED
      BY <1>0, <1>4, <2>1, <2>2, <2>3, CreateIs
  <1>5. CASE Upsert(r)
    BY <1>0, <1>5, DoneIs, ResumeIs DEF Upsert
  <1>6. CASE Insert(r)
    BY <1>0, <1>6, ResumeIs DEF Insert
  <1>7. ASSUME NEW s \in Service, NEW def \in Definition, NEW bs \in Edits,
               Submit(r, s, def, bs)
        PROVE  Consistent(work'[r].bindings)
    <2>1. work'[r].bindings = Deduplicated(bs) /\ NoConflicts(Deduplicated(bs))
      BY <1>0, <1>7 DEF Submit, Acceptable
    <2> QED
      BY <2>1, DeduplicatedConsistent
  <1>8. CASE Save(r)
    BY <1>0, <1>8, DoneIs DEF Save
  <1> QED
    BY <1>1, <1>2, <1>3, <1>4, <1>5, <1>6, <1>7, <1>8 DEF RequestStep

LEMMA RowsStep ==
    ASSUME BindingsInv, NEW r \in Request, RequestStep(r)
    PROVE  RowsConsistent'
  <1>1. CASE services' = services
    BY <1>1 DEF BindingsInv, RowsConsistent, Existing
  <1>2. CASE services' # services
    <2>1. at[r] \in {"upsert", "insert", "save"}
      BY <1>2, RowsWritten DEF BindingsInv
    <2>2. PICK s \in Service :
             /\ Existing' = Existing \cup {s}
             /\ services'[s].bindings = work[r].bindings
             /\ \A u \in Service \ {s} : services'[u] = services[u]
      BY <1>2, RowsWritten DEF BindingsInv
    <2>3. Consistent(services'[s].bindings)
      BY <2>1, <2>2 DEF BindingsInv, WorkConsistent
    <2>4. ASSUME NEW u \in Existing, u # s
          PROVE  Consistent(services'[u].bindings)
      BY <2>2, <2>4 DEF BindingsInv, RowsConsistent, Existing
    <2>5. \A u \in Existing' : Consistent(services'[u].bindings)
      BY <2>2, <2>3, <2>4
    <2> QED
      BY <2>5 DEF RowsConsistent
  <1> QED
    BY <1>1, <1>2

(* A deletion leaves the rows of the other services as they are. *)
LEMMA DeleteIs ==
    ASSUME ServicesTypeOK, NEW s \in Service, Delete(s)
    PROVE  /\ Existing' = Existing \ {s}
           /\ \A u \in Existing' : services'[u] = services[u]
           /\ UNCHANGED <<at, todo, claimed, orphans, work, target>>
  <1>1. services'[s] = Gone /\ \A u \in Service \ {s} : services'[u] = services[u]
    BY DEF ServicesTypeOK, Delete
  <1>2. Existing' = Existing \ {s}
    BY <1>1 DEF Existing
  <1> QED
    BY <1>1, <1>2 DEF Delete, request, Existing

LEMMA BindingsInvStep ==
    ASSUME BindingsInv, [Next]_vars
    PROVE  BindingsInv'
  <1>0. ServicesTypeOK
    BY DEF BindingsInv
  <1>1. ServicesTypeOK'
    BY <1>0, ServicesTypeStep
  <1>2. ASSUME NEW r \in Request, RequestStep(r)
        PROVE  BindingsInv'
    <2>1. LocalsSet'
      <3>1. ASSUME NEW q \in Request
            PROVE  at'[q] \in {"upsert", "save"} => target'[q] \in Service
        BY <1>0, <1>2, TargetSet, OthersKept DEF BindingsInv, LocalsSet
      <3> QED
        BY <3>1 DEF LocalsSet
    <2>2. RestOfReport'
      <3>1. ASSUME NEW q \in Request
            PROVE  ReportOK(todo'[q])
        BY <1>0, <1>2, TodoStep, OthersKept DEF BindingsInv, RestOfReport
      <3> QED
        BY <3>1 DEF RestOfReport
    <2>3. OrphansArePorts'
      <3>1. ASSUME NEW q \in Request
            PROVE  \A b \in orphans'[q] : IsPort(b)
        BY <1>0, <1>2, OrphansStep, OthersKept DEF BindingsInv, OrphansArePorts
      <3> QED
        BY <3>1 DEF OrphansArePorts
    <2>4. WorkConsistent'
      <3>1. ASSUME NEW q \in Request
            PROVE  at'[q] \in {"create", "upsert", "insert", "save"} =>
                       Consistent(work'[q].bindings)
        BY <1>0, <1>2, WorkStep, OthersKept DEF BindingsInv, WorkConsistent
      <3> QED
        BY <3>1 DEF WorkConsistent
    <2> QED
      BY <1>1, <1>2, <2>1, <2>2, <2>3, <2>4, RowsStep DEF BindingsInv
  <1>3. ASSUME NEW s \in Service, Delete(s)
        PROVE  BindingsInv'
    <2>1. /\ Existing' \subseteq Existing
          /\ \A u \in Existing' : services'[u] = services[u]
          /\ UNCHANGED <<at, todo, claimed, orphans, work, target>>
      BY <1>0, <1>3, DeleteIs
    <2>2. RowsConsistent'
      BY <2>1 DEF BindingsInv, RowsConsistent
    <2>3. LocalsSet' /\ RestOfReport' /\ OrphansArePorts' /\ WorkConsistent'
      BY <2>1 DEF BindingsInv, LocalsSet, RestOfReport, OrphansArePorts,
                  WorkConsistent
    <2> QED
      BY <1>1, <2>2, <2>3 DEF BindingsInv
  <1>4. CASE UNCHANGED vars
    BY <1>1, <1>4 DEF vars, request, BindingsInv, LocalsSet, RestOfReport,
                      OrphansArePorts, WorkConsistent, RowsConsistent, Existing
  <1> QED
    BY <1>2, <1>3, <1>4, NextIs

LEMMA BindingsInvInit ==
    ASSUME Init
    PROVE  BindingsInv
  <1>1. NoReport \in Report
    BY DefinitionAssumption DEF NoReport, Report
  <1>2. ServicesTypeOK
    BY <1>1 DEF Init, ServicesTypeOK
  <1>3. LocalsSet /\ RestOfReport /\ OrphansArePorts /\ WorkConsistent
    BY DEF Init, LocalsSet, RestOfReport, ReportOK, OrphansArePorts, WorkConsistent
  <1>4. Existing = {}
    BY DEF Init, Existing
  <1> QED
    BY <1>2, <1>3, <1>4 DEF BindingsInv, RowsConsistent

(* The invariant that makes a merge right without a check: what is in work *)
(* and what is in the rows is consistent, a report binds a service to ports*)
(* or to interfaces, and orphans are ports.                                *)
THEOREM BindingsInvariance == Spec => []BindingsInv
  <1>1. Init => BindingsInv
    BY BindingsInvInit
  <1>2. BindingsInv /\ [Next]_vars => BindingsInv'
    BY BindingsInvStep
  <1> QED
    BY <1>1, <1>2, PTL DEF Spec

(* No service ever holds two bindings that exclude or cover one another,   *)
(* however many reports and edits overlap: upsert_service merges bindings  *)
(* it has read into a row that may have changed since, and writes a set    *)
(* that is consistent by itself.                                           *)
THEOREM ServicesAreConsistent == Spec => []SelfConsistent
  <1>1. BindingsInv => SelfConsistent
    BY ConsistentIs DEF BindingsInv, RowsConsistent, SelfConsistent
  <1> QED
    BY <1>1, BindingsInvariance, PTL
=============================================================================
