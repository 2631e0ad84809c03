------------------------ MODULE TaskProcessorProofs ------------------------
(***************************************************************************)
(* Proofs about TaskProcessor, for every choice of its constants: any      *)
(* number of tasks, operators, workers and handlers, any epochs, weights   *)
(* and thresholds, and any set of failures.                                *)
(***************************************************************************)
EXTENDS TaskProcessor, TLAPS

\* The statements and tests the actions are written with stand for themselves.
USE DEF ListTasks, CreateTask, DeleteTaskByID, GetOperatorBySigningKey,
        ActiveOperator, VerifyResponse, VerifyTaskResponse, OnChain

----------------------------------------------------------------------------
(* Types                                                                   *)

\* A goroutine that is not at rest has a job.
JobHeld ==
    \A p \in Procs : pc[p] \notin {"idle", "next"} => job[p] \in Job

TypeInv == TypeOK /\ JobHeld

LEMMA ProcsFacts ==
    /\ "timeout" \in Procs /\ "confirm" \in Procs
    /\ "timeout" \in Tickers /\ "confirm" \in Tickers
    /\ Workers \subseteq Procs /\ Handlers \subseteq Procs
BY DEF Procs, Tickers

LEMMA TypeInit == Init => TypeInv
<1> SUFFICES ASSUME Init PROVE TypeInv
    OBVIOUS
<1> USE ConstantsAssumption DEF ConstantsAssumption
<1>1. TypeOK
  BY DEF Init, TypeOK, Epochs, Labels, Ref, NoRef
<1>2. JobHeld
  BY DEF Init, JobHeld
<1> QED BY <1>1, <1>2 DEF TypeInv

\* Values the steps build.
LEMMA JobWeight ==
    ASSUME NEW j \in Job, NEW w \in Nat
    PROVE  [j EXCEPT !.weight = w] \in Job
BY DEF Job

LEMMA NewEntry ==
    ASSUME NEW j \in Job, NEW o \in Operators
    PROVE  [task |-> j.task, from |-> o, content |-> j.content,
            epoch |-> j.epoch, weight |-> j.weight] \in Entry
BY DEF Job, Entry

LEMMA StoreEntryType ==
    ASSUME track \subseteq Entry, NEW j \in Job, NEW o \in Operators, StoreEntry(j, o)
    PROVE  track' \subseteq Entry
BY NewEntry DEF StoreEntry

LEMMA SetStatusType ==
    ASSUME tasks \subseteq TaskRow, NEW t, NEW st \in Statuses
    PROVE  SetStatus(t, st) \subseteq TaskRow
<1>1. ASSUME NEW r \in TaskRow PROVE [r EXCEPT !.status = st] \in TaskRow
  BY <1>1 DEF TaskRow
<1> QED BY <1>1 DEF SetStatus

LEMMA DerefType ==
    ASSUME TypeInv, NEW p \in Procs
    PROVE  Deref(p) \subseteq Entry
BY DEF TypeInv, TypeOK, Deref, Responses, Ref

LEMMA FreshRef ==
    NoRef \in Ref /\ [NoRef EXCEPT !.live = TRUE] \in Ref
BY DEF Ref, NoRef

LEMMA NewRef ==
    ASSUME NEW r \in Ref, NEW S \in SUBSET Entry, NEW C \in SUBSET Operators
    PROVE  /\ [r EXCEPT !.live = FALSE, !.rows = S] \in Ref
           /\ [r EXCEPT !.counted = C] \in Ref
           /\ [r EXCEPT !.keys = C, !.sigs = S] \in Ref
           /\ [NoRef EXCEPT !.counted = C, !.sigs = S] \in Ref
BY DEF Ref, NoRef

\* What the steps have in common: how a goroutine moves on keeps the types.
LEMMA TypeMoves ==
    ASSUME TypeInv, NEW p \in Procs,
           \/ Done(p)
           \/ Return(p) /\ pc[p] \notin {"idle", "next"}
           \/ Reboot
           \/ Panic(p)
           \/ \E l \in Labels : Goto(p, l) /\ pc[p] \notin {"idle", "next"}
    PROVE  /\ pc' \in [Procs -> Labels]
           /\ job' \in [Procs -> Job \cup {NoJob}]
           /\ ref' \in [Procs -> Ref]
           /\ cont' \in [Procs -> {"process", "done"}]
           /\ batch' \in [Tickers -> SUBSET TaskRow]
           /\ JobHeld'
<1> USE FreshRef DEF TypeInv, TypeOK, JobHeld, Labels
<1>1. CASE Done(p)
  BY <1>1 DEF Done, Rest
<1>2. CASE Return(p) /\ pc[p] \notin {"idle", "next"}
  <2>1. CASE cont[p] = "process"
    BY <1>2, <2>1 DEF Return
  <2>2. CASE cont[p] # "process"
    BY <1>2, <2>2, <1>1 DEF Return
  <2> QED BY <2>1, <2>2
<1>3. CASE Reboot
  BY <1>3 DEF Reboot
<1>4. CASE Panic(p)
  BY <1>4, <1>1, <1>3 DEF Panic
<1>5. CASE \E l \in Labels : Goto(p, l) /\ pc[p] \notin {"idle", "next"}
  BY <1>5 DEF Goto
<1> QED BY <1>1, <1>2, <1>3, <1>4, <1>5

LEMMA TypePanic ==
    ASSUME TypeInv, NEW p \in Procs, Panic(p)
    PROVE  TypeInv'
<1>1. CASE Reboot
  BY <1>1, TypeMoves, ConstantsAssumption
     DEF ConstantsAssumption, Reboot, TypeInv, TypeOK, Epochs, db
<1>2. CASE ~Reboot
  BY <1>2, TypeMoves DEF Panic, TypeInv, TypeOK, db, world
<1> QED BY <1>1, <1>2

LEMMA TypeResponse ==
    ASSUME TypeInv, NEW p \in Procs, ProcessResponse(p)
    PROVE  TypeInv'
<1> USE ConstantsAssumption DEF ConstantsAssumption
<1>1. CASE Receive(p)
  BY <1>1 DEF Receive, TypeInv, TypeOK, JobHeld, Labels, Job, Message, db, world
<1>2. ASSUME Violation(p) PROVE TypeInv'
  <2>1. violations' \in [Operators -> 0 .. MaxViolations]
    <3>1. violations \in [Operators -> 0 .. MaxViolations]
      BY DEF TypeInv, TypeOK
    <3>2. \/ violations' = violations
          \/ violations' = [violations EXCEPT ![job[p].from] =
                               IF @ < MaxViolations THEN @ + 1 ELSE @]
      BY <1>2 DEF Violation
    <3>3. \A n \in 0 .. MaxViolations :
            (IF n < MaxViolations THEN n + 1 ELSE n) \in 0 .. MaxViolations
      OBVIOUS
    <3> QED BY <3>1, <3>2, <3>3
  <2> QED BY <1>2, <2>1, TypeMoves DEF Violation, TypeInv, TypeOK, world
<1>3. CASE Lookup(p)
  <2>1. CASE Violation(p)
    BY <2>1, <1>2
  <2>2. CASE ~Violation(p)
    <3>1. job[p] \in Job
      BY <1>3 DEF Lookup, TypeInv, JobHeld
    <3>2. OperatorWeight(job[p].from) \in Nat
      BY <3>1 DEF TypeInv, TypeOK, Job, OperatorWeight
    <3>3. [job[p] EXCEPT !.weight = OperatorWeight(job[p].from)] \in Job
      BY <3>1, <3>2, JobWeight
    <3> QED BY <1>3, <2>2, <3>1, <3>3
            DEF Lookup, TypeInv, TypeOK, JobHeld, Labels, db, world
  <2> QED BY <2>1, <2>2
<1>4. CASE Seen(p)
  <2>1. CASE Violation(p)
    BY <2>1, <1>2
  <2>2. CASE ~Violation(p)
    BY <1>4, <2>2, TypeMoves DEF Seen, TypeInv, TypeOK, Labels, db, world
  <2> QED BY <2>1, <2>2
<1>5. CASE Store(p)
  <2>1. track' \subseteq Entry
    <3>1. job[p] \in Job
      BY <1>5 DEF Store, TypeInv, JobHeld
    <3> QED BY <1>5, <3>1, StoreEntryType DEF Store, TypeInv, TypeOK, Job
  <2> QED BY <1>5, <2>1
          DEF Store, TypeInv, TypeOK, JobHeld, Labels, db, world
<1> QED BY <1>1, <1>3, <1>4, <1>5 DEF ProcessResponse

LEMMA CollectMoves ==
    ASSUME NEW p \in Procs, Collect(p)
    PROVE  /\ UNCHANGED <<db, world, published, track>>
           /\ \/ Return(p)
              \/ /\ Take(p, FirstOf(Keys(p)))
                 /\ UNCHANGED <<job, cont, batch>>
                 /\ \E l \in {"gather", "create"} : pc' = [pc EXCEPT ![p] = l]
                 /\ \E f : ref' = [ref EXCEPT ![p] = f]
BY DEF Collect, Take

LEMMA TypeConsensus ==
    ASSUME TypeInv, NEW p \in Procs, CheckConsensus(p)
    PROVE  TypeInv'
<1> USE ConstantsAssumption DEF ConstantsAssumption
<1>1. CASE Load(p)
  <2>1. CASE Return(p)
    BY <1>1, <2>1, TypeMoves DEF Load, TypeInv, TypeOK, db, world
  <2>2. CASE ~Return(p)
    BY <1>1, <2>2, FreshRef DEF Load, TypeInv, TypeOK, JobHeld, Labels, db, world
  <2> QED BY <2>1, <2>2
<1>2. CASE Total(p)
  <2>1. CASE Panic(p)
    BY <2>1, TypePanic
  <2>2. CASE Return(p) /\ ~Panic(p)
    BY <1>2, <2>2, TypeMoves DEF Total, TypeInv, TypeOK, db, world
  <2>3. CASE ~Return(p) /\ ~Panic(p)
    <3>1. {e.from : e \in Deref(p)} \subseteq Operators
      BY DerefType DEF Entry
    <3>2. [ref[p] EXCEPT !.counted = {e.from : e \in Deref(p)}] \in Ref
      BY <3>1, NewRef DEF TypeInv, TypeOK
    <3> QED BY <1>2, <2>3, <3>2
            DEF Total, TypeInv, TypeOK, JobHeld, Labels, db, world
  <2> QED BY <2>1, <2>2, <2>3
<1>3. CASE Collect(p)
  <2>1. CASE Return(p)
    BY <1>3, <2>1, TypeMoves DEF Collect, TypeInv, TypeOK, db, world
  <2>2. CASE ~Return(p)
    <3> DEFINE o == FirstOf(Keys(p))
               left == Keys(p) \ {o}
               sigs == ref[p].sigs \cup {e \in Deref(p) : e.from = o}
    <3>1. ref[p] \in Ref /\ ref[p].counted \in SUBSET Operators
      BY DEF TypeInv, TypeOK, Ref
    <3>2. left \in SUBSET Operators
      BY <3>1, DerefType DEF Keys, Entry, Ref
    <3>3. sigs \in SUBSET Entry
      BY <3>1, DerefType DEF Ref
    <3>4. /\ [ref[p] EXCEPT !.keys = left, !.sigs = sigs] \in Ref
          /\ [NoRef EXCEPT !.counted = ref[p].counted, !.sigs = sigs] \in Ref
      BY <3>1, <3>2, <3>3, NewRef
    <3>5. Take(p, o)
      BY <1>3, <2>2 DEF Collect
    <3>6. PICK f \in Ref : ref' = [ref EXCEPT ![p] = f]
      BY <3>4, <3>5 DEF Take
    <3>7. /\ UNCHANGED <<db, world, published, track, job, cont, batch>>
          /\ pc[p] \notin {"idle", "next"}
          /\ \E l \in Labels : pc' = [pc EXCEPT ![p] = l]
      BY <1>3, <2>2, CollectMoves DEF Collect, Labels
    <3> QED BY <3>6, <3>7 DEF TypeInv, TypeOK, JobHeld, db, world
  <2> QED BY <2>1, <2>2
<1>4. CASE Create(p)
  <2>1. CASE Return(p) /\ UNCHANGED consensus
    BY <1>4, <2>1, TypeMoves DEF Create, TypeInv, TypeOK, world
  <2>2. CASE Goto(p, "complete") /\ ~UNCHANGED consensus
    <3>1. consensus' \subseteq Row
      <4>1. job[p] \in Job /\ ref[p] \in Ref
        BY <1>4 DEF Create, TypeInv, TypeOK, JobHeld
      <4>2. [task |-> job[p].task, content |-> job[p].content,
             epoch |-> job[p].epoch, sigs |-> ref[p].sigs,
             counted |-> ref[p].counted] \in Row
        BY <4>1 DEF Row, Ref, Job
      <4> QED BY <1>4, <2>2, <4>2 DEF Create, TypeInv, TypeOK
    <3> QED BY <1>4, <2>2, <3>1, TypeMoves
            DEF Create, TypeInv, TypeOK, Labels, world
  <2>3. CASE Goto(p, "complete") /\ UNCHANGED consensus
    BY <1>4, <2>3, TypeMoves DEF Create, TypeInv, TypeOK, Labels, world
  <2> QED BY <1>4, <2>1, <2>2, <2>3 DEF Create
<1>5. CASE Complete(p)
  <2>1. tasks' \subseteq TaskRow
    BY <1>5, SetStatusType DEF Complete, TypeInv, TypeOK, Statuses
  <2> QED BY <1>5, <2>1, TypeMoves DEF Complete, TypeInv, TypeOK, world
<1> QED BY <1>1, <1>2, <1>3, <1>4, <1>5 DEF CheckConsensus

LEMMA TypeProcess ==
    ASSUME TypeInv, NEW p \in Procs, Process(p) \/ Sign(p) \/ Respond(p)
    PROVE  TypeInv'
<1> USE ConstantsAssumption DEF ConstantsAssumption
<1>1. CASE Process(p)
  BY <1>1, TypeMoves DEF Process, TypeInv, TypeOK, Labels, db, world
<1>2. CASE Sign(p)
  <2>1. CASE Panic(p)
    BY <2>1, TypePanic
  <2>2. CASE Done(p) /\ ~Panic(p)
    BY <1>2, <2>2, TypeMoves DEF Sign, TypeInv, TypeOK, db, world
  <2>3. CASE ~Done(p) /\ ~Panic(p)
    <3>1. job[p] \in Job /\ OperatorWeight(Self) \in Nat
      <4>1. job[p] \in Job
        BY <1>2 DEF Sign, TypeInv, JobHeld
      <4>2. opEpoch[Self] \in Epochs
        BY DEF TypeInv, TypeOK
      <4> QED BY <4>1, <4>2 DEF OperatorWeight
    <3>2. [job[p] EXCEPT !.weight = OperatorWeight(Self)] \in Job
      BY <3>1, JobWeight
    <3> QED BY <1>2, <2>3, <3>2
            DEF Sign, TypeInv, TypeOK, JobHeld, Labels, db, world
  <2> QED BY <2>1, <2>2, <2>3
<1>3. CASE Respond(p)
  <2>1. job[p] \in Job
    BY <1>3 DEF Respond, TypeInv, JobHeld
  <2>2. track' \subseteq Entry
    BY <1>3, <2>1, StoreEntryType DEF Respond, TypeInv, TypeOK
  <2>3. [task |-> job[p].task, content |-> job[p].content, epoch |-> job[p].epoch]
            \in Signed
    BY <2>1 DEF Job, Signed
  <2>4. published' \subseteq Signed
    BY <1>3, <2>3 DEF Respond, TypeInv, TypeOK
  <2> QED BY <1>3, <2>2, <2>4, TypeMoves
          DEF Respond, TypeInv, TypeOK, Labels, db, world
<1> QED BY <1>1, <1>2, <1>3

LEMMA TypeRequest ==
    ASSUME TypeInv, NEW p \in Procs, SendRequest(p)
    PROVE  TypeInv'
<1> USE ConstantsAssumption DEF ConstantsAssumption
<1>1. CASE ApiRequest(p)
  BY <1>1 DEF ApiRequest, TypeInv, TypeOK, JobHeld, Labels, Job, Request, db, world
<1>2. CASE ApiCreate(p)
  <2>1. job[p] \in Job
    BY <1>2 DEF ApiCreate, TypeInv, JobHeld
  <2>2. \A st \in Statuses :
          [task |-> job[p].task, content |-> job[p].content, epoch |-> job[p].epoch,
           retry |-> 0, status |-> st] \in TaskRow
    BY <2>1 DEF Job, TaskRow
  <2>3. tasks' \subseteq TaskRow
    BY <1>2, <2>2 DEF ApiCreate, TypeInv, TypeOK, Statuses
  <2> QED BY <1>2, <2>3, TypeMoves DEF ApiCreate, TypeInv, TypeOK, Labels, world
<1> QED BY <1>1, <1>2 DEF SendRequest

LEMMA DetachType ==
    ASSUME TypeInv, NEW gone, Detach(gone)
    PROVE  ref' \in [Procs -> Ref]
BY DerefType, NewRef DEF Detach, TypeInv, TypeOK

LEMMA JobOfType ==
    ASSUME NEW r \in TaskRow
    PROVE  JobOf(r) \in Job
BY ConstantsAssumption DEF ConstantsAssumption, JobOf, TaskRow, Job

LEMMA TypeTimeouts ==
    ASSUME TypeInv, CheckTimeouts
    PROVE  TypeInv'
<1> USE ConstantsAssumption, ProcsFacts DEF ConstantsAssumption
<1>1. CASE TimeoutTick
  BY <1>1 DEF TimeoutTick, TypeInv, TypeOK, JobHeld, Labels, db, world
<1>2. ASSUME NEW r \in batch["timeout"], TimeoutVisit(r) PROVE TypeInv'
  <2>1. CASE Panic("timeout")
    BY <2>1, TypePanic
  <2>2. CASE ~Panic("timeout")
    <3>1. JobOf(r) \in Job
      BY JobOfType DEF TypeInv, TypeOK
    <3>a. batch' = [batch EXCEPT !["timeout"] = @ \ {r}]
      BY <1>2, <2>2 DEF TimeoutVisit
    <3>b. \/ /\ UNCHANGED job
             /\ \E l \in {"idle", "next"} : pc' = [pc EXCEPT !["timeout"] = l]
          \/ /\ job' = [job EXCEPT !["timeout"] = JobOf(r)]
             /\ \E l \in {"delete", "process"} : pc' = [pc EXCEPT !["timeout"] = l]
      BY <1>2, <2>2, Zenon DEF TimeoutVisit, Rest
    <3>2. batch' \in [Tickers -> SUBSET TaskRow]
      BY <3>a DEF TypeInv, TypeOK
    <3>3. pc' \in [Procs -> Labels]
      BY <3>b DEF TypeInv, TypeOK, Labels
    <3>4. job' \in [Procs -> Job \cup {NoJob}]
      <4>1. job \in [Procs -> Job \cup {NoJob}]
        BY DEF TypeInv, TypeOK
      <4> QED BY <3>1, <3>b, <4>1
    <3>6. JobHeld'
      <4>1. ASSUME UNCHANGED job, NEW l \in {"idle", "next"},
                   pc' = [pc EXCEPT !["timeout"] = l]
            PROVE  JobHeld'
        BY <4>1 DEF TypeInv, TypeOK, JobHeld
      <4>2. ASSUME job' = [job EXCEPT !["timeout"] = JobOf(r)],
                   NEW l \in {"delete", "process"},
                   pc' = [pc EXCEPT !["timeout"] = l]
            PROVE  JobHeld'
        BY <3>1, <4>2 DEF TypeInv, TypeOK, JobHeld
      <4> QED BY <3>b, <4>1, <4>2
    <3>5. tasks' \subseteq TaskRow
      <4>1. CASE UNCHANGED tasks
        BY <4>1 DEF TypeInv, TypeOK
      <4>2. CASE ~UNCHANGED tasks
        <5>1. ASSUME NEW x \in TaskRow, NEW n \in 0 .. MaxRetry
              PROVE  [x EXCEPT !.retry = n] \in TaskRow
          BY <5>1 DEF TaskRow
        <5>2. tasks' = IncrementRetryCount(r.task) /\ HasTask(r.task)
          BY <1>2, <2>2, <4>2 DEF TimeoutVisit, db
        <5>3. PICK now \in tasks : now = CHOOSE x \in tasks : x.task = r.task
          BY <5>2 DEF HasTask
        <5>4. now.retry \in 0 .. MaxRetry
          BY DEF TypeInv, TypeOK, TaskRow
        <5>5. NextRetry(r.task) \in 0 .. MaxRetry
          BY <5>3, <5>4 DEF NextRetry
        <5> QED BY <5>1, <5>2, <5>5 DEF IncrementRetryCount, TypeInv, TypeOK
      <4> QED BY <4>1, <4>2
    <3> QED BY <1>2, <2>2, <3>2, <3>3, <3>4, <3>5, <3>6
            DEF TimeoutVisit, TypeInv, TypeOK, db, world
  <2> QED BY <2>1, <2>2
<1>3. CASE TimeoutDelete
  <2>1. tasks' \subseteq TaskRow
    BY <1>3 DEF TimeoutDelete, TypeInv, TypeOK
  <2> QED BY <1>3, <2>1, TypeMoves DEF TimeoutDelete, TypeInv, TypeOK, Labels, world
<1>4. CASE TimeoutForget
  <2>1. ref' \in [Procs -> Ref]
    BY <1>4, DetachType DEF TimeoutForget
  <2>2. track' \subseteq Entry
    BY <1>4 DEF TimeoutForget, TypeInv, TypeOK
  <2> QED BY <1>4, <2>1, <2>2
          DEF TimeoutForget, Rest, TypeInv, TypeOK, JobHeld, Labels, db, world
<1> QED BY <1>1, <1>2, <1>3, <1>4 DEF CheckTimeouts

LEMMA TypeConfirmations ==
    ASSUME TypeInv, CheckConfirmations
    PROVE  TypeInv'
<1> USE ProcsFacts
<1>1. CASE ConfirmTick
  BY <1>1 DEF ConfirmTick, TypeInv, TypeOK, JobHeld, Labels, db, world
<1>2. ASSUME NEW r \in batch["confirm"], ConfirmVisit(r) PROVE TypeInv'
  <2>1. JobOf(r) \in Job
    BY JobOfType DEF TypeInv, TypeOK
  <2>2. tasks' \subseteq TaskRow
    BY <1>2, SetStatusType DEF ConfirmVisit, TypeInv, TypeOK, Statuses
  <2> QED BY <1>2, <2>1, <2>2
          DEF ConfirmVisit, Rest, TypeInv, TypeOK, JobHeld, Labels, world
<1> QED BY <1>1, <1>2 DEF CheckConfirmations

LEMMA TypeSurroundings ==
    ASSUME TypeInv, CleanupAll \/ Surroundings
    PROVE  TypeInv'
<1> USE ConstantsAssumption DEF ConstantsAssumption
<1>1. CASE CleanupAll
  <2>1. ref' \in [Procs -> Ref]
    BY <1>1, DetachType DEF CleanupAll
  <2> QED BY <1>1, <2>1 DEF CleanupAll, TypeInv, TypeOK, JobHeld, db, world
<1>2. CASE EpochState
  BY <1>2 DEF EpochState, TypeInv, TypeOK, JobHeld, db, procs
<1>3. CASE OperatorsCommit \/ \E o \in Operators : UpsertOperator(o)
  <2>1. opEpoch' \in [Operators -> Epochs] /\ processed' \in Epochs
    <3>1. opEpoch \in [Operators -> Epochs] /\ epoch \in Epochs
             /\ processed \in Epochs /\ 0 \in Epochs
      BY DEF TypeInv, TypeOK, Epochs
    <3> QED BY <1>3, <3>1 DEF OperatorsCommit, UpsertOperator
  <2> QED BY <1>3, <2>1
          DEF OperatorsCommit, UpsertOperator, TypeInv, TypeOK, JobHeld, db, procs
<1>4. CASE ChainEpoch
  BY <1>4 DEF ChainEpoch, TypeInv, TypeOK, JobHeld, Epochs, db, procs
<1>5. CASE \E c \in Contents : ChainConfirms(c)
  BY <1>5 DEF ChainConfirms, TypeInv, TypeOK, JobHeld, db, procs
<1>6. CASE Crash
  <2>1. Panic("timeout")
    BY <1>6, ProcsFacts DEF Crash, Panic
  <2> QED BY <2>1, ProcsFacts, TypePanic
<1> QED BY <1>1, <1>2, <1>3, <1>4, <1>5, <1>6 DEF Surroundings

LEMMA TypeStep == TypeInv /\ [Next]_vars => TypeInv'
<1> SUFFICES ASSUME TypeInv, [Next]_vars PROVE TypeInv'
    OBVIOUS
<1>1. CASE UNCHANGED vars
  BY <1>1 DEF vars, TypeInv, TypeOK, JobHeld
<1>2. CASE Next
  BY <1>2, TypeResponse, TypeConsensus, TypeProcess, TypeRequest, TypeTimeouts,
     TypeConfirmations, TypeSurroundings DEF Next, ProcessTask
<1> QED BY <1>1, <1>2

\* The tables, the maps and the goroutines of the node keep to their types,
\* whatever fails and however its goroutines interleave.
THEOREM TypeCorrect == Spec => []TypeOK
<1>1. Spec => []TypeInv
  BY TypeInit, TypeStep, PTL DEF Spec
<1>2. TypeInv => TypeOK
  BY DEF TypeInv
<1> QED BY <1>1, <1>2, PTL

============================================================================
