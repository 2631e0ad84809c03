------------------------ MODULE TaskProcessorSafety ------------------------
(***************************************************************************)
(* Safety invariants of TaskProcessor, proved for every choice of its      *)
(* constants on top of the type invariant of TaskProcessorProofs, and with *)
(* them that it implements TaskLifecycle.  Each invariant is strengthened  *)
(* with what the goroutines know at the labels that matter.                *)
(***************************************************************************)
EXTENDS TaskProcessorProofs

\* The statements and tests the actions are written with stand for themselves.
USE DEF ListTasks, CreateTask, DeleteTaskByID, GetOperatorBySigningKey,
        ActiveOperator, VerifyResponse, VerifyTaskResponse, OnChain

----------------------------------------------------------------------------
(* A completed task has its consensus.                                     *)

\* Whoever is about to mark a task as completed has seen its consensus stored.
CompleteKnown ==
    \A p \in Procs : pc[p] = "complete" => HasConsensus(job[p].task)

CompletedInv == CompletedHasConsensus /\ CompleteKnown

\* What a step that neither completes a task nor stores a consensus does.
NoneCompleted ==
    \A r \in tasks' : r.status = "completed" =>
        \E s \in tasks : s.status = "completed" /\ s.task = r.task
NoneArrives ==
    \A q \in Procs : pc'[q] = "complete" => pc[q] = "complete" /\ job'[q] = job[q]

\* The updates of the tasks table keep its keys, and which rows they change.
LEMMA RetryRows ==
    ASSUME TypeInv, NEW t, NEW x \in IncrementRetryCount(t)
    PROVE  \E r \in tasks : r.task = x.task /\ r.status = x.status
<1>1. PICK r \in tasks :
         x = IF r.task = t THEN [r EXCEPT !.retry = NextRetry(t)] ELSE r
  BY DEF IncrementRetryCount
<1>2. r \in TaskRow
  BY DEF TypeInv, TypeOK
<1>3. r.task = x.task /\ r.status = x.status
  BY <1>1, <1>2 DEF TaskRow
<1> QED BY <1>3

LEMMA CompletedInit == Init => CompletedInv
BY DEF Init, CompletedInv, CompletedHasConsensus, CompleteKnown

LEMMA CompletedQuiet ==
    ASSUME CompletedInv, consensus \subseteq consensus', NoneCompleted, NoneArrives
    PROVE  CompletedInv'
BY DEF CompletedInv, CompletedHasConsensus, CompleteKnown, HasConsensus,
       NoneCompleted, NoneArrives

LEMMA NoneArrivesMoves ==
    ASSUME TypeInv, NEW p \in Procs,
           \/ Done(p) \/ Return(p) \/ Reboot \/ Panic(p)
           \/ \E l \in Labels \ {"complete"} : Goto(p, l)
    PROVE  NoneArrives
<1> USE DEF TypeInv, TypeOK, NoneArrives
<1>1. CASE Done(p)
  BY <1>1 DEF Done, Rest
<1>2. CASE Return(p)
  BY <1>1, <1>2 DEF Return
<1>3. CASE Reboot
  BY <1>3 DEF Reboot
<1>4. CASE Panic(p)
  BY <1>4, <1>1, <1>3 DEF Panic
<1>5. CASE \E l \in Labels \ {"complete"} : Goto(p, l)
  BY <1>5 DEF Goto
<1> QED BY <1>1, <1>2, <1>3, <1>4, <1>5

LEMMA TasksKept ==
    ASSUME UNCHANGED tasks
    PROVE  NoneCompleted
BY DEF NoneCompleted

LEMMA PanicFrame ==
    ASSUME NEW p \in Procs, Panic(p)
    PROVE  UNCHANGED <<tasks, consensus, violations, published>>
BY DEF Panic, Reboot, db

LEMMA CompletedResponse ==
    ASSUME TypeInv, CompletedInv, NEW p \in Procs, ProcessResponse(p)
    PROVE  CompletedInv'
<1>1. UNCHANGED <<tasks, consensus>>
  BY DEF ProcessResponse, Receive, Lookup, Seen, Store, Violation, db
<1>2. NoneArrives
  <2>1. CASE Receive(p)
    BY <2>1 DEF Receive, NoneArrives, TypeInv, TypeOK
  <2>2. CASE Lookup(p)
    BY <2>2, NoneArrivesMoves DEF Lookup, Violation, NoneArrives, TypeInv, TypeOK
  <2>3. CASE Seen(p)
    BY <2>3, NoneArrivesMoves DEF Seen, Violation, Labels
  <2>4. CASE Store(p)
    BY <2>4 DEF Store, NoneArrives, TypeInv, TypeOK
  <2> QED BY <2>1, <2>2, <2>3, <2>4 DEF ProcessResponse
<1> QED BY <1>1, <1>2, TasksKept, CompletedQuiet

LEMMA CompletedConsensus ==
    ASSUME TypeInv, CompletedInv, NEW p \in Procs, CheckConsensus(p)
    PROVE  CompletedInv'
<1>1. CASE Load(p)
  <2>1. NoneArrives
    BY <1>1, NoneArrivesMoves DEF Load, NoneArrives, TypeInv, TypeOK
  <2> QED BY <1>1, <2>1, TasksKept, CompletedQuiet DEF Load, db
<1>2. CASE Total(p)
  <2>1. NoneArrives
    BY <1>2, NoneArrivesMoves DEF Total, NoneArrives, TypeInv, TypeOK
  <2>2. UNCHANGED <<tasks, consensus>>
    BY <1>2, PanicFrame DEF Total, db
  <2> QED BY <2>1, <2>2, TasksKept, CompletedQuiet
<1>3. CASE Collect(p)
  <2>1. NoneArrives
    BY <1>3, CollectMoves, NoneArrivesMoves DEF NoneArrives, TypeInv, TypeOK
  <2> QED BY <1>3, <2>1, TasksKept, CompletedQuiet DEF Collect, db
<1>4. CASE Create(p)
  <2>1. CASE Return(p) /\ UNCHANGED consensus
    <3>1. NoneArrives
      BY <2>1, NoneArrivesMoves
    <3> QED BY <1>4, <2>1, <3>1, TasksKept, CompletedQuiet DEF Create
  <2>2. CASE ~(Return(p) /\ UNCHANGED consensus)
    <3>1. /\ UNCHANGED <<tasks, job>>
          /\ consensus \subseteq consensus'
          /\ \E r \in consensus' : r.task = job[p].task
          /\ pc' = [pc EXCEPT ![p] = "complete"]
      <4> DEFINE row == [task |-> job[p].task, content |-> job[p].content,
                         epoch |-> job[p].epoch, sigs |-> ref[p].sigs,
                         counted |-> ref[p].counted]
      <4>1. consensus' = consensus \cup {row} /\ Goto(p, "complete") /\ UNCHANGED tasks
        BY <1>4, <2>2 DEF Create
      <4>2. row.task = job[p].task
        OBVIOUS
      <4> HIDE DEF row
      <4> QED BY <4>1, <4>2 DEF Goto
    <3>2. CompletedHasConsensus'
      BY <3>1 DEF CompletedInv, CompletedHasConsensus, HasConsensus
    <3>3. CompleteKnown'
      BY <3>1 DEF CompletedInv, CompleteKnown, HasConsensus, TypeInv, TypeOK
    <3> QED BY <3>2, <3>3 DEF CompletedInv
  <2> QED BY <2>1, <2>2
<1>5. CASE Complete(p)
  <2>1. HasConsensus(job[p].task)
    BY <1>5 DEF Complete, CompletedInv, CompleteKnown
  <2>2. UNCHANGED consensus /\ NoneArrives
    BY <1>5, NoneArrivesMoves DEF Complete
  <2>3. CompleteKnown'
    BY <2>2 DEF CompletedInv, CompleteKnown, NoneArrives, HasConsensus
  <2>4. ASSUME NEW r \in tasks', r.status = "completed"
        PROVE  HasConsensus(r.task)
    <3>1. \/ r.task = job[p].task
          \/ r \in tasks
      BY <1>5 DEF Complete, SetStatus, TypeInv, TypeOK, TaskRow
    <3> QED BY <2>1, <2>4, <3>1 DEF CompletedInv, CompletedHasConsensus
  <2> QED BY <2>2, <2>3, <2>4
          DEF CompletedInv, CompletedHasConsensus, HasConsensus
<1> QED BY <1>1, <1>2, <1>3, <1>4, <1>5 DEF CheckConsensus

LEMMA CompletedProcess ==
    ASSUME TypeInv, CompletedInv, NEW p \in Procs, Process(p) \/ Sign(p) \/ Respond(p)
    PROVE  CompletedInv'
<1>1. UNCHANGED <<tasks, consensus>>
  BY PanicFrame DEF Process, Sign, Respond, db
<1>2. NoneArrives
  <2>1. CASE Process(p)
    BY <2>1, NoneArrivesMoves DEF Process, Labels
  <2>2. CASE Sign(p)
    BY <2>2, NoneArrivesMoves DEF Sign, NoneArrives, TypeInv, TypeOK
  <2>3. CASE Respond(p)
    BY <2>3, NoneArrivesMoves DEF Respond, Labels
  <2> QED BY <2>1, <2>2, <2>3
<1> QED BY <1>1, <1>2, TasksKept, CompletedQuiet

LEMMA CompletedRequest ==
    ASSUME TypeInv, CompletedInv, NEW p \in Procs, SendRequest(p)
    PROVE  CompletedInv'
<1>1. UNCHANGED consensus
  BY DEF SendRequest, ApiRequest, ApiCreate, db
<1>2. NoneArrives
  <2>1. CASE ApiRequest(p)
    BY <2>1 DEF ApiRequest, NoneArrives, TypeInv, TypeOK
  <2>2. CASE ApiCreate(p)
    BY <2>2, NoneArrivesMoves DEF ApiCreate, Labels
  <2> QED BY <2>1, <2>2 DEF SendRequest
<1>3. NoneCompleted
  BY DEF SendRequest, ApiRequest, ApiCreate, NoneCompleted, db
<1> QED BY <1>1, <1>2, <1>3, CompletedQuiet

LEMMA CompletedTickers ==
    ASSUME TypeInv, CompletedInv, CheckTimeouts \/ CheckConfirmations
    PROVE  CompletedInv'
<1> USE ProcsFacts
<1>1. CASE TimeoutTick \/ ConfirmTick
  <2>1. NoneArrives
    BY <1>1 DEF TimeoutTick, ConfirmTick, NoneArrives, TypeInv, TypeOK
  <2> QED BY <1>1, <2>1, TasksKept, CompletedQuiet DEF TimeoutTick, ConfirmTick, db
<1>2. ASSUME NEW r \in batch["timeout"], TimeoutVisit(r) PROVE CompletedInv'
  <2>1. CASE Panic("timeout")
    BY <2>1, NoneArrivesMoves, PanicFrame, TasksKept, CompletedQuiet
  <2>2. CASE ~Panic("timeout")
    <3>1. \E l \in {"idle", "next", "delete", "process"} :
              pc' = [pc EXCEPT !["timeout"] = l]
      BY <1>2, <2>2, Zenon DEF TimeoutVisit, Rest
    <3>2. \A q \in Procs \ {"timeout"} : job'[q] = job[q]
      BY <1>2, <2>2 DEF TimeoutVisit, TypeInv, TypeOK
    <3>3. NoneArrives
      BY <3>1, <3>2 DEF NoneArrives, TypeInv, TypeOK
    <3>4. UNCHANGED consensus
      BY <1>2, <2>2 DEF TimeoutVisit, db
    <3>5. UNCHANGED tasks \/ tasks' = IncrementRetryCount(r.task)
      BY <1>2, <2>2 DEF TimeoutVisit, db
    <3>6. NoneCompleted
      BY <3>5, RetryRows DEF NoneCompleted
    <3> QED BY <3>3, <3>4, <3>6, CompletedQuiet
  <2> QED BY <2>1, <2>2
<1>3. CASE TimeoutDelete
  <2>1. NoneArrives
    BY <1>3, NoneArrivesMoves DEF TimeoutDelete, Labels
  <2>2. NoneCompleted
    BY <1>3 DEF TimeoutDelete, NoneCompleted
  <2> QED BY <1>3, <2>1, <2>2, CompletedQuiet DEF TimeoutDelete
<1>4. CASE TimeoutForget
  <2>1. NoneArrives
    BY <1>4 DEF TimeoutForget, Rest, NoneArrives, TypeInv, TypeOK
  <2> QED BY <1>4, <2>1, TasksKept, CompletedQuiet DEF TimeoutForget, db
<1>5. ASSUME NEW r \in batch["confirm"], ConfirmVisit(r) PROVE CompletedInv'
  <2>1. NoneArrives
    BY <1>5 DEF ConfirmVisit, Rest, NoneArrives, TypeInv, TypeOK
  <2>2. NoneCompleted
    BY <1>5 DEF ConfirmVisit, SetStatus, NoneCompleted, TypeInv, TypeOK, TaskRow
  <2> QED BY <1>5, <2>1, <2>2, CompletedQuiet DEF ConfirmVisit
<1> QED BY <1>1, <1>2, <1>3, <1>4, <1>5 DEF CheckTimeouts, CheckConfirmations

LEMMA CompletedSurroundings ==
    ASSUME TypeInv, CompletedInv, CleanupAll \/ Surroundings
    PROVE  CompletedInv'
<1>1. UNCHANGED <<tasks, consensus>>
  BY DEF CleanupAll, Surroundings, EpochState, OperatorsCommit, UpsertOperator,
         ChainEpoch, ChainConfirms, Crash, Reboot, db
<1>2. NoneArrives
  <2>1. CASE Crash
    BY <2>1, ProcsFacts, NoneArrivesMoves DEF Crash
  <2>2. CASE ~Crash
    BY <2>2 DEF CleanupAll, Surroundings, EpochState, OperatorsCommit,
                UpsertOperator, ChainEpoch, ChainConfirms, NoneArrives, procs
  <2> QED BY <2>1, <2>2
<1> QED BY <1>1, <1>2, TasksKept, CompletedQuiet

LEMMA CompletedStep == TypeInv /\ CompletedInv /\ [Next]_vars => CompletedInv'
<1> SUFFICES ASSUME TypeInv, CompletedInv, [Next]_vars PROVE CompletedInv'
  OBVIOUS
<1>1. CASE UNCHANGED vars
  BY <1>1 DEF vars, CompletedInv, CompletedHasConsensus, CompleteKnown, HasConsensus
<1>2. CASE Next
  BY <1>2, CompletedResponse, CompletedConsensus, CompletedProcess,
     CompletedRequest, CompletedTickers, CompletedSurroundings DEF Next, ProcessTask
<1> QED BY <1>1, <1>2

\* A task reported as completed has a consensus response, for any interleaving
\* of the goroutines, any failures of the database and a crash anywhere.
THEOREM CompletedCorrect == Spec => []CompletedHasConsensus
<1>1. CompletedInv => CompletedHasConsensus
  BY DEF CompletedInv
<1>2. Spec => []TypeInv
  BY TypeInit, TypeStep, PTL DEF Spec
<1> QED BY <1>1, <1>2, CompletedInit, CompletedStep, PTL DEF Spec

----------------------------------------------------------------------------
(* The node vouches only for what it has read from the chain.              *)

\* What the goroutines that are about to vouch for a content know of it: one
\* that carries this node's name came back from the topic.
TruthHeld ==
    \A p \in Procs :
        /\ pc[p] = "sign" => job[p].content \notin ZeroBlock
        /\ pc[p] = "respond" => job[p].content \in Truth \ ZeroBlock
        /\ (pc[p] \in {"lookup", "seen", "store"} /\ job[p].from = Self)
              => job[p].content \in Truth \ ZeroBlock

TruthInv == SignsOnlyTruth /\ TruthHeld

Vouching == {"sign", "respond", "lookup", "seen", "store"}

LEMMA TruthInit == Init => TruthInv
BY DEF Init, TruthInv, SignsOnlyTruth, TruthHeld

LEMMA TruthQuiet ==
    ASSUME TruthInv, published' \subseteq published, track' \subseteq track, TruthHeld'
    PROVE  TruthInv'
BY DEF TruthInv, SignsOnlyTruth

\* A goroutine that does not go where it vouches disturbs nobody.
LEMMA TruthMoves ==
    ASSUME TypeInv, TruthInv, NEW p \in Procs,
           \/ Done(p) \/ Return(p) \/ Reboot \/ Panic(p)
           \/ \E l \in Labels \ Vouching : Goto(p, l)
           \/ /\ \E l \in Labels \ Vouching : pc' = [pc EXCEPT ![p] = l]
              /\ \A q \in Procs \ {p} : job'[q] = job[q]
    PROVE  TruthHeld'
<1> USE DEF TypeInv, TypeOK, TruthInv, TruthHeld, Vouching
<1>1. CASE Done(p)
  BY <1>1 DEF Done, Rest
<1>2. CASE Return(p)
  BY <1>1, <1>2 DEF Return
<1>3. CASE Reboot
  BY <1>3 DEF Reboot
<1>4. CASE Panic(p)
  BY <1>4, <1>1, <1>3 DEF Panic
<1>5. CASE \E l \in Labels \ Vouching : Goto(p, l)
  BY <1>5 DEF Goto
<1>6. CASE /\ \E l \in Labels \ Vouching : pc' = [pc EXCEPT ![p] = l]
           /\ \A q \in Procs \ {p} : job'[q] = job[q]
  BY <1>6
<1> QED BY <1>1, <1>2, <1>3, <1>4, <1>5, <1>6

LEMMA StoreTruth ==
    ASSUME SignsOnlyTruth, NEW j, NEW o, StoreEntry(j, o),
           o = Self => j.content \in Truth \ ZeroBlock
    PROVE  \A e \in track' : e.from = Self => e.content \in Truth \ ZeroBlock
BY DEF SignsOnlyTruth, StoreEntry

LEMMA TruthResponse ==
    ASSUME TypeInv, TruthInv, NEW p \in Procs, ProcessResponse(p)
    PROVE  TruthInv'
<1>1. CASE Receive(p)
  <2>1. PICK m \in Messages :
          /\ m.from = Self =>
               [task |-> m.task, content |-> m.content, epoch |-> m.epoch] \in published
          /\ job' = [job EXCEPT ![p] =
                      [task |-> m.task, from |-> m.from, signer |-> m.signer,
                       content |-> m.content, epoch |-> m.epoch, weight |-> 0]]
    BY <1>1 DEF Receive
  <2>2. m.from = Self => m.content \in Truth \ ZeroBlock
    BY <2>1 DEF TruthInv, SignsOnlyTruth
  <2>3. pc' = [pc EXCEPT ![p] = "lookup"] /\ UNCHANGED <<published, track>>
    BY <1>1 DEF Receive
  <2>4. /\ \A q \in Procs \ {p} : job'[q] = job[q]
        /\ job'[p].from = m.from /\ job'[p].content = m.content
    BY <2>1 DEF TypeInv, TypeOK
  <2>5. TruthHeld'
    BY <2>2, <2>3, <2>4 DEF TruthInv, TruthHeld, TypeInv, TypeOK
  <2> QED BY <2>3, <2>5, TruthQuiet
<1>2. ASSUME Violation(p) PROVE TruthInv'
  BY <1>2, TruthMoves, TruthQuiet DEF Violation
<1>3. CASE Lookup(p) /\ ~Violation(p)
  <2>1. /\ job' = [job EXCEPT ![p] = [@ EXCEPT !.weight = OperatorWeight(job[p].from)]]
        /\ pc[p] = "lookup" /\ pc' = [pc EXCEPT ![p] = "seen"]
        /\ UNCHANGED <<published, track>>
    BY <1>3 DEF Lookup
  <2>2. job[p] \in Job
    BY <2>1 DEF TypeInv, JobHeld
  <2>3. [job[p] EXCEPT !.weight = OperatorWeight(job[p].from)].from = job[p].from
    BY <2>2 DEF Job
  <2>4. [job[p] EXCEPT !.weight = OperatorWeight(job[p].from)].content = job[p].content
    BY <2>2 DEF Job
  <2>5. /\ \A q \in Procs \ {p} : job'[q] = job[q]
        /\ job'[p].from = job[p].from /\ job'[p].content = job[p].content
    BY <2>1, <2>3, <2>4 DEF TypeInv, TypeOK
  <2>6. TruthHeld'
    BY <2>1, <2>5 DEF TruthInv, TruthHeld, TypeInv, TypeOK
  <2> QED BY <2>1, <2>6, TruthQuiet
<1>4. CASE Seen(p) /\ ~Violation(p)
  <2>1. CASE Done(p)
    BY <1>4, <2>1, TruthMoves, TruthQuiet DEF Seen
  <2>2. CASE ~Done(p)
    <3>1. pc[p] = "seen" /\ Goto(p, "store") /\ UNCHANGED <<published, track>>
      BY <1>4, <2>2 DEF Seen
    <3>2. TruthHeld'
      BY <3>1 DEF Goto, TruthInv, TruthHeld, TypeInv, TypeOK
    <3> QED BY <3>1, <3>2, TruthQuiet
  <2> QED BY <2>1, <2>2
<1>5. CASE Store(p)
  <2>1. TruthHeld'
    BY <1>5 DEF Store, TruthInv, TruthHeld, TypeInv, TypeOK
  <2>2. job[p].from = Self => job[p].content \in Truth \ ZeroBlock
    BY <1>5 DEF Store, TruthInv, TruthHeld
  <2>3. \A e \in track' : e.from = Self => e.content \in Truth \ ZeroBlock
    BY <1>5, <2>2, StoreTruth DEF Store, TruthInv
  <2> QED BY <1>5, <2>1, <2>3 DEF Store, TruthInv, SignsOnlyTruth
<1> QED BY <1>1, <1>2, <1>3, <1>4, <1>5 DEF ProcessResponse, Lookup, Seen

LEMMA TruthTask ==
    ASSUME TypeInv, TruthInv, NEW p \in Procs, ProcessTask(p)
    PROVE  TruthInv'
<1>1. CASE Process(p)
  <2>1. CASE Done(p)
    BY <1>1, <2>1, TruthMoves, TruthQuiet DEF Process
  <2>2. CASE ~Done(p)
    <3>1. /\ Goto(p, "sign") /\ job[p].content \notin ZeroBlock
          /\ UNCHANGED <<published, track>>
      BY <1>1, <2>2 DEF Process
    <3>2. TruthHeld'
      BY <3>1 DEF Goto, TruthInv, TruthHeld, TypeInv, TypeOK
    <3> QED BY <3>1, <3>2, TruthQuiet
  <2> QED BY <2>1, <2>2
<1>2. ASSUME Panic(p) PROVE TruthInv'
  <2>1. published' \subseteq published /\ track' \subseteq track
    BY <1>2 DEF Panic, Reboot
  <2> QED BY <1>2, <2>1, TruthMoves, TruthQuiet
<1>3. CASE Sign(p) /\ ~Panic(p)
  <2>1. CASE Done(p)
    BY <1>3, <2>1, TruthMoves, TruthQuiet DEF Sign
  <2>2. CASE ~Done(p)
    <3>1. /\ pc[p] = "sign" /\ job[p].content \in Truth
          /\ job' = [job EXCEPT ![p] = [@ EXCEPT !.weight = OperatorWeight(Self)]]
          /\ pc' = [pc EXCEPT ![p] = "respond"]
          /\ UNCHANGED <<published, track>>
      BY <1>3, <2>2 DEF Sign
    <3>2. job[p] \in Job /\ job[p].content \notin ZeroBlock
      BY <3>1 DEF TypeInv, JobHeld, TruthInv, TruthHeld
    <3>3. [job[p] EXCEPT !.weight = OperatorWeight(Self)].content = job[p].content
      BY <3>2 DEF Job
    <3>4. /\ \A q \in Procs \ {p} : job'[q] = job[q]
          /\ job'[p].content = job[p].content
      BY <3>1, <3>3 DEF TypeInv, TypeOK
    <3>5. TruthHeld'
      BY <3>1, <3>2, <3>4 DEF TruthInv, TruthHeld, TypeInv, TypeOK
    <3> QED BY <3>1, <3>5, TruthQuiet
  <2> QED BY <2>1, <2>2
<1>4. CASE Respond(p)
  <2>1. job[p].content \in Truth \ ZeroBlock
    BY <1>4 DEF Respond, TruthInv, TruthHeld
  <2>2. TruthHeld'
    BY <1>4, TruthMoves DEF Respond, Labels, Vouching
  <2>3. \A e \in track' : e.from = Self => e.content \in Truth \ ZeroBlock
    BY <1>4, <2>1, StoreTruth DEF Respond, TruthInv
  <2>4. \A m \in published' : m.content \in Truth \ ZeroBlock
    BY <1>4, <2>1 DEF Respond, TruthInv, SignsOnlyTruth
  <2> QED BY <2>2, <2>3, <2>4 DEF TruthInv, SignsOnlyTruth
<1>5. CASE CheckConsensus(p) /\ ~Panic(p)
  <2>1. UNCHANGED <<published, track>>
    BY <1>5 DEF CheckConsensus, Load, Total, Collect, Create, Complete
  <2>2. \/ Return(p)
        \/ \E l \in Labels \ Vouching : pc' = [pc EXCEPT ![p] = l] /\ UNCHANGED job
    BY <1>5, CollectMoves DEF CheckConsensus, Load, Total, Create, Complete, Goto,
                              Labels, Vouching
  <2> QED BY <2>1, <2>2, TruthMoves, TruthQuiet
<1> QED BY <1>1, <1>2, <1>3, <1>4, <1>5 DEF ProcessTask

LEMMA TruthOther ==
    ASSUME TypeInv, TruthInv,
           \/ \E p \in Procs : SendRequest(p)
           \/ CheckTimeouts \/ CheckConfirmations \/ CleanupAll \/ Surroundings
    PROVE  TruthInv'
<1> USE ProcsFacts
<1>0. Labels \ Vouching = {"idle", "next", "load", "total", "collect", "gather",
         "create", "complete", "process", "apiCreate", "delete", "forget"}
  BY DEF Labels, Vouching
<1>1. ASSUME NEW p \in Procs, SendRequest(p) PROVE TruthInv'
  <2>1. CASE ApiRequest(p)
    <3>1. /\ pc' = [pc EXCEPT ![p] = "apiCreate"]
          /\ \A q \in Procs \ {p} : job'[q] = job[q]
          /\ UNCHANGED <<published, track>>
      BY <2>1 DEF ApiRequest, TypeInv, TypeOK
    <3> QED BY <3>1, <1>0, TruthMoves, TruthQuiet
  <2>2. CASE ApiCreate(p)
    BY <2>2, <1>0, TruthMoves, TruthQuiet DEF ApiCreate
  <2> QED BY <1>1, <2>1, <2>2 DEF SendRequest
<1>2. CASE TimeoutTick \/ ConfirmTick
  <2>1. /\ \E p \in Tickers : pc' = [pc EXCEPT ![p] = "next"]
        /\ UNCHANGED <<published, track, job>>
    BY <1>2 DEF TimeoutTick, ConfirmTick
  <2>2. TruthHeld'
    BY <2>1 DEF TruthInv, TruthHeld, TypeInv, TypeOK
  <2> QED BY <2>1, <2>2, TruthQuiet
<1>3. ASSUME NEW r \in batch["timeout"], TimeoutVisit(r) PROVE TruthInv'
  <2>1. CASE Panic("timeout")
    <3>1. published' \subseteq published /\ track' \subseteq track
      BY <2>1 DEF Panic, Reboot
    <3> QED BY <2>1, <3>1, TruthMoves, TruthQuiet
  <2>2. CASE ~Panic("timeout")
    <3>1. \E l \in {"idle", "next", "delete", "process"} :
              pc' = [pc EXCEPT !["timeout"] = l]
      BY <1>3, <2>2, Zenon DEF TimeoutVisit, Rest
    <3>2. \A q \in Procs \ {"timeout"} : job'[q] = job[q]
      BY <1>3, <2>2 DEF TimeoutVisit, TypeInv, TypeOK
    <3>3. UNCHANGED <<published, track>>
      BY <1>3, <2>2 DEF TimeoutVisit
    <3> QED BY <1>0, <3>1, <3>2, <3>3, TruthMoves, TruthQuiet
  <2> QED BY <2>1, <2>2
<1>4. CASE TimeoutDelete
  BY <1>4, <1>0, TruthMoves, TruthQuiet DEF TimeoutDelete
<1>5. CASE TimeoutForget
  <2>1. /\ \E l \in {"idle", "next"} : pc' = [pc EXCEPT !["timeout"] = l]
        /\ \A q \in Procs \ {"timeout"} : job'[q] = job[q]
        /\ UNCHANGED published /\ track' \subseteq track
    BY <1>5 DEF TimeoutForget, Rest, TypeInv, TypeOK
  <2> QED BY <1>0, <2>1, TruthMoves, TruthQuiet
<1>6. ASSUME NEW r \in batch["confirm"], ConfirmVisit(r) PROVE TruthInv'
  <2>1. /\ \E l \in {"idle", "next", "process"} : pc' = [pc EXCEPT !["confirm"] = l]
        /\ \A q \in Procs \ {"confirm"} : job'[q] = job[q]
        /\ UNCHANGED <<published, track>>
    BY <1>6 DEF ConfirmVisit, Rest, TypeInv, TypeOK
  <2> QED BY <1>0, <2>1, TruthMoves, TruthQuiet
<1>7. CASE Crash
  BY <1>7, TruthMoves, TruthQuiet DEF Crash, Reboot
<1>8. CASE CleanupAll \/ (Surroundings /\ ~Crash)
  <2>1. UNCHANGED <<published, pc, job>> /\ track' \subseteq track
    BY <1>8 DEF CleanupAll, Surroundings, EpochState, OperatorsCommit,
                UpsertOperator, ChainEpoch, ChainConfirms, procs
  <2> QED BY <2>1, TruthQuiet DEF TruthInv, TruthHeld
<1> QED BY <1>1, <1>2, <1>3, <1>4, <1>5, <1>6, <1>7, <1>8
        DEF CheckTimeouts, CheckConfirmations, Surroundings

LEMMA TruthStep == TypeInv /\ TruthInv /\ [Next]_vars => TruthInv'
<1> SUFFICES ASSUME TypeInv, TruthInv, [Next]_vars PROVE TruthInv'
  OBVIOUS
<1>1. CASE UNCHANGED vars
  BY <1>1 DEF vars, TruthInv, SignsOnlyTruth, TruthHeld
<1>2. CASE Next
  BY <1>2, TruthResponse, TruthTask, TruthOther DEF Next
<1> QED BY <1>1, <1>2

\* Whoever asks, and whatever peers send, the node publishes and counts as its
\* own only contents it has compared with the chain.
THEOREM TruthCorrect == Spec => []SignsOnlyTruth
<1>1. TruthInv => SignsOnlyTruth
  BY DEF TruthInv
<1>2. Spec => []TypeInv
  BY TypeInit, TypeStep, PTL DEF Spec
<1> QED BY <1>1, <1>2, TruthInit, TruthStep, PTL DEF Spec

----------------------------------------------------------------------------
(* The rows checkTimeouts has listed are there when it visits them.        *)

\* task_id is the primary key of the table, and so of what was listed from it.
UniqueTasks ==
    /\ \A r, s \in tasks : r.task = s.task => r = s
    /\ \A r, s \in batch["timeout"] : r.task = s.task => r = s

\* The row about to be deleted is not one still to be visited.
DeletesVisited ==
    pc["timeout"] = "delete" =>
        \A r \in batch["timeout"] : r.task # job["timeout"].task

RowsInv == TimeoutRowsExist /\ UniqueTasks /\ DeletesVisited

LEMMA RowsInit == Init => RowsInv
BY ProcsFacts DEF Init, RowsInv, TimeoutRowsExist, UniqueTasks, DeletesVisited

\* An update of the table row by row, keeping the keys.
SameKeys(f) ==
    /\ \A r \in tasks : f[r].task = r.task
    /\ tasks' = {f[r] : r \in tasks}

LEMMA UpdateRows ==
    ASSUME NEW f, SameKeys(f)
    PROVE  /\ \A t : HasTask(t) => HasTask(t)'
           /\ (\A r, s \in tasks : r.task = s.task => r = s)
                => \A r, s \in tasks' : r.task = s.task => r = s
BY DEF SameKeys, HasTask

LEMMA SetStatusRows ==
    ASSUME TypeInv, NEW t, NEW st, tasks' = SetStatus(t, st)
    PROVE  \E f : SameKeys(f)
<1> DEFINE f == [r \in tasks |-> IF r.task = t THEN [r EXCEPT !.status = st] ELSE r]
<1>1. ASSUME NEW r \in tasks PROVE f[r].task = r.task
  BY DEF TypeInv, TypeOK, TaskRow
<1>2. tasks' = {f[r] : r \in tasks}
  BY DEF SetStatus
<1> QED BY <1>1, <1>2 DEF SameKeys

LEMMA IncrementRows ==
    ASSUME TypeInv, NEW t, tasks' = IncrementRetryCount(t)
    PROVE  \E f : SameKeys(f)
<1> DEFINE n == NextRetry(t)
           f == [r \in tasks |-> IF r.task = t THEN [r EXCEPT !.retry = n] ELSE r]
<1>1. tasks' = {f[r] : r \in tasks}
  BY DEF IncrementRetryCount
<1> HIDE DEF n
<1>2. ASSUME NEW r \in tasks PROVE f[r].task = r.task
  BY DEF TypeInv, TypeOK, TaskRow
<1> QED BY <1>1, <1>2 DEF SameKeys

\* A step of another goroutine, which deletes no row.
LEMMA RowsQuiet ==
    ASSUME RowsInv,
           UNCHANGED tasks \/ \E f : SameKeys(f),
           batch'["timeout"] = batch["timeout"] \/ batch'["timeout"] = {},
           pc'["timeout"] = "delete" =>
               pc["timeout"] = "delete" /\ job'["timeout"] = job["timeout"]
    PROVE  RowsInv'
<1>1. \A t : HasTask(t) => HasTask(t)'
  BY UpdateRows DEF HasTask
<1>2. TimeoutRowsExist'
  BY <1>1 DEF RowsInv, TimeoutRowsExist
<1>3. UniqueTasks'
  BY UpdateRows DEF RowsInv, UniqueTasks
<1>4. DeletesVisited'
  BY DEF RowsInv, DeletesVisited
<1> QED BY <1>2, <1>3, <1>4 DEF RowsInv

LEMMA RowsMoves ==
    ASSUME TypeInv, NEW p \in Procs,
           \/ Done(p) \/ Return(p) \/ Reboot \/ Panic(p)
           \/ \E l \in Labels \ {"delete"} : Goto(p, l)
           \/ /\ \E l \in Labels \ {"delete"} : pc' = [pc EXCEPT ![p] = l]
              /\ \A q \in Procs \ {p} : job'[q] = job[q]
              /\ UNCHANGED batch
    PROVE  /\ batch'["timeout"] = batch["timeout"] \/ batch'["timeout"] = {}
           /\ pc'["timeout"] = "delete" =>
                 pc["timeout"] = "delete" /\ job'["timeout"] = job["timeout"]
<1> USE ProcsFacts DEF TypeInv, TypeOK
<1>1. CASE Done(p)
  BY <1>1 DEF Done, Rest
<1>2. CASE Return(p)
  BY <1>1, <1>2 DEF Return
<1>3. CASE Reboot
  BY <1>3 DEF Reboot
<1>4. CASE Panic(p)
  BY <1>4, <1>1, <1>3 DEF Panic
<1>5. CASE \E l \in Labels \ {"delete"} : Goto(p, l)
  BY <1>5 DEF Goto
<1>6. CASE /\ \E l \in Labels \ {"delete"} : pc' = [pc EXCEPT ![p] = l]
           /\ \A q \in Procs \ {p} : job'[q] = job[q]
           /\ UNCHANGED batch
  BY <1>6
<1> QED BY <1>1, <1>2, <1>3, <1>4, <1>5, <1>6

LEMMA RowsGoroutines ==
    ASSUME TypeInv, RowsInv, NEW p \in Procs, ProcessResponse(p) \/ ProcessTask(p)
    PROVE  RowsInv'
<1>1. UNCHANGED tasks \/ \E f : SameKeys(f)
  <2>1. CASE Complete(p)
    BY <2>1, SetStatusRows DEF Complete
  <2>2. CASE ~Complete(p)
    BY <2>2, PanicFrame DEF ProcessResponse, Receive, Lookup, Seen, Store, Violation,
       ProcessTask, CheckConsensus, Load, Total, Collect, Create, Process, Sign,
       Respond, db
  <2> QED BY <2>1, <2>2
<1>2. \/ Done(p) \/ Return(p) \/ Reboot \/ Panic(p)
      \/ /\ \E l \in Labels \ {"delete"} : pc' = [pc EXCEPT ![p] = l]
         /\ \A q \in Procs \ {p} : job'[q] = job[q]
         /\ UNCHANGED batch
  <2>1. CASE ProcessResponse(p)
    BY <2>1 DEF ProcessResponse, Receive, Lookup, Seen, Store, Violation, Goto, Labels,
                TypeInv, TypeOK
  <2>2. CASE CheckConsensus(p)
    BY <2>2, CollectMoves DEF CheckConsensus, Load, Total, Create, Complete, Goto, Labels
  <2>3. CASE Process(p) \/ Sign(p) \/ Respond(p)
    BY <2>3 DEF Process, Sign, Respond, Goto, Labels, TypeInv, TypeOK
  <2> QED BY <2>1, <2>2, <2>3 DEF ProcessTask
<1> QED BY <1>1, <1>2, RowsMoves, RowsQuiet

LEMMA RowsRequest ==
    ASSUME TypeInv, RowsInv, NEW p \in Procs, SendRequest(p)
    PROVE  RowsInv'
<1>0. /\ batch'["timeout"] = batch["timeout"] \/ batch'["timeout"] = {}
      /\ pc'["timeout"] = "delete" =>
            pc["timeout"] = "delete" /\ job'["timeout"] = job["timeout"]
  <2>1. \/ Done(p)
        \/ /\ \E l \in Labels \ {"delete"} : pc' = [pc EXCEPT ![p] = l]
           /\ \A q \in Procs \ {p} : job'[q] = job[q]
           /\ UNCHANGED batch
    BY DEF SendRequest, ApiRequest, ApiCreate, Goto, Labels, TypeInv, TypeOK
  <2> QED BY <2>1, RowsMoves
<1>1. CASE UNCHANGED tasks
  BY <1>0, <1>1, RowsQuiet
<1>2. CASE ~UNCHANGED tasks
  <2>1. PICK r : tasks' = tasks \cup {r} /\ ~HasTask(r.task)
    <3> DEFINE r == [task |-> job[p].task, content |-> job[p].content,
                     epoch |-> job[p].epoch, retry |-> 0,
                     status |-> IF job[p].content \notin confirmed
                                THEN "confirming" ELSE "pending"]
    <3>1. tasks' = tasks \cup {r} /\ ~HasTask(job[p].task)
      BY <1>2 DEF SendRequest, ApiRequest, ApiCreate, db
    <3>2. r.task = job[p].task
      OBVIOUS
    <3> HIDE DEF r
    <3> QED BY <3>1, <3>2
  <2>2. TimeoutRowsExist'
    BY <1>0, <2>1 DEF RowsInv, TimeoutRowsExist, HasTask
  <2>3. UniqueTasks'
    BY <1>0, <2>1 DEF RowsInv, UniqueTasks, HasTask
  <2>4. DeletesVisited'
    BY <1>0 DEF RowsInv, DeletesVisited
  <2> QED BY <2>2, <2>3, <2>4 DEF RowsInv
<1> QED BY <1>1, <1>2

LEMMA RowsTimeouts ==
    ASSUME TypeInv, RowsInv, CheckTimeouts
    PROVE  RowsInv'
<1> USE ProcsFacts
<1>1. CASE TimeoutTick
  <2>1. /\ batch'["timeout"] = {r \in tasks : r.status = "pending"}
        /\ pc'["timeout"] = "next" /\ UNCHANGED tasks
    BY <1>1 DEF TimeoutTick, TypeInv, TypeOK, db
  <2> QED BY <2>1
          DEF RowsInv, TimeoutRowsExist, UniqueTasks, DeletesVisited, HasTask
<1>2. ASSUME NEW r \in batch["timeout"], TimeoutVisit(r) PROVE RowsInv'
  <2>1. CASE Panic("timeout")
    BY <2>1, PanicFrame, RowsMoves, RowsQuiet
  <2>2. CASE ~Panic("timeout")
    <3>1. batch'["timeout"] = batch["timeout"] \ {r}
      BY <1>2, <2>2 DEF TimeoutVisit, TypeInv, TypeOK
    <3>2. UNCHANGED tasks \/ \E f : SameKeys(f)
      BY <1>2, <2>2, IncrementRows DEF TimeoutVisit, db
    <3>3. \A t : HasTask(t) => HasTask(t)'
      BY <3>2, UpdateRows DEF HasTask
    <3>4. pc'["timeout"] = "delete" => job'["timeout"].task = r.task
      <4>1. CASE UNCHANGED job
        <5>1. pc' = [pc EXCEPT !["timeout"] = Rest(batch'["timeout"])]
              \/ job' = [job EXCEPT !["timeout"] = JobOf(r)]
          BY <1>2, <2>2 DEF TimeoutVisit
        <5> QED BY <5>1 DEF Rest, JobOf, TypeInv, TypeOK
      <4>2. CASE ~UNCHANGED job
        <5>1. job' = [job EXCEPT !["timeout"] = JobOf(r)]
          BY <1>2, <2>2, <4>2 DEF TimeoutVisit
        <5> QED BY <5>1 DEF JobOf, TypeInv, TypeOK
      <4> QED BY <4>1, <4>2
    <3>5. TimeoutRowsExist'
      BY <3>1, <3>3 DEF RowsInv, TimeoutRowsExist
    <3>6. UniqueTasks'
      BY <3>1, <3>2, UpdateRows DEF RowsInv, UniqueTasks
    <3>7. DeletesVisited'
      BY <3>1, <3>4 DEF RowsInv, UniqueTasks, DeletesVisited
    <3> QED BY <3>5, <3>6, <3>7 DEF RowsInv
  <2> QED BY <2>1, <2>2
<1>3. CASE TimeoutDelete
  <2>1. /\ \/ tasks' = {r \in tasks : r.task # job["timeout"].task}
           \/ UNCHANGED tasks
        /\ pc["timeout"] = "delete" /\ pc'["timeout"] = "forget"
        /\ UNCHANGED <<job, batch>>
    BY <1>3 DEF TimeoutDelete, Goto, TypeInv, TypeOK
  <2> QED BY <2>1
          DEF RowsInv, TimeoutRowsExist, UniqueTasks, DeletesVisited, HasTask
<1>4. CASE TimeoutForget
  <2>1. UNCHANGED <<tasks, batch>> /\ pc'["timeout"] # "delete"
    BY <1>4 DEF TimeoutForget, Rest, TypeInv, TypeOK, db
  <2> QED BY <2>1, RowsQuiet
<1> QED BY <1>1, <1>2, <1>3, <1>4 DEF CheckTimeouts

LEMMA RowsOther ==
    ASSUME TypeInv, RowsInv, CheckConfirmations \/ CleanupAll \/ Surroundings
    PROVE  RowsInv'
<1> USE ProcsFacts
<1>1. CASE CheckConfirmations
  <2>1. /\ batch'["timeout"] = batch["timeout"]
        /\ pc'["timeout"] = pc["timeout"] /\ job'["timeout"] = job["timeout"]
    BY <1>1 DEF CheckConfirmations, ConfirmTick, ConfirmVisit, TypeInv, TypeOK
  <2>2. UNCHANGED tasks \/ \E f : SameKeys(f)
    BY <1>1, SetStatusRows DEF CheckConfirmations, ConfirmTick, ConfirmVisit, db
  <2> QED BY <2>1, <2>2, RowsQuiet
<1>2. CASE Crash
  BY <1>2, RowsMoves, RowsQuiet DEF Crash, Reboot, db
<1>3. CASE CleanupAll \/ (Surroundings /\ ~Crash)
  <2>1. UNCHANGED <<tasks, pc, job, batch>>
    BY <1>3 DEF CleanupAll, Surroundings, EpochState, OperatorsCommit,
                UpsertOperator, ChainEpoch, ChainConfirms, procs, db
  <2> QED BY <2>1, RowsQuiet
<1> QED BY <1>1, <1>2, <1>3

LEMMA RowsStep == TypeInv /\ RowsInv /\ [Next]_vars => RowsInv'
<1> SUFFICES ASSUME TypeInv, RowsInv, [Next]_vars PROVE RowsInv'
  OBVIOUS
<1>1. CASE UNCHANGED vars
  BY <1>1 DEF vars, RowsInv, TimeoutRowsExist, UniqueTasks, DeletesVisited, HasTask
<1>2. CASE Next
  BY <1>2, RowsGoroutines, RowsRequest, RowsTimeouts, RowsOther DEF Next
<1> QED BY <1>1, <1>2

\* Nothing deletes a row between ListPendingTasks and the visit of checkTimeouts,
\* so the nil that IncrementRetryCount returns for a missing row is never read.
THEOREM RowsCorrect == Spec => []TimeoutRowsExist
<1>1. RowsInv => TimeoutRowsExist
  BY DEF RowsInv
<1>2. Spec => []TypeInv
  BY TypeInit, TypeStep, PTL DEF Spec
<1> QED BY <1>1, <1>2, RowsInit, RowsStep, PTL DEF Spec

----------------------------------------------------------------------------
(* The goroutines implement the life of a task.                            *)

\* The row about to be deleted is there, and has used up its retries: nobody
\* else deletes rows or counts retries, and while the row is there the API
\* handler cannot create it anew.
DeletesExhausted ==
    pc["timeout"] = "delete" =>
        \E r \in tasks : r.task = job["timeout"].task /\ r.retry = MaxRetry

\* The last count is not lost.
KeepsRetries ==
    \A r \in tasks : \E s \in tasks' : s.task = r.task /\ s.retry = r.retry

LEMMA ExhaustedInit == Init => DeletesExhausted
BY ProcsFacts DEF Init, DeletesExhausted

LEMMA ExhaustedQuiet ==
    ASSUME DeletesExhausted, KeepsRetries,
           pc'["timeout"] = "delete" =>
               pc["timeout"] = "delete" /\ job'["timeout"] = job["timeout"]
    PROVE  DeletesExhausted'
BY DEF DeletesExhausted, KeepsRetries

LEMMA SetStatusKeeps ==
    ASSUME TypeInv, NEW t, NEW st, tasks' = SetStatus(t, st)
    PROVE  KeepsRetries
<1> SUFFICES ASSUME NEW r \in tasks
             PROVE  \E s \in tasks' : s.task = r.task /\ s.retry = r.retry
  BY DEF KeepsRetries
<1> DEFINE s == IF r.task = t THEN [r EXCEPT !.status = st] ELSE r
<1>1. s \in tasks'
  BY DEF SetStatus
<1>2. s.task = r.task /\ s.retry = r.retry
  BY DEF TypeInv, TypeOK, TaskRow
<1> QED BY <1>1, <1>2

\* The one row SendRequest creates.
LEMMA CreatedRow ==
    ASSUME NEW p \in Procs, SendRequest(p), ~UNCHANGED tasks
    PROVE  \E x : /\ tasks' = tasks \cup {x}
                  /\ ~HasTask(x.task)
                  /\ x.task = job[p].task
                  /\ x.retry = 0
                  /\ x.status \in {"confirming", "pending"}
<1> DEFINE x == [task |-> job[p].task, content |-> job[p].content,
                 epoch |-> job[p].epoch, retry |-> 0,
                 status |-> IF job[p].content \notin confirmed
                            THEN "confirming" ELSE "pending"]
<1>0. ApiCreate(p)
  BY DEF SendRequest, ApiRequest, db
<1>1. tasks' = tasks \cup {x} /\ ~HasTask(job[p].task)
  BY <1>0 DEF ApiCreate
<1>2. x.task = job[p].task /\ x.retry = 0 /\ x.status \in {"confirming", "pending"}
  OBVIOUS
<1> HIDE DEF x
<1> QED BY <1>1, <1>2

LEMMA ExhaustedGoroutines ==
    ASSUME TypeInv, DeletesExhausted, NEW p \in Procs,
           ProcessResponse(p) \/ ProcessTask(p) \/ SendRequest(p)
    PROVE  DeletesExhausted'
<1>1. KeepsRetries
  <2>1. CASE Complete(p)
    BY <2>1, SetStatusKeeps DEF Complete, KeepsRetries
  <2>2. CASE ~Complete(p)
    <3>1. CASE SendRequest(p)
      <4>1. UNCHANGED tasks \/ \E x : tasks' = tasks \cup {x}
        BY <3>1, CreatedRow
      <4> QED BY <4>1 DEF KeepsRetries
    <3>2. CASE ~SendRequest(p)
      <4>1. UNCHANGED tasks
        BY <2>2, <3>2, PanicFrame DEF ProcessResponse, Receive, Lookup, Seen, Store,
           Violation, ProcessTask, CheckConsensus, Load, Total, Collect, Create,
           Process, Sign, Respond, db
      <4> QED BY <4>1 DEF KeepsRetries
    <3> QED BY <3>1, <3>2
  <2> QED BY <2>1, <2>2
<1>2. \/ Done(p) \/ Return(p) \/ Reboot \/ Panic(p)
      \/ /\ \E l \in Labels \ {"delete"} : pc' = [pc EXCEPT ![p] = l]
         /\ \A q \in Procs \ {p} : job'[q] = job[q]
         /\ UNCHANGED batch
  <2>1. CASE ProcessResponse(p)
    BY <2>1 DEF ProcessResponse, Receive, Lookup, Seen, Store, Violation, Goto, Labels,
                TypeInv, TypeOK
  <2>2. CASE CheckConsensus(p)
    BY <2>2, CollectMoves DEF CheckConsensus, Load, Total, Create, Complete, Goto, Labels
  <2>3. CASE Process(p) \/ Sign(p) \/ Respond(p)
    BY <2>3 DEF Process, Sign, Respond, Goto, Labels, TypeInv, TypeOK
  <2>4. CASE SendRequest(p)
    BY <2>4 DEF SendRequest, ApiRequest, ApiCreate, Goto, Labels, TypeInv, TypeOK
  <2> QED BY <2>1, <2>2, <2>3, <2>4 DEF ProcessTask
<1> QED BY <1>1, <1>2, RowsMoves, ExhaustedQuiet

\* The row of a task after its retries were counted.
LEMMA CountedRow ==
    ASSUME TypeInv, UniqueTasks, NEW r \in tasks, tasks' = IncrementRetryCount(r.task)
    PROVE  [r EXCEPT !.retry = NextRetry(r.task)] \in tasks'
BY DEF IncrementRetryCount

LEMMA NextRetryOf ==
    ASSUME TypeInv, UniqueTasks, NEW r \in tasks
    PROVE  NextRetry(r.task) = IF r.retry < MaxRetry THEN r.retry + 1 ELSE r.retry
<1>1. (CHOOSE x \in tasks : x.task = r.task) = r
  BY DEF UniqueTasks
<1> QED BY <1>1 DEF NextRetry

LEMMA ExhaustedTimeouts ==
    ASSUME TypeInv, RowsInv, DeletesExhausted, CheckTimeouts
    PROVE  DeletesExhausted'
<1> USE ProcsFacts
<1>1. CASE TimeoutTick \/ TimeoutDelete \/ TimeoutForget
  <2>1. pc'["timeout"] # "delete"
    BY <1>1 DEF TimeoutTick, TimeoutDelete, TimeoutForget, Goto, Rest, TypeInv, TypeOK
  <2> QED BY <2>1 DEF DeletesExhausted
<1>2. ASSUME NEW r \in batch["timeout"], TimeoutVisit(r) PROVE DeletesExhausted'
  <2>1. CASE pc'["timeout"] # "delete"
    BY <2>1 DEF DeletesExhausted
  <2>2. CASE pc'["timeout"] = "delete"
    <3>1. PICK x \in tasks : x.task = r.task
      BY DEF RowsInv, TimeoutRowsExist, HasTask
    <3>2. ~Panic("timeout")
      BY <3>1, <1>2, <2>2, RowsMoves DEF TimeoutVisit
    <3>3. /\ tasks' = IncrementRetryCount(r.task)
          /\ job' = [job EXCEPT !["timeout"] = JobOf(r)]
          /\ NextRetry(r.task) >= MaxRetry
      <4>1. \/ pc' = [pc EXCEPT !["timeout"] = Rest(batch'["timeout"])]
            \/ /\ tasks' = IncrementRetryCount(r.task)
               /\ job' = [job EXCEPT !["timeout"] = JobOf(r)]
               /\ pc' = [pc EXCEPT !["timeout"] =
                           IF NextRetry(r.task) >= MaxRetry THEN "delete" ELSE "process"]
        BY <1>2, <3>2 DEF TimeoutVisit
      <4> HIDE DEF NextRetry
      <4> QED BY <4>1, <2>2 DEF Rest, TypeInv, TypeOK
    <3>4. x \in TaskRow /\ MaxRetry \in Nat
      BY ConstantsAssumption DEF TypeInv, TypeOK
    <3>5. NextRetry(r.task) = MaxRetry
      <4>1. NextRetry(r.task) = IF x.retry < MaxRetry THEN x.retry + 1 ELSE x.retry
        BY <3>1, NextRetryOf DEF RowsInv
      <4>2. x.retry \in 0 .. MaxRetry
        BY <3>4 DEF TaskRow
      <4> QED BY <3>3, <3>4, <4>1, <4>2
    <3>6. [x EXCEPT !.retry = MaxRetry] \in tasks'
      BY <3>1, <3>3, <3>5, CountedRow DEF RowsInv
    <3>7. /\ [x EXCEPT !.retry = MaxRetry].task = r.task
          /\ [x EXCEPT !.retry = MaxRetry].retry = MaxRetry
      BY <3>1, <3>4 DEF TaskRow
    <3>8. job'["timeout"].task = r.task
      BY <3>3 DEF JobOf, TypeInv, TypeOK
    <3> QED BY <3>6, <3>7, <3>8 DEF DeletesExhausted
  <2> QED BY <2>1, <2>2
<1> QED BY <1>1, <1>2 DEF CheckTimeouts

LEMMA ExhaustedOther ==
    ASSUME TypeInv, DeletesExhausted, CheckConfirmations \/ CleanupAll \/ Surroundings
    PROVE  DeletesExhausted'
<1> USE ProcsFacts
<1>1. CASE CheckConfirmations
  <2>1. pc'["timeout"] = pc["timeout"] /\ job'["timeout"] = job["timeout"]
    BY <1>1 DEF CheckConfirmations, ConfirmTick, ConfirmVisit, TypeInv, TypeOK
  <2>2. UNCHANGED tasks \/ \E t, st : tasks' = SetStatus(t, st)
    BY <1>1 DEF CheckConfirmations, ConfirmTick, ConfirmVisit, db
  <2>3. KeepsRetries
    BY <2>2, SetStatusKeeps DEF KeepsRetries
  <2> QED BY <2>1, <2>3, ExhaustedQuiet
<1>2. CASE Crash
  BY <1>2 DEF Crash, Reboot, DeletesExhausted
<1>3. CASE CleanupAll \/ (Surroundings /\ ~Crash)
  <2>1. UNCHANGED <<tasks, pc, job>>
    BY <1>3 DEF CleanupAll, Surroundings, EpochState, OperatorsCommit,
                UpsertOperator, ChainEpoch, ChainConfirms, procs, db
  <2> QED BY <2>1 DEF DeletesExhausted
<1> QED BY <1>1, <1>2, <1>3

LEMMA ExhaustedStep ==
    TypeInv /\ RowsInv /\ DeletesExhausted /\ [Next]_vars => DeletesExhausted'
<1> SUFFICES ASSUME TypeInv, RowsInv, DeletesExhausted, [Next]_vars
             PROVE  DeletesExhausted'
  OBVIOUS
<1>1. CASE UNCHANGED vars
  BY <1>1 DEF vars, DeletesExhausted
<1>2. CASE Next
  BY <1>2, ExhaustedGoroutines, ExhaustedTimeouts, ExhaustedOther DEF Next
<1> QED BY <1>1, <1>2

\* What the abstraction shows of a row, and of a task without one.
LEMMA RowView ==
    ASSUME UniqueTasks, NEW r \in tasks
    PROVE  StatusOf(r.task) = r.status /\ AttemptsOf(r.task) = r.retry
<1>1. (CHOOSE x \in tasks : x.task = r.task) = r
  BY DEF UniqueTasks
<1> QED BY <1>1 DEF StatusOf, AttemptsOf, HasTask

LEMMA NextRowView ==
    ASSUME UniqueTasks', NEW r, r \in tasks'
    PROVE  StatusOf(r.task)' = r.status /\ AttemptsOf(r.task)' = r.retry
<1>1. (CHOOSE x \in tasks' : x.task = r.task) = r
  BY DEF UniqueTasks
<1> QED BY <1>1 DEF StatusOf, AttemptsOf, HasTask

LEMMA ShownRow ==
    ASSUME TypeInv, NEW t \in TaskIds
    PROVE  HasTask(t) <=> StatusOf(t) # "none"
BY DEF TypeInv, TypeOK, TaskRow, Statuses, StatusOf, HasTask

\* What is shown of every task but t stays as it is.
OthersStay(t) ==
    \A u \in TaskIds \ {t} :
        StatusOf(u)' = StatusOf(u) /\ AttemptsOf(u)' = AttemptsOf(u)

LEMMA OtherRows ==
    ASSUME UniqueTasks, UniqueTasks', NEW t,
           \A r : r.task # t => (r \in tasks <=> r \in tasks')
    PROVE  OthersStay(t)
<1> SUFFICES ASSUME NEW u \in TaskIds \ {t}
             PROVE  StatusOf(u)' = StatusOf(u) /\ AttemptsOf(u)' = AttemptsOf(u)
  BY DEF OthersStay
<1>1. CASE HasTask(u)
  <2>1. PICK r \in tasks : r.task = u
    BY <1>1 DEF HasTask
  <2>2. r \in tasks'
    BY <2>1
  <2> QED BY <2>1, <2>2, RowView, NextRowView
<1>2. CASE ~HasTask(u)
  BY <1>2 DEF HasTask, StatusOf, AttemptsOf
<1> QED BY <1>1, <1>2

\* The four updates of the table, as the abstraction shows them.
LEMMA SetStatusView ==
    ASSUME TypeInv, UniqueTasks, UniqueTasks', NEW t, NEW st, HasTask(t),
           tasks' = SetStatus(t, st)
    PROVE  /\ StatusOf(t)' = st /\ AttemptsOf(t)' = AttemptsOf(t)
           /\ OthersStay(t)
<1>1. PICK r \in tasks : r.task = t
  BY DEF HasTask
<1> DEFINE x == [r EXCEPT !.status = st]
<1>2. x \in tasks'
  BY <1>1 DEF SetStatus
<1>3. x.task = t /\ x.status = st /\ x.retry = r.retry
  BY <1>1 DEF TypeInv, TypeOK, TaskRow
<1> HIDE DEF x
<1>4. StatusOf(t)' = st /\ AttemptsOf(t)' = AttemptsOf(t)
  BY <1>1, <1>2, <1>3, RowView, NextRowView
<1>5. ASSUME NEW s, s.task # t PROVE s \in tasks <=> s \in tasks'
  BY <1>5 DEF SetStatus, TypeInv, TypeOK, TaskRow
<1> QED BY <1>4, <1>5, OtherRows

LEMMA IncrementView ==
    ASSUME TypeInv, UniqueTasks, UniqueTasks', NEW t, HasTask(t),
           tasks' = IncrementRetryCount(t)
    PROVE  /\ StatusOf(t)' = StatusOf(t) /\ AttemptsOf(t)' = NextRetry(t)
           /\ OthersStay(t)
<1>1. PICK r \in tasks : r.task = t
  BY DEF HasTask
<1> DEFINE n == NextRetry(t)
           x == [r EXCEPT !.retry = n]
<1>2. x \in tasks'
  BY <1>1 DEF IncrementRetryCount
<1>0. tasks' = {IF s.task = t THEN [s EXCEPT !.retry = n] ELSE s : s \in tasks}
  BY DEF IncrementRetryCount
<1> HIDE DEF n
<1>3. x.task = t /\ x.retry = n /\ x.status = r.status
  BY <1>1 DEF TypeInv, TypeOK, TaskRow
<1>5. ASSUME NEW s, s.task # t PROVE s \in tasks <=> s \in tasks'
  BY <1>0, <1>5 DEF TypeInv, TypeOK, TaskRow
<1> HIDE DEF x
<1>4. StatusOf(t)' = StatusOf(t) /\ AttemptsOf(t)' = n
  BY <1>1, <1>2, <1>3, RowView, NextRowView
<1> QED BY <1>4, <1>5, OtherRows DEF n

LEMMA CreateView ==
    ASSUME UniqueTasks, UniqueTasks', NEW x, ~HasTask(x.task), x.retry = 0,
           tasks' = tasks \cup {x}
    PROVE  /\ StatusOf(x.task)' = x.status
           /\ AttemptsOf(x.task) = 0 /\ AttemptsOf(x.task)' = 0
           /\ OthersStay(x.task)
<1>1. StatusOf(x.task)' = x.status /\ AttemptsOf(x.task)' = 0
  BY NextRowView
<1>2. AttemptsOf(x.task) = 0
  BY DEF AttemptsOf
<1>3. OthersStay(x.task)
  BY OtherRows
<1> QED BY <1>1, <1>2, <1>3

LEMMA DeleteView ==
    ASSUME UniqueTasks, UniqueTasks', NEW t, tasks' = {r \in tasks : r.task # t}
    PROVE  /\ StatusOf(t)' = "none" /\ AttemptsOf(t)' = 0
           /\ OthersStay(t)
<1>1. ~HasTask(t)'
  BY DEF HasTask
<1>2. StatusOf(t)' = "none" /\ AttemptsOf(t)' = 0
  BY <1>1 DEF StatusOf, AttemptsOf
<1> QED BY <1>2, OtherRows

LEMMA LifecycleInit == Init => Lifecycle!Init
BY DEF Init, Lifecycle!Init, StatusOf, AttemptsOf, HasTask, HasConsensus

\* A step of the abstract specification is told by what is shown of its task.
LEMMA Stutters ==
    ASSUME UNCHANGED <<tasks, consensus>>
    PROVE  UNCHANGED Lifecycle!vars
BY DEF Lifecycle!vars, StatusOf, AttemptsOf, HasTask, HasConsensus

LEMMA Submits ==
    ASSUME NEW t \in TaskIds, UNCHANGED consensus, OthersStay(t),
           StatusOf(t) = "none", StatusOf(t)' \in {"confirming", "pending"},
           AttemptsOf(t)' = AttemptsOf(t)
    PROVE  Lifecycle!Submit(t)
BY DEF Lifecycle!Submit, OthersStay, HasConsensus

LEMMA Promotes ==
    ASSUME NEW t \in TaskIds, UNCHANGED consensus, OthersStay(t),
           StatusOf(t) # "none", StatusOf(t)' = "pending",
           AttemptsOf(t)' = AttemptsOf(t)
    PROVE  Lifecycle!Promote(t)
BY DEF Lifecycle!Promote, OthersStay, HasConsensus

LEMMA Retries ==
    ASSUME NEW t \in TaskIds, UNCHANGED consensus, OthersStay(t),
           StatusOf(t) # "none", StatusOf(t)' = StatusOf(t),
           AttemptsOf(t) < MaxRetry, AttemptsOf(t)' = AttemptsOf(t) + 1
    PROVE  Lifecycle!Retry(t)
BY DEF Lifecycle!Retry, OthersStay, HasConsensus

LEMMA Expires ==
    ASSUME NEW t \in TaskIds, UNCHANGED consensus, OthersStay(t),
           StatusOf(t) # "none", StatusOf(t)' = "none",
           AttemptsOf(t) = MaxRetry, AttemptsOf(t)' = 0
    PROVE  Lifecycle!Expire(t)
BY DEF Lifecycle!Expire, OthersStay, HasConsensus

LEMMA Finishes ==
    ASSUME NEW t \in TaskIds, UNCHANGED consensus, OthersStay(t), HasConsensus(t),
           StatusOf(t) # "none", StatusOf(t)' = "completed",
           AttemptsOf(t)' = AttemptsOf(t)
    PROVE  Lifecycle!Finish(t)
BY DEF Lifecycle!Finish, OthersStay, HasConsensus

LEMMA Decides ==
    ASSUME NEW t \in TaskIds, UNCHANGED tasks, ~HasConsensus(t),
           NEW x, x.task = t, consensus' = consensus \cup {x}
    PROVE  Lifecycle!Decide(t)
BY DEF Lifecycle!Decide, StatusOf, AttemptsOf, HasTask, HasConsensus

LEMMA RefineConsensus ==
    ASSUME TypeInv, CompletedInv, RowsInv, RowsInv', NEW p \in Procs, CheckConsensus(p)
    PROVE  Lifecycle!Next \/ UNCHANGED Lifecycle!vars
<1>1. CASE Create(p) /\ ~UNCHANGED consensus
  <2> DEFINE x == [task |-> job[p].task, content |-> job[p].content,
                   epoch |-> job[p].epoch, sigs |-> ref[p].sigs,
                   counted |-> ref[p].counted]
  <2>1. /\ consensus' = consensus \cup {x} /\ ~Conflicts(job[p]) /\ UNCHANGED tasks
        /\ pc[p] = "create"
    BY <1>1 DEF Create
  <2>2. x.task = job[p].task
    OBVIOUS
  <2> HIDE DEF x
  <2>3. PICK t \in TaskIds : t = job[p].task
    BY <2>1 DEF TypeInv, TypeOK, JobHeld, Job
  <2>4. ~HasConsensus(t)
    BY <2>1, <2>3 DEF Conflicts, HasConsensus
  <2>5. Lifecycle!Decide(t)
    BY <2>1, <2>2, <2>3, <2>4, Decides
  <2> QED BY <2>5 DEF Lifecycle!Next
<1>2. CASE Complete(p) /\ ~UNCHANGED tasks
  <2>1. /\ tasks' = SetStatus(job[p].task, "completed") /\ UNCHANGED consensus
        /\ pc[p] = "complete"
    BY <1>2 DEF Complete
  <2>2. PICK t \in TaskIds : t = job[p].task
    BY <2>1 DEF TypeInv, TypeOK, JobHeld, Job
  <2>3. HasConsensus(t)
    BY <2>1, <2>2 DEF CompletedInv, CompleteKnown
  <2>4. HasTask(t)
    BY <1>2, <2>1, <2>2 DEF SetStatus, HasTask
  <2>5. /\ StatusOf(t)' = "completed" /\ AttemptsOf(t)' = AttemptsOf(t)
        /\ OthersStay(t)
    BY <2>1, <2>2, <2>4, SetStatusView DEF RowsInv
  <2>6. Lifecycle!Finish(t)
    BY <2>1, <2>3, <2>4, <2>5, ShownRow, Finishes
  <2> QED BY <2>6 DEF Lifecycle!Next
<1>3. CASE UNCHANGED <<tasks, consensus>>
  BY <1>3, Stutters
<1>4. \/ UNCHANGED <<tasks, consensus>>
      \/ Create(p) /\ ~UNCHANGED consensus
      \/ Complete(p) /\ ~UNCHANGED tasks
  BY PanicFrame DEF CheckConsensus, Load, Total, Collect, Create, Complete, db
<1> QED BY <1>1, <1>2, <1>3, <1>4

LEMMA RefineRequest ==
    ASSUME TypeInv, RowsInv, RowsInv', NEW p \in Procs, SendRequest(p)
    PROVE  Lifecycle!Next \/ UNCHANGED Lifecycle!vars
<1>1. UNCHANGED consensus
  BY DEF SendRequest, ApiRequest, ApiCreate, db
<1>2. CASE UNCHANGED tasks
  BY <1>1, <1>2, Stutters
<1>3. CASE ~UNCHANGED tasks
  <2>1. PICK x : /\ tasks' = tasks \cup {x}
                 /\ ~HasTask(x.task)
                 /\ x.task = job[p].task
                 /\ x.retry = 0
                 /\ x.status \in {"confirming", "pending"}
    BY <1>3, CreatedRow
  <2>2. x.task \in TaskIds
    BY <1>3, <2>1 DEF SendRequest, ApiRequest, ApiCreate, db, TypeInv, TypeOK, JobHeld, Job
  <2>3. StatusOf(x.task) = "none"
    BY <2>1, <2>2, ShownRow
  <2>4. /\ StatusOf(x.task)' = x.status
        /\ AttemptsOf(x.task) = 0 /\ AttemptsOf(x.task)' = 0
        /\ OthersStay(x.task)
    BY <2>1, CreateView DEF RowsInv
  <2>5. Lifecycle!Submit(x.task)
    BY <1>1, <2>1, <2>2, <2>3, <2>4, Submits
  <2> QED BY <2>2, <2>5 DEF Lifecycle!Next
<1> QED BY <1>2, <1>3

LEMMA RefineTimeouts ==
    ASSUME TypeInv, RowsInv, RowsInv', DeletesExhausted, CheckTimeouts
    PROVE  Lifecycle!Next \/ UNCHANGED Lifecycle!vars
<1> USE ProcsFacts
<1>0. UNCHANGED consensus
  BY PanicFrame DEF CheckTimeouts, TimeoutTick, TimeoutDelete, TimeoutForget,
                    TimeoutVisit, db
<1>1. CASE UNCHANGED tasks
  BY <1>0, <1>1, Stutters
<1>2. ASSUME NEW r \in batch["timeout"], TimeoutVisit(r), ~UNCHANGED tasks
      PROVE  Lifecycle!Next
  <2>1. tasks' = IncrementRetryCount(r.task) /\ HasTask(r.task)
    BY <1>2, PanicFrame DEF TimeoutVisit, db
  <2>2. PICK t \in TaskIds : t = r.task
    BY DEF TypeInv, TypeOK, TaskRow
  <2>3. PICK x \in tasks : x.task = t
    BY <2>1, <2>2 DEF HasTask
  <2>4. x.retry \in 0 .. MaxRetry /\ MaxRetry \in Nat
    BY ConstantsAssumption DEF TypeInv, TypeOK, TaskRow
  <2>5. StatusOf(t) # "none" /\ AttemptsOf(t) = x.retry
    BY <2>1, <2>2, <2>3, ShownRow, RowView DEF RowsInv
  <2>6. /\ StatusOf(t)' = StatusOf(t) /\ AttemptsOf(t)' = NextRetry(t)
        /\ OthersStay(t)
    BY <2>1, <2>2, IncrementView DEF RowsInv
  <2>7. NextRetry(t) = IF x.retry < MaxRetry THEN x.retry + 1 ELSE x.retry
    BY <2>3, NextRetryOf DEF RowsInv
  <2>8. x.retry < MaxRetry
    <3>1. CASE NextRetry(t) = x.retry
      <4>1. ASSUME NEW s \in tasks, s.task = t PROVE [s EXCEPT !.retry = x.retry] = s
        <5>1. s = x
          BY <2>3, <4>1 DEF RowsInv, UniqueTasks
        <5> QED BY <5>1 DEF TypeInv, TypeOK, TaskRow
      <4>2. tasks' = {IF s.task = t THEN [s EXCEPT !.retry = x.retry] ELSE s : s \in tasks}
        BY <2>1, <2>2, <3>1 DEF IncrementRetryCount
      <4> QED BY <1>2, <4>1, <4>2
    <3> QED BY <2>4, <2>7, <3>1
  <2>9. Lifecycle!Retry(t)
    BY <1>0, <2>4, <2>5, <2>6, <2>7, <2>8, Retries
  <2> QED BY <2>9 DEF Lifecycle!Next
<1>3. CASE TimeoutDelete /\ ~UNCHANGED tasks
  <2>1. /\ tasks' = {r \in tasks : r.task # job["timeout"].task}
        /\ pc["timeout"] = "delete"
    BY <1>3 DEF TimeoutDelete
  <2>2. PICK t \in TaskIds : t = job["timeout"].task
    BY <2>1 DEF TypeInv, TypeOK, JobHeld, Job
  <2>3. PICK x \in tasks : x.task = t /\ x.retry = MaxRetry
    BY <2>1, <2>2 DEF DeletesExhausted
  <2>4. HasTask(t)
    BY <2>3 DEF HasTask
  <2>5. StatusOf(t) # "none" /\ AttemptsOf(t) = MaxRetry
    BY <2>3, <2>4, ShownRow, RowView DEF RowsInv
  <2>6. /\ StatusOf(t)' = "none" /\ AttemptsOf(t)' = 0
        /\ OthersStay(t)
    BY <2>1, <2>2, DeleteView DEF RowsInv
  <2>7. Lifecycle!Expire(t)
    BY <1>0, <2>5, <2>6, Expires
  <2> QED BY <2>7 DEF Lifecycle!Next
<1>4. UNCHANGED tasks \/ TimeoutDelete \/ \E r \in batch["timeout"] : TimeoutVisit(r)
  BY DEF CheckTimeouts, TimeoutTick, TimeoutForget, db
<1> QED BY <1>1, <1>2, <1>3, <1>4

LEMMA RefineConfirmations ==
    ASSUME TypeInv, RowsInv, RowsInv', CheckConfirmations
    PROVE  Lifecycle!Next \/ UNCHANGED Lifecycle!vars
<1>0. UNCHANGED consensus
  BY DEF CheckConfirmations, ConfirmTick, ConfirmVisit, db
<1>1. CASE UNCHANGED tasks
  BY <1>0, <1>1, Stutters
<1>2. CASE ~UNCHANGED tasks
  <2>1. PICK r \in batch["confirm"] : tasks' = SetStatus(r.task, "pending")
    BY <1>2 DEF CheckConfirmations, ConfirmTick, ConfirmVisit, db
  <2>2. PICK t \in TaskIds : t = r.task
    BY ProcsFacts DEF TypeInv, TypeOK, TaskRow
  <2>3. HasTask(t)
    BY <1>2, <2>1, <2>2 DEF SetStatus, HasTask
  <2>4. /\ StatusOf(t)' = "pending" /\ AttemptsOf(t)' = AttemptsOf(t)
        /\ OthersStay(t)
    BY <2>1, <2>2, <2>3, SetStatusView DEF RowsInv
  <2>5. Lifecycle!Promote(t)
    BY <1>0, <2>3, <2>4, ShownRow, Promotes
  <2> QED BY <2>5 DEF Lifecycle!Next
<1> QED BY <1>1, <1>2

\* Goroutines, tickers, failures and crashes together do to a task what
\* TaskLifecycle allows and nothing else: a row is created once at a time,
\* completed only after its decision, deleted only after MaxRetry attempts, and
\* a decision is taken once and for all.
THEOREM LifecycleRefined == Spec => ImplementsLifecycle
<1>1. /\ TypeInv /\ CompletedInv /\ RowsInv /\ RowsInv' /\ DeletesExhausted
      /\ [Next]_vars
      => [Lifecycle!Next]_Lifecycle!vars
  <2> SUFFICES ASSUME TypeInv, CompletedInv, RowsInv, RowsInv', DeletesExhausted,
                      [Next]_vars
               PROVE  Lifecycle!Next \/ UNCHANGED Lifecycle!vars
    OBVIOUS
  <2>1. CASE UNCHANGED vars
    BY <2>1, Stutters DEF vars
  <2>2. ASSUME NEW p \in Procs,
               ProcessResponse(p) \/ Process(p) \/ Sign(p) \/ Respond(p)
        PROVE  UNCHANGED Lifecycle!vars
    <3>1. UNCHANGED <<tasks, consensus>>
      BY <2>2, PanicFrame DEF ProcessResponse, Receive, Lookup, Seen, Store, Violation,
         Process, Sign, Respond, db
    <3> QED BY <3>1, Stutters
  <2>3. CASE CleanupAll \/ Surroundings
    <3>1. UNCHANGED <<tasks, consensus>>
      BY <2>3 DEF CleanupAll, Surroundings, EpochState, OperatorsCommit,
         UpsertOperator, ChainEpoch, ChainConfirms, Crash, Reboot, db
    <3> QED BY <3>1, Stutters
  <2> QED BY <2>1, <2>2, <2>3, RefineConsensus, RefineRequest, RefineTimeouts,
             RefineConfirmations DEF Next, ProcessTask
<1>2. Spec => [](TypeInv /\ CompletedInv /\ RowsInv /\ DeletesExhausted)
  BY TypeInit, TypeStep, CompletedInit, CompletedStep, RowsInit, RowsStep,
     ExhaustedInit, ExhaustedStep, PTL DEF Spec
<1> QED BY <1>1, <1>2, LifecycleInit, PTL DEF Spec, ImplementsLifecycle, Lifecycle!Spec

============================================================================
