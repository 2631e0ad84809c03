--------------------------- MODULE TaskProcessor ---------------------------
(***************************************************************************)
(* The task processor of one operator node (pkg/operator/task), with the   *)
(* API handler that creates tasks (pkg/operator/api) and the two tables it *)
(* works on (pkg/repos/tasks, pkg/repos/consensus_responses).              *)
(*                                                                         *)
(* Goroutines are processes with a program counter: the workers that       *)
(* handleResponses starts, the tickers checkTimeouts and                   *)
(* checkConfirmations, and the HTTP handlers.  A step ends where the code  *)
(* releases the mutex of TaskResponseTrack, returns from a database call   *)
(* or returns from a call to the chain, so other goroutines run between    *)
(* any two of them.  ProcessTask and checkConsensus are called by several  *)
(* goroutines; their steps are written once, for a process p.  Two such    *)
(* steps are joined only where no interleaving between them can show: a    *)
(* test that the next step repeats or that can only change one way, a call *)
(* to the chain whose answer does not change, the publication that follows *)
(* a store, the look at a response before the query about its operator.    *)
(***************************************************************************)
EXTENDS Naturals, FiniteSets, FiniteSetsExt

CONSTANTS
    TaskIds,      \* what generateTaskID can return
    Contents,     \* (target, chain, block, key, value): what a signature covers
    Slots,        \* (target, chain, block, key)
    SlotOf,       \* the slot of a content
    ZeroBlock,    \* the contents whose block number is 0
    Truth,        \* the contents whose value the chain holds at their block
    Operators,    \* operators, each with one P2P key and one signing key
    Self,         \* the operator this node runs
    Workers,      \* goroutines handleResponses may have running (maxConcurrent)
    Handlers,     \* HTTP requests served at once
    Messages,     \* responses peers may deliver to this node
    Requests,     \* [task, content] of the requests users may post
    MaxEpoch,     \* bound: the last epoch the chain reaches
    Registered, Active, Weight,  \* the operators table as of each epoch; as of
                  \* epoch 0, as the event listener writes it
    Joining,      \* operators whose registrations the event listener handles
    Threshold,    \* threshold weight of each epoch
    MaxRetry,     \* maxRetryCount
    MaxViolations,\* bound: violation counts stop growing here
    Faults,       \* which failures of its surroundings the node meets
    NoJob         \* what an idle process works on

Tickers  == {"timeout", "confirm"}
Procs    == Workers \cup Handlers \cup Tickers
Epochs   == 0 .. MaxEpoch
Statuses == {"confirming", "pending", "completed"}

TaskRow == [task : TaskIds, content : Contents, epoch : Epochs,
            status : Statuses, retry : 0 .. MaxRetry]
Entry   == [task : TaskIds, from : Operators, content : Contents,
            epoch : Epochs, weight : Nat]
Row     == [task : TaskIds, content : Contents, epoch : Epochs,
            sigs : SUBSET Entry, counted : SUBSET Operators]
Job     == [task : TaskIds, from : Operators, signer : Operators,
            content : Contents, epoch : Epochs, weight : Nat]
Message == [task : TaskIds, from : Operators, signer : Operators,
            content : Contents, epoch : Epochs]
Request == [task : TaskIds, content : Contents]
Signed  == [task : TaskIds, content : Contents, epoch : Epochs]
Ref     == [live : BOOLEAN, rows : SUBSET Entry, counted : SUBSET Operators,
            keys : SUBSET Operators, sigs : SUBSET Entry]
NoRef   == [live |-> FALSE, rows |-> {}, counted |-> {}, keys |-> {}, sigs |-> {}]

FaultKinds == {"db", "chain", "publish", "crash"}

ASSUME ConstantsAssumption ==
    /\ SlotOf \in [Contents -> Slots]
    /\ ZeroBlock \subseteq Contents
    /\ Truth \subseteq Contents
    /\ Self \in Operators
    /\ Messages \subseteq Message
    /\ Requests \subseteq Request
    /\ MaxEpoch \in Nat \ {0}
    /\ Registered \in [Epochs -> SUBSET Operators]
    /\ Active \in [Epochs -> SUBSET Operators]
    /\ Weight \in [Epochs -> [Operators -> Nat]]
    /\ Threshold \in [Epochs -> Nat]
    /\ Joining \subseteq Registered[0]
    /\ MaxRetry \in Nat \ {0}
    /\ MaxViolations \in Nat
    /\ Faults \subseteq FaultKinds

ASSUME ProcsAssumption ==
    /\ Workers \cap Handlers = {}
    /\ "timeout" \notin Workers \cup Handlers
    /\ "confirm" \notin Workers \cup Handlers
    /\ NoJob \notin Job

VARIABLES
    \* the database of the node
    tasks,        \* table tasks
    consensus,    \* table consensus_responses
    violations,   \* violation_count of table blacklist
    \* what other components of the node hold
    epoch,        \* epoch state in memory; 0 before the first update
    processed,    \* lastProcessedEpoch of the epoch updator
    opEpoch,      \* the epoch each row of the operators table is as of
    \* the world outside the node
    chainEpoch,   \* epoch of the mainnet block
    confirmed,    \* contents whose block is requiredConfirmations deep
    published,    \* responses published to the topic
    \* memory of the task processor
    track,        \* taskResponseTrack: responses and weights
    \* the goroutines
    pc,           \* where each goroutine is
    job,          \* the message or task row it works on
    ref,          \* what checkConsensus holds: the inner maps, the operators it
                  \* counted, the keys it has still to look up, the signatures
    cont,         \* where checkConsensus returns to
    batch         \* rows the loop of a ticker has still to visit

db    == <<tasks, consensus, violations>>
world == <<epoch, processed, opEpoch, chainEpoch, confirmed>>
procs == <<pc, job, ref, cont, batch>>
vars  == <<tasks, consensus, violations, epoch, processed, opEpoch, chainEpoch,
           confirmed, published, track, pc, job, ref, cont, batch>>

Labels == {"idle", "next", "lookup", "seen", "store",
           "load", "total", "collect", "gather", "create", "complete",
           "process", "sign", "respond", "apiCreate", "delete", "forget"}

Init ==
    /\ tasks = {}
    /\ consensus = {}
    /\ violations = [o \in Operators |-> 0]
    /\ epoch = 0
    /\ processed = 0
    /\ opEpoch = [o \in Operators |-> 0]
    /\ chainEpoch = 1
    /\ confirmed = {}
    /\ published = {}
    /\ track = {}
    /\ pc = [p \in Procs |-> "idle"]
    /\ job = [p \in Procs |-> NoJob]
    /\ ref = [p \in Procs |-> NoRef]
    /\ cont = [p \in Procs |-> "done"]
    /\ batch = [p \in Tickers |-> {}]

----------------------------------------------------------------------------
(* The tables and the maps, as the code queries them.                      *)

Fails(f) == f \in Faults

HasTask(t)      == \E r \in tasks : r.task = t
HasConsensus(t) == \E r \in consensus : r.task = t

\* CreateConsensusResponse fails on the primary key task_id and on
\* UNIQUE (target_address, chain_id, block_number, key).
Conflicts(j) == \E r \in consensus :
                    \/ r.task = j.task
                    \/ SlotOf[r.content] = SlotOf[j.content]

\* UPDATE tasks SET status = s WHERE task_id = t
SetStatus(t, s) ==
    {IF r.task = t THEN [r EXCEPT !.status = s] ELSE r : r \in tasks}

ListTasks(s)      == {r \in tasks : r.status = s}
CreateTask(row)   == tasks' = tasks \cup {row}
DeleteTaskByID(t) == tasks' = {r \in tasks : r.task # t}

\* IncrementRetryCount: the count it returns and the rows it leaves.  Counts
\* from MaxRetry on (a delete that failed) behave alike and are not told apart.
NextRetry(t) ==
    LET now == (CHOOSE x \in tasks : x.task = t).retry
    IN  IF now < MaxRetry THEN now + 1 ELSE now
IncrementRetryCount(t) ==
    {IF r.task = t THEN [r EXCEPT !.retry = NextRetry(t)] ELSE r : r \in tasks}

\* There is a row with the signing key of operator o.
GetOperatorBySigningKey(o) == o \in Registered[opEpoch[o]]

\* taskResponseTrack.responses[t]
Responses(t) == {e \in track : e.task = t}

\* alreadyProcessed
AlreadyProcessed(t, o) == \E e \in track : e.task = t /\ e.from = o

\* responses[t][o] = response; weights[t][o] = weight
StoreEntry(j, o) ==
    track' = {e \in track : ~(e.task = j.task /\ e.from = o)}
                \cup {[task |-> j.task, from |-> o, content |-> j.content,
                       epoch |-> j.epoch, weight |-> j.weight]}

\* The inner maps of task job[p].task that checkConsensus looked up.  They are
\* references: while the outer map still holds them, later stores show.
Deref(p) == IF ref[p].live THEN Responses(job[p].task) ELSE ref[p].rows

\* Mutant of Detach: cleanup empties the inner map in place.
DetachClears(gone) == UNCHANGED ref

\* A map the outer map drops no longer changes; whoever holds it keeps it.
Detach(gone) ==
    ref' = [p \in Procs |->
              IF ref[p].live /\ job[p].task \in gone
              THEN [ref[p] EXCEPT !.live = FALSE, !.rows = Deref(p)]
              ELSE ref[p]]

\* calculateTotalWeight
TotalWeight(S) == MapThenSumSet(LAMBDA e : e.weight, S)

----------------------------------------------------------------------------
(* Moving a goroutine on.                                                  *)

Goto(p, l) ==
    /\ pc' = [pc EXCEPT ![p] = l]
    /\ UNCHANGED <<job, ref, cont, batch>>

\* Where a goroutine is without a job: in the loop over b, or waiting.
Rest(b) == IF b = {} THEN "idle" ELSE "next"

\* The goroutine is finished with its job: a ticker goes on with its loop.
Done(p) ==
    /\ pc' = [pc EXCEPT ![p] = IF p \in Tickers THEN Rest(batch[p]) ELSE "idle"]
    /\ job' = [job EXCEPT ![p] = NoJob]
    /\ ref' = [ref EXCEPT ![p] = NoRef]
    /\ cont' = [cont EXCEPT ![p] = "done"]
    /\ UNCHANGED batch

\* checkConsensus returns to ProcessTask, which returns, or to processResponse,
\* which calls ProcessTask when this node has no response of its own yet (the
\* test with which ProcessTask begins).
Return(p) ==
    IF cont[p] = "process"
    THEN /\ pc' = [pc EXCEPT ![p] = "process"]
         /\ ref' = [ref EXCEPT ![p] = NoRef]
         /\ cont' = [cont EXCEPT ![p] = "done"]
         /\ UNCHANGED <<job, batch>>
    ELSE Done(p)

\* The process dies and is started again: memory is lost, tables are not.
Reboot ==
    /\ epoch' = 0 /\ processed' = 0
    /\ track' = {}
    /\ pc' = [p \in Procs |-> "idle"]
    /\ job' = [p \in Procs |-> NoJob]
    /\ ref' = [p \in Procs |-> NoRef]
    /\ cont' = [p \in Procs |-> "done"]
    /\ batch' = [p \in Tickers |-> {}]
    /\ UNCHANGED <<db, opEpoch, chainEpoch, confirmed, published>>

\* A panic: recovered in a response worker and in an HTTP handler, fatal in
\* the goroutines of the tickers.
Panic(p) ==
    \/ p \notin Tickers /\ Done(p) /\ UNCHANGED <<db, world, published, track>>
    \/ p \in Tickers /\ Reboot

\* incrementPeerViolation: a failing insert is only logged.
Violation(p) ==
    /\ LET o == job[p].from IN
       \/ violations' = [violations EXCEPT ![o] =
                           IF @ < MaxViolations THEN @ + 1 ELSE @]
       \/ Fails("db") /\ UNCHANGED violations
    /\ Done(p)
    /\ UNCHANGED <<tasks, consensus, world, published, track>>

----------------------------------------------------------------------------
(* handleResponses and processResponse                                     *)

\* A message comes off the subscription and a semaphore slot is free.  The
\* node hears its own publications too.  Responses of another epoch are skipped.
Receive(p) ==
    /\ p \in Workers
    /\ pc[p] = "idle"
    /\ \E m \in Messages :
         /\ m.from = Self =>
              [task |-> m.task, content |-> m.content, epoch |-> m.epoch] \in published
         /\ m.epoch = epoch
         /\ job' = [job EXCEPT ![p] =
                      [task |-> m.task, from |-> m.from, signer |-> m.signer,
                       content |-> m.content, epoch |-> m.epoch, weight |-> 0]]
    /\ pc' = [pc EXCEPT ![p] = "lookup"]
    /\ UNCHANGED <<db, world, published, track, ref, cont, batch>>

\* GetOperatorByP2PKey of the peer the message was received from: the operator is
\* active and has a weight.
ActiveOperator(o) == LET e == opEpoch[o] IN o \in Registered[e] \cap Active[e]
OperatorWeight(o) == Weight[opEpoch[o]][o]

Lookup(p) ==
    /\ pc[p] = "lookup"
    /\ \/ (Fails("db") \/ ~ActiveOperator(job[p].from)) /\ Violation(p)
       \/ /\ ActiveOperator(job[p].from)
          /\ job' = [job EXCEPT ![p] = [@ EXCEPT !.weight = OperatorWeight(job[p].from)]]
          /\ pc' = [pc EXCEPT ![p] = "seen"]
          /\ UNCHANGED <<db, world, published, track, ref, cont, batch>>

\* The address recovered from the signature is the key: a signature is as good as
\* who made it, and it covers the content it came with.
VerifyTaskResponse(signer, key) == signer = key

\* verifyResponse: the signature is by the signing key of the operator that
\* delivered the response.
VerifyResponse(j) == VerifyTaskResponse(j.signer, j.from)

\* Mutant of Seen: the signature is left to the contract.
SeenUnverified(p) ==
    /\ pc[p] = "seen"
    /\ ~AlreadyProcessed(job[p].task, job[p].from) /\ ~HasConsensus(job[p].task)
    /\ Goto(p, "store")
    /\ UNCHANGED <<db, world, published, track>>

\* alreadyProcessed; then GetConsensusResponseByTaskId, whose error is ignored;
\* then verifyResponse.
Seen(p) ==
    LET j == job[p]
        fresh == /\ ~AlreadyProcessed(j.task, j.from)
                 /\ ~HasConsensus(j.task) \/ Fails("db")
    IN
    /\ pc[p] = "seen"
    /\ \/ /\ AlreadyProcessed(j.task, j.from) \/ HasConsensus(j.task)
          /\ Done(p)
          /\ UNCHANGED <<db, world, published, track>>
       \/ /\ fresh
          /\ ~VerifyResponse(j)
          /\ Violation(p)
       \/ /\ fresh
          /\ VerifyResponse(j)
          /\ Goto(p, "store")
          /\ UNCHANGED <<db, world, published, track>>

\* Mutant of Store: the consensus check is left to ProcessTask.
StoreUnchecked(p) ==
    /\ pc[p] = "store"
    /\ StoreEntry(job[p], job[p].from)
    /\ Goto(p, "process")
    /\ UNCHANGED <<db, world, published>>

\* storeResponseAndWeight
Store(p) ==
    /\ pc[p] = "store"
    /\ StoreEntry(job[p], job[p].from)
    /\ pc' = [pc EXCEPT ![p] = "load"]
    /\ cont' = [cont EXCEPT ![p] = "process"]
    /\ UNCHANGED <<db, world, published, job, ref, batch>>

----------------------------------------------------------------------------
(* checkConsensus                                                          *)

\* The inner maps are looked up under the read lock and kept without it.
Load(p) ==
    /\ pc[p] = "load"
    /\ IF Responses(job[p].task) = {}
       THEN Return(p)
       ELSE /\ ref' = [ref EXCEPT ![p] = [NoRef EXCEPT !.live = TRUE]]
            /\ pc' = [pc EXCEPT ![p] = "total"]
            /\ UNCHANGED <<job, cont, batch>>
    /\ UNCHANGED <<db, world, published, track>>

\* Mutant of Total: the comparison is off by one.
TotalOffByOne(p) ==
    /\ pc[p] = "total"
    /\ epoch # 0
    /\ IF TotalWeight(Deref(p)) + 1 < Threshold[epoch]
       THEN Return(p)
       ELSE /\ ref' = [ref EXCEPT ![p] = [@ EXCEPT !.counted = {e.from : e \in Deref(p)}]]
            /\ pc' = [pc EXCEPT ![p] = "collect"]
            /\ UNCHANGED <<job, cont, batch>>
    /\ UNCHANGED <<db, world, published, track>>

\* calculateTotalWeight against GetThresholdWeight, which is nil (and Cmp
\* panics) until the epoch updator has run.  All responses count, whatever
\* their content.
Total(p) ==
    /\ pc[p] = "total"
    /\ \/ epoch = 0 /\ Panic(p)
       \/ /\ epoch # 0
          /\ IF TotalWeight(Deref(p)) < Threshold[epoch]
             THEN Return(p)
             ELSE /\ ref' = [ref EXCEPT ![p] = [@ EXCEPT !.counted = {e.from : e \in Deref(p)}]]
                  /\ pc' = [pc EXCEPT ![p] = "collect"]
                  /\ UNCHANGED <<job, cont, batch>>
          /\ UNCHANGED <<db, world, published, track>>

\* The signing keys still to look up: those in the maps, listed at the beginning.
Keys(p) == IF pc[p] = "collect" THEN {e.from : e \in Deref(p)} ELSE ref[p].keys

\* The first of the keys as texts, whichever that is.  (There always is one: what
\* was counted is not lost.)
FirstOf(keys) == CHOOSE o \in Operators : keys # {} => o \in keys

\* The response of o is taken from the maps, which are let go with the last.
Take(p, o) ==
    LET left == Keys(p) \ {o}
        sigs == ref[p].sigs \cup {e \in Deref(p) : e.from = o}
    IN  /\ ref' = [ref EXCEPT ![p] =
                      IF left = {} THEN [NoRef EXCEPT !.counted = ref[p].counted, !.sigs = sigs]
                      ELSE [@ EXCEPT !.keys = left, !.sigs = sigs]]
        /\ pc' = [pc EXCEPT ![p] = IF left = {} THEN "create" ELSE "gather"]
        /\ UNCHANGED <<job, cont, batch>>

\* Mutant of Collect: the task is marked as completed before the insert.
CollectCompletes(p) ==
    /\ pc[p] \in {"collect", "gather"}
    /\ Take(p, FirstOf(Keys(p)))
    /\ tasks' = SetStatus(job[p].task, "completed")
    /\ UNCHANGED <<consensus, violations, world, published, track>>

\* collectSignaturesAndAddresses lists the keys and asks for the operator of one
\* after the other: one that cannot be found by its signing key aborts the whole
\* check.
Collect(p) ==
    LET o == FirstOf(Keys(p)) IN
    /\ pc[p] \in {"collect", "gather"}
    /\ \/ (Fails("db") \/ ~GetOperatorBySigningKey(o)) /\ Return(p)
       \/ GetOperatorBySigningKey(o) /\ Take(p, o)
    /\ UNCHANGED <<db, world, published, track>>

\* CreateConsensusResponse: the fields are those of the response that
\* triggered the check, the signatures those of every response collected.
Create(p) ==
    /\ pc[p] = "create"
    /\ \/ /\ Fails("db") \/ Conflicts(job[p])
          /\ Return(p)
          /\ UNCHANGED consensus
       \/ /\ ~Conflicts(job[p])
          /\ consensus' = consensus \cup
               {[task |-> job[p].task, content |-> job[p].content,
                 epoch |-> job[p].epoch, sigs |-> ref[p].sigs,
                 counted |-> ref[p].counted]}
          /\ Goto(p, "complete")
    /\ UNCHANGED <<tasks, violations, world, published, track>>

\* Mutants of Complete: a status the check constraint refuses; the row is
\* deleted once its consensus is stored.
CompleteMisspelt(p) ==
    /\ pc[p] = "complete"
    /\ tasks' = SetStatus(job[p].task, "complete")
    /\ Return(p)
    /\ UNCHANGED <<consensus, violations, world, published, track>>
CompleteDeletes(p) ==
    /\ pc[p] = "complete"
    /\ tasks' = {r \in tasks : r.task # job[p].task}
    /\ Return(p)
    /\ UNCHANGED <<consensus, violations, world, published, track>>

\* markTaskAsCompleted; a node without the task updates no row.
Complete(p) ==
    /\ pc[p] = "complete"
    /\ \/ tasks' = SetStatus(job[p].task, "completed")
       \/ Fails("db") /\ UNCHANGED tasks
    /\ Return(p)
    /\ UNCHANGED <<consensus, violations, world, published, track>>

----------------------------------------------------------------------------
(* ProcessTask                                                             *)

Process(p) ==
    /\ pc[p] = "process"
    /\ IF AlreadyProcessed(job[p].task, Self) \/ job[p].content \in ZeroBlock
       THEN Done(p)
       ELSE Goto(p, "sign")
    /\ UNCHANGED <<db, world, published, track>>

\* Mutant of Sign: the value on the chain is not compared with the task's.
SignUnverified(p) ==
    /\ pc[p] = "sign"
    /\ job' = [job EXCEPT ![p] = [@ EXCEPT !.weight = OperatorWeight(Self)]]
    /\ pc' = [pc EXCEPT ![p] = "respond"]
    /\ UNCHANGED <<db, world, published, track, ref, cont, batch>>

\* getStateWithRetries has an answer, and it is the value of the content.
OnChain(c) == c \in Truth

\* The value on the chain is compared with that of the task; then
\* SignTaskResponse and the weight of the operator with this node's key.  That
\* row may be missing, and its weight is then read through a nil pointer.
Sign(p) ==
    /\ pc[p] = "sign"
    /\ \/ /\ Fails("chain") \/ ~OnChain(job[p].content) \/ Fails("db")
          /\ Done(p)
          /\ UNCHANGED <<db, world, published, track>>
       \/ /\ OnChain(job[p].content)
          /\ ~GetOperatorBySigningKey(Self)
          /\ Panic(p)
       \/ /\ OnChain(job[p].content)
          /\ GetOperatorBySigningKey(Self)
          /\ job' = [job EXCEPT ![p] = [@ EXCEPT !.weight = OperatorWeight(Self)]]
          /\ pc' = [pc EXCEPT ![p] = "respond"]
          /\ UNCHANGED <<db, world, published, track, ref, cont, batch>>

\* The own response is stored; then broadcastResponse, whose failure returns
\* before checkConsensus.
Respond(p) ==
    /\ pc[p] = "respond"
    /\ StoreEntry(job[p], Self)
    /\ \/ /\ published' = published \cup
               {[task |-> job[p].task, content |-> job[p].content,
                 epoch |-> job[p].epoch]}
          /\ Goto(p, "load")
       \/ Fails("publish") /\ Done(p) /\ UNCHANGED published
    /\ UNCHANGED <<db, world>>

----------------------------------------------------------------------------
(* SendRequest                                                             *)

\* The request is valid, the chain gave the epoch and the value; no consensus
\* is stored for the task.
ApiRequest(p) ==
    /\ p \in Handlers
    /\ pc[p] = "idle"
    /\ \E r \in Requests :
         /\ r.content \in Truth
         /\ ~HasConsensus(r.task)
         /\ job' = [job EXCEPT ![p] =
                      [task |-> r.task, from |-> Self, signer |-> Self,
                       content |-> r.content, epoch |-> chainEpoch, weight |-> 0]]
    /\ pc' = [pc EXCEPT ![p] = "apiCreate"]
    /\ UNCHANGED <<db, world, published, track, ref, cont, batch>>

\* GetTaskByID, then CreateTask, whose primary key refuses a second row.  The row
\* is confirming while its block is too young, else pending and processed at
\* once.
ApiCreate(p) ==
    LET j == job[p]
        young == j.content \notin confirmed
    IN
    /\ pc[p] = "apiCreate"
    /\ \/ /\ HasTask(j.task) \/ Fails("db") \/ Fails("chain")
          /\ Done(p)
          /\ UNCHANGED tasks
       \/ /\ ~HasTask(j.task)
          /\ CreateTask([task |-> j.task, content |-> j.content, epoch |-> j.epoch,
                         retry |-> 0,
                         status |-> IF young THEN "confirming" ELSE "pending"])
          /\ IF young THEN Done(p) ELSE Goto(p, "process")
    /\ UNCHANGED <<consensus, violations, world, published, track>>

----------------------------------------------------------------------------
(* checkTimeouts                                                           *)

\* Work on the row a ticker visits.
JobOf(r) == [task |-> r.task, from |-> Self, signer |-> Self,
             content |-> r.content, epoch |-> r.epoch, weight |-> 0]

\* ListPendingTasks
TimeoutTick ==
    /\ pc["timeout"] = "idle"
    /\ ListTasks("pending") # {}
    /\ batch' = [batch EXCEPT !["timeout"] = ListTasks("pending")]
    /\ pc' = [pc EXCEPT !["timeout"] = "next"]
    /\ UNCHANGED <<db, world, published, track, job, ref, cont>>

\* Mutants of TimeoutVisit: one retry too few; the retry is not counted.
TimeoutVisitEarly(r) ==
    /\ pc["timeout"] = "next"
    /\ r \in batch["timeout"]
    /\ tasks' = IncrementRetryCount(r.task)
    /\ batch' = [batch EXCEPT !["timeout"] = @ \ {r}]
    /\ job' = [job EXCEPT !["timeout"] = JobOf(r)]
    /\ pc' = [pc EXCEPT !["timeout"] =
                IF NextRetry(r.task) + 1 >= MaxRetry THEN "delete" ELSE "process"]
    /\ UNCHANGED <<consensus, violations, world, published, track, ref, cont>>
TimeoutVisitUncounted(r) ==
    /\ pc["timeout"] = "next"
    /\ r \in batch["timeout"]
    /\ batch' = [batch EXCEPT !["timeout"] = @ \ {r}]
    /\ job' = [job EXCEPT !["timeout"] = JobOf(r)]
    /\ pc' = [pc EXCEPT !["timeout"] = "process"]
    /\ UNCHANGED <<db, world, published, track, ref, cont>>

\* When the row is gone IncrementRetryCount returns nil without an error and
\* the next line reads through it.
TimeoutVisit(r) ==
    /\ pc["timeout"] = "next"
    /\ r \in batch["timeout"]
    /\ \/ ~HasTask(r.task) /\ Panic("timeout")
       \/ /\ Fails("db")
          /\ batch' = [batch EXCEPT !["timeout"] = @ \ {r}]
          /\ pc' = [pc EXCEPT !["timeout"] = Rest(batch'["timeout"])]
          /\ UNCHANGED <<db, world, published, track, job, ref, cont>>
       \/ /\ HasTask(r.task)
          /\ tasks' = IncrementRetryCount(r.task)
          /\ batch' = [batch EXCEPT !["timeout"] = @ \ {r}]
          /\ job' = [job EXCEPT !["timeout"] = JobOf(r)]
          /\ pc' = [pc EXCEPT !["timeout"] =
                      IF NextRetry(r.task) >= MaxRetry THEN "delete" ELSE "process"]
          /\ UNCHANGED <<consensus, violations, world, published, track, ref, cont>>

\* DeleteTaskByID: a failure is only logged.
TimeoutDelete ==
    /\ pc["timeout"] = "delete"
    /\ \/ DeleteTaskByID(job["timeout"].task)
       \/ Fails("db") /\ UNCHANGED tasks
    /\ Goto("timeout", "forget")
    /\ UNCHANGED <<consensus, violations, world, published, track>>

\* cleanupTask
TimeoutForget ==
    LET t == job["timeout"].task IN
    /\ pc["timeout"] = "forget"
    /\ track' = {e \in track : e.task # t}
    /\ Detach({t})
    /\ pc' = [pc EXCEPT !["timeout"] = Rest(batch["timeout"])]
    /\ job' = [job EXCEPT !["timeout"] = NoJob]
    /\ UNCHANGED <<db, world, published, cont, batch>>

----------------------------------------------------------------------------
(* checkConfirmations                                                      *)

\* ListConfirmingTasks
ConfirmTick ==
    /\ pc["confirm"] = "idle"
    /\ ListTasks("confirming") # {}
    /\ batch' = [batch EXCEPT !["confirm"] = ListTasks("confirming")]
    /\ pc' = [pc EXCEPT !["confirm"] = "next"]
    /\ UNCHANGED <<db, world, published, track, job, ref, cont>>

\* Mutant of ConfirmVisit: the task is processed but its status stays.
ConfirmVisitStays(r) ==
    /\ pc["confirm"] = "next"
    /\ r \in batch["confirm"]
    /\ batch' = [batch EXCEPT !["confirm"] = @ \ {r}]
    /\ job' = [job EXCEPT !["confirm"] = JobOf(r)]
    /\ pc' = [pc EXCEPT !["confirm"] = "process"]
    /\ UNCHANGED <<db, world, published, track, ref, cont>>

\* UpdateTaskToPending has no condition on the status the row has by now.
ConfirmVisit(r) ==
    /\ pc["confirm"] = "next"
    /\ r \in batch["confirm"]
    /\ batch' = [batch EXCEPT !["confirm"] = @ \ {r}]
    /\ \/ /\ \/ Fails("chain") \/ Fails("db")
             \/ r.content \in ZeroBlock
             \/ r.content \notin confirmed
          /\ pc' = [pc EXCEPT !["confirm"] = Rest(batch'["confirm"])]
          /\ UNCHANGED <<tasks, job>>
       \/ /\ r.content \in confirmed \ ZeroBlock
          /\ tasks' = SetStatus(r.task, "pending")
          /\ job' = [job EXCEPT !["confirm"] = JobOf(r)]
          /\ pc' = [pc EXCEPT !["confirm"] = "process"]
    /\ UNCHANGED <<consensus, violations, world, published, track, ref, cont>>

----------------------------------------------------------------------------
(* periodicCleanup, and the surroundings of the task processor             *)

\* cleanupAllTasks
CleanupAll ==
    /\ track' = {}
    /\ Detach(TaskIds)
    /\ UNCHANGED <<db, world, published, pc, job, cont, batch>>

\* handleEpochUpdate sets the epoch state in memory first ...
EpochState ==
    /\ epoch < chainEpoch
    /\ epoch' = chainEpoch
    /\ UNCHANGED <<db, processed, opEpoch, chainEpoch, confirmed, published, track, procs>>

\* ... and the rows of the operators table when its transaction commits.
OperatorsCommit ==
    /\ processed < epoch
    /\ processed' = epoch
    /\ opEpoch' = [o \in Operators |-> epoch]
    /\ UNCHANGED <<db, epoch, chainEpoch, confirmed, published, track, procs>>

\* handleOperatorRegistered: the row of a new registration, or of one that is
\* replayed after a restart, starts again without weight and not active.
UpsertOperator(o) ==
    /\ o \in Joining /\ opEpoch[o] # 0
    /\ opEpoch' = [opEpoch EXCEPT ![o] = 0]
    /\ UNCHANGED <<db, epoch, processed, chainEpoch, confirmed, published, track, procs>>

\* The mainnet enters the next epoch.
ChainEpoch ==
    /\ chainEpoch < MaxEpoch
    /\ chainEpoch' = chainEpoch + 1
    /\ UNCHANGED <<db, epoch, processed, opEpoch, confirmed, published, track, procs>>

\* The block of a content gets its required confirmations.
ChainConfirms(c) ==
    /\ c \notin confirmed
    /\ confirmed' = confirmed \cup {c}
    /\ UNCHANGED <<db, epoch, processed, opEpoch, chainEpoch, published, track, procs>>

Crash == Fails("crash") /\ Reboot

----------------------------------------------------------------------------
(* The specification                                                       *)

CheckConsensus(p) ==
    Load(p) \/ Total(p) \/ Collect(p) \/ Create(p) \/ Complete(p)

ProcessTask(p) ==
    Process(p) \/ Sign(p) \/ Respond(p) \/ CheckConsensus(p)

ProcessResponse(p) == Receive(p) \/ Lookup(p) \/ Seen(p) \/ Store(p)

SendRequest(p) == ApiRequest(p) \/ ApiCreate(p)

CheckTimeouts ==
    \/ TimeoutTick \/ TimeoutDelete \/ TimeoutForget
    \/ \E r \in batch["timeout"] : TimeoutVisit(r)

CheckConfirmations ==
    \/ ConfirmTick
    \/ \E r \in batch["confirm"] : ConfirmVisit(r)

Surroundings ==
    \/ EpochState \/ OperatorsCommit \/ ChainEpoch
    \/ \E o \in Operators : UpsertOperator(o)
    \/ \E c \in Contents : ChainConfirms(c)
    \/ Crash

Next ==
    \/ \E p \in Procs :
         ProcessResponse(p) \/ ProcessTask(p) \/ SendRequest(p)
    \/ CheckTimeouts \/ CheckConfirmations
    \/ CleanupAll \/ Surroundings

Spec == Init /\ [][Next]_vars

\* A goroutine goes on with the job it has, and the tickers keep ticking, the
\* epoch updator's among them.  Nothing is assumed of peers, users, the chain
\* or the hourly cleanup.
Goes(p) == Lookup(p) \/ Seen(p) \/ Store(p) \/ ProcessTask(p) \/ ApiCreate(p)

Fairness ==
    /\ \A p \in Procs : WF_vars(Goes(p))
    /\ WF_vars(CheckTimeouts)
    /\ WF_vars(CheckConfirmations)
    /\ WF_vars(EpochState)

LiveSpec == Spec /\ Fairness

----------------------------------------------------------------------------
(* Properties                                                              *)

\* The tables keep to their columns' types (the status check constraint
\* among them), the goroutines to their labels and jobs.
TypeOK ==
    /\ tasks \subseteq TaskRow
    /\ consensus \subseteq Row
    /\ violations \in [Operators -> 0 .. MaxViolations]
    /\ epoch \in Epochs
    /\ processed \in Epochs
    /\ opEpoch \in [Operators -> Epochs]
    /\ chainEpoch \in Epochs
    /\ confirmed \subseteq Contents
    /\ published \subseteq Signed
    /\ track \subseteq Entry
    /\ pc \in [Procs -> Labels]
    /\ job \in [Procs -> Job \cup {NoJob}]
    /\ ref \in [Procs -> Ref]
    /\ cont \in [Procs -> {"process", "done"}]
    /\ batch \in [Tickers -> SUBSET TaskRow]

\* A task reported as completed has a consensus response to query: whatever
\* fails, whoever else writes the row and wherever the process dies between
\* CreateConsensusResponse and UpdateTaskToCompleted.
CompletedHasConsensus ==
    \A r \in tasks : r.status = "completed" => HasConsensus(r.task)

\* checkTimeouts dereferences what IncrementRetryCount returns, which is nil
\* when the row is gone: every row it has listed is still there when its turn
\* comes, however long the calls to the chain in between took.
TimeoutRowsExist ==
    \A r \in batch["timeout"] : HasTask(r.task)

\* checkConsensus adds up weights and collects signatures in two passes over
\* maps that other goroutines fill and drop in between: no operator whose
\* weight was counted is missing from the signatures that are stored.
SignersCoverCounted ==
    \A r \in consensus : r.counted \subseteq {e.from : e \in r.sigs}

\* The operators whose signatures a consensus response holds have the threshold
\* weight in its epoch (for epochs in which weights do not change).
QuorumSigned ==
    \A r \in consensus :
        MapThenSumSet(LAMBDA o : Weight[r.epoch][o], {e.from : e \in r.sigs})
            >= Threshold[r.epoch]

\* Every signature of a stored row is one its operator gave, for that task and for
\* the content and epoch that were counted: a response it delivered and signed
\* itself, or this node's own about a value on the chain.  What is forwarded by
\* others, what cleanup drops while a check holds it and what is stored again
\* meanwhile lends nobody's weight to a signature, or to a task, of another.
SignaturesGiven ==
    \A r \in consensus : \A e \in r.sigs :
        /\ e.task = r.task
        /\ \/ [task |-> e.task, from |-> e.from, signer |-> e.from,
                content |-> e.content, epoch |-> e.epoch] \in Messages
           \/ e.from = Self /\ e.content \in Truth \ ZeroBlock

\* ProcessTask signs on behalf of peers' responses too: the node publishes, and
\* counts as its own, only contents whose value it has read from the chain.
SignsOnlyTruth ==
    /\ \A m \in published : m.content \in Truth \ ZeroBlock
    /\ \A e \in track : e.from = Self => e.content \in Truth \ ZeroBlock

\* On its way to the insert of a consensus response for task t.
Checking(p, t) ==
    /\ pc[p] \in {"load", "total", "collect", "gather", "create"}
    /\ job[p].task = t

\* Without failures, responses that reach the threshold are never left lying:
\* the last goroutine to store one sees them all, and no check but a store's
\* own will come.  A response for the same slot under another task ID takes the
\* place of the row.
NoQuorumForgotten ==
    \A t \in TaskIds :
        (epoch # 0 /\ TotalWeight(Responses(t)) >= Threshold[epoch])
        => \/ HasConsensus(t)
           \/ \E p \in Procs : Checking(p, t)
           \/ \E r \in consensus, e \in Responses(t) :
                    SlotOf[r.content] = SlotOf[e.content]

StatusOf(t) ==
    IF HasTask(t) THEN (CHOOSE r \in tasks : r.task = t).status ELSE "none"
AttemptsOf(t) ==
    IF HasTask(t) THEN (CHOOSE r \in tasks : r.task = t).retry ELSE 0

Lifecycle == INSTANCE TaskLifecycle WITH
    status   <- [t \in TaskIds |-> StatusOf(t)],
    attempts <- [t \in TaskIds |-> AttemptsOf(t)],
    decided  <- {t \in TaskIds : HasConsensus(t)}

\* The goroutines together implement the life of a task that TaskLifecycle
\* specifies.
ImplementsLifecycle == Lifecycle!Spec

\* A pending task is completed or given up: checkTimeouts counts its retries
\* whether or not ProcessTask gets anywhere.
PendingResolves ==
    \A t \in TaskIds : StatusOf(t) = "pending" ~> StatusOf(t) # "pending"

\* A task whose block has its confirmations does not stay confirming.
ConfirmingResolves ==
    \A t \in TaskIds :
        (\E r \in tasks : r.task = t /\ r.status = "confirming"
                          /\ r.content \in confirmed)
        ~> StatusOf(t) # "confirming"

(* What the repository says of this code and the code does not do.         *)

\* checkConfirmations is about "tasks in confirming status": a completed task
\* is not turned back to pending.
CompletedStays ==
    [][\A r \in tasks, s \in tasks' :
          (s.task = r.task /\ r.status = "completed") => s.status = "completed"]_vars

\* The task ID stands for the block number, the epoch, the key and the value: the
\* signatures stored together are all about the one content of the row.
OneContentPerConsensus ==
    \A r \in consensus : \A e \in r.sigs :
        e.content = r.content /\ e.epoch = r.epoch

============================================================================
