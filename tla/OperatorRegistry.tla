-------------------------- MODULE OperatorRegistry --------------------------
(***************************************************************************)
(* How one node follows the operators: the registry contract emits events, *)
(* two polling watchers (contracts/ethereum/chain_client.go) feed them to  *)
(* the event listener (operator/event/listener.go), which writes the       *)
(* operators table, and the epoch updator (operator/epoch/updator.go)      *)
(* decides in a transaction, once per epoch, who is active.                *)
(***************************************************************************)
EXTENDS EpochMath, Sequences, FiniteSetsExt

CONSTANTS
    Operators,     \* operator addresses
    MaxBlock,      \* bound: the last block mined
    MaxEvents,     \* bound: events emitted
    LastEvents,    \* bound: the last block with events
    MaxRegs,       \* bound: registrations of one operator
    MaxRestarts,   \* bound: restarts of the process
    MaxFailures,   \* bound: failed calls
    Faults         \* which calls fail: "tx" of the updator, "db" of the listener

ASSUME RegistryAssumption ==
    /\ MaxBlock \in Nat /\ MaxBlock >= GenesisBlock
    /\ MaxBlock < GenesisBlock + EpochPeriod * (EpochWord - 3)
    /\ MaxEvents \in Nat /\ LastEvents \in Nat /\ MaxRegs \in Nat
    /\ MaxRestarts \in Nat /\ MaxFailures \in Nat
    /\ Faults \subseteq {"tx", "db"}

VARIABLES
    block,      \* number of the latest mainnet block
    log,        \* events of the registry, those of block + 1 not yet mined
    cursor,     \* lastBlock of each watcher
    batch,      \* events a watcher has fetched and not yet sent
    handled,    \* events the listener has received since the last start
    lost,       \* those of them whose statement failed
    listener,   \* "running", or "dead" after a panic
    rows,       \* table operators
    last,       \* lastProcessedEpoch
    state,      \* currentEpochState.EpochNumber
    upd,        \* the epoch update under way
    clean,      \* history: rows the listener left alone since they were listed
    restarts, failures

vars == <<block, log, cursor, batch, handled, lost, listener, rows, last, state,
          upd, clean, restarts, failures>>

Kinds  == {"registered", "deregistered"}
Epochs == 0 .. EpochWord - 1
Event  == [kind : Kinds, op : Operators, block : Nat]
Row    == [known : BOOLEAN, active : Epochs, exit : Epochs, isActive : BOOLEAN]
NoRow  == [known |-> FALSE, active |-> 0, exit |-> 0, isActive |-> FALSE]

NoUpdate == [pc |-> "idle", epoch |-> 0, block |-> 0,
             list |-> [o \in Operators |-> NoRow], todo |-> {}, written |-> {}]

Effective(i) == GetEffectiveEpochByBlockNumber(log[i].block)

\* Events of operator o in mined blocks.
Mined(o) == {i \in DOMAIN log : log[i].op = o /\ log[i].block <= block}

----------------------------------------------------------------------------
(* The chain                                                               *)

LastKind(o) ==
    LET own == {i \in DOMAIN log : log[i].op = o}
    IN  IF own = {} THEN "deregistered" ELSE log[Max(own)].kind

Regs(o) == {i \in DOMAIN log : log[i].op = o /\ log[i].kind = "registered"}

\* The contract: an operator registers when it is not registered and leaves
\* when it is.  The event belongs to the block that is mined next.
Emit(kind, o) ==
    /\ Len(log) < MaxEvents /\ block < MaxBlock /\ block < LastEvents
    /\ LastKind(o) # kind
    /\ kind = "registered" => Cardinality(Regs(o)) < MaxRegs
    /\ log' = Append(log, [kind |-> kind, op |-> o, block |-> block + 1])
    /\ UNCHANGED <<block, cursor, batch, handled, lost, listener, rows, last,
                   state, upd, clean, restarts, failures>>

Mine ==
    /\ block < MaxBlock
    /\ block' = block + 1
    /\ UNCHANGED <<log, cursor, batch, handled, lost, listener, rows, last, state,
                   upd, clean, restarts, failures>>

----------------------------------------------------------------------------
(* The watchers and the listener                                           *)

Fetchable(k) == {i \in DOMAIN log : /\ log[i].kind = k
                                    /\ cursor[k] < log[i].block
                                    /\ log[i].block <= block}

FetchTo(k, found) ==
    /\ listener = "running"
    /\ batch[k] = {} /\ found # {}
    /\ batch' = [batch EXCEPT ![k] = found]
    /\ UNCHANGED <<block, log, cursor, handled, lost, listener, rows, last, state,
                   upd, clean, restarts, failures>>

\* Mutants of Fetch: one event at a time, though the next filter starts after
\* its block; or never the newest block.
FetchOne(k) == FetchTo(k, {i \in Fetchable(k) : \A j \in Fetchable(k) : i <= j})
FetchLags(k) == FetchTo(k, {i \in Fetchable(k) : log[i].block < block})

\* A watcher polls every second for the events after lastBlock.  A poll that
\* fails is repeated.
Fetch(k) == FetchTo(k, Fetchable(k))

Fail(kind) == kind \in Faults /\ failures < MaxFailures /\ failures' = failures + 1

\* A statement of the listener fails: the error is logged, and the event is not
\* handled again.
Lose(i) == Fail("db") /\ lost' = lost \cup {i} /\ UNCHANGED <<rows, clean, listener>>

\* The row of o is held by the open transaction: a statement of the listener
\* waits for it, or times out after 500 ms.
Locked(o) == o \in upd.written

SetRow(o, row) == rows' = [rows EXCEPT ![o] = row] /\ clean' = clean \ {o}

\* The statements of the listener.  A registration starts the row again,
\* inactive and without an exit epoch.
UpsertOperator(o, epoch) ==
    SetRow(o, [known |-> TRUE, active |-> epoch, exit |-> NeverEpoch,
               isActive |-> FALSE])
UpdateOperatorExitEpoch(o, epoch) == SetRow(o, [rows[o] EXCEPT !.exit = epoch])

\* Mutant of HandleRegistered: the row of a known operator is left alone.
InsertOnly(i) ==
    LET o == log[i].op IN
    /\ IF rows[o].known THEN UNCHANGED <<rows, clean>>
       ELSE UpsertOperator(o, Effective(i))
    /\ UNCHANGED <<listener, failures, lost>>

\* handleOperatorRegistered.
HandleRegistered(i) ==
    LET o == log[i].op IN
    \/ /\ ~Locked(o)
       /\ UpsertOperator(o, Effective(i))
       /\ UNCHANGED <<listener, failures, lost>>
    \/ Lose(i)

\* handleOperatorDeregistered: an operator without a row is a nil pointer whose
\* use ends the listener.
HandleDeregistered(i) ==
    LET o == log[i].op IN
    \/ /\ ~rows[o].known
       /\ listener' = "dead"
       /\ UNCHANGED <<rows, clean, failures, lost>>
    \/ /\ rows[o].known /\ ~Locked(o)
       /\ UpdateOperatorExitEpoch(o, Effective(i))
       /\ UNCHANGED <<listener, failures, lost>>
    \/ Lose(i)

\* The watcher sends the next event of its batch and the listener handles it.
\* Which watcher is served is the choice of select.
Receive(k) ==
    /\ listener = "running"
    /\ \E i \in batch[k] :
        /\ \A j \in batch[k] : i <= j
        /\ batch' = [batch EXCEPT ![k] = @ \ {i}]
        /\ cursor' = [cursor EXCEPT
                         ![k] = IF log[i].block > @ THEN log[i].block ELSE @]
        /\ handled' = handled \cup {i}
        /\ IF k = "registered" THEN HandleRegistered(i) ELSE HandleDeregistered(i)
    /\ UNCHANGED <<block, log, last, state, upd, restarts>>

----------------------------------------------------------------------------
(* The epoch updator                                                       *)

UpdatorOnly ==
    UNCHANGED <<block, log, cursor, batch, handled, lost, listener, restarts>>

CurrentEpoch == CalculateCurrentEpochNumber(block)

\* Mutant of Tick: epochs are taken one by one.
TickByOne ==
    /\ upd.pc = "idle" /\ CurrentEpoch = last + 1
    /\ upd' = [upd EXCEPT !.pc = "begin", !.epoch = CurrentEpoch]
    /\ UpdatorOnly /\ UNCHANGED <<rows, last, state, clean, failures>>

\* Every 5 seconds: is there a new epoch?
Tick ==
    /\ upd.pc = "idle" /\ CurrentEpoch > last
    /\ upd' = [upd EXCEPT !.pc = "begin", !.epoch = CurrentEpoch]
    /\ UpdatorOnly /\ UNCHANGED <<rows, last, state, clean, failures>>

\* The block number is read again, the transaction begins, and the epoch state
\* in memory is replaced (updateEpochState).
Begin ==
    /\ upd.pc = "begin"
    /\ upd' = [upd EXCEPT !.pc = "list", !.block = block]
    /\ state' = upd.epoch
    /\ UpdatorOnly /\ UNCHANGED <<rows, last, clean, failures>>

ListAllOperators == {o \in Operators : rows[o].known}

List ==
    /\ upd.pc = "list"
    /\ upd' = [upd EXCEPT !.pc = "write", !.list = rows, !.todo = ListAllOperators]
    /\ clean' = ListAllOperators
    /\ UpdatorOnly /\ UNCHANGED <<rows, last, state, failures>>

\* The statement for one of the listed operators, after three calls to the
\* chain about it: it takes the lock of the row.
Write(o) ==
    /\ upd.pc = "write" /\ o \in upd.todo
    /\ upd' = [upd EXCEPT !.todo = @ \ {o}, !.written = @ \cup {o}]
    /\ UpdatorOnly /\ UNCHANGED <<rows, last, state, clean, failures>>

\* Mutant of Commit: the update under way is not cleared.
CommitStays ==
    /\ upd.pc = "write" /\ upd.todo = {}
    /\ rows' = rows /\ last' = upd.epoch
    /\ upd' = [upd EXCEPT !.pc = "committed"]
    /\ UpdatorOnly /\ UNCHANGED <<state, clean, failures>>

\* The activity of a listed operator in the block read at the beginning.
Decision(o) == IsOperatorActive(upd.block, upd.list[o].active, upd.list[o].exit)

UpdateOperatorState(o) == [rows[o] EXCEPT !.isActive = Decision(o)]

Commit ==
    /\ upd.pc = "write" /\ upd.todo = {}
    /\ rows' = [o \in Operators |->
                  IF o \in upd.written THEN UpdateOperatorState(o) ELSE rows[o]]
    /\ last' = upd.epoch
    /\ upd' = NoUpdate
    /\ UpdatorOnly /\ UNCHANGED <<state, clean, failures>>

\* Mutant of Abort: the epoch counts as processed.
AbortCounts ==
    /\ upd.pc # "idle" /\ Fail("tx")
    /\ upd' = NoUpdate /\ last' = upd.epoch
    /\ UpdatorOnly /\ UNCHANGED <<rows, state, clean>>

\* A call of the update fails or its 30 seconds are over: the transaction is
\* rolled back, the epoch state in memory stays.
Abort ==
    /\ upd.pc # "idle" /\ Fail("tx")
    /\ upd' = NoUpdate
    /\ UpdatorOnly /\ UNCHANGED <<rows, last, state, clean>>

----------------------------------------------------------------------------
(* The process                                                             *)

Fresh ==
    /\ cursor = [k \in Kinds |-> GenesisBlock - 1]
    /\ batch = [k \in Kinds |-> {}]
    /\ handled = {} /\ lost = {} /\ listener = "running"
    /\ last = 0 /\ state = 0 /\ upd = NoUpdate /\ clean = {}

Init ==
    /\ Fresh
    /\ block = GenesisBlock
    /\ log = <<>>
    /\ rows = [o \in Operators |-> NoRow]
    /\ restarts = 0 /\ failures = 0

\* The process ends and starts again: the table is what remains, and the
\* watchers begin at the genesis block.
Restart ==
    /\ restarts < MaxRestarts
    /\ restarts' = restarts + 1
    /\ cursor' = [k \in Kinds |-> GenesisBlock - 1]
    /\ batch' = [k \in Kinds |-> {}]
    /\ handled' = {} /\ lost' = {} /\ listener' = "running"
    /\ last' = 0 /\ state' = 0 /\ upd' = NoUpdate /\ clean' = {}
    /\ UNCHANGED <<block, log, rows, failures>>

Chain   == Mine \/ \E k \in Kinds, o \in Operators : Emit(k, o)
Updator == Tick \/ Begin \/ List \/ (\E o \in Operators : Write(o)) \/ Commit

Next ==
    \/ Chain
    \/ \E k \in Kinds : Fetch(k) \/ Receive(k)
    \/ Updator \/ Abort \/ Restart

Spec == Init /\ [][Next]_vars

\* Watchers poll and the updator ticks for ever, the listener takes what it is
\* sent, and calls end; nothing makes the chain grow.
LiveSpec ==
    /\ Spec
    /\ WF_vars(Updator)
    /\ \A k \in Kinds : WF_vars(Fetch(k)) /\ WF_vars(Receive(k))

----------------------------------------------------------------------------
(* Properties                                                              *)

Update == [pc : {"idle", "begin", "list", "write"}, epoch : Epochs, block : Nat,
           list : [Operators -> Row], todo : SUBSET Operators,
           written : SUBSET Operators]

\* Types of the table, the watchers and the update; epochs fit their word.
TypeOK ==
    /\ block \in Nat
    /\ log \in Seq(Event)
    /\ cursor \in [Kinds -> Nat]
    /\ batch \in [Kinds -> SUBSET Nat]
    /\ handled \in SUBSET Nat
    /\ lost \in SUBSET Nat
    /\ listener \in {"running", "dead"}
    /\ rows \in [Operators -> Row]
    /\ last \in Epochs
    /\ state \in Epochs
    /\ upd \in Update
    /\ clean \in SUBSET Operators
    /\ restarts \in Nat
    /\ failures \in Nat

\* No event falls between two polls: whatever lies at or before the cursor of a
\* watcher has been received since the start, or is about to be sent, also when
\* a block holds several events and when the process has been restarted.
NoEventSkipped ==
    \A i \in DOMAIN log :
        log[i].block <= cursor[log[i].kind] =>
            i \in handled \cup batch[log[i].kind]

\* Once the registrations of an operator have been received, its row has the
\* activation epoch of the last of them unless the statement for that one
\* failed, whatever the updator, the deregistrations, earlier failures and
\* restarts did in between.
RegistrationsTracked ==
    \A o \in Operators :
        LET regs == {i \in Mined(o) : log[i].kind = "registered"} IN
        regs # {} /\ regs \subseteq handled /\ Max(regs) \notin lost =>
            rows[o].known /\ rows[o].active = Effective(Max(regs))

\* What the chain says of operator o in an epoch: the last of its events that
\* is effective is a registration.
Standing(o, epoch) ==
    LET past == {i \in Mined(o) : Effective(i) <= epoch}
    IN  past # {} /\ log[Max(past)].kind = "registered"

\* Every event of operator o has been received and written since the start.
Written(o) == Mined(o) # {} /\ Mined(o) \subseteq handled \ lost

\* The row has an exit epoch exactly if the operator has left.
ExitRecorded(o) ==
    rows[o].exit # NeverEpoch <=> log[Max(Mined(o))].kind = "deregistered"

\* When the update of the current epoch is done, an operator whose events were
\* all written before the table was listed is active exactly if the chain says
\* so - though epoch, block number, list and commit are read and written at
\* different times.  It holds of an operator that has registered once and whose
\* exit is recorded: a second registration takes the place of the first before
\* it is effective, and after a restart the old registration may be handled again
\* after the deregistration, which clears the exit epoch.
StatusFollowsLog ==
    upd.pc = "idle" /\ last = CurrentEpoch =>
        \A o \in clean :
            Cardinality(Regs(o)) = 1 /\ Written(o) /\ ExitRecorded(o) =>
                rows[o].isActive = Standing(o, CurrentEpoch)

\* The updator reads a block number once per epoch, anywhere in it: the answer
\* IsOperatorActive gives for a row would be the same in every other block of
\* the epoch, unless the row has an exit epoch before its activation.
StableInEpoch ==
    \A o \in Operators :
        LET r == rows[o] IN
        r.known /\ r.active <= r.exit =>
            \A b \in GenesisBlock .. MaxBlock :
                CalculateCurrentEpochNumber(b) = CurrentEpoch =>
                    (IsOperatorActive(b, r.active, r.exit)
                     <=> IsOperatorActive(block, r.active, r.exit))

\* Every event is received in the end, unless the listener is dead.
EventsHandled ==
    \A i \in 1 .. MaxEvents :
        (i \in DOMAIN log /\ log[i].block <= block) ~>
            (i \in handled \/ listener = "dead")

\* Every epoch the chain enters is processed, or a later one is, though updates
\* fail and epochs pass while one is under way.
EpochsProcessed ==
    \A e \in 1 .. CalculateCurrentEpochNumber(MaxBlock) :
        (CurrentEpoch = e) ~> (last >= e)

============================================================================
