# Spotted Network: a TLA+ model of an operator node

The Spotted Network lets users ask for the value of a state variable of a
contract (a *task*: target address, chain, block, key) and has the registered
operators attest to it.  Every operator runs the same node.  A node that is
asked, or that hears of a task from a peer, reads the value from the chain,
signs it and publishes the signature; when the signatures it has collected
weigh as much as the threshold of the epoch, it stores them as a *consensus
response*.

## Inventory

| Part | State | Operations | Talks to |
|---|---|---|---|
| Task processor (`pkg/operator/task`) | `taskResponseTrack` (task -> signing key -> response, weight), the tables `tasks` and `consensus_responses` | `handleResponses`/`processResponse` (up to 20 goroutines), `checkTimeouts` (30 s), `checkConfirmations` (10 s), `periodicCleanup` (1 h), `ProcessTask`, `checkConsensus` | pub/sub topic, chain clients, epoch updator, operators table, blacklist |
| API server (`pkg/operator/api`) | none of its own | `SendRequest` (validates, searches for the block of a timestamp, creates the task), two queries | chain clients, both tables, `ProcessTask` |
| Epoch updator (`pkg/operator/epoch`) | epoch state in memory, `lastProcessedEpoch` | tick every 5 s: epoch state in memory, then all operators in one transaction | mainnet client, operators table |
| Event listener (`pkg/operator/event`) | operators table | registration and deregistration, on two channels, replayed from genesis at each start | mainnet client |
| Operators table (`pkg/repos/operators`) | rows, and a 10 s cache in front of each getter | get by address, P2P key, signing key; upsert, update state, update exit epoch | database, Redis |
| Gater and blacklist (`pkg/operator/gater`, `pkg/repos/blacklist`) | `violation_count`, a 24 h cache of `IsBlocked` | increment, the five intercepts | libp2p |
| P2P node, health checker (`pkg/operator/node`, `health`) | connections, round-trip times | bootstrap, discovery, ping, disconnect | libp2p |
| Chain clients (`pkg/common/contracts/ethereum`) | cursor of each event watch | calls, polling of logs | RPC |
| Utilities, signer, cache (`pkg/common`, `internal`) | none, keys, Redis | epoch arithmetic, timestamp search, signatures, read-through cache | |
| Start-up, CLI, configuration (`cmd/operator`, `pkg/config`) | the configuration file; the fields of `App` | `init` (asks and writes the file), `start`: `App.Run` in one goroutine, signal and `App.Shutdown` in another | all parts, operating system |

What is hard about it:

* five kinds of goroutine share the response maps and two tables, and
  `ProcessTask` and `checkConsensus` run in all of them;
* the tickers act on rows they listed earlier, across calls to the chain;
* the maps are read outside their mutex and dropped while they are read;
* database, chain and pub/sub calls fail one by one and most failures are only
  logged; a panic is recovered in some goroutines and fatal in others;
* a restart loses the responses and the epoch but not the rows;
* the epoch in memory, the operators table and the chain disagree for a while;
* messages come through other peers, repeatedly and in any order;
* cached answers outlive the rows they were read from, and the process;
* the head of a chain is read several times in one request and moves in between;
* a signal runs `Shutdown` while `Run` is still making the parts, without a lock.

What makes each part correct: a completed task has its consensus, which is
stored once, with signatures that carry the threshold; the node signs only what
it read from the chain; tasks do not stay pending or confirming; listed rows are
still there when they are visited; no event is skipped and the operators table
agrees with the chain once an update is done; a cached answer that the table no
longer gives is on its way out; the timestamp search returns the nearest block, a
task is not pending before its block is confirmed, and every request is answered;
a blocked peer is refused and a bootstrap peer is found again; what `init` writes
`start` accepts, every configured chain has a client, and a signal ends the
process with the pool, Redis, the host and the clients closed.
PROJECT.json lists the hazards line by line.

## Modules

| Module | What it is |
|---|---|
| `TaskProcessor` | the task processor and `SendRequest` of one node, with the two tables and the steps of its surroundings |
| `TaskLifecycle` | what a node promises about its tasks, without goroutines: the abstract specification that `TaskProcessor` implements |
| `MCTaskProcessor` | constants of the small instances |
| `TaskProcessorProofs` | type correctness, and the lemmas about moves of a goroutine |
| `TaskProcessorSafety` | three safety invariants, each with its strengthening, and the refinement of `TaskLifecycle` |
| `TaskProcessorQuorum` | who signed a consensus: every operator that was counted, and enough of them; that no quorum is forgotten; that every stored signature was given for what it is stored with |
| `EpochMath` | the epoch arithmetic of `utils.go` and `IsOperatorActive`, with the widths of `uint64` and `uint32` as parameters |
| `OperatorRegistry` | event watches, event listener, operators table and epoch updator of one node (extends `EpochMath`) |
| `MCOperatorRegistry`, `OperatorRegistryProofs` | its small instances, its theorems and those of `EpochMath` |
| `BlockSearch` | `TimestampToBlockNumber` |
| `SendRequest` | one request to the API server from its body to its answer (extends `BlockSearch`) |
| `MCSendRequest`, `SendRequestProofs` | its small instances and its theorems |
| `CachedQueries` | the cached getters of the operators table, their readers, and the writes and invalidations of listener and updator |
| `MCCachedQueries`, `CachedQueriesProofs` | its small instances and its theorems |
| `PeerGate`, `PeerGateProofs` | connection gater, blacklist and its cache, the dialling loops and the health checker |
| `Configuration` | the configuration file: what `init` writes and what `LoadConfig` accepts |
| `Startup` | the commands `init` and `start`, `App.Run` and `App.Shutdown` (extends `Configuration`) |
| `MCStartup`, `StartupProofs` | its small instances and its theorems |

### How `TaskProcessor` corresponds to the code

The tables are sets of rows.  `track` holds what the two maps of
`TaskResponseTrack` hold, one record per task and signing key.  A *content* is
everything a signature covers (target, chain, block, key, value); a *slot* is
the same without the value, which is what `unique_consensus_request` is about.
`Truth` are the contents whose value is on the chain.

A goroutine is a process with a label `pc[p]`, a job, and in `ref[p]` the inner
maps `checkConsensus` holds.  Go maps are references: as long as the outer map
holds an inner map (`live`), stores by others show in it; when cleanup drops it
the holder keeps the last contents (`Detach`).  `Collect` takes one signing key
after the other: the keys are listed at its first step (`keys`), and each response is
read from the map as it is then (`sigs`).  `counted` remembers whose
weights were added up; it is stored with the consensus row for the properties
only.

Steps end where the code gives up the mutex or returns from the database or the
chain.  A few neighbouring steps are one action because nothing that happens
between them can show: `alreadyProcessed` with the query for a consensus (which
never goes away), the two tests for an own response that follow one another, a
chain read of a fixed block with the step after it, the store of the own
response with its publication (nobody but the node's own loopback reads the
topic), `GetTaskByID` with the insert whose primary key repeats the test, the list of
the signing keys with the first of the queries about them (a key that is stored in
between is one that the list would miss or not, as if it had come later or sooner).

Surroundings: `EpochState` and `OperatorsCommit` are the two effects of an epoch
update; `opEpoch` says of each row of the operators table which update wrote it last,
0 for a row as the listener writes it, without weight and not active;
`UpsertOperator` is the listener's statement for a new registration, or for one of
those a restart replays, at any time and for one row (`Joining` bounds whose);
`ChainEpoch` and `ChainConfirms` the chain; `Crash` a death of the process.
`VerifyTaskResponse` accepts a signature whose signer and content are those of
the message.  `Faults` selects the failures a run allows.  `Messages` are the responses peers
may deliver, any number of times and in any order, `Requests` what users may ask.

### How `OperatorRegistry` corresponds to the code

`log` is the chain's list of registrations and deregistrations, each with its
operator and block.  Each of the two watchers has a `cursor` (the next poll
starts behind it) and the `batch` it is sending; `Fetch` is a poll, `Receive`
the hand-over on the channel together with the listener's handler, which cannot
be interrupted by another event.  `rows` is the operators table with the three
columns that decide about activity; weights and keys are left out, since nothing
here depends on them, and so are the cached getters, which `CachedQueries` has.  `upd` is the epoch update
in progress: the epoch of the tick, the block number read a second time, the list
the transaction read, the rows it has still to write and those it has written.
Rows it has written are locked: a statement of the listener waits for the commit
or fails (`Lose`), and its event does not come again.  `Abort` is any failing
call; `last` and the epoch in memory `state` differ when an update fails half-way.
A deregistration that finds no row reads a nil pointer and ends the listener.
`Restart` keeps the table and starts both watchers at genesis again.

`handled`, `lost` and `clean` are history: the events received since the start,
those whose statement failed, and the operators whose row has not been written
by the listener since the last update listed it.

### How `SendRequest` and `BlockSearch` correspond to the code

A behaviour is one request: a route and a body, or query, that is right or has one
thing wrong.  Each label of `pc` is a place between two calls of the handler, and
each call may fail.  `heads` are the latest blocks of the chains; `Mine` moves the
one asked about, and for chain 1 also the one that is asked in its place, between
any two calls.  What the tables hold when they are looked at is a choice, since
other requests and the task processor write them; `TaskProcessor` follows those
races.  A panic is recovered by the router (`"recovered"`).

The chain is a function from block numbers to times (`times`, one of `Chains`).
`Jump` is the loop that moves back by the average block time, `Forward` and
`Backward` the two walks; a failing call ends the jump with an error and a walk with
the block it has reached.  `cut` is history: what cut the search short, a failing
call of a walk or a jump past genesis.

### How `CachedQueries` corresponds to the code

A question is a getter, its argument and the spelling of the argument, because the
text is the cache key.  `cache` has at most one answer to each question; "no row"
is an answer and cached like the others.  A reader that finds nothing reads the
table (`Miss`) and stores what it read (`Fill`), whatever has been written in
between.  A write of the listener, or the commit of the updator, is followed by its
invalidations (`pending`), one by one and in any order, each of which may fail.
The keys are those the code passes: of the event for a registration, of the row
the cache gave for a deregistration, of the row as it was listed for an update.
`Restart` keeps rows and cached answers and forgets the rest.

`excused` and `old` are history: the answers that no writer can be expected to have
removed, for one of four reasons that `Explained` names, and the rows read before
the last write.

### How `PeerGate` corresponds to the code

A dialler (`bootstrap`, `discovery`, or `remote` for peers that dial this node)
has one attempt at a time in `try`: the Intercept function it is in, the question
`checkPeerPermission` asks, and what it has read for the cache.  A question is
answered from the cache (`Hit`) or read from the table (`Read`) and then stored
(`Fill`), two steps between which anything may happen.  `IncrementViolationCount`
and `Invalidate` are the write and the invalidation that follows it; a block does not
run out, since the task processor passes no `expires_at` (`response.go:215`).  The
cached row of an operator expires at any time (`Expire`); which writes remove it is
the subject of `CachedQueries`.  The health checker has two rounds of pings,
the triggered one and that of the ticker, which share a context that the deferred
`Stop` cancels.  `late` and `stale` are history: an attempt whose present
`checkPeerPermission` began after the block and its invalidation and has met no stale
answer, and blocked peers for which the cache holds a "no".

### How `Startup` and `Configuration` correspond to the code

A file has the fields `validate` and the constructors look at; an address, a URL or
a peer is there, or parses, or does not.  `init` is one question after the other
(`prompt`), and the write of the file may fail before or after it is truncated.  A URL
that is a variable is an empty one when the file is loaded and expanded without it (`rpc`).
`start` checks its flags and loads the file they name, then `Run` loads the default
file and makes one part after the other: every step may fail and leaves open what
it had opened, a few failures end the process at once (`Fatal`).  `fields` are the
fields of `App` that are assigned, `open` and `clients` what is not closed,
`running` the goroutines.  The main goroutine waits for an error or a signal and
then closes the pool, Redis, the node and the chains in this order, each only when
it finds the field assigned.  A field of interface type that `Run` is assigning may
be read half assigned (`Torn`), which ends in a panic.  Closing the pool waits for
the connections in use (`busy`).

## Runs

| Run | Instance | Shows |
|---|---|---|
| `lifecycle` | 1 task, 2 operators, 1 worker, 1 handler, 2 retries, every call may fail, the process may die anywhere | types, a completed task has its consensus, listed rows exist when visited, the node implements `TaskLifecycle` |
| `responses` | 3 operators, 2 workers, one peer signs a wrong value and delivers the response of another, peers register again | counted operators have signed, signers hold the threshold, stored signatures were given for the task, only true contents are signed, no quorum is forgotten |
| `progress` | 1 task, 2 retries, 2 epochs, broadcasts may fail, fairness | pending and confirmed tasks are resolved |
| `registry` | 1 operator that registers, leaves and registers again, epochs of 2 blocks with 1 of grace, 1 restart, 1 failing call, fairness | types; once an update is done the table says what the chain says; a decision does not depend on the block within the epoch; no event is skipped, the last registration is in the row, every event is received, every epoch processed |
| `requests` | all chains of 6 blocks with gaps of 0, 3 and 4, average 3; 46 requests, right and wrong; every call may fail; fairness | the search stays on the chain and returns the nearest block, a task is about a block of its chain and pending only when that is confirmed, every request is answered |
| `cached_queries` | 1 operator with two pairs of keys, 1 reader who asks about a signer and about a peer, 3 events, 1 update, 1 failing call, 1 restart, fairness | types; a stale answer about an address or signing key is explained; the listener panics only without a row; when the table rests, the cache agrees with it for good |
| `peer_gate` | 1 peer, two diallers, limit 2, 1 failing call, fairness | an attempt whose last check began after the block does not connect, and a blocked peer is refused for good in the end |
| `reconnect` | 2 bootstrap peers, 2 retries, 1 change, 1 failing call, fairness | types; a bootstrap peer that may be connected is connected again and again |
| `startup` | all answers to `init` with up to 2 peers, 4 files written by hand, every failure of a constructor, a signal at any moment, fairness | types; what `init` writes is accepted unless a peer or a URL is wrong; while the API answers every chain has a client; Shutdown closes what was open; a signal ends the process |
| `reopened` | as `lifecycle`, no failures | **violated**: a completed task is turned back to pending |
| `two_blocks` | one task ID for two contents | **violated**: signatures about different contents are stored as one consensus |
| `stale_peers` | as `cached_queries`, asking about a peer | **violated**: the cached row of a peer is not removed by the statements that are to invalidate it |

Why the bounds are enough.  The races on one task need two workers and two
stores by different operators; a third operator is needed so that a quorum can
form without the node itself.  One task suffices for the task properties but
for `TimeoutRowsExist`, whose case with several rows in a batch is covered by the
theorem `RowsCorrect`.  Two epochs are the least with a change between a job and
its check.  Two retries reach the limit and a step before it.  In the
registry three events allow a second registration after a deregistration, and the
blocks left after the last event (`LastEvents`) are enough for it to take effect;
operators share nothing but the list of an update, so one is enough; the widths are
just large enough that nothing wraps, which `EpochAssumption` states and TLC
evaluates.  In `requests` gaps of 0, 3 and 4 against an average of 3 give chains
faster and slower than the average, so that jumps overshoot and fall short; the
timestamps lie before, on, between and after the blocks.  In `cached_queries` one
key of each kind is asked about, because answers to different questions do not meet,
and two pairs of keys let the operator gain and lose it.  Violation counts are only
written in `TaskProcessor`, so its runs keep them at their bound; `PeerGate` follows them.  In `peer_gate` one peer is enough,
since peers share nothing there but the loops, and that is what `reconnect` has two
for.  In `startup` two bootstrap peers reach the limit of the dialogue (`PeerLimit`,
5 in the code).  Where an instance is small, the theorems below hold for all.

Some premises the runs rely on.  `NoQuorumForgotten` is checked where the node's own
weight stays below the threshold and inserts and broadcasts do not fail; the theorem
`NothingForgotten` makes these premises its hypotheses, and says below why each is needed.
`StatusFollowsLog` speaks of operators with one registration whose events have all
been written (`Written`) and whose exit the row still has (`ExitRecorded`), and not of
rows the listener has written since the update listed them (`clean`), for the reasons
under "Divergences".  `Nearest` leaves out a search that a failing call, or a jump past
genesis on a slow chain, has cut short, `RowOnChain` leaves out chain 1.

### Fairness

Weak fairness of the steps of a goroutine: calls to database and chain have
timeouts, so a goroutine that can take a step takes one.  Weak fairness of tickers
(`CheckTimeouts`, `CheckConfirmations`, `Updator`, `Fetch`, `Bootstrapping`): they run in
loops that only the context ends.  `Receive` of each watcher: the listener loops
over both channels, and a Go `select` does not starve a ready case.  `Checking`: the
triggered check runs in start-up itself.  `Invalidate` in `PeerGate` follows the write
in the same call, and cached answers have a time to live (`Expire`, in both modules
with a cache).  `Handler`: the router ends a request after 30 seconds, so every call
returns or fails.  `MainSteps`: the main goroutine does nothing but wait and close.
`Release`: every use of a connection ends, by the timeouts of the statements and the
30 seconds of an epoch update.  Nothing makes the chain grow, users ask, peers send,
connect, answer or misbehave, and nothing makes an operation fail or not fail.

## Proofs

All theorems hold for every value of the constants that satisfies the named
assumptions (`ConstantsAssumption`, `ProcsAssumption`, `EpochAssumption`,
`RegistryAssumption`, `SearchAssumption`, `RequestAssumption`, `CachedAssumption`,
`GateAssumption`, `StartupAssumption`), of which the modules' comments say what in the
code justifies them.

* `TaskProcessorProofs!TypeCorrect`.  `TypeOK` is not inductive: a step that reads the
  fields of `job[p]` needs to know that there is a job.  `JobHeld` says that every
  goroutine not at rest has one.
* `TaskProcessorSafety!CompletedCorrect` (`CompletedHasConsensus`).  `CompletedInv` adds that
  whoever is at the label before the update has seen the consensus stored;
  consensus rows are never removed.
* `TruthCorrect` (`SignsOnlyTruth`).  `TruthInv` adds that a goroutine between the chain
  read and the store holds a true content, and that a message under the node's own
  name repeats what it published.
* `RowsCorrect` (`TimeoutRowsExist`).  `RowsInv` adds that task IDs are unique in the
  table and that the row being deleted is not in the rest of the batch; only the
  timeout ticker deletes rows, one at a time, after taking them off its list.
* `LifecycleRefined` (`ImplementsLifecycle`): initial states map to initial states, and
  every step of `TaskProcessor` maps to a step of `TaskLifecycle` for one task or to a
  stutter.  The mapping reads a task's status and attempts from its row, so the proof
  has one lemma per statement (insert, update of the status, of the attempts, delete).
  Only the delete needs more than `RowsInv` and `CompletedInv`: `DeletesExhausted` says that
  the row about to be deleted still is in the table with its attempts spent, though
  the ticker read it some steps ago.
* `TaskProcessorQuorum!CoverCorrect` (`SignersCoverCounted`).  `CoverInv` adds that whoever was
  counted is still in the maps the goroutine holds, among the keys it has still to take,
  or among the signatures taken: stores replace but never remove an entry, and maps
  that cleanup drops keep their contents.
* `QuorumCorrect` (`QuorumSigned`), under the hypothesis `Steady`: weights and threshold are
  the same in every epoch of the chain, no larger in the table before its first
  update, and responses name an epoch of the chain (the constants of the run satisfy
  it; without it weights of one epoch meet the threshold of another, see
  "Divergences").  A sum of weights is the size of a set of units (operator and number
  below its weight), so that sums compare as sets do; that a fold is such a size is
  shown by a smallest counterexample among the subsets of a finite set.  `TallyInv` then
  says that the weights in the maps belong to different operators and are at most
  those of the table, and `QuorumInv` that those counted on the way to an insert, and for
  every stored row, have the threshold weight; by `CoverInv` they have signed.
* `NothingForgotten` (`NoQuorumForgotten`), under `Steady` and `Dependable`: calls to the
  database and broadcasts do not fail, the same operators are registered in every epoch,
  and this node's weight alone is below the threshold.  Crashes, failing chain reads,
  handlers and any messages, conflicting ones too, are allowed.  Each hypothesis is needed.  A failed
  insert or broadcast leaves a quorum lying until the next response.  An operator
  that is gone from the table makes every check of its tasks fail.  And where the node
  alone reaches the threshold, its own response can be stored after a restart, while its row
  still has its weight and the first epoch update is to come,
  when the check meets an empty epoch state and panics, which ends the request and not the
  process; after the first update the quorum is there and nobody looks at it.  `KnownInv` says that stored
  responses are of registered operators, and before the first update this node's only.
  `WatchInv` gives a witness instead of an order on the stores: where a quorum lies in the
  maps and the task and its slot are without consensus, some goroutine guards it, that
  is, it is about to load the maps, holds them (the maps themselves and not a copy that
  cleanup left it with), or is at the insert.  Whoever stores becomes the guard of what it completes, and a
  guard gives up only on a sum below the threshold, which the maps themselves do not give
  while they hold a quorum.
* `GivenCorrect` (`SignaturesGiven`).  `GivenInv` follows each response from the message, or from
  the chain read, through jobs, maps, maps kept after a cleanup and the signatures
  taken so far into the stored row, and says that the maps a check holds are those of its
  own task.  It does not say that the contents stored together are one: nothing in the
  code compares a task ID with the content it comes with, and `two_blocks` shows two
  contents without anybody lying.
* `EffectiveAhead` (an event takes effect more than a grace period and at most an epoch
  and a grace period after its block) and `StatusOfEpoch` (`IsOperatorActive` has one answer
  per epoch), both in `OperatorRegistryProofs`, from the arithmetic of division.
* `OperatorRegistryProofs!SkipCorrect` (`NoEventSkipped`).  `WatchInv` adds that the log is
  ordered by block, that received events lie at or before the cursor of their
  watcher and before its batch, and that a batch holds every event that is not later
  than one of its own and has not been received.
* `RegistrationsCorrect` (`RegistrationsTracked`), from `WatchInv` and `RowsFollow`, which
  ties a row's activation epoch to the last registration received.
* `StableCorrect` (`StableInEpoch`), from `StatusOfEpoch` and the bound on the block number;
  and `TypeCorrect` of the registry.
* `StatusCorrect` (`StatusFollowsLog`).  `DecideInv`: the epoch processed last lies behind the
  one under way, which lies behind the chain (`EpochsOrdered`); while the statements are
  sent, rows the listener left alone are as they were listed and have their statement
  sent or to come (`ListCurrent`); so when the epoch processed last is that of the chain,
  a row holds what was decided in some block of it (`Decided`).  `HistoryInv`: an operator's
  events alternate, beginning with a registration (`LogAlternates`), and an exit epoch is
  that of one of its deregistrations (`ExitsFollow`).  With `RowsFollow` and one registration
  the row holds the effective epochs of at most two events, which are in order because
  `GetEffectiveEpochByBlockNumber` is monotone; `IsOperatorActive` and the log then agree in
  every epoch.
* `SendRequestProofs`: `RequestTypes` and `RowCorrect` (`RowOnChain`) from `RequestInv`, which
  adds that what has been read of a head is not ahead of it (`Progressed`);
  `NearestCorrect` (`Nearest`) from `SearchInv`, which says that between the passes the block in
  hand is the one the number names, but after a jump past genesis, and that the
  forward walk leaves a block before the target only when it is the last.  It uses of the chain only that times do not decrease.
* `CachedQueriesProofs`: `CachedTypes`; `SignersCorrect` (`SignersFresh`) from `CacheInv`, which
  adds that rows are never removed, that the listener does one thing at a time
  (`Sequential`), and that an answer on its way to the cache is the table's or known to
  be old (`FillsFresh`); `PanicCorrect` (`PanicsOnlyWithoutRow`), from the same and
  `NilExplained`: a nil the listener holds is the table's or an excused one.
* `PeerGateProofs`: `GateTypes`; `BlockedCorrect` (`BlockedNotAdmitted`) from `GateInv`, which adds
  that an attempt under way has a peer and something to store (`Underway`), that a
  cached "no" about a blocked peer is in `stale` or its invalidation is pending
  (`NoExplained`), and that a check that began after the block is still at its first
  question (`LateWaits`).  Every Intercept function makes a check of its own, so the last
  one decides, also for an attempt during which the block began.
* `StartupProofs`: `ClientsCorrect` (`ClientForEveryChain`) and `StopCorrect` (`CleanStop`) from
  `StartInv`: which fields and clients there are at each step of `Run`, what has been
  closed or missed at each step of `Shutdown`, and that a signal taken after `Run` was
  through finds every field.  `TypeCorrect` (`TypeOK`) from the same and `TypeInv`, which
  bounds the answers given to `init` and the files it can have written;
  `StartableCorrect` (`InitIsStartable`) by computing the file of any answers.

Only model-checked: the properties that something eventually happens
(`PendingResolves`, `ConfirmingResolves`, `EventsHandled`, `EpochsProcessed`, `Answered`, `FreshInTheEnd`,
`RefusedInTheEnd`, `BootstrapReconnects`, `SignalStops`), since liveness under fairness is out of the
prover's reach.  Every invariant and action property of a passing run has its theorem.
What the prover cannot do here is induction with the library's
operator-valued theorems; sums over finite sets are reached through a smallest
counterexample, and nothing in the modules with theorems is `RECURSIVE`.

## Divergences

Three are runs (`reopened`, `two_blocks`, `stale_peers`).  Others were met while
modelling; they follow from the modules as they stand and are recorded here:

* `consensus.go:30`: the inner maps are iterated over outside the mutex while
  `storeResponseAndWeight` writes to them, which the Go runtime may answer by
  ending the process.
* `response.go:98`: the forwarder of a message is taken for its author, so an honest
  operator that relays a genuine response is charged; so is one whose response
  arrives while the table lags behind the epoch in memory.
* `helpers.go:44`: the epoch is not part of the task ID either; responses of two
  epochs can be stored together.
* `listener.go:187`: after a restart a deregistration may be replayed before its
  registration, whose upsert removes the exit epoch: the operator is active for
  good.  A second registration likewise replaces the exit epoch of the first stay.
* `listener.go:214`: a deregistration received before its registration reads through
  a nil pointer.
* `listener.go:124`: an event whose statement fails is logged and lost until the next
  restart.
* `helpers.go:43` (epoch): for an operator with an exit epoch before its activation the
  first block of the activation counts as inactive, others do not.
* `updator.go:236`: `GetTotalWeight` and `GetThresholdWeight` ask for the current epoch
  themselves; weights of two epochs may be kept for one until the next update.
* `utils.go:179`: on a chain slower than the average the jump can go past genesis; the
  search then walks from block 0 with the old block in hand and returns block 0.
  `utils.go:202`: an error in a walk is swallowed and the block reached so far is
  returned.  `utils.go:145`: a timestamp beyond the head is given the head, so operators
  that are asked a moment apart answer about different blocks.  The average is a
  table in `utils.go`; that of the configuration is not used.
* `handlers.go:162`: chain 1 is validated on its own client and served by that of
  11155111, where the block may not exist.  `config.go:129` asks for the registry on
  chain 1, and nothing asks for it on 11155111, where it is used.
* `handlers.go:322` and `:189`: a key is validated in base 0 and converted in base 10;
  `0x...` passes validation and panics, which the router answers with 500.
* The query for a consensus by request compares the address as it is spelled, and
  tasks are stored as they were asked for: two spellings are two requests.
* `updator.go:213`, `listener.go:191`: the cached answers that are removed are those of
  the keys listed or registered, not of the keys an operator gains or had before;
  an invalidation dies with the process between commit and `PostExec`; a failed one
  may leave "no row" for the listener to read through (`listener.go:214`).
* `query.sql.go:375` (operators): the concurrent invalidations assign the `err` that the
  statement returns, so a row that was written may be reported as an error.
* `app.go:424`: the deferred `Stop` of the health checker cancels the context of its
  ticker when start-up returns, so no later round is made, although
  `src/README.md:211` speaks of "Regular connection health checks".
* `app.go:148`: `Shutdown` reads the fields `Run` assigns; what is made later stays
  open, and an interface that is half assigned ends in a panic.  A `Run` that fails
  leaves the pool, Redis, the host and, without a mainnet, the clients open; the
  process then ends.  `app.go:409`: a port that is taken is only logged.
* `app.go:167`: `Run` loads `config/operator.yaml` whatever file `start` was given
  (`start.go:68`); `init` ignores its `--config` (`init.go:28`, `:279`), writes names of pool
  settings that `LoadConfig` does not read (`init.go:312`, `config.go:48`), and what it
  writes is expanded like a shell text when it is loaded (`config.go:108`): a URL that
  names a variable which is not set is then refused.
  `start.go:94`: several `REDIS_...` names that are set are not those the cache reads.
* `gater/blacklist.go:33`: the gater's own `IncrementViolationCount` and `UnblockNode`
  pass no key to invalidate; nothing calls them.

## Not modelled

Cryptography and encodings, beyond what a property tells apart (base 0 and base 10,
two spellings of a key); `generateTaskID` (task IDs are given by `Requests`, and
`two_blocks` gives two contents the same); the DHT, its routing-table refresh and
pub/sub routing; the internals of Redis and of the cache library;
`internal/database/cache/cache.go`, which only its tests use; generated code
(bindings, protobuf); the key generation tool; the mock contracts.  `Stop` methods
of the task processor, listener and updator: nothing calls them, the process ends.
`TaskProcessor` keeps one signing key per operator, so `consensus.go:145`, where a key
that has changed since a response makes the check fail, does not happen there.

Met and left without a property: twenty slow workers hold the semaphore and messages
are dropped (`response.go:55`), which to the model is a message that never comes; a
watcher blocked on its channel does not see `quit` (`chain_client.go:247`), but nobody
stops it before the process ends; below the genesis block the epoch wraps
(`utils.go:278`), a chain the node is not started on; permission is asked when a
connection is made and never again (`gater.go:67`), and nothing promises otherwise.

## Plan

1. Signing keys that change between response and check, by giving the readers of
   `CachedQueries` the steps of a consensus check.
2. The mock state manager contract (`mock/src/MockStateManager.sol`): history per key and
   its lookups by block and timestamp, as operators against a reference definition.
