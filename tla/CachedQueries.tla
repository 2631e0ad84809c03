--------------------------- MODULE CachedQueries ---------------------------
(***************************************************************************)
(* The cached getters of the operators table (repos/operators) and the     *)
(* statements that invalidate them.  Goroutines of the task processor and  *)
(* of the gater read through the cache; the event listener and the epoch   *)
(* updator write rows and then remove the cached answers they name.  The   *)
(* cache (dcache on Redis) outlives the process.                           *)
(*                                                                         *)
(* A cache key is the text of the argument.  Rows hold P2P keys in mixed   *)
(* case (Address.Hex), PeerIDToP2PKey spells them in lower case, and the   *)
(* query compares them without regard to case.                             *)
(***************************************************************************)
EXTENDS Naturals

CONSTANTS
    Operators,    \* operator addresses
    Keys,         \* addresses that serve as signing key or as P2P key
    Pairs,        \* the pairs of a signing key and a P2P key operators may have
    NoOne,        \* the address in the answer "no row"
    SigningKeys,  \* the signing keys readers ask about
    P2PKeys,      \* the P2P keys of the peers they ask about
    Readers,      \* goroutines of the task processor and of the gater
    MaxEvents,    \* bound: events the listener receives
    MaxUpdates,   \* bound: epoch updates
    MaxFailures,  \* bound: failed calls
    MaxRestarts   \* bound: deaths of the process

ASSUME CachedAssumption ==
    /\ NoOne \notin Operators \cup Keys
    /\ "listener" \notin Readers
    /\ SigningKeys \subseteq Keys /\ P2PKeys \subseteq Keys
    /\ Pairs \subseteq Keys \X Keys
    /\ MaxEvents \in Nat /\ MaxUpdates \in Nat
    /\ MaxFailures \in Nat /\ MaxRestarts \in Nat

VARIABLES
    rows,       \* table operators
    cache,      \* the cached answers
    call,       \* the call of a getter each caller is in
    leaving,    \* the operator whose deregistration the listener handles, if any
    alive,      \* FALSE after a panic of the listener
    upd,        \* the transaction of the epoch updator
    pending,    \* the answers each writer has still to invalidate
    excused,    \* history: answers that nobody can be expected to have removed
    events, updates, failures, restarts

budgets == <<events, updates, failures, restarts>>
work    == <<leaving, alive, upd>>
vars    == <<rows, cache, call, work, pending, excused, budgets>>

Callers == Readers \cup {"listener"}
Writers == {"listener", "updator"}

\* The columns a reader tells apart; the weight changes with isActive.
Row   == [address : Operators \cup {NoOne}, sk : Keys \cup {NoOne},
          pk : Keys \cup {NoOne}, isActive : BOOLEAN, left : BOOLEAN]
NoRow == [address |-> NoOne, sk |-> NoOne, pk |-> NoOne,
          isActive |-> FALSE, left |-> FALSE]

Known(o) == rows[o] # NoRow

----------------------------------------------------------------------------
(* The getters                                                             *)

\* A question: the getter, its argument and how that is spelled.
ByAddress(o)       == [by |-> "address", arg |-> o, spelt |-> "mixed"]
BySigningKey(k)    == [by |-> "signing", arg |-> k, spelt |-> "mixed"]
ByP2PKey(k, spelt) == [by |-> "p2p", arg |-> k, spelt |-> spelt]

\* How the gater and the task processor spell the key of a peer.
PeerIDToP2PKey(k) == ByP2PKey(k, "lower")

\* What readers ask, and what the listener asks.  Nobody asks IsActiveOperator.
Asked     == {BySigningKey(k) : k \in SigningKeys} \cup {PeerIDToP2PKey(k) : k \in P2PKeys}
Questions == Asked \cup {ByAddress(o) : o \in Operators}

\* What the queries can return from a table; without a row, nil.
GetOperatorByAddress(tab, o) == {tab[o]}

GetOperatorBySigningKey(tab, k) ==
    LET found == {tab[o] : o \in {x \in Operators : tab[x].sk = k}}
    IN  IF found = {} THEN {NoRow} ELSE found

GetOperatorByP2PKey(tab, k) ==
    LET found == {tab[o] : o \in {x \in Operators : tab[x].pk = k}}
    IN  IF found = {} THEN {NoRow} ELSE found

Answers(tab, e) ==
    CASE e.by = "address" -> GetOperatorByAddress(tab, e.arg)
      [] e.by = "signing" -> GetOperatorBySigningKey(tab, e.arg)
      [] e.by = "p2p"     -> GetOperatorByP2PKey(tab, e.arg)

\* The cache holds at most one answer to a question, and nil is one.
Cached(e) == cache[e] # {}
Stale(e)  == Cached(e) /\ ~(cache[e] \subseteq Answers(rows, e))

Fail == failures < MaxFailures /\ failures' = failures + 1

\* A call: the question on its way, as a set of at most one, and the row that
\* was read.  old (history): the table answers differently since the row was read,
\* or the cache gave an excused answer.
Rest             == [pc |-> "rest", ask |-> {}, row |-> NoRow, old |-> FALSE]
Filling(e, a)    == [pc |-> "fill", ask |-> {e}, row |-> a, old |-> FALSE]
Got(a, old)      == [pc |-> "got", ask |-> {}, row |-> a, old |-> old]

\* GetWithTtl: what the cache does not hold is read from the table ...
Miss(c, e) ==
    /\ call[c].pc = "rest" /\ ~Cached(e)
    /\ \E a \in Answers(rows, e) : call' = [call EXCEPT ![c] = Filling(e, a)]

\* Mutant of Fill: the reader keeps a copy of the row, and stores it again when
\* the answer has gone.
FillFromCopy(c) ==
    /\ call[c].pc = "fill"
    /\ \E e \in call[c].ask :
          /\ cache' = [cache EXCEPT ![e] = {call[c].row}]
          /\ excused' = IF call[c].old THEN excused \cup {e} ELSE excused \ {e}
    /\ call' = [call EXCEPT ![c] = IF c = "listener" THEN Got(@.row, @.old) ELSE @]
    /\ UNCHANGED <<rows, work, pending, budgets>>

\* ... and stored, whatever has been written since.  The listener goes on with
\* the row; what readers make of it is not followed here, nor what they hit.
Fill(c) ==
    /\ call[c].pc = "fill"
    /\ \E e \in call[c].ask :
          /\ cache' = [cache EXCEPT ![e] = {call[c].row}]
          /\ excused' = IF call[c].old THEN excused \cup {e} ELSE excused \ {e}
    /\ call' = [call EXCEPT ![c] = IF c = "listener" THEN Got(@.row, @.old) ELSE Rest]
    /\ UNCHANGED <<rows, work, pending, budgets>>

\* A reader asks about a peer or about a signer.
Ask(r, e) ==
    /\ Miss(r, e)
    /\ UNCHANGED <<rows, cache, work, pending, excused, budgets>>

\* The query, limited to 500 ms, or the cache fails, or the statement the listener
\* makes of the row: the listener drops the event.
GetFails(c) ==
    /\ call[c].pc = "fill" \/ call[c].row # NoRow
    /\ Fail
    /\ call' = [call EXCEPT ![c] = Rest]
    /\ leaving' = IF c = "listener" THEN {} ELSE leaving
    /\ UNCHANGED <<rows, cache, alive, upd, pending, excused, events, updates, restarts>>

Remove(e) == cache' = [cache EXCEPT ![e] = {}] /\ excused' = excused \ {e}

\* An answer, nil or not, is cached for ten seconds.
Expire(e) ==
    /\ Cached(e)
    /\ Remove(e)
    /\ UNCHANGED <<rows, call, work, pending, budgets>>

----------------------------------------------------------------------------
(* Writing and invalidating                                                *)

\* The table becomes tab, and the callers in done are done with what they had
\* asked for.  history: answers on their way are overtaken, and cached ones about
\* keys the writer does not know are excused.
Write(tab, done, unknown) ==
    LET changed == {e \in Questions : Answers(tab, e) # Answers(rows, e)} IN
    /\ rows' = tab
    /\ call' = [c \in Callers |-> IF c \in done THEN Rest ELSE
                   [call[c] EXCEPT !.old = @ \/ call[c].ask \cap changed # {}]]
    /\ excused' = excused \cup {e \in changed \cap unknown : Cached(e)}

\* The keys a statement is given to invalidate: those of the row its caller
\* knows.  (That of IsActiveOperator is one of them; nobody asks it.)
Invalidates(o, row) ==
    {ByAddress(o), BySigningKey(row.sk), ByP2PKey(row.pk, "mixed")}

\* An answer that nobody asks for is not in the cache and need not be removed.
Schedule(w, named) == pending' = [pending EXCEPT ![w] = named \cap Questions]

\* The questions about keys that are not in the row.
NotIn(row) == {e \in Questions : \/ e.by = "signing" /\ e.arg # row.sk
                                 \/ e.by = "p2p" /\ e.arg # row.pk}

\* The function given to PostExec: the answers are removed concurrently; an error
\* is logged, or returned in place of the row that has been written.
Invalidate(w, e) ==
    /\ e \in pending[w]
    /\ pending' = [pending EXCEPT ![w] = @ \ {e}]
    /\ \/ Remove(e) /\ UNCHANGED failures
       \/ Fail /\ excused' = excused \cup {e} /\ UNCHANGED cache
    /\ UNCHANGED <<rows, call, work, events, updates, restarts>>

----------------------------------------------------------------------------
(* The event listener                                                      *)

\* It handles one event after the other.
Receive ==
    /\ alive /\ leaving = {} /\ pending["listener"] = {}
    /\ events < MaxEvents /\ events' = events + 1

\* A row that the updator has written and not committed is locked.
Locked(o) == o \in upd.written

Upsert(o, row, named) ==
    /\ Receive /\ ~Locked(o)
    /\ Write([rows EXCEPT ![o] = row], {}, NotIn(row))
    /\ Schedule("listener", named)
    /\ UNCHANGED <<cache, work, updates, failures, restarts>>

Registered(o, sk, pk) ==
    [address |-> o, sk |-> sk, pk |-> pk, isActive |-> FALSE, left |-> FALSE]

\* Mutants of UpsertOperator: an argument is passed as nil.
UpsertForgetsAddress(o, sk, pk) ==
    LET row == Registered(o, sk, pk)
    IN  Upsert(o, row, Invalidates(o, row) \ {ByAddress(o)})
UpsertForgetsKey(o, sk, pk) ==
    LET row == Registered(o, sk, pk)
    IN  Upsert(o, row, Invalidates(o, row) \ {BySigningKey(sk)})

\* handleOperatorRegistered: the row starts again with the keys of the event, and
\* those are the keys it invalidates.
UpsertOperator(o, sk, pk) ==
    LET row == Registered(o, sk, pk) IN Upsert(o, row, Invalidates(o, row))

\* handleOperatorDeregistered asks GetOperatorByAddress for the keys ...
Deregistered(o) ==
    /\ Receive
    /\ leaving' = {o}
    /\ LET e == ByAddress(o) IN
       \/ Miss("listener", e)
       \/ \E a \in cache[e] :
             call' = [call EXCEPT !["listener"] = Got(a, e \in excused)]
    /\ UNCHANGED <<rows, cache, alive, upd, pending, excused, updates, failures, restarts>>

\* ... reads through a nil pointer when there is no row ...
Panic ==
    /\ call["listener"].pc = "got" /\ call["listener"].row = NoRow
    /\ alive' = FALSE
    /\ leaving' = {} /\ call' = [call EXCEPT !["listener"] = Rest]
    /\ UNCHANGED <<rows, cache, upd, pending, excused, budgets>>

\* ... and else sets the exit epoch and invalidates the keys it was told.
UpdateOperatorExitEpoch(o) ==
    LET row == call["listener"].row
    IN  /\ o \in leaving /\ call["listener"].pc = "got" /\ row # NoRow /\ ~Locked(o)
        /\ Write([rows EXCEPT ![o].left = TRUE], {"listener"}, NotIn(row))
        /\ Schedule("listener", Invalidates(o, row))
        /\ leaving' = {}
        /\ UNCHANGED <<cache, alive, upd, budgets>>

----------------------------------------------------------------------------
(* The epoch updator                                                       *)

NoUpdate == [on |-> FALSE, list |-> [o \in Operators |-> NoRow], todo |-> {},
             written |-> {}, tab |-> [o \in Operators |-> NoRow]]

List(found) ==
    /\ ~upd.on /\ pending["updator"] = {}
    /\ updates < MaxUpdates /\ updates' = updates + 1
    /\ upd' = [NoUpdate EXCEPT !.on = TRUE, !.list = rows, !.todo = found]
    /\ UNCHANGED <<rows, cache, call, leaving, alive, pending, excused,
                   events, failures, restarts>>

\* Mutant of ListAllOperators: operators without a row are updated, too.
ListEveryone == List(Operators)

\* handleEpochUpdate lists the operators in a transaction ...
ListAllOperators == List({o \in Operators : Known(o)})

\* ... writes to each row its status and the keys the chain has for the epoch ...
UpdateOperatorState(o, sk, pk, isActive) ==
    /\ o \in upd.todo
    /\ upd' = [upd EXCEPT !.todo = @ \ {o}, !.written = @ \cup {o},
                  !.tab[o] = [rows[o] EXCEPT !.sk = sk, !.pk = pk, !.isActive = isActive]]
    /\ UNCHANGED <<rows, cache, call, leaving, alive, pending, excused, budgets>>

Listed == UNION {Invalidates(o, upd.list[o]) : o \in upd.written}

CommitWith(named) ==
    /\ upd.on /\ upd.todo = {}
    /\ Write([o \in Operators |-> IF o \in upd.written THEN upd.tab[o] ELSE rows[o]],
             {}, {e \in Questions : \A o \in upd.written : e \in NotIn(upd.list[o])})
    /\ Schedule("updator", named)
    /\ upd' = NoUpdate
    /\ UNCHANGED <<cache, leaving, alive, budgets>>

\* Mutant of Commit: the functions given to PostExec are lost in the transaction.
CommitOnly == CommitWith({})

\* ... and commits; then the functions given to PostExec run, with the keys of the
\* rows as they were listed.
Commit == CommitWith(Listed)

Abort ==
    /\ upd.on /\ Fail
    /\ upd' = NoUpdate
    /\ UNCHANGED <<rows, cache, call, leaving, alive, pending, excused,
                   events, updates, restarts>>

----------------------------------------------------------------------------

\* The process dies and starts again: rows and cached answers stay.
Restart ==
    /\ restarts < MaxRestarts /\ restarts' = restarts + 1
    /\ call' = [c \in Callers |-> Rest]
    /\ leaving' = {} /\ alive' = TRUE /\ upd' = NoUpdate
    /\ pending' = [w \in Writers |-> {}]
    /\ excused' = excused \cup UNION {pending[w] : w \in Writers}
    /\ UNCHANGED <<rows, cache, events, updates, failures>>

\* The first start, on an empty table.
Init ==
    /\ rows = [o \in Operators |-> NoRow]
    /\ cache = [e \in Questions |-> {}]
    /\ call = [c \in Callers |-> Rest]
    /\ leaving = {} /\ alive = TRUE /\ upd = NoUpdate
    /\ pending = [w \in Writers |-> {}]
    /\ excused = {}
    /\ events = 0 /\ updates = 0 /\ failures = 0 /\ restarts = 0

Next ==
    \/ \E r \in Readers, e \in Asked : Ask(r, e)
    \/ \E c \in Callers : Fill(c) \/ GetFails(c)
    \/ \E e \in Questions : Expire(e) \/ \E w \in Writers : Invalidate(w, e)
    \/ \E o \in Operators :
        \/ Deregistered(o) \/ UpdateOperatorExitEpoch(o)
        \/ \E p \in Pairs :
            \/ UpsertOperator(o, p[1], p[2])
            \/ \E b \in BOOLEAN : UpdateOperatorState(o, p[1], p[2], b)
    \/ Panic
    \/ ListAllOperators \/ Commit \/ Abort
    \/ Restart

Spec == Init /\ [][Next]_vars

\* Cached answers have a time to live.
LiveSpec == Spec /\ \A e \in Questions : WF_vars(Expire(e))

----------------------------------------------------------------------------
(* Properties                                                              *)

\* Types; a row is the row of its own address, and a question has at most one
\* cached answer.
TypeOK ==
    /\ rows \in [Operators -> Row]
    /\ \A o \in Operators : Known(o) => rows[o].address = o
    /\ cache \in [Questions -> SUBSET Row]
    /\ \A e \in Questions : \A a, b \in cache[e] : a = b
    /\ call \in [Callers -> [pc : {"rest", "fill", "got"}, ask : SUBSET Questions,
                             row : Row, old : BOOLEAN]]
    /\ leaving \subseteq Operators /\ alive \in BOOLEAN
    /\ upd \in [on : BOOLEAN, list : [Operators -> Row], todo : SUBSET Operators,
                written : SUBSET Operators, tab : [Operators -> Row]]
    /\ pending \in [Writers -> SUBSET Questions]
    /\ excused \subseteq Questions

\* An answer that the table no longer gives is in the cache only while its
\* invalidation is on the way, or because that failed or died with the process, a
\* reader stored what it had read before the write, or the answer is about a key
\* that the writer did not know the operator to have.
Explained(e) == Stale(e) => e \in excused \/ \E w \in Writers : e \in pending[w]

\* The rows consensus checks and the listener are given are no older than that.
SignersFresh ==
    \A e \in Questions : e.by \in {"address", "signing"} => Explained(e)

\* The statements are to "invalidate: [..., GetOperatorByP2PKey, ...]": neither are
\* the rows by which the gater admits peers and workers accept responses.
PeersFresh == \A k \in P2PKeys : Explained(PeerIDToP2PKey(k))

\* A deregistration ends the listener only when the operator has no row, whatever
\* an earlier life of the process left in the cache - unless the row was inserted
\* since the answer was read, or the answer is an excused one: its removal failed
\* or died with the process, or it was stored after the row had been inserted.
PanicsOnlyWithoutRow ==
    [][alive /\ ~alive' => \A o \in leaving : ~Known(o) \/ call["listener"].old]_vars

\* When the table is written no more, the cache comes to agree with it for good,
\* whichever invalidations failed, died or named other keys: readers on their way
\* may store what they read before the last write, but only once, and no stale
\* answer is the source of the next one.
FreshInTheEnd ==
    <>[][UNCHANGED rows]_vars => <>[](\A e \in Questions : ~Stale(e))

=============================================================================
