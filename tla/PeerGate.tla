------------------------------ MODULE PeerGate ------------------------------
(***************************************************************************)
(* The connections of one node: the gater that lets peers in               *)
(* (operator/gater), the blacklist and the operators table it asks through *)
(* a read-through cache (repos), the loops that dial bootstrap and         *)
(* discovered peers (operator/node) and the health checker                 *)
(* (operator/health).  The task processor adds violations.                 *)
(***************************************************************************)
EXTENDS Naturals, FiniteSets

CONSTANTS
    Peers,         \* the other nodes
    Bootstrap,     \* the configured bootstrap peers
    Diallers,      \* who makes connections: "bootstrap", "discovery", "remote"
    Limit,         \* the violation count from which IsBlocked says yes (in the code
                   \* 3), and the bound of the count
    Guilty,        \* the peers that may be charged with violations
    MaxRetries,    \* maxRetries of the bootstrap loop
    MaxChanges,    \* bound: changes of the operators table and of who answers
    MaxFailures    \* bound: failed calls

ASSUME GateAssumption ==
    /\ Bootstrap \subseteq Peers /\ Guilty \subseteq Peers
    /\ Diallers \subseteq {"bootstrap", "discovery", "remote"}
    /\ Limit \in Nat \ {0} /\ MaxRetries \in Nat \ {0}
    /\ MaxChanges \in Nat /\ MaxFailures \in Nat

VARIABLES
    violations,   \* table blacklist: violation_count, 0 without a row
    uncleared,    \* peers whose new count is written and not yet invalidated
    active,       \* table operators: the peers whose operator is active
    cache,        \* cached answers of IsBlocked and GetOperatorByP2PKey
    up,           \* peers that answer
    conns,        \* peers with a connection
    try,          \* the connection attempt of each dialler
    boot,         \* the round of maintainBootstrapConnections
    health,       \* the health checker
    stale,        \* history: blocked peers that got a "no" into the cache
    changes, failures

tables == <<violations, uncleared, active>>
net    == <<up, conns>>
loops  == <<try, boot, health>>
vars   == <<tables, cache, net, loops, stale, changes, failures>>

Questions == {"blocked", "active"}
Answers   == {"yes", "no"}

\* IsBlocked.  A block does not run out: expires_at, which the query compares
\* with the time, is NULL in the rows the task processor writes.
Blocked(p) == violations[p] >= Limit

\* What the tables answer to a question.
Truth(q, p) == IF (IF q = "blocked" THEN Blocked(p) ELSE p \in active)
               THEN "yes" ELSE "no"

\* An attempt: the Intercept function it is in, the question its
\* checkPeerPermission asks, and what was read from the table for the cache.
\* late (history): the peer was blocked and its old answer invalidated when this
\* checkPeerPermission began, and the check has met no stale answer.
Idle == [pc |-> "idle", peer |-> "none", stage |-> "none", ask |-> "blocked",
         read |-> "none", late |-> FALSE]

Start(p, stage) == [pc |-> "ask", peer |-> p, stage |-> stage, ask |-> "blocked",
                    read |-> "none", late |-> Blocked(p) /\ p \notin uncleared]

Fail == failures < MaxFailures /\ failures' = failures + 1

----------------------------------------------------------------------------
(* The end of an attempt                                                   *)

\* The dialler gives up, or a bootstrap peer is dialled again.
EndOrRetry(d, again) ==
    /\ try' = [try EXCEPT ![d] = IF again THEN Start(try[d].peer, "dial") ELSE Idle]
    /\ boot' = IF d # "bootstrap" THEN boot
               ELSE IF again THEN [boot EXCEPT !.retry = @ + 1]
               ELSE [todo |-> boot.todo \ {try[d].peer}, retry |-> 0]
    /\ UNCHANGED conns

\* Mutants of Refuse: one retry too many; the retries are not counted.
RefuseLate(d) ==
    EndOrRetry(d, d = "bootstrap" /\ boot.retry < MaxRetries)
RefuseForever(d) ==
    IF d = "bootstrap" THEN /\ try' = [try EXCEPT ![d] = Start(@.peer, "dial")]
                            /\ UNCHANGED <<boot, conns>>
    ELSE EndOrRetry(d, FALSE)

\* A failed dial of a bootstrap peer is repeated up to maxRetries times.
\* host.Connect of a peer that has connected meanwhile succeeds at once.
Refuse(d) ==
    EndOrRetry(d, /\ d = "bootstrap" /\ boot.retry + 1 < MaxRetries
                  /\ try[d].peer \notin conns)

Connected(d) ==
    /\ conns' = conns \cup {try[d].peer}
    /\ try' = [try EXCEPT ![d] = Idle]
    /\ boot' = IF d # "bootstrap" THEN boot
               ELSE [todo |-> boot.todo \ {try[d].peer}, retry |-> 0]

\* On to the next question: the second of a checkPeerPermission, or the first of
\* the one in the next Intercept function.
Ask(d, q, stage) ==
    /\ try' = [try EXCEPT ![d] =
                 IF q = "blocked" THEN Start(@.peer, stage)
                 ELSE [@ EXCEPT !.pc = "ask", !.ask = q, !.stage = stage, !.read = "none",
                                !.late = try[d].late /\ try[d].peer \notin stale]]
    /\ UNCHANGED <<conns, boot>>

\* checkPeerPermission returns true: InterceptPeerDial, InterceptAddrDial, then
\* the dial itself and InterceptSecured.  InterceptUpgraded lets all pass.
Permitted(d) ==
    LET t == try[d] IN
    \/ t.stage = "dial" /\ Ask(d, "blocked", "addr")
    \/ t.stage = "addr" /\ t.peer \in up /\ Ask(d, "blocked", "secured")
    \/ t.stage = "addr" /\ t.peer \notin up /\ Refuse(d)
    \/ t.stage = "secured" /\ Connected(d)

Answered(d, answer) ==
    LET t == try[d] IN
    \/ t.ask = "blocked" /\ answer = "yes" /\ Refuse(d)
    \/ t.ask = "blocked" /\ answer = "no" /\ Ask(d, "active", t.stage)
    \/ t.ask = "active" /\ answer = "no" /\ Refuse(d)
    \/ t.ask = "active" /\ answer = "yes" /\ Permitted(d)

----------------------------------------------------------------------------
(* The questions of checkPeerPermission and the cache                      *)

Hit(d) ==
    LET t == try[d] IN
    /\ t.pc = "ask" /\ cache[t.ask][t.peer] # "none"
    /\ Answered(d, cache[t.ask][t.peer])
    /\ UNCHANGED <<tables, cache, up, health, stale, changes, failures>>

\* Nothing is cached: the table is read ...
Read(d) ==
    LET t == try[d] IN
    /\ t.pc = "ask" /\ cache[t.ask][t.peer] = "none"
    /\ try' = [try EXCEPT ![d] = [@ EXCEPT !.pc = "fill", !.read = Truth(t.ask, t.peer)]]
    /\ UNCHANGED <<tables, cache, net, boot, health, stale, changes, failures>>

\* ... and what was read is stored, whatever happened in between.
Fill(d) ==
    LET t == try[d] IN
    /\ t.pc = "fill"
    /\ cache' = [cache EXCEPT ![t.ask][t.peer] = t.read]
    /\ stale' = IF t.ask # "blocked" THEN stale
                ELSE IF t.read = "no" /\ Blocked(t.peer) THEN stale \cup {t.peer}
                ELSE stale \ {t.peer}
    /\ Answered(d, t.read)
    /\ UNCHANGED <<tables, up, health, changes, failures>>

\* A question without an answer, or a dial that fails, refuses the peer.
Broken(d) ==
    /\ try[d].pc # "idle" /\ Fail
    /\ Refuse(d)
    /\ UNCHANGED <<tables, cache, up, health, stale, changes>>

\* Mutant of Expire: IsBlocked is cached without a limit.
ExpireActive(q, p) ==
    /\ q = "active" /\ cache[q][p] # "none"
    /\ cache' = [cache EXCEPT ![q][p] = "none"]
    /\ UNCHANGED <<tables, net, loops, stale, changes, failures>>

\* IsBlocked is cached for 24 hours, the operator for 10 seconds.
Expire(q, p) ==
    /\ cache[q][p] # "none"
    /\ cache' = [cache EXCEPT ![q][p] = "none"]
    /\ stale' = IF q = "blocked" THEN stale \ {p} ELSE stale
    /\ UNCHANGED <<tables, net, loops, changes, failures>>

\* incrementPeerViolation of the task processor: IncrementViolationCount adds to
\* the row, then invalidates the cached answer.
IncrementViolationCount(p) ==
    /\ p \in Guilty /\ violations[p] < Limit
    /\ violations' = [violations EXCEPT ![p] = @ + 1]
    /\ uncleared' = uncleared \cup {p}
    /\ UNCHANGED <<active, cache, net, loops, stale, changes, failures>>

\* Mutant of Invalidate: the key is nil, as in the gater's own calls.
InvalidateNothing(p) ==
    /\ p \in uncleared
    /\ uncleared' = uncleared \ {p}
    /\ UNCHANGED <<violations, active, cache, net, loops, stale, changes, failures>>

\* A failed invalidation is only logged.
Invalidate(p) ==
    /\ p \in uncleared
    /\ uncleared' = uncleared \ {p}
    /\ \/ /\ cache' = [cache EXCEPT !["blocked"][p] = "none"]
          /\ stale' = stale \ {p}
          /\ UNCHANGED failures
       \/ /\ Fail
          /\ stale' = IF cache["blocked"][p] = "no" /\ Blocked(p)
                      THEN stale \cup {p} ELSE stale
          /\ UNCHANGED cache
    /\ UNCHANGED <<violations, active, net, loops, changes>>

----------------------------------------------------------------------------
(* The diallers                                                            *)

\* Every 20 seconds the bootstrap peers are gone through one by one.
BootstrapTick ==
    /\ "bootstrap" \in Diallers /\ boot.todo = {}
    /\ boot' = [todo |-> Bootstrap, retry |-> 0]
    /\ UNCHANGED <<tables, cache, net, try, health, stale, changes, failures>>

BootstrapVisit(p) ==
    /\ p \in boot.todo /\ "bootstrap" \in Diallers /\ try["bootstrap"].pc = "idle"
    /\ \/ /\ p \in conns
          /\ boot' = [boot EXCEPT !.todo = @ \ {p}]
          /\ UNCHANGED try
       \/ /\ p \notin conns
          /\ try' = [try EXCEPT !["bootstrap"] = Start(p, "dial")]
          /\ UNCHANGED boot
    /\ UNCHANGED <<tables, cache, net, health, stale, changes, failures>>

\* A peer found by discoverPeers is dialled; a connected one is left alone.
Discover(p) ==
    /\ "discovery" \in Diallers /\ try["discovery"].pc = "idle" /\ p \notin conns
    /\ try' = [try EXCEPT !["discovery"] = Start(p, "dial")]
    /\ UNCHANGED <<tables, cache, net, boot, health, stale, changes, failures>>

\* A peer dials this node: InterceptAccept lets TCP addresses pass.
Accept(p) ==
    /\ "remote" \in Diallers /\ try["remote"].pc = "idle" /\ p \in up \ conns
    /\ try' = [try EXCEPT !["remote"] = Start(p, "secured")]
    /\ UNCHANGED <<tables, cache, net, boot, health, stale, changes, failures>>

----------------------------------------------------------------------------
(* The health checker                                                      *)

\* initHealthChecker triggers one check, which it makes itself ...
TriggerCheck ==
    /\ health.pc = "new"
    /\ health' = [health EXCEPT !.pc = "checking", !.triggered = conns]
    /\ UNCHANGED <<tables, cache, net, try, boot, stale, changes, failures>>

\* ... while the ticker it has started may begin rounds of its own.
HealthTick ==
    /\ health.pc = "checking" /\ health.ticked = {} /\ conns # {}
    /\ health' = [health EXCEPT !.ticked = conns]
    /\ UNCHANGED <<tables, cache, net, try, boot, stale, changes, failures>>

\* DisconnectPeer: an error in closing the connection is only logged.
Disconnect(p) == \/ conns' = conns \ {p} /\ UNCHANGED failures
                 \/ Fail /\ UNCHANGED conns

\* pingPeer in a round; a peer whose ping fails is disconnected.  With the
\* context that Stop has cancelled any ping may fail.
PingPeer(round, p) ==
    /\ p \in health[round]
    /\ health' = [health EXCEPT ![round] = @ \ {p}]
    /\ \/ p \in up /\ UNCHANGED <<conns, failures>>
       \/ (p \notin up \/ health.pc = "stopped") /\ Disconnect(p)
       \/ p \in up /\ Fail /\ conns' = conns \ {p}
    /\ UNCHANGED <<tables, cache, up, try, boot, stale, changes>>

\* The deferred Stop of initHealthChecker ends the ticker; the round that is
\* under way goes on.
HealthStop ==
    /\ health.pc = "checking" /\ health.triggered = {}
    /\ health' = [health EXCEPT !.pc = "stopped"]
    /\ UNCHANGED <<tables, cache, net, try, boot, stale, changes, failures>>

----------------------------------------------------------------------------
(* The environment                                                         *)

Change == changes < MaxChanges /\ changes' = changes + 1

\* A peer stops answering or answers again; its connection is not closed by it.
PeerChanges(p) ==
    /\ Change
    /\ up' = IF p \in up THEN up \ {p} ELSE up \cup {p}
    /\ UNCHANGED <<tables, cache, conns, loops, stale, failures>>

\* The epoch updator changes the activity of an operator; the cached answer goes
\* when it expires (what the updator invalidates CachedQueries follows).
OperatorChanges(p) ==
    /\ Change
    /\ active' = IF p \in active THEN active \ {p} ELSE active \cup {p}
    /\ UNCHANGED <<violations, uncleared, cache, net, loops, stale, failures>>

\* The network closes a connection.
Drop(p) ==
    /\ p \in conns
    /\ conns' = conns \ {p}
    /\ UNCHANGED <<tables, cache, up, loops, stale, changes, failures>>

\* A start of the node: the operators table is that of an earlier run.
Init ==
    /\ violations = [p \in Peers |-> 0]
    /\ uncleared = {}
    /\ active \in SUBSET Peers
    /\ cache = [q \in Questions |-> [p \in Peers |-> "none"]]
    /\ up = Peers /\ conns = {}
    /\ try = [d \in Diallers |-> Idle]
    /\ boot = [todo |-> {}, retry |-> 0]
    /\ health = [pc |-> "new", triggered |-> {}, ticked |-> {}]
    /\ stale = {} /\ changes = 0 /\ failures = 0

Attempt(d) == Hit(d) \/ Read(d) \/ Fill(d)

Bootstrapping == BootstrapTick \/ \E p \in Bootstrap : BootstrapVisit(p)

Rounds == {"triggered", "ticked"}

Checking == \/ TriggerCheck \/ HealthStop
            \/ \E p \in Peers, r \in Rounds : PingPeer(r, p)

Next ==
    \/ \E d \in Diallers : Attempt(d) \/ Broken(d)
    \/ Bootstrapping
    \/ Checking \/ HealthTick
    \/ \E p \in Peers :
        \/ Discover(p) \/ Accept(p)
        \/ IncrementViolationCount(p) \/ Invalidate(p)
        \/ PeerChanges(p) \/ OperatorChanges(p) \/ Drop(p)
        \/ \E q \in Questions : Expire(q, p)

Spec == Init /\ [][Next]_vars

\* Attempts come to an end, the bootstrap loop goes on for ever, the triggered
\* check is made, workers invalidate what they wrote and cached answers expire.
\* Nothing makes peers connect, be found, change or be charged.
LiveSpec ==
    /\ Spec
    /\ \A d \in Diallers : WF_vars(Attempt(d))
    /\ WF_vars(Bootstrapping) /\ WF_vars(Checking)
    /\ \A p \in Peers :
        WF_vars(Invalidate(p)) /\ \A q \in Questions : WF_vars(Expire(q, p))

----------------------------------------------------------------------------
(* Properties                                                              *)

TypeOK ==
    /\ violations \in [Peers -> 0 .. Limit]
    /\ uncleared \in SUBSET Peers /\ active \in SUBSET Peers
    /\ cache \in [Questions -> [Peers -> Answers \cup {"none"}]]
    /\ up \in SUBSET Peers /\ conns \in SUBSET Peers
    /\ try \in [Diallers -> [pc : {"idle", "ask", "fill"},
                             peer : Peers \cup {"none"},
                             stage : {"none", "dial", "addr", "secured"},
                             ask : Questions, read : Answers \cup {"none"},
                             late : BOOLEAN]]
    /\ boot \in [todo : SUBSET Bootstrap, retry : 0 .. MaxRetries - 1]
    /\ health \in [pc : {"new", "checking", "stopped"},
                   triggered : SUBSET Peers, ticked : SUBSET Peers]
    /\ stale \in SUBSET Peers
    /\ changes \in 0 .. MaxChanges /\ failures \in 0 .. MaxFailures

\* The attempt that connects a peer has not found it blocked: its last
\* checkPeerPermission began before the block was written and the old answer
\* invalidated, or met a stale answer - a "no" that another attempt read before
\* the block and stored after it, or that an invalidation failed to remove.
\* A block that begins when an attempt is half-way through InterceptPeerDial,
\* InterceptAddrDial and InterceptSecured is met by the next of them, whatever
\* the other attempts on the peer do and cache meanwhile.
BlockedNotAdmitted ==
    [][\A d \in Diallers :
          Connected(d) /\ try[d].peer \notin conns => ~try[d].late]_vars

\* A peer that is blocked is refused in the end: a stale answer does not feed
\* the next one.
RefusedInTheEnd ==
    \A p \in Peers : <>Blocked(p) => <>[][p \notin conns' \ conns]_vars

\* A bootstrap peer that answers, belongs to an active operator and is not
\* blocked is connected again and again, though other bootstrap peers are down,
\* calls fail and connections break.
BootstrapReconnects ==
    \A p \in Bootstrap :
        <>[](p \in up \cap active /\ ~Blocked(p)) => []<>(p \in conns)

=============================================================================
