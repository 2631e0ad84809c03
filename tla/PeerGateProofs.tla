-------------------------- MODULE PeerGateProofs --------------------------
(***************************************************************************)
(* Theorems about the gater, its cached answers and the loops around it.   *)
(***************************************************************************)
EXTENDS PeerGate, TLAPS

USE GateAssumption

Tries == [pc : {"idle", "ask", "fill"}, peer : Peers \cup {"none"},
          stage : {"none", "dial", "addr", "secured"}, ask : Questions,
          read : Answers \cup {"none"}, late : BOOLEAN]

\* An attempt under way has a peer, and something to store when it stores.
Underway ==
    \A d \in Diallers : /\ try[d].pc # "idle" => try[d].peer \in Peers
                        /\ try[d].pc = "fill" => try[d].read \in Answers

\* A cached "no" about a blocked peer is on its way out, or it is stale.
NoExplained ==
    \A p \in Peers : cache["blocked"][p] = "no" /\ Blocked(p) => p \in stale \cup uncleared

\* A checkPeerPermission that began after the block is still at its first
\* question, and has not read anything else than that the peer is blocked.
LateWaits ==
    \A d \in Diallers : try[d].late =>
        /\ Blocked(try[d].peer) /\ try[d].peer \notin uncleared
        /\ try[d].ask = "blocked"
        /\ try[d].pc = "fill" => try[d].read = "yes"

GateInv == TypeOK /\ Underway /\ NoExplained /\ LateWaits

LEMMA IdleTry == Idle \in Tries /\ Idle.pc = "idle" /\ Idle.late = FALSE
BY DEF Idle, Tries, Questions

LEMMA StartTry ==
    ASSUME NEW p \in Peers, NEW stage \in {"dial", "addr", "secured"}
    PROVE  /\ Start(p, stage) \in Tries
           /\ Start(p, stage).pc = "ask" /\ Start(p, stage).peer = p
           /\ Start(p, stage).ask = "blocked" /\ Start(p, stage).read = "none"
           /\ Start(p, stage).late => Blocked(p) /\ p \notin uncleared
BY DEF Start, Tries, Questions

LEMMA InitGate == Init => GateInv
<1> SUFFICES ASSUME Init PROVE GateInv
  OBVIOUS
<1> USE IdleTry
<1>1. TypeOK
  BY DEF Init, TypeOK, Tries, Answers
<1>2. Underway /\ LateWaits
  BY DEF Init, Underway, LateWaits
<1>3. NoExplained
  BY DEF Init, NoExplained, Questions
<1> QED BY <1>1, <1>2, <1>3 DEF GateInv

\* The attempt of d becomes x, which is at rest, or has just begun, or has lost
\* its history, or is at its first question; tables and cache stay.
LEMMA TryKeeps ==
    ASSUME GateInv, NEW d \in Diallers, NEW x \in Tries, try' = [try EXCEPT ![d] = x],
           UNCHANGED <<violations, uncleared, active, health, up, changes>>,
           cache' \in [Questions -> [Peers -> Answers \cup {"none"}]],
           stale' \in SUBSET Peers,
           NoExplained',
           conns' \in SUBSET Peers, failures' \in 0 .. MaxFailures,
           boot' \in [todo : SUBSET Bootstrap, retry : 0 .. MaxRetries - 1],
           x.pc # "idle" => x.peer \in Peers,
           x.pc = "fill" => x.read \in Answers,
           x.late => /\ Blocked(x.peer) /\ x.peer \notin uncleared /\ x.ask = "blocked"
                     /\ x.pc = "fill" => x.read = "yes"
    PROVE  GateInv'
<1>1. /\ try' \in [Diallers -> Tries] /\ try'[d] = x
      /\ \A y \in Diallers : y # d => try'[y] = try[y]
  BY DEF GateInv, TypeOK, Tries
<1>2. TypeOK'
  BY <1>1 DEF GateInv, TypeOK, Tries
<1>3. Underway'
  BY <1>1 DEF GateInv, Underway
<1>4. LateWaits'
  BY <1>1 DEF GateInv, LateWaits, Blocked
<1> QED BY <1>2, <1>3, <1>4 DEF GateInv

\* Refuse, Connected and Ask give such an attempt.
LEMMA RefuseTry ==
    ASSUME GateInv, NEW d \in Diallers, try[d].pc # "idle", Refuse(d)
    PROVE  /\ UNCHANGED conns /\ boot' \in [todo : SUBSET Bootstrap, retry : 0 .. MaxRetries - 1]
           /\ \E x \in Tries :
                 /\ try' = [try EXCEPT ![d] = x]
                 /\ x.pc # "fill" /\ (x.pc # "idle" => x.peer \in Peers)
                 /\ x.late => /\ Blocked(x.peer) /\ x.peer \notin uncleared
                              /\ x.ask = "blocked"
<1>0. boot \in [todo : SUBSET Bootstrap, retry : 0 .. MaxRetries - 1]
  BY DEF GateInv, TypeOK
<1>1. try[d].peer \in Peers
  BY DEF GateInv, Underway
<1>2. boot' \in [todo : SUBSET Bootstrap, retry : 0 .. MaxRetries - 1]
  BY <1>0 DEF Refuse, EndOrRetry
<1>3. UNCHANGED conns
  BY DEF Refuse, EndOrRetry
<1>4. \/ try' = [try EXCEPT ![d] = Start(try[d].peer, "dial")]
      \/ try' = [try EXCEPT ![d] = Idle]
  BY DEF Refuse, EndOrRetry
<1> QED BY <1>1, <1>2, <1>3, <1>4, IdleTry, StartTry

LEMMA AskTry ==
    ASSUME GateInv, NEW d \in Diallers, NEW q \in Questions, try[d].pc # "idle",
           NEW stage \in {"none", "dial", "addr", "secured"}, Ask(d, q, stage),
           q = "blocked" => stage \in {"addr", "secured"},
           q = "active" /\ try[d].late => try[d].peer \in stale
    PROVE  /\ UNCHANGED <<conns, boot>>
           /\ \E x \in Tries :
                 /\ try' = [try EXCEPT ![d] = x]
                 /\ x.pc # "fill" /\ (x.pc # "idle" => x.peer \in Peers)
                 /\ x.late => /\ Blocked(x.peer) /\ x.peer \notin uncleared
                              /\ x.ask = "blocked"
<1>0. try \in [Diallers -> Tries] /\ try[d].peer \in Peers
  BY DEF GateInv, TypeOK, Underway, Tries
<1>1. CASE q = "blocked"
  <2> DEFINE x == Start(try[d].peer, stage)
  <2>1. try' = [try EXCEPT ![d] = x] /\ UNCHANGED <<conns, boot>>
    BY <1>1 DEF Ask
  <2>2. stage \in {"dial", "addr", "secured"}
    BY <1>1
  <2>3. /\ x \in Tries /\ x.pc = "ask" /\ x.peer = try[d].peer /\ x.ask = "blocked"
        /\ x.late => Blocked(try[d].peer) /\ try[d].peer \notin uncleared
    BY <1>0, <2>2, StartTry
  <2> HIDE DEF x
  <2> QED BY <1>0, <2>1, <2>3
<1>2. CASE q = "active"
  <2> DEFINE x == [try[d] EXCEPT !.pc = "ask", !.ask = q, !.stage = stage, !.read = "none",
                                 !.late = FALSE]
  <2>1. x \in Tries /\ x.pc = "ask" /\ x.peer = try[d].peer /\ ~x.late
    BY <1>0 DEF Tries
  <2>2. (try[d].late /\ try[d].peer \notin stale) = FALSE
    BY <1>0, <1>2 DEF Tries
  <2>3. try' = [try EXCEPT ![d] =
                  [try[d] EXCEPT !.pc = "ask", !.ask = q, !.stage = stage, !.read = "none",
                                 !.late = try[d].late /\ try[d].peer \notin stale]]
    BY <1>2 DEF Ask
  <2>4. try' = [try EXCEPT ![d] = x]
    BY <2>2, <2>3
  <2> HIDE DEF x
  <2> QED BY <1>0, <2>1, <2>4 DEF Ask
<1> QED BY <1>1, <1>2 DEF Questions

\* An answer about a late attempt: "no" to the first question is stale.
LEMMA AnsweredKeeps ==
    ASSUME GateInv, NEW d \in Diallers, NEW answer \in Answers, Answered(d, answer),
           try[d].pc # "idle",
           try[d].late /\ answer = "no" => try[d].peer \in stale,
           UNCHANGED <<violations, uncleared, active, health, up, changes, failures>>,
           cache' \in [Questions -> [Peers -> Answers \cup {"none"}]],
           stale' \in SUBSET Peers,
           NoExplained'
    PROVE  GateInv'
<1>0. /\ try \in [Diallers -> Tries] /\ try[d].peer \in Peers /\ failures \in 0 .. MaxFailures
      /\ conns \in SUBSET Peers /\ try[d] \in Tries
      /\ boot \in [todo : SUBSET Bootstrap, retry : 0 .. MaxRetries - 1]
  BY DEF GateInv, TypeOK, Underway, Tries
<1>1. CASE Refuse(d)
  BY <1>0, <1>1, RefuseTry, TryKeeps
<1>2. ASSUME NEW q \in Questions, NEW stage \in {"none", "dial", "addr", "secured"},
             Ask(d, q, stage), q = "blocked" => stage \in {"addr", "secured"},
             q = "active" /\ try[d].late => try[d].peer \in stale
      PROVE  GateInv'
  BY <1>0, <1>2, AskTry, TryKeeps
<1>3. CASE Connected(d)
  <2>1. /\ conns' \in SUBSET Peers /\ try' = [try EXCEPT ![d] = Idle]
        /\ boot' \in [todo : SUBSET Bootstrap, retry : 0 .. MaxRetries - 1]
    BY <1>0, <1>3 DEF Connected
  <2> QED BY <1>0, <2>1, IdleTry, TryKeeps
<1>4. CASE try[d].ask = "blocked" /\ answer = "no" /\ Ask(d, "active", try[d].stage)
  <2>1. try[d].stage \in {"none", "dial", "addr", "secured"} /\ "active" \in Questions
    BY <1>0 DEF Tries, Questions
  <2> QED BY <1>2, <1>4, <2>1
<1>5. CASE try[d].ask = "active" /\ Permitted(d)
  <2>1. ~try[d].late /\ "blocked" \in Questions
    BY <1>5 DEF GateInv, LateWaits, Questions
  <2> QED BY <1>1, <1>2, <1>3, <1>5, <2>1 DEF Permitted
<1> QED BY <1>1, <1>4, <1>5 DEF Answered

LEMMA HitKeeps == ASSUME GateInv, NEW d \in Diallers, Hit(d) PROVE GateInv'
<1> DEFINE a == cache[try[d].ask][try[d].peer]
<1>0. /\ try[d].pc = "ask" /\ a # "none" /\ Answered(d, a)
      /\ UNCHANGED <<tables, cache, up, health, stale, changes, failures>>
  BY DEF Hit
<1>1. /\ try[d].peer \in Peers /\ try[d].ask \in Questions
      /\ cache \in [Questions -> [Peers -> Answers \cup {"none"}]] /\ stale \in SUBSET Peers
  BY <1>0 DEF GateInv, TypeOK, Underway
<1>2. a \in Answers
  BY <1>0, <1>1
<1>3. try[d].late /\ a = "no" => try[d].peer \in stale
  BY <1>1 DEF GateInv, LateWaits, NoExplained
<1>4. NoExplained'
  BY <1>0 DEF GateInv, NoExplained, Blocked, tables
<1> HIDE DEF a
<1> QED BY <1>0, <1>1, <1>2, <1>3, <1>4, AnsweredKeeps DEF tables

LEMMA FillKeeps == ASSUME GateInv, NEW d \in Diallers, Fill(d) PROVE GateInv'
<1> DEFINE t == try[d]
<1>0. /\ t.pc = "fill" /\ Answered(d, t.read)
      /\ cache' = [cache EXCEPT ![t.ask][t.peer] = t.read]
      /\ stale' = IF t.ask # "blocked" THEN stale
                  ELSE IF t.read = "no" /\ Blocked(t.peer) THEN stale \cup {t.peer}
                  ELSE stale \ {t.peer}
      /\ UNCHANGED <<violations, uncleared, active, up, health, changes, failures>>
  BY DEF Fill, tables
<1>1. /\ t.peer \in Peers /\ t.ask \in Questions /\ t.read \in Answers
      /\ cache \in [Questions -> [Peers -> Answers \cup {"none"}]] /\ stale \in SUBSET Peers
      /\ "blocked" \in Questions
  BY <1>0 DEF GateInv, TypeOK, Underway, Questions
<1>2. t.late => t.read # "no"
  BY <1>0 DEF GateInv, LateWaits
<1> HIDE DEF t
<1>3. /\ cache' \in [Questions -> [Peers -> Answers \cup {"none"}]] /\ stale' \in SUBSET Peers
      /\ \A p \in Peers : cache'["blocked"][p] =
             IF t.ask = "blocked" /\ t.peer = p THEN t.read ELSE cache["blocked"][p]
  BY <1>0, <1>1 DEF t
<1>4. NoExplained'
  BY <1>0, <1>1, <1>3 DEF GateInv, NoExplained, Blocked
<1> QED BY <1>0, <1>1, <1>2, <1>3, <1>4, AnsweredKeeps DEF t

LEMMA ReadKeeps == ASSUME GateInv, NEW d \in Diallers, Read(d) PROVE GateInv'
<1> DEFINE a == Truth(try[d].ask, try[d].peer)
           x == [try[d] EXCEPT !.pc = "fill", !.read = a]
<1>0. /\ try[d].pc = "ask" /\ try' = [try EXCEPT ![d] = x]
      /\ UNCHANGED <<tables, cache, net, boot, health, stale, changes, failures>>
  BY DEF Read
<1>1. /\ try[d] \in Tries /\ try[d].peer \in Peers
      /\ cache \in [Questions -> [Peers -> Answers \cup {"none"}]] /\ stale \in SUBSET Peers
      /\ boot \in [todo : SUBSET Bootstrap, retry : 0 .. MaxRetries - 1]
      /\ conns \in SUBSET Peers /\ failures \in 0 .. MaxFailures
  BY <1>0 DEF GateInv, TypeOK, Underway, Tries
<1>2. /\ a \in Answers
      /\ try[d].ask = "blocked" /\ Blocked(try[d].peer) => a = "yes"
  BY DEF Truth, Answers
<1> HIDE DEF a
<1>3. /\ x \in Tries /\ x.pc = "fill" /\ x.read = a /\ x.peer = try[d].peer
      /\ x.ask = try[d].ask /\ x.late = try[d].late
  BY <1>1, <1>2 DEF Tries
<1> HIDE DEF x
<1>4. NoExplained'
  BY <1>0 DEF GateInv, NoExplained, Blocked, tables
<1>5. x.late => Blocked(x.peer) /\ x.peer \notin uncleared /\ x.ask = "blocked" /\ x.read = "yes"
  BY <1>2, <1>3 DEF GateInv, LateWaits
<1> QED BY <1>0, <1>1, <1>2, <1>3, <1>4, <1>5, TryKeeps DEF tables, net

LEMMA BrokenKeeps == ASSUME GateInv, NEW d \in Diallers, Broken(d) PROVE GateInv'
<1>0. /\ try[d].pc # "idle" /\ Refuse(d) /\ UNCHANGED <<tables, cache, up, health, stale, changes>>
  BY DEF Broken
<1>1. /\ cache \in [Questions -> [Peers -> Answers \cup {"none"}]] /\ stale \in SUBSET Peers
      /\ conns \in SUBSET Peers /\ failures' \in 0 .. MaxFailures
  BY DEF GateInv, TypeOK, Broken, Fail
<1>2. NoExplained'
  BY <1>0 DEF GateInv, NoExplained, Blocked, tables
<1> QED BY <1>0, <1>1, <1>2, RefuseTry, TryKeeps DEF tables

\* A new attempt of d.
LEMMA BeginKeeps ==
    ASSUME GateInv, NEW d \in Diallers, NEW p \in Peers, NEW stage \in {"dial", "secured"},
           try' = [try EXCEPT ![d] = Start(p, stage)],
           UNCHANGED <<tables, cache, net, boot, health, stale, changes, failures>>
    PROVE  GateInv'
<1>1. /\ cache \in [Questions -> [Peers -> Answers \cup {"none"}]] /\ stale \in SUBSET Peers
      /\ conns \in SUBSET Peers /\ failures \in 0 .. MaxFailures
      /\ boot \in [todo : SUBSET Bootstrap, retry : 0 .. MaxRetries - 1]
  BY DEF GateInv, TypeOK
<1>2. NoExplained'
  BY DEF GateInv, NoExplained, Blocked, tables
<1> DEFINE x == Start(p, stage)
<1>3. /\ x \in Tries /\ x.pc = "ask" /\ x.peer \in Peers
      /\ x.late => Blocked(x.peer) /\ x.peer \notin uncleared /\ x.ask = "blocked"
  BY StartTry
<1> HIDE DEF x
<1>4. try' = [try EXCEPT ![d] = x]
  BY DEF x
<1> QED BY <1>1, <1>2, <1>3, <1>4, TryKeeps DEF tables, net

\* Attempts, counts and the answers about blocks stay as they are.
LEMMA OthersKeep ==
    ASSUME GateInv, TypeOK', UNCHANGED <<violations, uncleared, cache, try, stale>>
    PROVE  GateInv'
BY DEF GateInv, Underway, NoExplained, LateWaits, Blocked

LEMMA BootstrapKeeps == ASSUME GateInv, Bootstrapping PROVE GateInv'
<1>1. CASE BootstrapTick
  <2>1. TypeOK'
    BY <1>1 DEF BootstrapTick, GateInv, TypeOK, tables, net
  <2> QED BY <1>1, <2>1, OthersKeep DEF BootstrapTick, tables
<1>2. ASSUME NEW p \in Bootstrap, BootstrapVisit(p) PROVE GateInv'
  <2>1. CASE boot' = [boot EXCEPT !.todo = boot.todo \ {p}] /\ UNCHANGED try
    <3>1. TypeOK'
      BY <1>2, <2>1 DEF BootstrapVisit, GateInv, TypeOK, tables, net
    <3> QED BY <1>2, <2>1, <3>1, OthersKeep DEF BootstrapVisit, tables
  <2>2. CASE try' = [try EXCEPT !["bootstrap"] = Start(p, "dial")] /\ UNCHANGED boot
    BY <1>2, <2>2, BeginKeeps DEF BootstrapVisit
  <2> QED BY <1>2, <2>1, <2>2 DEF BootstrapVisit
<1> QED BY <1>1, <1>2 DEF Bootstrapping

LEMMA CheckingKeeps == ASSUME GateInv, Checking \/ HealthTick PROVE GateInv'
<1>0. /\ health \in [pc : {"new", "checking", "stopped"},
                     triggered : SUBSET Peers, ticked : SUBSET Peers]
      /\ conns \in SUBSET Peers /\ failures \in 0 .. MaxFailures
  BY DEF GateInv, TypeOK
<1>1. CASE TriggerCheck \/ HealthStop \/ HealthTick
  <2>1. health' \in [pc : {"new", "checking", "stopped"},
                     triggered : SUBSET Peers, ticked : SUBSET Peers]
    BY <1>0, <1>1 DEF TriggerCheck, HealthStop, HealthTick
  <2>2. UNCHANGED <<tables, cache, net, try, boot, stale, changes, failures>>
    BY <1>1 DEF TriggerCheck, HealthStop, HealthTick
  <2>3. TypeOK'
    BY <2>1, <2>2 DEF GateInv, TypeOK, tables, net
  <2> QED BY <2>2, <2>3, OthersKeep DEF tables
<1>2. ASSUME NEW p \in Peers, NEW r \in Rounds, PingPeer(r, p) PROVE GateInv'
  <2>1. health' \in [pc : {"new", "checking", "stopped"},
                     triggered : SUBSET Peers, ticked : SUBSET Peers]
    <3>1. CASE r = "triggered"
      BY <1>0, <1>2, <3>1 DEF PingPeer
    <3>2. CASE r = "ticked"
      BY <1>0, <1>2, <3>2 DEF PingPeer
    <3> QED BY <3>1, <3>2 DEF Rounds
  <2>2. conns' \in SUBSET Peers /\ failures' \in 0 .. MaxFailures
    BY <1>0, <1>2 DEF PingPeer, Disconnect, Fail
  <2>3. UNCHANGED <<tables, cache, up, try, boot, stale, changes>>
    BY <1>2 DEF PingPeer
  <2>4. TypeOK'
    BY <2>1, <2>2, <2>3 DEF GateInv, TypeOK, tables
  <2> QED BY <2>3, <2>4, OthersKeep DEF tables
<1> QED BY <1>1, <1>2 DEF Checking

LEMMA EnvironmentKeeps ==
    ASSUME GateInv, NEW p \in Peers, PeerChanges(p) \/ OperatorChanges(p) \/ Drop(p)
    PROVE  GateInv'
<1>1. TypeOK'
  BY DEF PeerChanges, OperatorChanges, Drop, Change, GateInv, TypeOK, tables, net, loops
<1> QED BY <1>1, OthersKeep DEF PeerChanges, OperatorChanges, Drop, tables, loops

LEMMA ExpireKeeps ==
    ASSUME GateInv, NEW p \in Peers, NEW q \in Questions, Expire(q, p) PROVE GateInv'
<1>0. /\ cache' = [cache EXCEPT ![q][p] = "none"]
      /\ stale' = IF q = "blocked" THEN stale \ {p} ELSE stale
      /\ UNCHANGED <<violations, uncleared, active, net, loops, changes, failures>>
  BY DEF Expire, tables
<1>1. TypeOK'
  BY <1>0 DEF GateInv, TypeOK, net, loops
<1>2. \A x \in Peers : cache'["blocked"][x] =
          IF q = "blocked" /\ x = p THEN "none" ELSE cache["blocked"][x]
  BY <1>0 DEF GateInv, TypeOK, Questions
<1>3. NoExplained'
  BY <1>0, <1>2 DEF GateInv, NoExplained, Blocked
<1>4. Underway' /\ LateWaits'
  BY <1>0 DEF GateInv, Underway, LateWaits, Blocked, loops
<1> QED BY <1>1, <1>3, <1>4 DEF GateInv

\* A count only grows: who is blocked stays blocked, and is not charged again.
LEMMA IncrementKeeps ==
    ASSUME GateInv, NEW p \in Peers, IncrementViolationCount(p) PROVE GateInv'
<1>0. /\ violations[p] < Limit /\ violations' = [violations EXCEPT ![p] = violations[p] + 1]
      /\ uncleared' = uncleared \cup {p}
      /\ UNCHANGED <<active, cache, net, loops, stale, changes, failures>>
      /\ violations \in [Peers -> 0 .. Limit]
  BY DEF IncrementViolationCount, GateInv, TypeOK
<1>1. TypeOK'
  BY <1>0 DEF GateInv, TypeOK, net, loops
<1>2. \A x \in Peers : x # p => (Blocked(x)' <=> Blocked(x))
  BY <1>0 DEF Blocked
<1>3. NoExplained'
  BY <1>0, <1>2 DEF GateInv, NoExplained
<1>4. ~Blocked(p)
  BY <1>0 DEF Blocked
<1>5. Underway' /\ UNCHANGED try
  BY <1>0 DEF GateInv, Underway, loops
<1>6. LateWaits'
  <2> SUFFICES ASSUME NEW d \in Diallers, try[d].late
               PROVE  /\ Blocked(try[d].peer)' /\ try[d].peer \notin uncleared'
                      /\ try[d].ask = "blocked"
                      /\ try[d].pc = "fill" => try[d].read = "yes"
    BY <1>5 DEF LateWaits
  <2>1. /\ Blocked(try[d].peer) /\ try[d].peer \notin uncleared /\ try[d].ask = "blocked"
        /\ try[d].pc = "fill" => try[d].read = "yes"
    BY DEF GateInv, LateWaits
  <2>2. try[d].peer # p
    BY <1>4, <2>1
  <2>3. Blocked(try[d].peer)'
    BY <1>0, <1>5, <2>1, <2>2 DEF Blocked
  <2> QED BY <1>0, <2>1, <2>2, <2>3
<1> QED BY <1>1, <1>3, <1>5, <1>6 DEF GateInv

LEMMA InvalidateKeeps ==
    ASSUME GateInv, NEW p \in Peers, Invalidate(p) PROVE GateInv'
<1>0. /\ uncleared' = uncleared \ {p}
      /\ UNCHANGED <<violations, active, net, loops, changes>>
  BY DEF Invalidate
<1>1. Underway' /\ LateWaits'
  BY <1>0 DEF GateInv, Underway, LateWaits, Blocked, loops
<1>2. CASE cache' = [cache EXCEPT !["blocked"][p] = "none"] /\ stale' = stale \ {p} /\ UNCHANGED failures
  <2>1. TypeOK'
    BY <1>0, <1>2 DEF GateInv, TypeOK, net, loops
  <2>2. \A x \in Peers : cache'["blocked"][x] = IF x = p THEN "none" ELSE cache["blocked"][x]
    BY <1>2 DEF GateInv, TypeOK, Questions
  <2>3. NoExplained'
    BY <1>0, <1>2, <2>2 DEF GateInv, NoExplained, Blocked
  <2> QED BY <1>1, <2>1, <2>3 DEF GateInv
<1>3. CASE /\ Fail /\ UNCHANGED cache
           /\ stale' = IF cache["blocked"][p] = "no" /\ Blocked(p) THEN stale \cup {p} ELSE stale
  <2>1. TypeOK'
    BY <1>0, <1>3 DEF GateInv, TypeOK, net, loops, Fail
  <2>2. NoExplained'
    BY <1>0, <1>3 DEF GateInv, NoExplained, Blocked
  <2> QED BY <1>1, <2>1, <2>2 DEF GateInv
<1> QED BY <1>2, <1>3 DEF Invalidate

LEMMA StepGate == GateInv /\ [Next]_vars => GateInv'
<1> SUFFICES ASSUME GateInv, [Next]_vars PROVE GateInv'
  OBVIOUS
<1>1. ASSUME NEW p \in Peers, Discover(p) \/ Accept(p) PROVE GateInv'
  BY <1>1, BeginKeeps DEF Discover, Accept
<1>2. CASE UNCHANGED vars
  <2>1. TypeOK'
    BY <1>2 DEF vars, tables, net, loops, GateInv, TypeOK
  <2> QED BY <1>2, <2>1, OthersKeep DEF vars, tables, loops
<1> QED BY <1>1, <1>2, HitKeeps, ReadKeeps, FillKeeps, BrokenKeeps, BootstrapKeeps,
           CheckingKeeps, EnvironmentKeeps, ExpireKeeps, IncrementKeeps, InvalidateKeeps
        DEF Next, Attempt

----------------------------------------------------------------------------

\* Types; the bootstrap loop never counts past its retries.
THEOREM GateTypes == Spec => []TypeOK
<1>1. GateInv => TypeOK
  BY DEF GateInv
<1> QED BY <1>1, InitGate, StepGate, PTL DEF Spec

\* No step that changes the connections adds one but the last of an attempt.
LEMMA OnlyConnected ==
    ASSUME GateInv, Next, NEW p \in conns' \ conns
    PROVE  \E e \in Diallers : try[e].ask = "active" /\ Connected(e)
<1>1. CASE \E e \in Diallers : Hit(e) \/ Fill(e)
  BY <1>1 DEF Hit, Fill, Answered, Permitted, Refuse, EndOrRetry, Ask
<1>2. CASE \E e \in Diallers : Read(e) \/ Broken(e)
  BY <1>2 DEF Read, Broken, Refuse, EndOrRetry, net
<1>3. CASE Bootstrapping \/ Checking \/ HealthTick
  BY <1>3 DEF Bootstrapping, BootstrapTick, BootstrapVisit, Checking, TriggerCheck, HealthStop,
              PingPeer, Disconnect, HealthTick, net
<1>4. CASE \E x \in Peers : \/ Discover(x) \/ Accept(x) \/ IncrementViolationCount(x)
                            \/ Invalidate(x) \/ PeerChanges(x) \/ OperatorChanges(x) \/ Drop(x)
                            \/ \E q \in Questions : Expire(q, x)
  BY <1>4 DEF Discover, Accept, IncrementViolationCount, Invalidate, PeerChanges,
              OperatorChanges, Drop, Expire, net
<1> QED BY <1>1, <1>2, <1>3, <1>4 DEF Next, Attempt

\* The attempt that connects a peer is not one whose last check began after the
\* peer was blocked and its old answer invalidated, whatever the other diallers
\* do and cache meanwhile.
THEOREM BlockedCorrect == Spec => BlockedNotAdmitted
<1>1. GateInv /\ [Next]_vars =>
          [\A d \in Diallers :
              Connected(d) /\ try[d].peer \notin conns => ~try[d].late]_vars
  <2> SUFFICES ASSUME GateInv, Next, NEW d \in Diallers, Connected(d), try[d].peer \notin conns
               PROVE  ~try[d].late
    OBVIOUS
  <2>1. try[d].peer \in conns' \ conns
    BY DEF Connected
  <2>2. PICK e \in Diallers : try[e].ask = "active" /\ Connected(e)
    BY <2>1, OnlyConnected
  <2>3. CASE e = d
    BY <2>2, <2>3 DEF GateInv, LateWaits
  <2>4. CASE e # d
    \* The other attempt ends in the same step only if it had ended before.
    <3>1. try[d] = Idle
      BY <2>2, <2>4 DEF Connected, GateInv, TypeOK
    <3> QED BY <3>1, IdleTry
  <2> QED BY <2>3, <2>4
<1> QED BY <1>1, InitGate, StepGate, PTL DEF Spec, BlockedNotAdmitted

=============================================================================
