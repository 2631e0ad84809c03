------------------------ MODULE SendRequestProofs ------------------------
(***************************************************************************)
(* Theorems about SendRequest and the timestamp search, for every set of   *)
(* chains whose times do not decrease, however fast or slow they are.      *)
(***************************************************************************)
EXTENDS SendRequest, TLAPS

\* The numbers among the constants; the times of the blocks are cited where needed.
LEMMA ConstantTypes ==
    /\ MaxHead \in Nat /\ Average \in Nat \ {0}
    /\ Mainnet \in Configured /\ Configured \subseteq Nat
    /\ Confirmations \in Nat \ {0} /\ Requests \subseteq Request
BY SearchAssumption, RequestAssumption

USE ConstantTypes

Searching == {"jump", "forward", "backward"}
Found     == {"done", "lookup", "latest", "create", "process"}
HasState  == {"block"} \cup Searching \cup Found

\* What the handler knows at each place: the body has been validated, the client
\* is that of the chain, and the heads read so far are not beyond the chain.
Progressed ==
    /\ times \in Chains /\ target = req.timestamp
    /\ pc \in {"epoch", "client"} \cup HasState => req.chain \in Configured
    /\ pc \in {"epoch", "client", "block"} =>
          /\ req.block <= heads[req.chain]
          /\ target = 0 => req.block # 0
    /\ pc \in HasState => client = IF req.chain = 1 THEN Mainnet ELSE req.chain
    /\ pc \in Searching => latest <= heads[client]
    /\ pc \in Found /\ req.chain # 1 => number <= heads[client]
    /\ pc \in {"create", "process"} => seen <= heads[client]
    /\ row # NoRow => req.chain \in Configured

RequestInv == TypeOK /\ Progressed /\ RowOnChain

----------------------------------------------------------------------------

LEMMA InitRequest == Init => RequestInv
<1> SUFFICES ASSUME Init PROVE RequestInv
  OBVIOUS
<1>1. times \in [Blocks -> Nat] /\ req \in Request /\ heads \in [Configured -> Blocks]
  BY SearchAssumption DEF Init
<1>2. TypeOK
  BY <1>1 DEF Init, TypeOK, NoRow, Blocks
<1>3. Progressed
  BY <1>1 DEF Init, Progressed, HasState, Searching, Found
<1>4. RowOnChain
  BY DEF Init, RowOnChain
<1> QED BY <1>2, <1>3, <1>4 DEF RequestInv

\* What a step of the handler that only moves on, or answers, preserves.
LEMMA AnswerKeeps ==
    ASSUME RequestInv, NEW a, Answer(a),
           a \in {"bad request", "internal error", "recovered", "completed",
                  "exists", "created", "found", "not found"}
    PROVE  RequestInv'
<1>1. TypeOK'
  BY DEF RequestInv, TypeOK, Answer, Goto
<1>2. Progressed'
  BY DEF RequestInv, Progressed, Answer, Goto, HasState, Searching, Found
<1>3. RowOnChain'
  BY DEF RequestInv, RowOnChain, Answer, Goto
<1> QED BY <1>1, <1>2, <1>3 DEF RequestInv

LEMMA ValidateKeeps == RequestInv /\ ValidateRequest => RequestInv'
<1> SUFFICES ASSUME RequestInv, ValidateRequest PROVE RequestInv'
  OBVIOUS
<1>1. CASE \E a \in {"bad request"} : Answer(a)
  BY <1>1, AnswerKeeps
<1>2. CASE /\ WellFormed(req)
           /\ req.block # 0 => HasClient(req.chain) /\ req.block <= heads[req.chain]
           /\ Goto("epoch") /\ UNCHANGED requestVars
  <2>1. TypeOK'
    BY <1>2 DEF RequestInv, TypeOK, Goto, requestVars
  <2>2. req \in Request /\ heads[req.chain] \in Blocks
    BY <1>2 DEF RequestInv, TypeOK, WellFormed
  <2>3. req.block \in Nat /\ req.block <= heads[req.chain]
    BY <1>2, <2>2 DEF Request, Blocks
  <2>4. Progressed'
    BY <1>2, <2>2, <2>3 DEF RequestInv, Progressed, Goto, requestVars, HasState, Searching, Found,
                       WellFormed
  <2>5. RowOnChain'
    BY <1>2 DEF RequestInv, RowOnChain, Goto, requestVars
  <2> QED BY <2>1, <2>4, <2>5 DEF RequestInv
<1> QED BY <1>1, <1>2 DEF ValidateRequest

LEMMA EpochKeeps == RequestInv /\ GetCurrentEpoch => RequestInv'
<1> SUFFICES ASSUME RequestInv, GetCurrentEpoch PROVE RequestInv'
  OBVIOUS
<1>1. CASE Goto("client") /\ UNCHANGED requestVars
  <2>1. TypeOK'
    BY <1>1 DEF RequestInv, TypeOK, Goto, requestVars
  <2>2. Progressed'
    BY <1>1 DEF RequestInv, Progressed, GetCurrentEpoch, At, Goto, requestVars, HasState,
                Searching, Found
  <2>3. RowOnChain'
    BY <1>1 DEF RequestInv, RowOnChain, Goto, requestVars
  <2> QED BY <2>1, <2>2, <2>3 DEF RequestInv
<1> QED BY <1>1, AnswerKeeps DEF GetCurrentEpoch

LEMMA ClientKeeps == RequestInv /\ StateClient => RequestInv'
<1> SUFFICES ASSUME RequestInv, StateClient PROVE RequestInv'
  OBVIOUS
<1>1. CASE /\ client' = IF req.chain = 1 THEN Mainnet ELSE req.chain
           /\ Goto("block") /\ UNCHANGED <<req, seen, row, answer>>
  <2>1. req.chain \in Configured /\ client' \in Configured
    BY <1>1 DEF RequestInv, Progressed, StateClient, At
  <2>2. TypeOK'
    BY <1>1, <2>1 DEF RequestInv, TypeOK, Goto
  <2>3. Progressed'
    BY <1>1, <2>1 DEF RequestInv, Progressed, StateClient, At, Goto, HasState, Searching, Found
  <2>4. RowOnChain'
    BY <1>1 DEF RequestInv, RowOnChain, Goto
  <2> QED BY <2>2, <2>3, <2>4 DEF RequestInv
<1> QED BY <1>1, AnswerKeeps DEF StateClient

LEMMA BlockKeeps == RequestInv /\ BlockNumber => RequestInv'
<1> SUFFICES ASSUME RequestInv, BlockNumber PROVE RequestInv'
  OBVIOUS
<1>0. /\ pc = "block" /\ heads[client] \in Blocks /\ req \in Request
      /\ req.chain \in Configured /\ heads[req.chain] \in Blocks
      /\ req.block <= heads[req.chain]
  BY DEF RequestInv, TypeOK, Progressed, BlockNumber, At, HasState
<1>1. CASE SearchFrom(heads[client]) /\ UNCHANGED <<requestVars, heads>>
  <2>1. TypeOK'
    <3>1. heads[client] <= heads[client]
      BY <1>0 DEF Blocks
    <3> QED BY <1>0, <1>1, <3>1 DEF RequestInv, TypeOK, SearchFrom, requestVars
  <2>2. Progressed'
    BY <1>0, <1>1 DEF RequestInv, Progressed, SearchFrom, requestVars, HasState, Searching,
                      Found, Blocks
  <2>3. RowOnChain'
    BY <1>1 DEF RequestInv, RowOnChain, SearchFrom, requestVars
  <2> QED BY <2>1, <2>2, <2>3 DEF RequestInv
<1>2. CASE /\ target = 0 /\ pc' = "done" /\ number' = req.block
           /\ UNCHANGED <<times, target, latest, held, cut, requestVars, heads>>
  <2>1. req.block \in Blocks
    BY <1>0 DEF Request, Blocks
  <2>2. TypeOK'
    BY <1>2, <2>1 DEF RequestInv, TypeOK, requestVars
  <2>3. Progressed'
    BY <1>0, <1>2 DEF RequestInv, Progressed, requestVars, HasState, Searching, Found
  <2>4. RowOnChain'
    BY <1>2 DEF RequestInv, RowOnChain, requestVars
  <2> QED BY <2>2, <2>3, <2>4 DEF RequestInv
<1> QED BY <1>1, <1>2, AnswerKeeps DEF BlockNumber

\* The search moves between genesis and the head it began at.
LEMMA SearchInRange ==
    ASSUME RequestInv, Search
    PROVE  /\ pc \in Searching /\ pc' \in Searching \cup {"done", "error"}
           /\ number' \in Blocks /\ held' \in Blocks
           /\ number' <= latest /\ held' <= latest
           /\ cut' \in {"no", "call", "genesis"}
           /\ UNCHANGED <<times, target, latest>>
<1> USE DEF Searching
<1>0. /\ times \in [Blocks -> Nat] /\ latest \in Blocks /\ number \in Blocks /\ held \in Blocks
      /\ pc \in Searching => number <= latest /\ held <= latest
      /\ cut \in {"no", "call", "genesis"}
  BY DEF RequestInv, TypeOK
<1>1. target \in Nat
  BY DEF RequestInv, TypeOK, Progressed, Request
<1>2. Decrease \in Int
  BY <1>0, <1>1 DEF Decrease
<1>3. CASE Jump
  BY <1>0, <1>2, <1>3 DEF Jump, Enter, MoveTo, Blocks
<1>4. CASE Forward
  BY <1>0, <1>4 DEF Forward, Enter, BreakTo, Return, MoveTo, Blocks
<1>5. CASE Backward
  BY <1>0, <1>5 DEF Backward, BreakTo, Return, MoveTo, Blocks
<1> QED BY <1>3, <1>4, <1>5 DEF Search

LEMMA SearchKeeps == RequestInv /\ SearchStep => RequestInv'
<1> SUFFICES ASSUME RequestInv, Search, UNCHANGED <<requestVars, heads>> PROVE RequestInv'
  BY DEF SearchStep
<1> USE SearchInRange
<1>1. TypeOK'
  BY DEF RequestInv, TypeOK, Searching, requestVars
<1>2. /\ latest \in Blocks /\ number' \in Blocks /\ client \in Configured
      /\ heads[client] \in Blocks
  BY DEF RequestInv, TypeOK
<1>3. Progressed'
  BY <1>2 DEF RequestInv, Progressed, HasState, Searching, Found, requestVars, Blocks
<1>4. RowOnChain'
  BY DEF RequestInv, RowOnChain, requestVars
<1> QED BY <1>1, <1>3, <1>4 DEF RequestInv

\* GetState and Lookup.
LEMMA ReadKeeps ==
    ASSUME RequestInv, NEW next \in {"lookup", "latest"}, pc \in {"done", "lookup"},
           Goto(next), UNCHANGED requestVars
    PROVE  RequestInv'
<1>1. TypeOK'
  BY DEF RequestInv, TypeOK, Goto, requestVars
<1>2. Progressed'
  BY DEF RequestInv, Progressed, Goto, requestVars, HasState, Searching, Found
<1>3. RowOnChain'
  BY DEF RequestInv, RowOnChain, Goto, requestVars
<1> QED BY <1>1, <1>2, <1>3 DEF RequestInv

LEMMA LatestKeeps == RequestInv /\ LatestBlock => RequestInv'
<1> SUFFICES ASSUME RequestInv, LatestBlock PROVE RequestInv'
  OBVIOUS
<1>1. CASE /\ seen' = heads[client] /\ Goto("create")
           /\ UNCHANGED <<req, client, row, answer>>
  <2>0. heads[client] \in Blocks
    BY DEF RequestInv, TypeOK
  <2>1. TypeOK'
    BY <1>1, <2>0 DEF RequestInv, TypeOK, Goto
  <2>2. Progressed'
    BY <1>1, <2>0 DEF RequestInv, Progressed, LatestBlock, At, Goto, HasState, Searching,
                      Found, Blocks
  <2>3. RowOnChain'
    BY <1>1 DEF RequestInv, RowOnChain, Goto
  <2> QED BY <2>1, <2>2, <2>3 DEF RequestInv
<1> QED BY <1>1, AnswerKeeps DEF LatestBlock

LEMMA CreateKeeps == RequestInv /\ CreateTask => RequestInv'
<1> SUFFICES ASSUME RequestInv, CreateTask PROVE RequestInv'
  OBVIOUS
<1>1. CASE /\ row' = [block |-> number, status |-> StatusFor(number)]
           /\ Goto("process") /\ UNCHANGED <<req, client, seen, answer>>
  <2>1. TypeOK'
    BY <1>1 DEF RequestInv, TypeOK, Goto, StatusFor
  <2>2. Progressed'
    BY <1>1 DEF RequestInv, Progressed, CreateTask, At, Goto, HasState, Searching, Found
  <2>3. /\ number \in Blocks /\ seen \in Blocks /\ client \in Configured
        /\ heads[client] \in Blocks /\ seen <= heads[client]
        /\ req.chain # 1 => client = req.chain /\ number <= heads[client]
    BY DEF RequestInv, TypeOK, Progressed, CreateTask, At, HasState, Found
  <2>4. RowOnChain'
    BY <1>1, <2>3 DEF RowOnChain, Goto, StatusFor, Blocks
  <2> QED BY <2>1, <2>2, <2>4 DEF RequestInv
<1> QED BY <1>1, AnswerKeeps DEF CreateTask

LEMMA MineKeeps == ASSUME RequestInv, NEW c \in Configured, Mine(c) PROVE RequestInv'
<1>0. /\ heads \in [Configured -> Blocks] /\ heads[c] \in Blocks /\ heads[c] < MaxHead
      /\ heads' = [heads EXCEPT ![c] = heads[c] + 1]
      /\ UNCHANGED <<searchVars, requestVars>>
  BY DEF RequestInv, TypeOK, Mine
<1>1. /\ heads' \in [Configured -> Blocks]
      /\ \A x \in Configured : heads[x] <= heads'[x]
  BY <1>0 DEF Blocks
<1>2. TypeOK'
  BY <1>0, <1>1 DEF RequestInv, TypeOK, searchVars, requestVars
<1>3. /\ client \in Configured /\ latest \in Blocks /\ number \in Blocks /\ seen \in Blocks
      /\ req.block \in Nat
  BY DEF RequestInv, TypeOK, Request
<1>4. Progressed'
  BY <1>0, <1>1, <1>3 DEF RequestInv, Progressed, searchVars, requestVars, HasState,
                          Searching, Found, Blocks
<1>5. row \in [block : Blocks, status : {"none", "pending", "confirming"}]
  BY DEF RequestInv, TypeOK
<1>6. RowOnChain'
  <2>1. CASE row # NoRow /\ req.chain # 1
    <3>1. req.chain \in Configured
      BY <2>1 DEF RequestInv, Progressed
    <3>2. /\ row.block \in Blocks /\ heads[req.chain] \in Blocks
          /\ heads'[req.chain] \in Blocks /\ heads[req.chain] <= heads'[req.chain]
      BY <1>0, <1>1, <1>5, <3>1
    <3> QED BY <1>0, <2>1, <3>2 DEF RequestInv, RowOnChain, requestVars, Blocks
  <2>2. CASE row = NoRow \/ req.chain = 1
    BY <1>0, <2>2 DEF RowOnChain, requestVars
  <2> QED BY <2>1, <2>2
<1> QED BY <1>2, <1>4, <1>6 DEF RequestInv

LEMMA StepRequest == RequestInv /\ [Next]_vars => RequestInv'
<1> SUFFICES ASSUME RequestInv, [Next]_vars PROVE RequestInv'
  OBVIOUS
<1>1. CASE GetTaskConsensusByTaskID \/ GetConsensusResponseByRequest
  BY <1>1, AnswerKeeps DEF GetTaskConsensusByTaskID, GetConsensusResponseByRequest, ConsensusQuery
<1>2. CASE GetState \/ Lookup
  BY <1>2, AnswerKeeps, ReadKeeps DEF GetState, Lookup, At
<1>3. CASE SearchError \/ ProcessTask
  BY <1>3, AnswerKeeps DEF SearchError, ProcessTask
<1>4. CASE UNCHANGED vars
  <2>1. TypeOK'
    BY <1>4 DEF vars, searchVars, requestVars, RequestInv, TypeOK
  <2>2. Progressed'
    BY <1>4 DEF vars, searchVars, requestVars, RequestInv, Progressed
  <2>3. RowOnChain'
    BY <1>4 DEF vars, requestVars, RequestInv, RowOnChain
  <2> QED BY <2>1, <2>2, <2>3 DEF RequestInv
<1> QED BY <1>1, <1>2, <1>3, <1>4, ValidateKeeps, EpochKeeps, ClientKeeps, BlockKeeps,
           SearchKeeps, LatestKeeps, CreateKeeps, MineKeeps DEF Next, Handler

\* Types, and the search stays between genesis and the head it began at
\* (TimestampToBlockNumber subtracts unsigned numbers), whatever fails.
THEOREM RequestTypes == Spec => []TypeOK
<1>1. RequestInv => TypeOK
  BY DEF RequestInv
<1> QED BY <1>1, InitRequest, StepRequest, PTL DEF Spec

\* A task is about a block its chain has, pending only with its confirmations.
THEOREM RowCorrect == Spec => []RowOnChain
<1>1. RequestInv => RowOnChain
  BY DEF RequestInv
<1> QED BY <1>1, InitRequest, StepRequest, PTL DEF Spec

----------------------------------------------------------------------------
(* The search finds the nearest block                                      *)

\* No block n is closer to the target, of those the search could look at and,
\* when the target is not beyond them, of all later ones.
Closest ==
    \A n \in Blocks : n <= latest \/ target <= times[latest] => Distance(number) <= Distance(n)

\* Between the passes: the block in hand is the one the number says, but after a
\* jump past genesis; and the forward walk leaves a block before the target only
\* when it is the last.
SearchInv ==
    /\ pc \in {"validate", "epoch", "client", "block"} => cut = "no"
    /\ pc \in Searching /\ cut = "no" => held = number
    /\ pc \in Searching /\ cut = "genesis" => number = 0 /\ times[held] > target
    /\ pc = "jump" => cut = "no"
    /\ pc = "forward" => cut # "call"
    /\ pc = "backward" /\ cut = "no" /\ times[held] < target => held = latest
    /\ pc = "done" /\ target # 0 /\ Uncut => Closest

\* The times as numbers, in their order.
LEMMA Ordered ==
    ASSUME RequestInv
    PROVE  /\ \A m \in Blocks : times[m] \in Nat
           /\ \A m, n \in Blocks : m <= n => times[m] <= times[n]
           /\ target \in Nat
           /\ latest \in Blocks /\ number \in Blocks /\ held \in Blocks
           /\ pc \in Searching => number <= latest /\ held <= latest
           /\ cut \in {"no", "call", "genesis"}
<1>1. times \in Chains /\ times \in [Blocks -> Nat]
  BY DEF RequestInv, Progressed, TypeOK
<1>2. \A m, n \in Blocks : m <= n => times[m] <= times[n]
  BY <1>1, SearchAssumption
<1>3. target \in Nat
  BY DEF RequestInv, TypeOK, Progressed, Request
<1> QED BY <1>1, <1>2, <1>3 DEF RequestInv, TypeOK, Searching

\* A block before the target whose successor is after it: one of the two is nearest.
LEMMA BetweenIsClosest ==
    ASSUME RequestInv, NEW m \in Blocks, m + 1 \in Blocks, m + 1 <= latest,
           times[m] <= target, target <= times[m + 1],
           NEW c \in {m, m + 1},
           IF target - times[m] < times[m + 1] - target THEN c = m ELSE c = m + 1,
           NEW n \in Blocks
    PROVE  Distance(c) <= Distance(n)
<1>1. \/ n <= m /\ times[n] <= times[m]
      \/ m + 1 <= n /\ times[m + 1] <= times[n]
  BY Ordered DEF Blocks
<1>2. times[n] \in Nat /\ times[m] \in Nat /\ times[m + 1] \in Nat /\ target \in Nat
  BY Ordered
<1> QED BY <1>1, <1>2 DEF Distance

LEMMA JumpFinds == ASSUME RequestInv, SearchInv, Jump PROVE SearchInv'
BY Ordered DEF SearchInv, Searching, Jump, Enter, MoveTo

LEMMA ForwardFinds == ASSUME RequestInv, SearchInv, Forward PROVE SearchInv'
<1> DEFINE next == number + 1
<1>0. /\ pc = "forward" /\ cut # "call" /\ held \in Blocks /\ number \in Blocks
      /\ latest \in Blocks /\ number <= latest
      /\ cut = "no" => held = number
      /\ cut = "genesis" => times[held] > target
      /\ cut \in {"no", "genesis"}
      /\ times[held] \in Nat /\ target \in Nat
  BY Ordered DEF Forward, SearchInv, Searching
<1>1. CASE /\ times[held] >= target \/ next > latest
           /\ Enter("backward")
  BY <1>0, <1>1 DEF SearchInv, Searching, Enter, Blocks
<1>2. CASE BreakTo("backward")
  BY <1>2 DEF SearchInv, Searching, BreakTo
<1>3. CASE /\ times[held] < target /\ next <= latest /\ times[next] > target
           /\ Return(IF target - times[held] < times[next] - target THEN number ELSE next)
  <2>1. cut = "no" /\ held = number /\ next \in Blocks /\ times[next] \in Nat
    BY <1>0, <1>3, Ordered DEF Blocks
  <2>2. /\ number' \in {number, next}
        /\ IF target - times[number] < times[next] - target
           THEN number' = number ELSE number' = next
    BY <1>3, <2>1 DEF Return
  <2>3. \A n \in Blocks : Distance(number') <= Distance(n)
    <3> HIDE DEF next
    <3>1. TAKE n \in Blocks
    <3>2. times[number] <= target /\ target <= times[next]
      BY <1>0, <1>3, <2>1
    <3> QED BY <1>0, <1>3, <2>1, <2>2, <3>2, BetweenIsClosest DEF next
  <2> QED BY <1>3, <2>1, <2>3 DEF SearchInv, Searching, Closest, Distance, Return
<1>4. CASE times[held] < target /\ next <= latest /\ MoveTo(next)
  BY <1>0, <1>4 DEF SearchInv, Searching, MoveTo
<1> QED BY <1>0, <1>1, <1>2, <1>3, <1>4 DEF Forward

LEMMA BackwardFinds == ASSUME RequestInv, SearchInv, Backward PROVE SearchInv'
<1> DEFINE prev == number - 1
<1>0. /\ pc = "backward" /\ held \in Blocks /\ number \in Blocks /\ latest \in Blocks
      /\ number <= latest /\ held <= latest
      /\ cut = "no" => held = number
      /\ cut = "no" /\ times[held] < target => held = latest
      /\ cut = "genesis" => number = 0 /\ times[held] > target
      /\ cut \in {"no", "call", "genesis"}
      /\ times[held] \in Nat /\ times[number] \in Nat /\ target \in Nat
  BY Ordered DEF Backward, SearchInv, Searching
<1>1. CASE (times[held] <= target \/ number = 0) /\ Return(number)
  <2>1. SUFFICES ASSUME Uncut, NEW n \in Blocks, n <= latest \/ target <= times[latest]
                 PROVE  Distance(number) <= Distance(n)
    BY <1>1 DEF SearchInv, Searching, Closest, Distance, Return, Uncut
  <2>2. times[n] \in Nat /\ 0 \in Blocks /\ times[0] \in Nat /\ times[0] <= times[n]
    BY Ordered DEF Blocks
  <2>3. CASE times[number] = target
    BY <1>0, <2>2, <2>3 DEF Distance
  <2>4. CASE number = 0 /\ target <= times[0]
    BY <1>0, <2>2, <2>4 DEF Distance
  <2>5. CASE number = latest /\ times[number] < target
    <3>1. n <= latest /\ times[n] <= times[latest]
      BY <1>0, <2>1, <2>5, Ordered
    <3> QED BY <1>0, <2>2, <2>5, <3>1 DEF Distance
  <2> QED BY <1>0, <1>1, <2>1, <2>3, <2>4, <2>5 DEF Uncut
<1>2. CASE BreakTo("done")
  BY <1>2 DEF SearchInv, Searching, BreakTo, Uncut
<1>3. CASE /\ times[held] > target /\ number # 0 /\ times[prev] < target
           /\ Return(IF target - times[prev] < times[held] - target THEN prev ELSE number)
  <2>1. /\ prev \in Blocks /\ prev + 1 = number /\ times[prev] \in Nat
        /\ cut = "no" \/ cut = "call"
    BY <1>0, <1>3, Ordered DEF Blocks
  <2>2. CASE cut = "no"
    <3>1. /\ number' \in {prev, number}
          /\ IF target - times[prev] < times[number] - target
             THEN number' = prev ELSE number' = number
      BY <1>0, <1>3, <2>2 DEF Return
    <3>2. times[prev] <= target /\ target <= times[number]
      BY <1>0, <1>3, <2>1, <2>2
    <3>3. \A n \in Blocks : Distance(number') <= Distance(n)
      <4> HIDE DEF prev
      <4> QED BY <1>0, <2>1, <3>1, <3>2, BetweenIsClosest
    <3> QED BY <1>3, <2>2, <3>3 DEF SearchInv, Searching, Closest, Distance, Return
  <2>3. CASE cut = "call"
    BY <1>3, <2>3 DEF SearchInv, Searching, Return, Uncut
  <2> QED BY <2>1, <2>2, <2>3
<1>4. CASE number # 0 /\ times[prev] >= target /\ MoveTo(prev)
  <2>1. prev \in Blocks /\ times[prev] \in Nat
    BY <1>0, <1>4, Ordered DEF Blocks
  <2> QED BY <1>0, <1>4, <2>1 DEF SearchInv, Searching, MoveTo
<1> QED BY <1>0, <1>1, <1>2, <1>3, <1>4 DEF Backward

LEMMA StepSearch == RequestInv /\ SearchInv /\ [Next]_vars => SearchInv'
<1> SUFFICES ASSUME RequestInv, SearchInv, [Next]_vars PROVE SearchInv'
  OBVIOUS
<1>1. CASE SearchStep
  BY <1>1, JumpFinds, ForwardFinds, BackwardFinds DEF SearchStep, Search
<1>2. CASE \E a \in {"answered", "epoch", "client", "block", "lookup", "latest", "create", "process"} :
             Goto(a) /\ (a \in {"epoch", "client", "block"} => cut = "no")
  BY <1>2 DEF SearchInv, Searching, Goto
<1>3. CASE BlockNumber
  <2>1. CASE SearchFrom(heads[client])
    BY <1>3, <2>1 DEF SearchInv, Searching, BlockNumber, At, SearchFrom
  <2>2. CASE target = 0 /\ target' = target /\ pc' = "done"
    BY <1>3, <2>2 DEF SearchInv, Searching, BlockNumber, At
  <2> QED BY <1>2, <1>3, <2>1, <2>2 DEF BlockNumber, Answer
<1>4. CASE UNCHANGED searchVars
  BY <1>4 DEF searchVars, SearchInv, Closest, Distance, Uncut
<1>5. pc \in {"validate", "epoch", "client"} => cut = "no"
  BY DEF SearchInv
<1>6. CASE \/ GetTaskConsensusByTaskID \/ GetConsensusResponseByRequest \/ ValidateRequest
           \/ GetCurrentEpoch \/ StateClient
  BY <1>2, <1>5, <1>6 DEF GetTaskConsensusByTaskID, GetConsensusResponseByRequest, ValidateRequest,
        GetCurrentEpoch, StateClient, At, Answer
<1>7. CASE SearchError \/ GetState \/ Lookup \/ LatestBlock \/ CreateTask \/ ProcessTask
  BY <1>2, <1>7 DEF SearchError, GetState, Lookup, LatestBlock, CreateTask, ProcessTask, Answer
<1> QED BY <1>1, <1>3, <1>4, <1>6, <1>7 DEF Next, Handler, Mine, vars

\* TimestampToBlockNumber returns the nearest block of a chain, however its blocks
\* are spaced and whatever has been mined since, unless a call of the walks failed
\* or a jump went past genesis though block 0 is before the timestamp.
THEOREM NearestCorrect == Spec => []Nearest
<1>1. Init => SearchInv
  BY DEF Init, SearchInv, Searching
<1>2. RequestInv /\ SearchInv => Nearest
  <2> SUFFICES ASSUME RequestInv, SearchInv, pc = "done", target # 0, Uncut,
                      NEW n \in 0 .. (IF target <= times[latest] THEN heads[client] ELSE latest)
               PROVE  Distance(number) <= Distance(n)
    BY DEF Nearest
  <2>1. heads[client] \in Blocks /\ latest \in Blocks
    BY DEF RequestInv, TypeOK
  <2>2. n \in Blocks /\ (n <= latest \/ target <= times[latest])
    BY <2>1 DEF Blocks
  <2> QED BY <2>2 DEF SearchInv, Closest
<1> QED BY <1>1, <1>2, InitRequest, StepRequest, StepSearch, PTL DEF Spec

=============================================================================
