---------------------------- MODULE SendRequest ----------------------------
(***************************************************************************)
(* One request to the API server (pkg/operator/api).  A POST is validated, *)
(* the block of a timestamp is searched for, the value is read, and a task *)
(* is created with the status its confirmations give it; a GET looks for a *)
(* consensus.  The chains grow all the while, every call may fail, and a   *)
(* panic is answered by the router.  What other requests and the task      *)
(* processor do to the tables is a choice at each look; TaskProcessor      *)
(* follows it.                                                             *)
(***************************************************************************)
EXTENDS BlockSearch

CONSTANTS
    Mainnet,         \* MainnetChainID
    Configured,      \* the chains of the configuration, Mainnet among them
    Confirmations,   \* required_confirmations
    Requests,        \* bodies of requests, see Request
    Now              \* the time of the node

\* A route; whether the body or the numbers in the query parse; and what they
\* say.  A key is decimal, or written in a way only base 0 reads, or no uint256.
\* A block number or timestamp of 0 is one that is not given.
Routes  == {"tasks", "consensus", "consensus/tasks"}
Request == [route : Routes, parses : BOOLEAN, chain : Nat, address : BOOLEAN,
            key : {"decimal", "prefixed", "none"}, block : Nat, timestamp : Nat]

ASSUME RequestAssumption ==
    /\ Mainnet \in Configured /\ Configured \subseteq Nat
    /\ Confirmations \in Nat \ {0}
    /\ Requests \subseteq Request
    /\ Now \in Nat

VARIABLES
    req,       \* the body of the request
    heads,     \* the latest block of each chain
    client,    \* the chain of stateClient
    seen,      \* latestBlock
    row,       \* the task created: its block and status
    answer     \* what the client is told

requestVars == <<req, client, seen, row, answer>>
vars == <<searchVars, requestVars, heads>>

NoRow == [block |-> 0, status |-> "none"]

Init ==
    /\ req \in Requests
    /\ target = req.timestamp
    /\ times \in Chains
    /\ target = 0 => times = CHOOSE t \in Chains : TRUE   \* nobody looks at times
    /\ \E h \in Blocks : heads = [c \in Configured |-> h]
    /\ pc = "validate" /\ latest = 0 /\ number = 0 /\ held = 0 /\ cut = "no"
    /\ client = Mainnet /\ seen = 0 /\ row = NoRow /\ answer = "none"

----------------------------------------------------------------------------

Goto(next) == pc' = next /\ UNCHANGED <<times, target, latest, number, held, cut, heads>>

\* writeError and writeSuccess: the handler returns.
Answer(a) == answer' = a /\ Goto("answered") /\ UNCHANGED <<req, client, seen, row>>

At(step) == pc = step

\* Blocks are mined between any two calls of the handler, on the chain asked
\* about and on the one looked at.
Mine(c) ==
    /\ pc # "answered" /\ heads[c] < MaxHead
    /\ c = req.chain \/ (c = Mainnet /\ req.chain = 1)
    /\ heads' = [heads EXCEPT ![c] = @ + 1]
    /\ UNCHANGED <<searchVars, requestVars>>

\* GetClientByChainId.
HasClient(chain) == chain \in Configured

\* The body is decoded; then the parts of validateRequest that need no call.
WellFormed(r) ==
    /\ r.parses
    /\ r.chain > 0 /\ r.chain \in Configured
    /\ r.address
    /\ r.key # "none"
    /\ r.block = 0 <=> r.timestamp # 0
    /\ r.timestamp <= Now

\* A block number is compared with the head of the chain it is about.
ValidateRequest ==
    /\ At("validate") /\ req.route = "tasks"
    /\ \/ ~WellFormed(req) /\ Answer("bad request")
       \/ WellFormed(req) /\ req.block # 0 /\ Answer("bad request")
       \/ /\ WellFormed(req)
          /\ req.block # 0 => HasClient(req.chain) /\ req.block <= heads[req.chain]
          /\ Goto("epoch") /\ UNCHANGED requestVars

\* GetMainnetClient and its current epoch.
GetCurrentEpoch ==
    /\ At("epoch")
    /\ \/ HasClient(Mainnet) /\ Goto("client") /\ UNCHANGED requestVars
       \/ Answer("internal error")

\* Chain 1 is served by the mainnet client, which is one of chain Mainnet.
StateClient ==
    /\ At("client")
    /\ \/ /\ req.chain = 1 \/ HasClient(req.chain)
          /\ client' = IF req.chain = 1 THEN Mainnet ELSE req.chain
          /\ Goto("block") /\ UNCHANGED <<req, seen, row, answer>>
       \/ req.chain # 1 /\ ~HasClient(req.chain) /\ Answer("bad request")

\* A timestamp is searched for from the head of the chain; a block number is
\* taken as it is.
BlockNumber ==
    /\ At("block")
    /\ \/ target # 0 /\ SearchFrom(heads[client]) /\ UNCHANGED <<requestVars, heads>>
       \/ target # 0 /\ Answer("internal error")
       \/ /\ target = 0
          /\ pc' = "done" /\ number' = req.block
          /\ UNCHANGED <<times, target, latest, held, cut, requestVars, heads>>

SearchStep == Search /\ UNCHANGED <<requestVars, heads>>

SearchError == At("error") /\ Answer("internal error")

\* Base 10 only: any other key is a nil pointer.
StringToBigInt(key) == IF key = "decimal" THEN "number" ELSE "nil"

\* The value at the block, and the task ID.  A nil key is dereferenced when the
\* call is packed; the router recovers.
GetState ==
    /\ At("done")
    /\ \/ StringToBigInt(req.key) = "nil" /\ Answer("recovered")
       \/ StringToBigInt(req.key) # "nil" /\ Answer("internal error")
       \/ StringToBigInt(req.key) # "nil" /\ Goto("lookup") /\ UNCHANGED requestVars

\* GetConsensusResponseByTaskId and GetTaskByID.
Lookup ==
    /\ At("lookup")
    /\ \/ Goto("latest") /\ UNCHANGED requestVars
       \/ \E a \in {"completed", "exists", "internal error"} : Answer(a)

LatestBlock ==
    /\ At("latest")
    /\ \/ /\ seen' = heads[client]
          /\ Goto("create") /\ UNCHANGED <<req, client, row, answer>>
       \/ Answer("internal error")

\* Mutant of StatusFor: the confirmations are not added.
StatusAtBlock(block) == IF seen < block THEN "confirming" ELSE "pending"

StatusFor(block) == IF seen < block + Confirmations THEN "confirming" ELSE "pending"

\* CreateTask fails if another request has just created the row.
CreateTask ==
    /\ At("create")
    /\ \/ Answer("internal error")
       \/ /\ row' = [block |-> number, status |-> StatusFor(number)]
          /\ Goto("process") /\ UNCHANGED <<req, client, seen, answer>>

\* A pending task is processed at once; an error there only changes the message.
\* When its response is counted before the node has read a threshold, the
\* comparison with nil panics, and the router answers.
ProcessTask ==
    /\ At("process")
    /\ \/ Answer("created")
       \/ row.status = "pending" /\ Answer("recovered")

\* The two queries: a row, none (nil), or an error.
ConsensusQuery == {"found", "not found", "internal error"}

GetTaskConsensusByTaskID ==
    /\ At("validate") /\ req.route = "consensus/tasks"
    /\ \E a \in ConsensusQuery : Answer(a)

\* A key that base 10 does not read is a nil number, of which the driver makes a
\* panic or an error.
GetConsensusResponseByRequest ==
    /\ At("validate") /\ req.route = "consensus"
    /\ \/ ~(req.address /\ req.parses) /\ Answer("bad request")
       \/ /\ req.address /\ req.parses
          /\ \E a \in IF StringToBigInt(req.key) = "nil"
                      THEN {"recovered", "internal error"} ELSE ConsensusQuery : Answer(a)

Handler ==
    \/ GetTaskConsensusByTaskID \/ GetConsensusResponseByRequest
    \/ ValidateRequest \/ GetCurrentEpoch \/ StateClient \/ BlockNumber
    \/ SearchStep \/ SearchError \/ GetState \/ Lookup \/ LatestBlock
    \/ CreateTask \/ ProcessTask

Next == Handler \/ \E c \in Configured : Mine(c)

Spec == Init /\ [][Next]_vars

\* Every call is answered or fails: the router cancels it after 30 seconds.
LiveSpec == Spec /\ WF_vars(Handler)

----------------------------------------------------------------------------
(* Properties                                                              *)

\* Types; and the search only ever asks for blocks between genesis and the head
\* it began at: no subtraction of unsigned block numbers goes below 0, whatever
\* fails.
TypeOK ==
    /\ times \in [Blocks -> Nat]
    /\ latest \in Blocks /\ number \in Blocks /\ held \in Blocks
    /\ pc \in {"validate", "epoch", "client", "block", "jump", "forward", "backward",
               "done", "error", "lookup", "latest", "create", "process", "answered"}
    /\ pc \in {"jump", "forward", "backward"} => number <= latest /\ held <= latest
    /\ cut \in {"no", "call", "genesis"}
    /\ req \in Request
    /\ heads \in [Configured -> Blocks]
    /\ client \in Configured /\ seen \in Blocks
    /\ row \in [block : Blocks, status : {"none", "pending", "confirming"}]
    /\ answer \in {"none", "bad request", "internal error", "recovered", "completed",
                   "exists", "created", "found", "not found"}

Distance(n) ==
    IF times[n] < target THEN target - times[n] ELSE times[n] - target

\* "TimestampToBlockNumber converts a timestamp to its nearest block number":
\* whatever mixture of jumps and steps led to it, no block is closer to the
\* timestamp than the one found, nor is any block mined since, if the timestamp
\* was not beyond the head the search began at.  So operators that are asked at
\* different times find the same block, unless two blocks are equally near.  Not so
\* if a call of the walks fails, nor if the chain is slower than its average, and a
\* jump goes past genesis though block 0 is too old.
Uncut == cut = "no" \/ (cut = "genesis" /\ target <= times[0])

Nearest ==
    pc = "done" /\ target # 0 /\ Uncut =>
        \A n \in 0 .. (IF target <= times[latest] THEN heads[client] ELSE latest) :
            Distance(number) <= Distance(n)

\* A task is about a block that its chain has, and is pending only when the
\* block has its confirmations there, though the head is read up to three times
\* and moves in between.  Not so for chain 1, whose blocks are validated on
\* chain 1 and looked up on Mainnet.
RowOnChain ==
    row # NoRow /\ req.chain # 1 =>
        /\ row.block <= heads[req.chain]
        /\ row.status = "pending" => row.block + Confirmations <= heads[req.chain]

\* Every request is answered, also one whose search walks over failing blocks
\* and one whose key ends in a panic.
Answered == <>(pc = "answered")

============================================================================
