--------------------------- MODULE StartupProofs ---------------------------
(***************************************************************************)
(* Theorems about init, Run and Shutdown, for every set of configurations. *)
(***************************************************************************)
EXTENDS Startup, TLAPS

\* The steps of Run up to the one that makes a part, and the outcome of none.
UpToDb     == {"idle", "config", "metrics", "signer", "database"}
UpToCache  == UpToDb \cup {"cache"}
UpToChains == UpToCache \cup {"chains"}
UpToHost   == UpToChains \cup {"listener", "gater", "host"}
UpToNode   == UpToHost \cup {"node"}

\* The fields follow the step Run is at: nil before it, set behind it.  A Run that
\* has failed says nothing.
Assigned(field, upto) ==
    /\ run \in upto => field \notin fields
    /\ run \notin upto \cup {"failed"} => field \in fields

FieldsFollow ==
    /\ Assigned("db", UpToDb) /\ Assigned("redisConn", UpToCache)
    /\ Assigned("chainManager", UpToChains) /\ Assigned("node", UpToNode)
    /\ main = "shell" => run = "idle"

\* What has been opened: the clients are those of the configuration.
ClientsFollow ==
    /\ run \in UpToChains => clients = {}
    /\ clients \subseteq Chains
    /\ "chainManager" \in fields =>
          /\ MainnetChainID \in Chains
          /\ main \in {"shell", "wait"} => clients = Chains
    /\ "api" \in running => "chainManager" \in fields

\* Shutdown has closed a resource, or has found its field nil.
Done(field, closed) == field \in missed \/ (field \in fields /\ closed)

ShutdownFollows ==
    /\ open \subseteq {"db", "redis", "host"}
    /\ main \in {"redis", "node", "chains", "stopped"} => Done("db", "db" \notin open)
    /\ main \in {"node", "chains", "stopped"} => Done("redisConn", "redis" \notin open)
    /\ main \in {"chains", "stopped"} => Done("node", "host" \notin open)
    /\ main = "stopped" => Done("chainManager", clients = {})

\* A signal that is taken late enough finds no field nil.
LateSignal ==
    /\ main \in {"shell", "wait"} => missed = {} /\ early = FALSE
    /\ main \notin {"shell", "wait", "exited"} /\ ~early => run = "serving" /\ missed = {} /\ main # "panic"

StartInv == FieldsFollow /\ ClientsFollow /\ ShutdownFollows /\ LateSignal

LEMMA InitStart == Init => StartInv
<1> SUFFICES ASSUME Init PROVE StartInv
  OBVIOUS
<1> USE DEF UpToDb, UpToCache, UpToChains, UpToHost, UpToNode
<1>1. FieldsFollow
  BY DEF Init, FieldsFollow, Assigned
<1>2. ClientsFollow
  BY DEF Init, ClientsFollow
<1>3. ShutdownFollows /\ LateSignal
  BY DEF Init, ShutdownFollows, LateSignal
<1> QED BY <1>1, <1>2, <1>3 DEF StartInv

\* A step of Run that opens at most what no field stands for yet.
LEMMA RunKeeps ==
    ASSUME StartInv, Alive, main' = main, UNCHANGED <<early, missed>>, run # "serving",
           fields \subseteq fields', open \subseteq open', open' \subseteq {"db", "redis", "host"},
           "db" \in open' \ open => "db" \notin fields,
           "redis" \in open' \ open => "redisConn" \notin fields,
           "host" \in open' \ open => "node" \notin fields,
           FieldsFollow', ClientsFollow'
    PROVE  StartInv'
<1>1. ShutdownFollows'
  BY DEF StartInv, ShutdownFollows, Done, Alive
<1>2. LateSignal'
  BY DEF StartInv, LateSignal, Alive
<1> QED BY <1>1, <1>2 DEF StartInv

\* What the step at may open, and where it leads: past the part it makes, with
\* its field set.
Opens(at) == CASE at = "database" -> {"db"} [] at = "cache" -> {"redis"}
               [] at = "host" -> {"host"} [] OTHER -> {}

Leads(at, next, fs) ==
    /\ next \notin {"idle", "failed"}
    /\ next \in UpToDb <=> at \in UpToDb \ {"database"}
    /\ next \in UpToCache <=> at \in UpToCache \ {"cache"}
    /\ next \in UpToChains <=> at \in UpToChains
    /\ next \in UpToNode <=> at \in UpToNode \ {"node"}
    /\ "db" \in fs <=> at = "database"
    /\ "redisConn" \in fs <=> at = "cache"
    /\ "node" \in fs <=> at = "node"
    /\ "chainManager" \notin fs

\* A step of Run that has no part in the chains.
LEMMA GoKeeps ==
    ASSUME StartInv, NEW at, NEW next, Step(at), NEW fs, NEW rs, NEW gs,
           Go(next, fs, rs, gs), at \notin {"idle", "chains", "serving", "failed"},
           rs \subseteq Opens(at), "api" \in gs => at = "api",
           (next = "failed" /\ fs = {}) \/ Leads(at, next, fs)
    PROVE  StartInv'
<1> USE DEF UpToDb, UpToCache, UpToChains, UpToHost, UpToNode
<1>0. /\ run = at /\ Alive /\ UNCHANGED <<early, missed, main, cfg>>
      /\ run' = next /\ fields' = fields \cup fs /\ open' = open \cup rs
      /\ clients' = clients /\ running' = running \cup gs
  BY DEF Step, Go, GoWith
<1>1. FieldsFollow'
  BY <1>0 DEF StartInv, FieldsFollow, Assigned, Alive, Leads
<1>2. at = "api" => "chainManager" \in fields
  BY <1>0 DEF StartInv, FieldsFollow, Assigned
<1>3. ClientsFollow'
  BY <1>0, <1>2 DEF StartInv, ClientsFollow, Chains, Leads
<1>4. /\ "db" \in rs => "db" \notin fields
      /\ "redis" \in rs => "redisConn" \notin fields
      /\ "host" \in rs => "node" \notin fields
      /\ rs \subseteq {"db", "redis", "host"}
  BY <1>0 DEF StartInv, FieldsFollow, Assigned, Opens
<1>5. open \subseteq {"db", "redis", "host"}
  BY DEF StartInv, ShutdownFollows
<1> QED BY <1>0, <1>1, <1>3, <1>4, <1>5, RunKeeps

\* A step that calls a constructor.
LEMMA CallKeeps ==
    ASSUME StartInv, NEW at, NEW next, Step(at), NEW outcomes, NEW fs, NEW gs,
           Call(outcomes, next, fs, gs), at \notin {"idle", "chains", "serving", "failed"},
           \A o \in outcomes : o.open \subseteq Opens(at),
           "api" \in gs => at = "api", Leads(at, next, fs)
    PROVE  StartInv'
<1>1. PICK o \in outcomes :
          IF o.err THEN Go("failed", {}, o.open, {}) ELSE Go(next, fs, o.open, gs)
  BY DEF Call
<1>2. CASE Go("failed", {}, o.open, {})
  BY <1>2, GoKeeps
<1>3. CASE Go(next, fs, o.open, gs)
  BY <1>3, GoKeeps
<1> QED BY <1>1, <1>2, <1>3

\* What the constructors leave open.
LEMMA Outcomes ==
    /\ \A rs : Made(rs).open = rs /\ Failed(rs).open = rs /\ ~Made(rs).err /\ Failed(rs).err
    /\ \A fs, o : o \in Given(fs, {Made({})}) => o.open = {}
    /\ \A fs, o : o \in Given(fs, {Made({}), Failed({})}) => o.open = {}
    /\ \A fs, o : o \in Given(fs, {Failed({})}) => o.open = {}
BY DEF Made, Failed, Given

LEMMA CallsKeep ==
    ASSUME StartInv,
           \/ InitMetrics \/ InitSigner \/ InitDatabase \/ InitEventListener \/ InitGater
           \/ InitHost \/ InitNode \/ InitEpochUpdator \/ InitAPI \/ InitHealthChecker
    PROVE  StartInv'
<1> USE Outcomes DEF UpToDb, UpToCache, UpToChains, UpToHost, UpToNode, Leads, Opens
<1>1. CASE InitMetrics
  BY <1>1, GoKeeps DEF InitMetrics
<1>2. CASE InitSigner
  BY <1>2, CallKeeps DEF InitSigner, NewLocalSigner
<1>3. CASE InitDatabase
  BY <1>3, CallKeeps DEF InitDatabase, NewWPGXPool
<1>4. CASE InitEventListener
  <2> DEFINE out == Given({"mainnetClient", "repos"}, {Made({})})
  <2>1. \A o \in out : o.open \subseteq Opens("listener")
    BY Outcomes
  <2>2. Leads("listener", "gater", {})
    OBVIOUS
  <2>3. Step("listener") /\ Call(out, "gater", {}, {"listener"})
    BY <1>4 DEF InitEventListener
  <2> HIDE DEF out, Leads, Opens
  <2> QED BY <2>1, <2>2, <2>3, CallKeeps
<1>5. CASE InitGater
  BY <1>5, CallKeeps DEF InitGater, NewConnectionGater
<1>6. CASE InitHost
  BY <1>6, CallKeeps DEF InitHost
<1>7. CASE InitNode
  BY <1>7, CallKeeps DEF InitNode, NewNode
<1>8. CASE InitEpochUpdator
  <2>1. \A o \in Given({"repos", "mainnetClient", "db"}, {Made({})}) : o.open \subseteq {}
    BY Outcomes
  <2>2. Leads("updator", "processor", {"epochUpdator"})
    OBVIOUS
  <2> QED BY <1>8, <2>1, <2>2, CallKeeps DEF InitEpochUpdator
<1>9. CASE InitAPI
  <2>1. \A o \in NewHandler : o.open \subseteq {}
    BY DEF NewHandler
  <2>2. Leads("api", "health", {"apiServer"})
    OBVIOUS
  <2> QED BY <1>9, <2>1, <2>2, CallKeeps DEF InitAPI
<1>10. CASE InitHealthChecker
  <2> DEFINE out == Given({"node", "host"}, {Made({})})
  <2>1. \A o \in out : o.open \subseteq Opens("health")
    BY Outcomes
  <2>2. Leads("health", "serving", {})
    OBVIOUS
  <2>3. Step("health") /\ Call(out, "serving", {}, {})
    BY <1>10 DEF InitHealthChecker
  <2> HIDE DEF out, Leads, Opens
  <2> QED BY <2>1, <2>2, <2>3, CallKeeps
<1> QED BY <1>1, <1>2, <1>3, <1>4, <1>5, <1>6, <1>7, <1>8, <1>9, <1>10

LEMMA FatalKeeps ==
    ASSUME StartInv, NEW at, Step(at), Fatal PROVE StartInv'
BY DEF Step, Fatal, app, StartInv, FieldsFollow, Assigned, ClientsFollow, Chains,
       ShutdownFollows, LateSignal

LEMMA CacheKeeps == ASSUME StartInv, InitCache PROVE StartInv'
<1>1. Step("cache")
  BY DEF InitCache
<1>2. CASE Fatal
  BY <1>1, <1>2, FatalKeeps
<1>3. CASE Call(NewDCache({"redis"}), "chains", {"redisConn", "repos"}, {})
  <2>1. \A o \in NewDCache({"redis"}) : o.open \subseteq Opens("cache")
    BY Outcomes DEF NewDCache, Opens
  <2>2. Leads("cache", "chains", {"redisConn", "repos"})
    BY DEF Leads, UpToDb, UpToCache, UpToChains, UpToHost, UpToNode
  <2> QED BY <1>1, <1>3, <2>1, <2>2, CallKeeps
<1> QED BY <1>2, <1>3 DEF InitCache

LEMMA ProcessorKeeps == ASSUME StartInv, InitTaskProcessor PROVE StartInv'
<1> DEFINE out == Given({"chainManager", "signer", "epochUpdator", "repos", "host"},
                        {Made({}), Failed({})})
<1>1. Step("processor")
  BY DEF InitTaskProcessor
<1>2. CASE Fatal
  BY <1>1, <1>2, FatalKeeps
<1>3. \A o \in out : o.open \subseteq Opens("processor")
  BY Outcomes DEF Opens
<1>4. Leads("processor", "api", {"taskProcessor"})
  BY DEF Leads, UpToDb, UpToCache, UpToChains, UpToHost, UpToNode
<1>5. Fatal \/ Call(out, "api", {"taskProcessor"}, {"processor"})
  BY DEF InitTaskProcessor
<1> HIDE DEF out
<1> QED BY <1>1, <1>2, <1>3, <1>4, <1>5, CallKeeps

\* The configuration is read before there is a client of its chains.
LEMMA ConfigKeeps == ASSUME StartInv, InitConfig PROVE StartInv'
<1> USE DEF UpToDb, UpToCache, UpToChains, UpToHost, UpToNode
<1>0. /\ run = "config" /\ Alive /\ UNCHANGED <<early, missed, main, fields, open, clients, running>>
      /\ run' = "metrics" \/ run' = "failed"
  BY DEF InitConfig, Step
<1>1. FieldsFollow'
  BY <1>0 DEF StartInv, FieldsFollow, Assigned, Alive
<1>2. clients = {} /\ "chainManager" \notin fields /\ "api" \notin running
  BY <1>0 DEF StartInv, FieldsFollow, Assigned, ClientsFollow
<1>3. ClientsFollow'
  BY <1>0, <1>2 DEF ClientsFollow
<1>4. open \subseteq {"db", "redis", "host"}
  BY DEF StartInv, ShutdownFollows
<1> QED BY <1>0, <1>1, <1>3, <1>4, RunKeeps

LEMMA ChainsKeep == ASSUME StartInv, InitChainManager PROVE StartInv'
<1> USE DEF UpToDb, UpToCache, UpToChains, UpToHost, UpToNode
<1>1. PICK o \in NewManager(Chains) :
          IF ~o.err /\ MainnetChainID \in Chains
          THEN GoWith("listener", {"chainManager", "mainnetClient"}, {}, o.open, {})
          ELSE GoWith("failed", {}, {}, o.open, {})
  BY DEF InitChainManager
<1>2. o.open \subseteq Chains /\ (~o.err => o.open = Chains)
  BY DEF NewManager, Made, Failed
<1>3. /\ run = "chains" /\ Alive /\ UNCHANGED <<early, missed>>
      /\ clients = {} /\ "chainManager" \notin fields /\ "api" \notin running
      /\ open \subseteq {"db", "redis", "host"}
  BY DEF InitChainManager, Step, StartInv, FieldsFollow, Assigned, ClientsFollow, ShutdownFollows
<1>4. CASE ~o.err /\ MainnetChainID \in Chains
  <2>1. /\ run' = "listener" /\ fields' = fields \cup {"chainManager", "mainnetClient"}
        /\ open' = open /\ clients' = Chains /\ running' = running /\ UNCHANGED <<main, cfg>>
    BY <1>1, <1>2, <1>3, <1>4 DEF GoWith
  <2>2. FieldsFollow'
    BY <1>3, <2>1 DEF StartInv, FieldsFollow, Assigned, Alive
  <2>3. ClientsFollow'
    BY <1>3, <1>4, <2>1 DEF ClientsFollow, Chains
  <2> QED BY <1>3, <2>1, <2>2, <2>3, RunKeeps
<1>5. CASE o.err \/ MainnetChainID \notin Chains
  <2>1. /\ run' = "failed" /\ fields' = fields /\ open' = open /\ clients' = o.open
        /\ running' = running /\ UNCHANGED <<main, cfg>>
    BY <1>1, <1>3, <1>5 DEF GoWith
  <2>2. FieldsFollow'
    BY <1>3, <2>1 DEF StartInv, FieldsFollow, Assigned, Alive
  <2>3. ClientsFollow'
    BY <1>2, <1>3, <2>1 DEF ClientsFollow, Chains
  <2> QED BY <1>3, <2>1, <2>2, <2>3, RunKeeps
<1> QED BY <1>4, <1>5

\* Commands, ports that are taken, the pool and the signal change nothing here.
LEMMA RestKeeps ==
    ASSUME StartInv, UNCHANGED <<run, cfg, fields, open, clients, main, early, missed>>,
           running' \subseteq running
    PROVE  StartInv'
BY DEF StartInv, FieldsFollow, Assigned, ClientsFollow, Chains, ShutdownFollows, Done, LateSignal

LEMMA StartKeeps == ASSUME StartInv, RunStart PROVE StartInv'
BY DEF RunStart, StartInv, FieldsFollow, Assigned, ClientsFollow, Chains, ShutdownFollows,
       LateSignal, UpToDb, UpToCache, UpToChains, UpToHost, UpToNode

----------------------------------------------------------------------------
(* Shutdown                                                                *)

\* The main goroutine goes on.
LEMMA MainKeeps ==
    ASSUME StartInv, MainOnly, main \notin {"shell", "stopped", "panic"},
           main' \notin {"shell", "wait"},
           open' \subseteq open, clients' \subseteq clients,
           ShutdownFollows', LateSignal'
    PROVE  StartInv'
<1> USE DEF UpToDb, UpToCache, UpToChains, UpToHost, UpToNode
<1>1. FieldsFollow'
  BY DEF MainOnly, StartInv, FieldsFollow, Assigned
<1>2. ClientsFollow'
  BY DEF MainOnly, StartInv, ClientsFollow, Chains
<1> QED BY <1>1, <1>2 DEF StartInv

\* At the end of Run every field Shutdown looks at is set.
LEMMA ServingHasAll ==
    ASSUME StartInv, run = "serving"
    PROVE  {"db", "redisConn", "node", "chainManager"} \subseteq fields
BY DEF StartInv, FieldsFollow, Assigned, UpToDb, UpToCache, UpToChains, UpToHost, UpToNode

LEMMA SelectKeeps == ASSUME StartInv, OnError \/ OnSignal PROVE StartInv'
<1>1. CASE OnError
  BY <1>1, MainKeeps DEF OnError, StartInv, ShutdownFollows, LateSignal
<1>2. CASE OnSignal
  <2>1. /\ main = "wait" /\ main' = "db" /\ MainOnly /\ UNCHANGED <<open, clients, missed, run>>
        /\ ~early' => run = "serving"
    BY <1>2 DEF OnSignal, MainOnly
  <2>2. LateSignal'
    BY <2>1 DEF StartInv, LateSignal
  <2>3. ShutdownFollows'
    BY <2>1 DEF StartInv, ShutdownFollows
  <2> QED BY <2>1, <2>2, <2>3, MainKeeps
<1> QED BY <1>1, <1>2

\* The places of Shutdown.
Closing == {"db", "closing", "redis", "node", "chains"}

LEMMA TornKeeps ==
    ASSUME StartInv, NEW at \in Closing, NEW step,
           NEW field \in {"db", "redisConn", "node", "chainManager"}, Torn(at, field, step)
    PROVE  StartInv'
<1>1. /\ main = at /\ main' = "panic" /\ field \notin fields
      /\ MainOnly /\ UNCHANGED <<open, clients, early, missed, run>>
  BY DEF Torn, MainOnly
<1>2. early
  BY <1>1, ServingHasAll DEF StartInv, LateSignal, Closing
<1>3. LateSignal' /\ ShutdownFollows'
  BY <1>1, <1>2 DEF StartInv, LateSignal, ShutdownFollows
<1> QED BY <1>1, <1>3, MainKeeps DEF Closing

\* Whether Shutdown finds a field or not, a signal that was late enough stays so.
LEMMA LookKeeps ==
    ASSUME StartInv, NEW at \in Closing, NEW next, next \notin {"shell", "wait", "panic"},
           NEW field \in {"db", "redisConn", "node", "chainManager"},
           NEW rs, NEW cs, Miss(at, field, next) \/ Close(at, field, rs, cs, next)
    PROVE  /\ LateSignal' /\ MainOnly /\ main = at /\ main' = next
           /\ open' \subseteq open /\ clients' \subseteq clients
           /\ UNCHANGED <<fields, run>> /\ missed \subseteq missed'
<1>1. /\ MainOnly /\ main = at /\ main' = next /\ UNCHANGED <<fields, run, early>>
      /\ open' \subseteq open /\ clients' \subseteq clients /\ missed \subseteq missed'
      /\ missed' # missed => field \notin fields
  BY DEF Miss, Close, MainOnly
<1>2. LateSignal'
  BY <1>1, ServingHasAll DEF StartInv, LateSignal, Closing
<1> QED BY <1>1, <1>2

LEMMA CloseDbKeeps == ASSUME StartInv, CloseDb PROVE StartInv'
<1>1. CASE Miss("db", "db", "redis")
  <2>1. ShutdownFollows'
    BY <1>1 DEF Miss, MainOnly, StartInv, ShutdownFollows, Done
  <2> QED BY <1>1, <2>1, LookKeeps, MainKeeps DEF Closing
<1>2. CASE Close("db", "db", {}, {}, "closing")
  <2>1. ShutdownFollows'
    BY <1>2 DEF Close, MainOnly, StartInv, ShutdownFollows
  <2> QED BY <1>2, <2>1, LookKeeps, MainKeeps DEF Closing
<1>3. CASE Close("closing", "db", {"db"}, {}, "redis")
  <2>1. ShutdownFollows'
    BY <1>3 DEF Close, MainOnly, StartInv, ShutdownFollows, Done
  <2> QED BY <1>3, <2>1, LookKeeps, MainKeeps DEF Closing
<1> QED BY <1>1, <1>2, <1>3 DEF CloseDb

LEMMA CloseRedisKeeps == ASSUME StartInv, CloseRedis PROVE StartInv'
<1>1. CASE Miss("redis", "redisConn", "node") \/ Close("redis", "redisConn", {"redis"}, {}, "node")
  <2>1. ShutdownFollows'
    BY <1>1 DEF Miss, Close, MainOnly, StartInv, ShutdownFollows, Done
  <2> QED BY <1>1, <2>1, LookKeeps, MainKeeps DEF Closing
<1>2. CASE Torn("redis", "redisConn", "cache")
  BY <1>2, TornKeeps DEF Closing
<1> QED BY <1>1, <1>2 DEF CloseRedis

LEMMA StopNodeKeeps == ASSUME StartInv, StopNode PROVE StartInv'
<1>1. CASE Miss("node", "node", "chains") \/ Close("node", "node", {"host"}, {}, "chains")
  <2>1. ShutdownFollows'
    BY <1>1 DEF Miss, Close, MainOnly, StartInv, ShutdownFollows, Done
  <2> QED BY <1>1, <2>1, LookKeeps, MainKeeps DEF Closing
<1>2. CASE Torn("node", "node", "node")
  BY <1>2, TornKeeps DEF Closing
<1> QED BY <1>1, <1>2 DEF StopNode

LEMMA CloseChainsKeeps == ASSUME StartInv, CloseChains PROVE StartInv'
<1>0. clients \subseteq Chains
  BY DEF StartInv, ClientsFollow
<1>1. CASE \/ Miss("chains", "chainManager", "stopped")
           \/ Close("chains", "chainManager", {}, Chains, "stopped")
  <2>1. ShutdownFollows'
    BY <1>0, <1>1 DEF Miss, Close, MainOnly, StartInv, ShutdownFollows, Done
  <2> QED BY <1>1, <2>1, LookKeeps, MainKeeps DEF Closing
<1>2. CASE Torn("chains", "chainManager", "chains")
  BY <1>2, TornKeeps DEF Closing
<1> QED BY <1>1, <1>2 DEF CloseChains

LEMMA StepStart == StartInv /\ [Next]_vars => StartInv'
<1> SUFFICES ASSUME StartInv, [Next]_vars PROVE StartInv'
  OBVIOUS
<1>1. CASE InitSteps \/ Signal
  BY <1>1, RestKeeps DEF InitSteps, InitCommand, AnswerFirst, AnswerPeer, AnswerMore, AnswerMode,
        Interrupt, WriteConfig, Ask, Signal, app, process
<1>2. CASE \E g \in DbUsers : Acquire(g) \/ Release(g)
  BY <1>2, RestKeeps DEF Acquire, Release, PoolOnly, app, process
<1>3. CASE \E s \in Servers : ListenFails(s)
  BY <1>3, RestKeeps DEF ListenFails, process
<1>4. CASE UNCHANGED vars
  BY <1>4, RestKeeps DEF vars, app, process
<1>5. CASE RunSteps
  BY <1>5, CallsKeep, CacheKeeps, ProcessorKeeps, ConfigKeeps, ChainsKeep DEF RunSteps
<1>6. CASE MainSteps
  BY <1>6, SelectKeeps, CloseDbKeeps, CloseRedisKeeps, StopNodeKeeps, CloseChainsKeeps DEF MainSteps
<1> QED BY <1>1, <1>2, <1>3, <1>4, <1>5, <1>6, StartKeeps DEF Next

----------------------------------------------------------------------------

\* When the API answers, there is a client of every chain of the configuration and
\* one of the mainnet (NewManager, InitChainManager), whatever the configuration.
THEOREM ClientsCorrect == Spec => []ClientForEveryChain
<1>1. StartInv => ClientForEveryChain
  BY DEF StartInv, ClientsFollow, ClientForEveryChain
<1> QED BY <1>1, InitStart, StepStart, PTL DEF Spec

\* Shutdown closes what was opened but for what it looked for too early; only a
\* signal during Run can end in a panic.
THEOREM StopCorrect == Spec => []CleanStop
<1>1. StartInv => CleanStop
  <2> SUFFICES ASSUME StartInv PROVE CleanStop
    OBVIOUS
  <2>1. main = "stopped" => \A r \in open : Owner(r) \in missed
    <3> SUFFICES ASSUME main = "stopped", NEW r \in open PROVE Owner(r) \in missed
      OBVIOUS
    <3>1. r \in {"db", "redis", "host"}
      BY DEF StartInv, ShutdownFollows
    <3> QED BY <3>1 DEF StartInv, ShutdownFollows, Done, Owner
  <2>2. main = "stopped" /\ clients # {} => "chainManager" \in missed
    BY DEF StartInv, ShutdownFollows, Done
  <2>3. main = "stopped" /\ ~early => missed = {}
    BY DEF StartInv, LateSignal
  <2>4. main = "panic" => early
    BY DEF StartInv, LateSignal
  <2> QED BY <2>1, <2>2, <2>3, <2>4 DEF CleanStop
<1> QED BY <1>1, InitStart, StepStart, PTL DEF Spec

----------------------------------------------------------------------------
(* Types, and the file init writes                                         *)

\* The places of init, and the ways to run the database.
Places == {"idle", "first", "peer", "more", "mode", "write"}
Modes  == {"docker", "docker-compose"}

\* The answers so far are at most PeerLimit peers, and init only asks for one more
\* below the limit.
Answers ==
    /\ prompt \in [at : Places, rpc : BOOLEAN, peers : Seq({"ok", "bad"}), mode : Modes]
    /\ Len(prompt.peers) <= PeerLimit
    /\ prompt.at \in {"peer", "more"} => Len(prompt.peers) < PeerLimit
    /\ prompt.at = "first" => prompt.peers = <<>>

\* Every file was found on the disk or written by init.
FilesFollow == disk \in [Paths -> Files \cup {NoFile} \cup WrittenByInit]

\* The places of the main goroutine, the history of the shutdown, and the pool.
MainType ==
    /\ main \in {"shell", "wait", "db", "closing", "redis", "node", "chains",
                 "stopped", "exited", "panic"}
    /\ busy \subseteq running \cap DbUsers
    /\ signalled \in BOOLEAN /\ early \in BOOLEAN
    /\ missed \subseteq {"db", "redisConn", "node", "chainManager"}

TypeInv == Answers /\ FilesFollow /\ MainType

\* What init is about to write is one of those files.
LEMMA GeneratedWritten ==
    ASSUME Answers PROVE GenerateConfig(prompt) \in WrittenByInit
<1> DEFINE n == Len(prompt.peers)
<1>1. prompt.peers \in [1 .. n -> {"ok", "bad"}] /\ n \in 0 .. PeerLimit
  BY StartupAssumption DEF Answers
<1>2. prompt.peers \in UNION {[1 .. m -> {"ok", "bad"}] : m \in 0 .. PeerLimit}
  BY <1>1
<1>3. prompt.mode \in {"docker", "docker-compose"}
  BY DEF Answers, Modes
<1>4. GenerateConfig(prompt) = GenerateConfig([rpc |-> prompt.rpc, peers |-> prompt.peers,
                                               mode |-> prompt.mode])
  BY DEF GenerateConfig
<1> DEFINE P == UNION {[1 .. k -> {"ok", "bad"}] : k \in 0 .. PeerLimit}
           M == {"docker", "docker-compose"}
<1>5. WrittenByInit = {GenerateConfig([rpc |-> r, peers |-> p, mode |-> m]) :
                           r \in BOOLEAN, p \in P, m \in M}
  BY DEF WrittenByInit
<1> HIDE DEF n, P, M
<1>6. prompt.peers \in P /\ prompt.mode \in M /\ prompt.rpc \in BOOLEAN
  BY <1>2, <1>3 DEF P, M, Answers
<1> QED BY <1>4, <1>5, <1>6

LEMMA AnswersInit == Init => TypeInv
<1> SUFFICES ASSUME Init PROVE TypeInv
  OBVIOUS
<1>1. Answers
  <2>1. prompt = Idle
    BY DEF Init
  <2>2. <<>> \in Seq({"ok", "bad"}) /\ Len(<<>>) = 0
    OBVIOUS
  <2> QED BY <2>1, <2>2, StartupAssumption DEF Idle, Answers, Places, Modes
<1>2. FilesFollow
  BY DEF Init, FilesFollow
<1>3. MainType
  BY DEF Init, MainType
<1> QED BY <1>1, <1>2, <1>3 DEF TypeInv

\* The questions of init.
LEMMA AskKeeps ==
    ASSUME TypeInv, InitSteps, ~WriteConfig PROVE TypeInv'
<1>0. /\ Answers /\ PeerLimit \in Nat \ {0}
      /\ prompt \in [at : Places, rpc : BOOLEAN, peers : Seq({"ok", "bad"}), mode : Modes]
  BY StartupAssumption DEF TypeInv, Answers
<1>1. UNCHANGED <<disk, busy, running, main, signalled, early, missed>>
  BY DEF InitSteps, InitCommand, AnswerFirst, AnswerPeer, AnswerMore, AnswerMode,
         Interrupt, Ask, app, process
<1>2. FilesFollow' /\ MainType'
  BY <1>1 DEF TypeInv, FilesFollow, MainType
<1>3. CASE InitCommand \/ Interrupt
  <2>1. prompt' = Idle \/ \E r \in BOOLEAN : prompt' = [Idle EXCEPT !.at = "first", !.rpc = r]
    BY <1>3 DEF InitCommand, Interrupt, Ask
  <2>2. <<>> \in Seq({"ok", "bad"}) /\ Len(<<>>) = 0
    OBVIOUS
  <2>3. PICK at \in {"idle", "first"}, r \in BOOLEAN :
            prompt' = [at |-> at, rpc |-> r, peers |-> <<>>, mode |-> "docker"]
    BY <2>1 DEF Idle
  <2>4. Answers'
    BY <1>0, <2>2, <2>3 DEF Answers, Places, Modes
  <2> QED BY <1>2, <2>4 DEF TypeInv
<1>4. CASE AnswerFirst \/ AnswerMore
  <2>1. Len(<<>>) = 0
    OBVIOUS
  <2>2. /\ Len(prompt.peers) < PeerLimit
        /\ \E at \in {"mode", "peer"} : prompt' = [prompt EXCEPT !.at = at]
    BY <1>0, <1>4, <2>1 DEF Answers, AnswerFirst, AnswerMore, Ask
  <2>3. Answers'
    BY <1>0, <2>2 DEF Answers, Places
  <2> QED BY <1>2, <2>3 DEF TypeInv
<1>5. CASE AnswerMode
  <2>1. \E m \in Modes : prompt' = [prompt EXCEPT !.at = "write", !.mode = m]
    BY <1>5 DEF AnswerMode, Ask, Modes
  <2>2. Answers'
    BY <1>0, <2>1 DEF Answers, Places
  <2> QED BY <1>2, <2>2 DEF TypeInv
<1>6. CASE AnswerPeer
  <2> DEFINE after(p) == IF p = "" THEN prompt.peers ELSE Append(prompt.peers, p)
             next(p)  == IF p = "" THEN "peer"
                         ELSE IF Len(after(p)) < PeerLimit THEN "more" ELSE "mode"
  <2>1. PICK p \in PeerEntries :
            /\ prompt.at = "peer"
            /\ prompt' = [prompt EXCEPT !.peers = after(p), !.at = next(p)]
    BY <1>6 DEF AnswerPeer, Ask
  <2>2. /\ prompt.peers \in Seq({"ok", "bad"}) /\ Len(prompt.peers) \in Nat
        /\ Len(prompt.peers) < PeerLimit
    BY <1>0, <2>1 DEF Answers
  <2>3. CASE p = ""
    <3>0. after(p) = prompt.peers /\ next(p) = "peer"
      BY <2>3
    <3>1. prompt' = [prompt EXCEPT !.peers = prompt.peers, !.at = "peer"]
      BY <2>1, <3>0
    <3>2. Answers'
      BY <1>0, <2>2, <3>1 DEF Answers, Places
    <3> QED BY <1>2, <3>2 DEF TypeInv
  <2>4. CASE p # ""
    <3>1. p \in {"ok", "bad"}
      BY <2>4 DEF PeerEntries
    <3> DEFINE more == Append(prompt.peers, p)
    <3>2. more \in Seq({"ok", "bad"}) /\ Len(more) = Len(prompt.peers) + 1
      BY <2>2, <3>1
    <3>3. PICK at \in {"more", "mode"} :
              /\ prompt' = [prompt EXCEPT !.peers = more, !.at = at]
              /\ at = "more" => Len(more) < PeerLimit
      BY <2>1, <2>4
    <3> HIDE DEF more
    <3>4. /\ prompt' \in [at : Places, rpc : BOOLEAN, peers : Seq({"ok", "bad"}), mode : Modes]
          /\ prompt'.at = at /\ prompt'.peers = more
      BY <1>0, <3>2, <3>3 DEF Places
    <3>5. Answers'
      BY <1>0, <2>2, <3>2, <3>3, <3>4 DEF Answers
    <3> QED BY <1>2, <3>5 DEF TypeInv
  <2> QED BY <2>3, <2>4
<1> QED BY <1>3, <1>4, <1>5, <1>6 DEF InitSteps

LEMMA WriteKeeps == ASSUME TypeInv, WriteConfig PROVE TypeInv'
<1>0. Answers /\ FilesFollow /\ GenerateConfig(prompt) \in WrittenByInit
  BY GeneratedWritten DEF TypeInv
<1>1. /\ prompt' = Idle
      /\ UNCHANGED <<busy, running, main, signalled, early, missed>>
      /\ \E c \in {disk[Default], NoFile, GenerateConfig(prompt)} :
             disk' = [disk EXCEPT ![Default] = c]
  BY DEF WriteConfig, app, process
<1>2. MainType'
  BY <1>1 DEF TypeInv, MainType
<1>3. Answers'
  <2>1. <<>> \in Seq({"ok", "bad"}) /\ Len(<<>>) = 0
    OBVIOUS
  <2> QED BY <1>1, <2>1, StartupAssumption DEF Idle, Answers, Places, Modes
<1>4. Default \in Paths
  BY DEF Paths
<1>5. FilesFollow'
  BY <1>0, <1>1, <1>4 DEF FilesFollow
<1> QED BY <1>2, <1>3, <1>5 DEF TypeInv

\* Every other step leaves the answers and the files, takes no goroutine that is
\* busy, and moves the main goroutine on.
LEMMA ElseKeeps ==
    ASSUME TypeInv, UNCHANGED <<prompt, disk>>, MainType' PROVE TypeInv'
BY DEF TypeInv, Answers, FilesFollow

LEMMA GoType ==
    ASSUME MainType, UNCHANGED <<busy, signalled, early, missed>>, running \subseteq running',
           main' = main \/ main' = "exited"
    PROVE  MainType'
BY DEF MainType

LEMMA TypeStep == TypeInv /\ [Next]_vars => TypeInv'
<1> SUFFICES ASSUME TypeInv, [Next]_vars PROVE TypeInv'
  OBVIOUS
<1>0. MainType
  BY DEF TypeInv
<1>1. CASE InitSteps
  BY <1>1, AskKeeps, WriteKeeps
<1>2. CASE RunSteps
  <2>1. /\ UNCHANGED <<prompt, disk, busy, signalled, early, missed>>
        /\ running \subseteq running'
        /\ main' = main \/ main' = "exited"
    BY <1>2 DEF RunSteps, InitConfig, InitMetrics, InitSigner, InitDatabase, InitCache,
         InitChainManager, InitEventListener, InitGater, InitHost, InitNode, InitEpochUpdator,
         InitTaskProcessor, InitAPI, InitHealthChecker, Step, Call, Go, GoWith, Fatal,
         command, app
  <2> QED BY <1>0, <2>1, GoType, ElseKeeps
<1>3. CASE RunStart \/ Signal \/ (\E s \in Servers : ListenFails(s))
              \/ \E g \in DbUsers : Acquire(g) \/ Release(g)
  <2>1. MainType' /\ UNCHANGED <<prompt, disk>>
    BY <1>0, <1>3 DEF MainType, RunStart, Signal, ListenFails, Acquire, Release, PoolOnly,
         command, app, process
  <2> QED BY <2>1, ElseKeeps
<1>4. CASE MainSteps
  <2>1. MainType' /\ UNCHANGED <<prompt, disk>>
    BY <1>0, <1>4 DEF MainType, MainSteps, OnError, OnSignal, CloseDb, CloseRedis, StopNode,
         CloseChains, Miss, Close, Torn, MainOnly, command, app
  <2> QED BY <2>1, ElseKeeps
<1>5. CASE UNCHANGED vars
  <2>1. MainType' /\ UNCHANGED <<prompt, disk>>
    BY <1>0, <1>5 DEF MainType, vars, command, app, process
  <2> QED BY <2>1, ElseKeeps
<1> QED BY <1>1, <1>2, <1>3, <1>4, <1>5 DEF Next

\* The files on the disk, the questions of init, the places of the main goroutine and
\* the connections of the pool have their types: init asks for one more peer only
\* below the limit, and a goroutine that holds a connection is one that runs.
THEOREM TypeCorrect == Spec => []TypeOK
<1>1. TypeInv /\ StartInv => TypeOK
  <2> SUFFICES ASSUME TypeInv, StartInv PROVE TypeOK
    OBVIOUS
  <2>1. open \subseteq {"db", "redis", "host"} /\ clients \subseteq Chains
    BY DEF StartInv, ShutdownFollows, ClientsFollow
  <2>2. /\ prompt.at \in Places /\ prompt.mode \in Modes
        /\ prompt.at \in {"peer", "more"} => Len(prompt.peers) < PeerLimit
    BY DEF TypeInv, Answers
  <2>3. disk \in [Paths -> Files \cup {NoFile} \cup WrittenByInit]
    BY DEF TypeInv, FilesFollow
  <2>4. MainType
    BY DEF TypeInv
  <2> QED BY <2>1, <2>2, <2>3, <2>4 DEF TypeOK, MainType, Places, Modes
<1> QED BY <1>1, AnswersInit, TypeStep, InitStart, StepStart, PTL DEF Spec

\* The contracts of a chain of init: with g for the registry and the epoch manager
\* and t for the block time; and a chain that keeps x and y for them.
Entry(g, t) == [registry |-> g, epochManager |-> g, stateManager |-> TRUE, rpc |-> TRUE,
                confirmations |-> 2, blockTime |-> t]
Keep(c, x, y, r) == [c EXCEPT !.registry = x, !.epochManager = y, !.rpc = r]

\* Whatever is answered to init, the file it writes is valid unless a peer is not.
LEMMA GeneratedValid ==
    ASSUME NEW a, a.rpc = TRUE, GetBootstrapPeers(a.peers)
    PROVE  Validate(GenerateConfig(a)) /\ HasMainnet(GenerateConfig(a))
<1> DEFINE m   == 11155111
           ids == {m, 84532, 421614}
           C   == CollectChainConfigs(a.rpc)
<1>1. ChainConfigs = [id \in ids |->
          IF id = m
          THEN [Entry(FALSE, 2) EXCEPT !.registry = TRUE, !.epochManager = TRUE, !.blockTime = 12]
          ELSE Entry(FALSE, 2)]
  BY SMT DEF ChainConfigs, Entry
<1>2. C = [id \in DOMAIN ChainConfigs |->
              [ChainConfigs[id] EXCEPT !.registry = @ /\ id = m, !.epochManager = @ /\ id = m,
                                       !.rpc = a.rpc]]
  BY SMT DEF CollectChainConfigs
<1>3. m \in ids /\ m = MainnetChainID /\ 1 \notin ids
  BY SMT DEF MainnetChainID
<1> HIDE DEF m, ids, C
<1>4. DOMAIN C = ids /\ DOMAIN ChainConfigs = ids
  BY <1>1, <1>2
<1>5. ChainConfigs[m] = Entry(TRUE, 12) /\ \A id \in ids \ {m} : ChainConfigs[id] = Entry(FALSE, 2)
  BY <1>1, <1>3 DEF Entry
<1>6. \A id \in ids : C[id] = Keep(ChainConfigs[id], ChainConfigs[id].registry /\ id = m,
                                   ChainConfigs[id].epochManager /\ id = m, a.rpc)
  BY <1>2, <1>4 DEF Keep
<1>7. /\ C[m].registry /\ C[m].epochManager
      /\ C[m].rpc = TRUE /\ C[m].stateManager = TRUE /\ C[m].confirmations = 2 /\ C[m].blockTime = 12
  <2>1. Entry(TRUE, 12).registry /\ Entry(TRUE, 12).epochManager
    BY DEF Entry
  <2>2. PICK x \in BOOLEAN, y \in BOOLEAN :
            /\ x = (ChainConfigs[m].registry /\ m = m)
            /\ y = (ChainConfigs[m].epochManager /\ m = m)
    OBVIOUS
  <2>3. C[m] = Keep(Entry(TRUE, 12), x, y, TRUE)
    BY <1>3, <1>5, <1>6, <2>2
  <2>4. x /\ y
    BY <1>5, <2>1, <2>2
  <2> DEFINE c == Keep(Entry(TRUE, 12), x, y, TRUE)
  <2>5. /\ c.registry = x /\ c.epochManager = y /\ c.stateManager = TRUE /\ c.rpc = TRUE
        /\ c.confirmations = 2 /\ c.blockTime = 12
    BY DEF Entry, Keep
  <2>6. C[m] = c
    BY <2>3
  <2> HIDE DEF c
  <2> QED BY <2>4, <2>5, <2>6
<1>8. \A id \in ids \ {m} :
          /\ C[id].rpc = TRUE /\ C[id].stateManager = TRUE
          /\ C[id].confirmations = 2 /\ C[id].blockTime = 2
  <2> SUFFICES ASSUME NEW id \in ids \ {m}
               PROVE  /\ C[id].rpc = TRUE /\ C[id].stateManager = TRUE
                      /\ C[id].confirmations = 2 /\ C[id].blockTime = 2
    OBVIOUS
  <2>1. PICK x \in BOOLEAN, y \in BOOLEAN :
            /\ x = (ChainConfigs[id].registry /\ id = m)
            /\ y = (ChainConfigs[id].epochManager /\ id = m)
    OBVIOUS
  <2>2. C[id] = Keep(Entry(FALSE, 2), x, y, TRUE)
    BY <1>5, <1>6, <2>1
  <2> DEFINE c == Keep(Entry(FALSE, 2), x, y, TRUE)
  <2>3. c.stateManager = TRUE /\ c.rpc = TRUE /\ c.confirmations = 2 /\ c.blockTime = 2
    BY DEF Entry, Keep
  <2>4. C[id] = c
    BY <2>2
  <2> HIDE DEF c
  <2> QED BY <2>3, <2>4
<1>9. /\ GenerateConfig(a).chains = C /\ GenerateConfig(a).port = 10000
      /\ GenerateConfig(a).rendezvous = TRUE /\ GenerateConfig(a).peers = a.peers
  BY SMT DEF GenerateConfig, C
<1>10. HasMainnet(GenerateConfig(a))
  BY <1>3, <1>4, <1>7, <1>9 DEF HasMainnet
<1>11. Validate(GenerateConfig(a))
  BY <1>3, <1>4, <1>7, <1>8, <1>9, SMT DEF Validate, ValidChain
<1> QED BY <1>10, <1>11

\* Whatever is answered to init, start accepts the file and finds the mainnet and its
\* contracts in it, unless a bootstrap peer was mistyped or a URL names a variable that
\* is not set: for every answer, and every number of peers.
THEOREM StartableCorrect == Spec => []InitIsStartable
<1>1. TypeInv => InitIsStartable
  <2>1. TypeInv => prompt.rpc \in BOOLEAN
    BY DEF TypeInv, Answers
  <2> QED BY <2>1, GeneratedValid DEF InitIsStartable
<1> QED BY <1>1, AnswersInit, TypeStep, InitStart, StepStart, PTL DEF Spec

============================================================================
