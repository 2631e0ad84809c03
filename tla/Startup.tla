------------------------------ MODULE Startup ------------------------------
(***************************************************************************)
(* The commands of the operator: `init` writes the configuration file;     *)
(* `start` (cmd/operator/cmd/start.go) runs App.Run (cmd/operator/app)     *)
(* in a goroutine, which makes the parts of the node one after the other,  *)
(* while the main goroutine waits for a signal or for an error.  On a      *)
(* signal it runs App.Shutdown, at any moment of Run: both use the fields  *)
(* of App without a lock.                                                  *)
(***************************************************************************)
EXTENDS Configuration, FiniteSets

CONSTANTS
    Files,       \* the configurations somebody may have written by hand
    PeerLimit    \* bound: bootstrap peers init asks for, 5 in the code

ASSUME StartupAssumption == PeerLimit \in Nat \ {0}

VARIABLES
    disk,        \* the configuration files
    prompt,      \* the questions of init: where it is, and the answers
    p2pKey,      \* the P2P key on the command line of start
    main,        \* where the main goroutine is
    run,         \* the step Run is at
    cfg,         \* a.cfg
    fields,      \* the fields of App that are not nil
    open,        \* the pool, the Redis connection and the host not closed
    clients,     \* the chain clients not closed
    running,     \* goroutines of the parts
    busy,        \* those that hold a connection of the pool
    signalled,   \* a signal is in sigChan
    early,       \* history: the signal was taken before Run was through
    missed       \* history: the fields Shutdown found nil

command == <<disk, prompt, p2pKey>>
app     == <<run, cfg, fields, open, clients, running>>
process == <<main, signalled, early, missed>>
vars    == <<command, app, busy, process>>

NoFile == [chains |-> <<>>, pool |-> FALSE, port |-> 0, rendezvous |-> FALSE,
           peers |-> <<>>]
Default == "config/operator.yaml"
Paths   == {Default, "other.yaml"}

Idle    == [at |-> "idle", rpc |-> TRUE, peers |-> <<>>, mode |-> "docker"]
Flags   == [path : Paths, key : SUBSET {"path", "priv"}, password : BOOLEAN,
            p2p : {"", "ok", "bad"}]

DbUsers == {"listener", "updator", "processor", "api"}

Init ==
    /\ disk \in [Paths -> Files \cup {NoFile}]
    /\ prompt = Idle /\ p2pKey = ""
    /\ main = "shell" /\ run = "idle" /\ cfg = NoFile
    /\ fields = {} /\ open = {} /\ clients = {} /\ running = {} /\ busy = {}
    /\ signalled = FALSE /\ early = FALSE /\ missed = {}

----------------------------------------------------------------------------
(* spotted init                                                            *)

Ask(at, next) == prompt.at = at /\ prompt' = next /\ UNCHANGED <<disk, p2pKey, app, busy, process>>

\* The questions about the chains have been answered, with URLs or with a variable
\* that start will not find; the rest follows.
InitCommand ==
    /\ main = "shell"
    /\ \E rpc \in BOOLEAN : Ask("idle", [Idle EXCEPT !.at = "first", !.rpc = rpc])

AnswerFirst == \E at \in {"mode", "peer"} : Ask("first", [prompt EXCEPT !.at = at])

\* Mutant of AnswerPeer: there is always one more question.
AnswerPeerOn ==
    \E p \in PeerEntries \ {""} :
        Ask("peer", [prompt EXCEPT !.peers = Append(@, p), !.at = "more"])

\* An empty entry is asked again; after the last one there is no more question.
AnswerPeer ==
    \E p \in PeerEntries :
        LET peers == IF p = "" THEN prompt.peers ELSE Append(prompt.peers, p) IN
        Ask("peer", [prompt EXCEPT
                        !.peers = peers,
                        !.at = IF p = "" THEN "peer"
                               ELSE IF Len(peers) < PeerLimit THEN "more" ELSE "mode"])

AnswerMore == \E at \in {"mode", "peer"} : Ask("more", [prompt EXCEPT !.at = at])

AnswerMode ==
    \E m \in {"docker", "docker-compose"} :
        Ask("mode", [prompt EXCEPT !.at = "write", !.mode = m])

\* A prompt that is interrupted ends init without a trace.
Interrupt == prompt.at \notin {"idle", "write"} /\ prompt' = Idle /\ UNCHANGED <<disk, p2pKey, app, busy, process>>

\* os.WriteFile truncates the file and writes it: it may fail before, between,
\* or not at all.
WriteConfig ==
    /\ prompt.at = "write"
    /\ prompt' = Idle
    /\ \E c \in {disk[Default], NoFile, GenerateConfig(prompt)} :
           disk' = [disk EXCEPT ![Default] = c]
    /\ UNCHANGED <<p2pKey, app, busy, process>>

InitSteps == InitCommand \/ AnswerFirst \/ AnswerPeer \/ AnswerMore \/ AnswerMode
             \/ Interrupt \/ WriteConfig

----------------------------------------------------------------------------
(* spotted start                                                           *)

LoadConfig(path) == disk[path] # NoFile /\ Validate(disk[path])

ValidateStartFlags(f) ==
    /\ disk[f.path] # NoFile
    /\ Cardinality(f.key) = 1
    /\ "path" \in f.key => f.password
    /\ f.p2p # ""

\* The file named on the command line is loaded for the settings of the database
\* and of Redis; then Run starts in a goroutine.
RunStart ==
    /\ main = "shell" /\ prompt.at = "idle"
    /\ \E f \in Flags : ValidateStartFlags(f) /\ LoadConfig(f.path) /\ p2pKey' = f.p2p
    /\ main' = "wait" /\ run' = "config"
    /\ UNCHANGED <<disk, prompt, cfg, fields, open, clients, running, busy, signalled, early,
                   missed>>

----------------------------------------------------------------------------
(* App.Run                                                                 *)

Alive == main \notin {"shell", "stopped", "exited", "panic"}

Step(at) ==
    /\ Alive /\ run = at
    /\ UNCHANGED <<command, busy, signalled, early, missed>>

\* The step is through: fields assigned, resources opened, goroutines started.
GoWith(next, fs, rs, cs, gs) ==
    /\ run' = next
    /\ fields' = fields \cup fs
    /\ open' = open \cup rs
    /\ clients' = clients \cup cs
    /\ running' = running \cup gs
    /\ UNCHANGED <<main, cfg>>
Go(next, fs, rs, gs) == GoWith(next, fs, rs, {}, gs)

\* The outcomes of a constructor: an error or not, and what it left open.
Made(rs)   == [err |-> FALSE, open |-> rs]
Failed(rs) == [err |-> TRUE, open |-> rs]
Given(fs, outcomes) == IF fs \subseteq fields THEN outcomes ELSE {Failed({})}

\* A step that calls a constructor.  With an error Run returns, and nobody
\* closes what was opened.
Call(outcomes, next, fs, gs) ==
    \E o \in outcomes :
        IF o.err THEN Go("failed", {}, o.open, {}) ELSE Go(next, fs, o.open, gs)

\* log.Fatal in a constructor ends the process at once.
Fatal == main' = "exited" /\ UNCHANGED app

InitConfig ==
    /\ Step("config")
    /\ IF LoadConfig(Default)
       THEN cfg' = disk[Default] /\ run' = "metrics"
       ELSE cfg' = cfg /\ run' = "failed"
    /\ UNCHANGED <<main, fields, open, clients, running>>

InitMetrics == Step("metrics") /\ Go("signer", {}, {}, {"metrics"})

\* The key file is read and decrypted, or the hexadecimal key decoded;
\* ValidateStartFlags has seen to it that there is exactly one of them.
NewLocalSigner == {Made({}), Failed({})}

InitSigner == Step("signer") /\ Call(NewLocalSigner, "database", {"signer"}, {})

\* A pool that does not answer the ping is not closed.
NewWPGXPool == {Made({"db"}), Failed({}), Failed({"db"})}

InitDatabase == Step("database") /\ Call(NewWPGXPool, "cache", {"db"}, {})

\* The client in each of its modes: a server that does not answer, or a name
\* that does not resolve, is fatal, so what is returned is connected.
NewRedisClient == {"connected", "fatal"}

\* A connection whose cache is refused is not closed.
NewDCache(conn) == {Made(conn), Failed(conn)}

InitCache ==
    /\ Step("cache")
    /\ \E c \in NewRedisClient :
           IF c = "fatal" THEN Fatal
           ELSE Call(NewDCache({"redis"}), "chains", {"redisConn", "repos"}, {})

Chains == DOMAIN cfg.chains

\* A client is dialled and given its bindings, or closed again and an error.
NewChainClient == BOOLEAN

\* NewManager makes a client of every chain; if one fails it closes the others.
NewManager(ids) ==
    {IF \A id \in ids : made[id] THEN Made(ids) ELSE Failed({}) :
        made \in [ids -> NewChainClient]}

\* Mutant of InitChainManager: a chain that cannot be reached is left out.
SkipChains ==
    /\ Step("chains")
    /\ \E made \in SUBSET Chains :
        IF MainnetChainID \in made
        THEN GoWith("listener", {"chainManager", "mainnetClient"}, {}, made, {})
        ELSE GoWith("failed", {}, {}, made, {})

\* Without a mainnet the manager is dropped with its clients open.
InitChainManager ==
    /\ Step("chains")
    /\ \E o \in NewManager(Chains) :
        IF ~o.err /\ MainnetChainID \in Chains
        THEN GoWith("listener", {"chainManager", "mainnetClient"}, {}, o.open, {})
        ELSE GoWith("failed", {}, {}, o.open, {})

InitEventListener ==
    /\ Step("listener")
    /\ Call(Given({"mainnetClient", "repos"}, {Made({})}), "gater", {}, {"listener"})

NewConnectionGater == Given({"repos"}, {Made({})})

InitGater == Step("gater") /\ Call(NewConnectionGater, "host", {"gater"}, {})

Base64ToPrivKey(key) == key = "ok"

\* The key is decoded, then libp2p makes the host, or does not.
InitHost ==
    /\ Step("host")
    /\ Call({Failed({})} \cup IF Base64ToPrivKey(p2pKey) THEN {Made({"host"})} ELSE {},
            "node", {"host"}, {})

\* The DHT is made and bootstrapped and the bootstrap loop starts; a discovery
\* that fails afterwards cancels that loop.
NewNode == Given({"host"}, IF cfg.rendezvous THEN {Made({}), Failed({})} ELSE {Failed({})})

\* A failure leaves the host: a.node, by which Shutdown closes it, is nil.
InitNode ==
    /\ Step("node")
    /\ Call(IF GetBootstrapPeers(cfg.peers) THEN NewNode ELSE {Failed({})},
            "updator", {"node"}, {"bootstrap", "discovery"})

InitEpochUpdator ==
    /\ Step("updator")
    /\ Call(Given({"repos", "mainnetClient", "db"}, {Made({})}),
            "processor", {"epochUpdator"}, {"updator"})

\* Gossip that cannot be started is an error, a topic that cannot be joined is
\* fatal.
InitTaskProcessor ==
    /\ Step("processor")
    /\ \/ Fatal
       \/ Call(Given({"chainManager", "signer", "epochUpdator", "repos", "host"},
                     {Made({}), Failed({})}),
               "api", {"taskProcessor"}, {"processor"})

NewHandler == Given({"taskProcessor", "chainManager", "repos"}, {Made({})})

InitAPI == Step("api") /\ Call(NewHandler, "health", {"apiServer"}, {"api"})

\* The checker is made, checks once and is stopped (PeerGate follows it).
InitHealthChecker ==
    Step("health") /\ Call(Given({"node", "host"}, {Made({})}), "serving", {}, {})

\* The servers: each listens on its port in a goroutine.
Servers == {"metrics", "api"}

\* A port that is taken is logged; the node goes on without the server.
ListenFails(s) ==
    /\ Alive /\ s \in (running \cap Servers) \ busy
    /\ running' = running \ {s}
    /\ UNCHANGED <<command, run, cfg, fields, open, clients, busy, process>>

RunSteps ==
    \/ InitConfig \/ InitMetrics \/ InitSigner \/ InitDatabase \/ InitCache
    \/ InitChainManager \/ InitEventListener \/ InitGater \/ InitHost \/ InitNode
    \/ InitEpochUpdator \/ InitTaskProcessor \/ InitAPI \/ InitHealthChecker

----------------------------------------------------------------------------
(* The pool and the goroutines that use it                                 *)

PoolOnly == UNCHANGED <<command, app, process>>

\* A pool that is being closed gives no connection.
Acquire(g) ==
    /\ main \in {"wait", "db"} /\ g \in (running \cap DbUsers) \ busy
    /\ busy' = busy \cup {g} /\ PoolOnly

Release(g) == Alive /\ g \in busy /\ busy' = busy \ {g} /\ PoolOnly

----------------------------------------------------------------------------
(* The main goroutine and App.Shutdown                                     *)

MainOnly == UNCHANGED <<command, run, cfg, fields, running, busy, signalled>>

Signal ==
    /\ Alive /\ ~signalled /\ signalled' = TRUE
    /\ UNCHANGED <<command, app, busy, main, early, missed>>

\* select: the error of Run ends the process, a signal starts Shutdown.
OnError ==
    /\ main = "wait" /\ run = "failed" /\ main' = "exited"
    /\ MainOnly /\ UNCHANGED <<open, clients, early, missed>>

OnSignal ==
    /\ main = "wait" /\ signalled /\ main' = "db" /\ early' = (run # "serving")
    /\ MainOnly /\ UNCHANGED <<open, clients, missed>>

\* Shutdown looks at a field: nil, so there is nothing to close.
Miss(at, field, next) ==
    /\ main = at /\ field \notin fields
    /\ main' = next /\ missed' = missed \cup {field}
    /\ MainOnly /\ UNCHANGED <<open, clients, early>>

Close(at, field, rs, cs, next) ==
    /\ main = at /\ field \in fields
    /\ main' = next /\ open' = open \ rs /\ clients' = clients \ cs
    /\ MainOnly /\ UNCHANGED <<early, missed>>

\* The field is an interface that Run is assigning: its type word is there, its
\* value not yet, and the call is made on nil.
Torn(at, field, step) ==
    /\ main = at /\ field \notin fields /\ run = step
    /\ main' = "panic"
    /\ MainOnly /\ UNCHANGED <<open, clients, early, missed>>

\* Mutant of CloseDb: it waits for the goroutines, which nobody stops.
CloseDbJoins ==
    \/ Miss("db", "db", "redis")
    \/ Close("db", "db", {}, {}, "closing")
    \/ running \cap DbUsers = {} /\ Close("closing", "db", {"db"}, {}, "redis")

\* Pool.Close waits until every connection is back.
CloseDb ==
    \/ Miss("db", "db", "redis")
    \/ Close("db", "db", {}, {}, "closing")
    \/ busy = {} /\ Close("closing", "db", {"db"}, {}, "redis")

CloseRedis ==
    \/ Miss("redis", "redisConn", "node")
    \/ Torn("redis", "redisConn", "cache")
    \/ Close("redis", "redisConn", {"redis"}, {}, "node")

\* node.Stop closes the DHT and the host.
StopNode ==
    \/ Miss("node", "node", "chains")
    \/ Torn("node", "node", "node")
    \/ Close("node", "node", {"host"}, {}, "chains")

\* Mutant of CloseChains: the mainnet client is left to its users.
CloseOthers ==
    \/ Miss("chains", "chainManager", "stopped")
    \/ Torn("chains", "chainManager", "chains")
    \/ Close("chains", "chainManager", {}, Chains \ {MainnetChainID}, "stopped")

CloseChains ==
    \/ Miss("chains", "chainManager", "stopped")
    \/ Torn("chains", "chainManager", "chains")
    \/ Close("chains", "chainManager", {}, Chains, "stopped")

MainSteps == OnError \/ OnSignal \/ CloseDb \/ CloseRedis \/ StopNode \/ CloseChains

Next ==
    \/ InitSteps \/ RunStart \/ RunSteps \/ Signal \/ MainSteps
    \/ \E s \in Servers : ListenFails(s)
    \/ \E g \in DbUsers : Acquire(g) \/ Release(g)

Spec == Init /\ [][Next]_vars

\* The main goroutine runs when it can, and every use of the pool ends: the
\* statements have timeouts and an epoch update has 30 seconds.
LiveSpec ==
    /\ Spec
    /\ WF_vars(MainSteps)
    /\ \A g \in DbUsers : WF_vars(Release(g))

----------------------------------------------------------------------------
(* Properties                                                              *)

\* The files init can write: up to PeerLimit peers, in each mode.
WrittenByInit ==
    {GenerateConfig([rpc |-> r, peers |-> p, mode |-> m]) :
        r \in BOOLEAN,
        p \in UNION {[1 .. n -> {"ok", "bad"}] : n \in 0 .. PeerLimit},
        m \in {"docker", "docker-compose"}}

\* Types of the files, of the commands and of the application.
TypeOK ==
    /\ disk \in [Paths -> Files \cup {NoFile} \cup WrittenByInit]
    /\ prompt.at \in {"idle", "first", "peer", "more", "mode", "write"}
    /\ prompt.at \in {"peer", "more"} => Len(prompt.peers) < PeerLimit
    /\ prompt.mode \in {"docker", "docker-compose"}
    /\ main \in {"shell", "wait", "db", "closing", "redis", "node", "chains",
                 "stopped", "exited", "panic"}
    /\ open \subseteq {"db", "redis", "host"} /\ clients \subseteq Chains
    /\ busy \subseteq running \cap DbUsers
    /\ signalled \in BOOLEAN /\ early \in BOOLEAN
    /\ missed \subseteq {"db", "redisConn", "node", "chainManager"}

\* What the listener, the updator and every request need: a mainnet with the
\* contracts of the registry and of the epochs.
HasMainnet(c) ==
    /\ MainnetChainID \in DOMAIN c.chains
    /\ c.chains[MainnetChainID].registry /\ c.chains[MainnetChainID].epochManager

\* Whatever is answered to init, start accepts the file it writes and finds the
\* mainnet and its contracts in it, unless a bootstrap peer was mistyped or an RPC
\* URL names a variable that is not set.  The table of chains in init.go, validate
\* in config.go and MainnetChainID in manager.go each name the mainnet by
\* themselves; validate still says 1, which init never writes.
InitIsStartable ==
    prompt.at = "write" /\ prompt.rpc /\ GetBootstrapPeers(prompt.peers) =>
        Validate(GenerateConfig(prompt)) /\ HasMainnet(GenerateConfig(prompt))

\* When the API answers, there is a client of the mainnet and one of every
\* chain of the configuration, which is all validateRequest asks about: a
\* request it accepts is never without a client, until Shutdown closes them.
ClientForEveryChain ==
    "api" \in running /\ main = "wait" => {MainnetChainID} \cup Chains \subseteq clients

\* The field Shutdown closes a resource by.
Owner(r) == CASE r = "db" -> "db" [] r = "redis" -> "redisConn" [] r = "host" -> "node"

\* A signal that finds the node up ends in a Shutdown that closes the pool, the
\* Redis connection, the host and the chain clients.  (The API and the metrics
\* server it leaves to the end of the process.)  A signal during Run closes all of
\* these but what Shutdown looked for before Run had stored it, and only such a
\* signal can end in a panic.
CleanStop ==
    /\ main = "stopped" => /\ \A r \in open : Owner(r) \in missed
                           /\ clients # {} => "chainManager" \in missed
    /\ main = "stopped" /\ ~early => open = {} /\ clients = {}
    /\ main = "panic" => early

\* A signal ends the process, though parts of the node go on taking connections
\* until the pool closes and Run may still be starting others.
SignalStops == signalled ~> main \in {"stopped", "exited", "panic"}

============================================================================
