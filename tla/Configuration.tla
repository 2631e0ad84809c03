--------------------------- MODULE Configuration ---------------------------
(***************************************************************************)
(* The configuration file: what `spotted init` writes                      *)
(* (cmd/operator/cmd/init.go) and what config.LoadConfig accepts           *)
(* (pkg/config/config.go).  An address, a URL or a rendezvous string is    *)
(* present or not; a bootstrap peer is "" or parses ("ok") or not ("bad"). *)
(***************************************************************************)
EXTENDS Integers, Sequences

MainnetChainID == 11155111      \* the chain NewChainClient gives its contracts

PeerEntries == {"", "ok", "bad"}

Chain == [registry : BOOLEAN, epochManager : BOOLEAN, stateManager : BOOLEAN,
          rpc : BOOLEAN, confirmations : Nat, blockTime : Nat]

\* The table of supported chains of init.
ChainConfigs ==
    LET other == [registry |-> FALSE, epochManager |-> FALSE, stateManager |-> TRUE,
                  rpc |-> TRUE, confirmations |-> 2, blockTime |-> 2]
    IN  [id \in {11155111, 84532, 421614} |->
            IF id = 11155111
            THEN [other EXCEPT !.registry = TRUE, !.epochManager = TRUE, !.blockTime = 12]
            ELSE other]

\* Mutant of CollectChainConfigs: the contracts go to the chain validate asks
\* them of.
CollectForChainOne(rpc) ==
    [id \in DOMAIN ChainConfigs |->
        [ChainConfigs[id] EXCEPT !.registry = @ /\ id = 1,
                                 !.epochManager = @ /\ id = 1,
                                 !.rpc = rpc]]

\* One question per chain, whose empty answer is the default URL; only the
\* mainnet keeps its registry and epoch manager.  LoadConfig expands variables in
\* the file: an answer that names one that is not set is no URL then.
CollectChainConfigs(rpc) ==
    [id \in DOMAIN ChainConfigs |->
        [ChainConfigs[id] EXCEPT !.registry = @ /\ id = 11155111,
                                 !.epochManager = @ /\ id = 11155111,
                                 !.rpc = rpc]]

\* The file of the answers, as LoadConfig expands it.  The database is the one of the compose file, or the
\* one asked for, without the settings of the pool.
GenerateConfig(answers) ==
    [chains     |-> CollectChainConfigs(answers.rpc),
     pool       |-> answers.mode = "docker-compose",
     port       |-> 10000,
     rendezvous |-> TRUE,
     peers      |-> answers.peers]

\* GetBootstrapPeers: empty entries are skipped, a malformed one is an error.
GetBootstrapPeers(peers) == \A i \in DOMAIN peers : peers[i] # "bad"

\* What validate asks of a chain.
ValidChain(id, c) ==
    /\ id = 1 => c.registry /\ c.epochManager
    /\ c.rpc /\ c.stateManager
    /\ c.confirmations > 0 /\ c.blockTime > 0

Validate(c) ==
    /\ DOMAIN c.chains # {}
    /\ \A id \in DOMAIN c.chains : ValidChain(id, c.chains[id])
    /\ c.port >= 0
    /\ c.rendezvous
    /\ c.peers # <<>> => GetBootstrapPeers(c.peers)

============================================================================
