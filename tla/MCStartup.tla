----------------------------- MODULE MCStartup -----------------------------
(* Small instances of Startup.                                             *)
EXTENDS Startup

Full  == [registry |-> TRUE, epochManager |-> TRUE, stateManager |-> TRUE,
          rpc |-> TRUE, confirmations |-> 1, blockTime |-> 1]
Plain == [Full EXCEPT !.registry = FALSE, !.epochManager = FALSE]

File(chains, peers) == [chains |-> chains, pool |-> TRUE, port |-> 0,
                        rendezvous |-> TRUE, peers |-> peers]

\* By hand: two chains, one of them the mainnet; a chain 1 and no mainnet; a
\* mainnet without confirmations; a peer that does not parse.
ByHand == {
    File([id \in {MainnetChainID, 5} |-> IF id = 5 THEN Plain ELSE Full], <<"">>),
    File([id \in {1} |-> Full], <<>>),
    File([id \in {MainnetChainID} |-> [Full EXCEPT !.confirmations = 0]], <<>>),
    File([id \in {MainnetChainID} |-> Full], <<"bad">>)}
============================================================================
