--------------------------- MODULE MCSendRequest ---------------------------
(* Small instances of SendRequest.                                         *)
EXTENDS SendRequest

CONSTANTS
    Targets,     \* the timestamps asked for
    Gaps,        \* seconds between a block and the next
    FirstTime    \* the time of block 0

TimesFrom(g) ==
    LET t[i \in Blocks] == IF i = 0 THEN FirstTime ELSE t[i - 1] + g[i] IN t

AllChains == {TimesFrom(g) : g \in [1 .. MaxHead -> Gaps]}

\* Bodies with a timestamp, with a block up to one ahead of the chains, the two
\* GETs, and bodies with one thing wrong.
Good   == [route |-> "tasks", parses |-> TRUE, chain |-> 2, address |-> TRUE,
           key |-> "decimal", block |-> 1, timestamp |-> 0]
ByTime == {[Good EXCEPT !.block = 0, !.timestamp = t] : t \in Targets}
ByBlock == {[Good EXCEPT !.chain = c, !.block = b, !.key = k] :
               c \in {1, 2}, b \in 1 .. MaxHead + 1, k \in {"decimal", "prefixed"}}
Gets   == {[Good EXCEPT !.route = r, !.key = k] :
               r \in {"consensus", "consensus/tasks"}, k \in {"decimal", "prefixed"}}
          \cup {[Good EXCEPT !.route = "consensus", !.parses = FALSE],
                [Good EXCEPT !.route = "consensus", !.address = FALSE]}
Wrong  == {[Good EXCEPT !.parses = FALSE], [Good EXCEPT !.chain = 0], [Good EXCEPT !.chain = 9],
           [Good EXCEPT !.address = FALSE], [Good EXCEPT !.key = "none"],
           [Good EXCEPT !.block = 0], [Good EXCEPT !.timestamp = 1],
           [Good EXCEPT !.block = 0, !.timestamp = Now + 1]}
Bodies == ByTime \cup ByBlock \cup Gets \cup Wrong
============================================================================
