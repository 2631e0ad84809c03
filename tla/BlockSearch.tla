---------------------------- MODULE BlockSearch ----------------------------
(***************************************************************************)
(* TimestampToBlockNumber (pkg/common/utils.go): the search SendRequest    *)
(* makes for the block of a request that gives a timestamp.  It jumps back *)
(* by the chain's average block time, then walks block by block.  Every    *)
(* block it looks at is a call to the chain that may fail.  SendRequest    *)
(* says what comes before and after it.                                    *)
(***************************************************************************)
EXTENDS Integers

CONSTANTS
    MaxHead,     \* bound: the highest block number
    Chains,      \* the chains considered: the time of each of their blocks
    Average      \* averageBlockTime of the chain, in the unit of these times

Blocks == 0 .. MaxHead

\* No block is older than one before it.  A chain may be faster or slower than
\* its average.
ASSUME SearchAssumption ==
    /\ MaxHead \in Nat
    /\ Chains # {} /\ Chains \subseteq [Blocks -> Nat]
    /\ \A t \in Chains : \A m, n \in Blocks : m <= n => t[m] <= t[n]
    /\ Average \in Nat \ {0}

VARIABLES
    times,       \* the time of each block of the chain
    target,      \* timestamp
    latest,      \* currentBlockNumber
    pc,          \* the pass the search is in
    number,      \* blockNumber
    held,        \* the number of the block in variable block
    cut          \* what cut the search short: a failing call, or a jump past genesis

searchVars == <<times, target, latest, pc, number, held, cut>>

\* The search begins at the head the chain has now.
SearchFrom(head) ==
    /\ pc' = "jump" /\ latest' = head /\ number' = head /\ held' = head
    /\ UNCHANGED <<times, target, cut>>

\* The search ends with block n, or moves to block n.
Return(n) == pc' = "done" /\ number' = n /\ UNCHANGED <<times, target, latest, held, cut>>
MoveTo(n) == number' = n /\ held' = n /\ UNCHANGED <<times, target, latest, pc, cut>>
Enter(pass) == pc' = pass /\ UNCHANGED <<times, target, latest, number, held, cut>>

\* BlockByNumber fails in a walk: the loop is left with the block reached so far.
BreakTo(pass) ==
    /\ pc' = pass /\ cut' = "call"
    /\ UNCHANGED <<times, target, latest, number, held>>

Decrease == (times[held] - target) \div Average

\* Mutant of Jump: the average is trusted to the end.
JumpAlways ==
    /\ pc = "jump"
    /\ IF times[held] <= target THEN Enter("forward")
       ELSE IF number <= Decrease
            THEN pc' = "forward" /\ number' = 0 /\ UNCHANGED <<times, target, latest, held, cut>>
            ELSE MoveTo(number - Decrease)

\* Mutant of Jump: the unsigned subtraction is not guarded.
JumpUnchecked ==
    /\ pc = "jump"
    /\ IF times[held] <= target \/ Decrease < 1 THEN Enter("forward")
       ELSE MoveTo(number - Decrease)

\* First pass.  When the jump would go below block 0 the number becomes 0 and
\* the block in hand stays what it was.
Jump ==
    /\ pc = "jump"
    /\ \/ /\ times[held] <= target \/ Decrease < 1
          /\ Enter("forward")
       \/ /\ times[held] > target /\ Decrease >= 1 /\ number <= Decrease
          /\ pc' = "forward" /\ number' = 0 /\ cut' = "genesis"
          /\ UNCHANGED <<times, target, latest, held>>
       \/ /\ times[held] > target /\ Decrease >= 1 /\ number > Decrease
          /\ \/ MoveTo(number - Decrease)
             \/ Enter("error")

\* Second pass: forward while the block is before the target.
Forward ==
    /\ pc = "forward"
    /\ LET next == number + 1 IN
       \/ /\ times[held] >= target \/ next > latest
          /\ Enter("backward")
       \/ /\ times[held] < target /\ next <= latest
          /\ \/ BreakTo("backward")
             \/ /\ times[next] > target
                /\ Return(IF target - times[held] < times[next] - target
                          THEN number ELSE next)
             \/ times[next] <= target /\ MoveTo(next)

\* Mutant of Backward: the block before the target is never the closer one.
BackwardStays ==
    /\ pc = "backward"
    /\ IF times[held] <= target \/ number = 0 \/ times[number - 1] < target
       THEN Return(number)
       ELSE MoveTo(number - 1)

\* Third pass: backward while the block is after the target.
Backward ==
    /\ pc = "backward"
    /\ LET prev == number - 1 IN
       \/ /\ times[held] <= target \/ number = 0
          /\ Return(number)
       \/ /\ times[held] > target /\ number # 0
          /\ \/ BreakTo("done")
             \/ /\ times[prev] < target
                /\ Return(IF target - times[prev] < times[held] - target
                          THEN prev ELSE number)
             \/ times[prev] >= target /\ MoveTo(prev)

Search == Jump \/ Forward \/ Backward

============================================================================
