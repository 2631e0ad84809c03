----------------------------- MODULE EpochMath -----------------------------
(***************************************************************************)
(* Epoch arithmetic (pkg/common/utils.go, pkg/operator/epoch/helpers.go).  *)
(* Blocks are uint64 and epochs uint32: the widths are parameters, so that *)
(* TLC can use small ones.                                                 *)
(***************************************************************************)
EXTENDS Integers

CONSTANTS
    GenesisBlock,   \* first block of epoch 0
    EpochPeriod,    \* blocks of an epoch
    GracePeriod,    \* last blocks of an epoch, too late for the next one
    BlockWord,      \* number of values of uint64
    EpochWord       \* number of values of uint32

ASSUME EpochAssumption ==
    /\ GenesisBlock \in Nat \ {0}
    /\ EpochPeriod \in Nat \ {0}
    /\ GracePeriod \in 0 .. EpochPeriod
    /\ EpochWord \in Nat /\ EpochWord > 2
    /\ BlockWord \in Nat
    /\ GenesisBlock + EpochPeriod * EpochWord < BlockWord

\* The exit epoch of an operator that has not left.
NeverEpoch == EpochWord - 1

CalculateCurrentEpochNumber(block) ==
    (((block - GenesisBlock) % BlockWord) \div EpochPeriod) % EpochWord

StartBlock(epoch) == (GenesisBlock + epoch * EpochPeriod) % BlockWord

GetEffectiveEpochByBlockNumber(block) ==
    LET epoch   == CalculateCurrentEpochNumber(block)
        end     == (StartBlock(epoch) + EpochPeriod) % BlockWord
        isGrace == block >= (end - GracePeriod) % BlockWord
    IN  (epoch + (IF isGrace THEN 2 ELSE 1)) % EpochWord

\* Mutant of IsOperatorActive: the first block of the active epoch counts as out
\* in every case.
ActiveAfterStart(block, active, exit) ==
    /\ active # exit
    /\ exit < active \/ block > StartBlock(active)
    /\ exit = NeverEpoch \/ exit < active \/ block < StartBlock(exit)

\* The three cases of the code: no exit epoch, an exit after the activation, and
\* an exit before it.  In the last the boundary of the activation counts as out.
IsOperatorActive(block, active, exit) ==
    /\ active # exit
    /\ \/ /\ exit = NeverEpoch
          /\ block >= StartBlock(active)
       \/ /\ exit # NeverEpoch /\ exit > active
          /\ StartBlock(active) <= block /\ block < StartBlock(exit)
       \/ /\ exit # NeverEpoch /\ exit < active
          /\ block < StartBlock(exit) \/ block > StartBlock(active)

============================================================================
