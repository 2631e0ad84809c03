-------------------------- MODULE MCTaskProcessor --------------------------
(* Small instances of TaskProcessor.                                       *)
EXTENDS TaskProcessor, TLC

CONSTANTS t1, t2, c1, c2, s1, s2, self, a, b

\* Contents c1 and c2 are about slots s1 and s2.
Slot == [c \in Contents |-> IF c = c1 THEN s1 ELSE s2]

\* The table before the first epoch update: rows without weight, not active.
Row0(all, none) == [e \in Epochs |-> IF e = 0 THEN none ELSE all]
OnceActive  == Row0(Operators, {})
AllKnown    == Row0(Operators, Operators)
SelfUnknown == Row0(Operators, Operators \ {Self})
Each(w)     == [o \in Operators |-> w]
WeightOnes  == Row0(Each(1), Each(0))

NeedOne == [e \in Epochs |-> 1]
NeedTwo == [e \in Epochs |-> 2]

\* Responses that reach the node from the operator that signed them, from the
\* peers alone, and with a value the chain does not hold (c2).
Genuine(cs, es) == [task : {t1}, from : Operators, signer : Operators,
                    content : cs, epoch : es]
Own(ms)    == {m \in ms : m.signer = m.from}
Direct     == Own(Genuine({c1}, {1}))
Peers      == {m \in Direct : m.from # Self}
WithLies   == Direct \cup {m \in Own(Genuine({c2}, {1})) : m.from = b}

\* b, which has only a wrong value to send, delivers the response of a as well.
Forwarded  == {m \in WithLies : m.from = b => m.content = c2}
              \cup {m \in Genuine({c1}, {1}) : m.signer = a /\ m.from = b}
TwoBlocks  == {m \in Own(Genuine({c2}, {1})) : m.from # Self}

Ask1 == {[task |-> t1, content |-> c1]}

Symmetry == Permutations(Workers)
============================================================================
