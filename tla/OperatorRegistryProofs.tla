----------------------- MODULE OperatorRegistryProofs -----------------------
(***************************************************************************)
(* Theorems about EpochMath and OperatorRegistry, for any operators, any   *)
(* epoch lengths and any number of events, restarts and failures.          *)
(***************************************************************************)
EXTENDS OperatorRegistry, FiniteSetTheorems, WellFoundedInduction, TLAPS

----------------------------------------------------------------------------
(* What the epoch arithmetic promises, for every genesis block, epoch      *)
(* length, grace period and word width.                                    *)

\* Blocks whose epoch fits its word with n epochs to spare.
BlocksBefore(n) ==
    {b \in Nat : GenesisBlock <= b
                 /\ b < GenesisBlock + EpochPeriod * (EpochWord - n)}

LEMMA Products ==
    ASSUME NEW p \in Nat, NEW x \in Nat, NEW y \in Nat
    PROVE  /\ x * p \in Nat
           /\ x <= y => x * p <= y * p
           /\ x < y => x * p + p <= y * p
<1>1. x * p \in Nat
  OBVIOUS
<1>2. ASSUME x <= y PROVE x * p <= y * p
  <2>1. y - x \in Nat /\ (y - x) * p \in Nat
    BY <1>2
  <2>2. y * p = x * p + (y - x) * p
    BY <1>2
  <2> QED BY <2>1, <2>2, <1>1
<1>3. ASSUME x < y PROVE x * p + p <= y * p
  <2>1. y - x - 1 \in Nat /\ (y - x - 1) * p \in Nat
    BY <1>3
  <2>2. y * p = x * p + p + (y - x - 1) * p
    BY <1>3
  <2> QED BY <2>1, <2>2, <1>1
<1> QED BY <1>1, <1>2, <1>3

LEMMA Division ==
    ASSUME NEW n \in Nat, NEW p \in Nat, p > 0
    PROVE  /\ n \div p \in Nat
           /\ (n \div p) * p <= n
           /\ n < (n \div p) * p + p
OBVIOUS

LEMMA Small ==
    ASSUME NEW n \in Nat, NEW m \in Nat, n < m
    PROVE  n % m = n
OBVIOUS

\* The start of an epoch does not wrap.
LEMMA StartValue ==
    ASSUME NEW e \in 0 .. EpochWord
    PROVE  /\ StartBlock(e) = GenesisBlock + e * EpochPeriod
           /\ StartBlock(e) \in Nat
<1>1. /\ GenesisBlock \in Nat /\ EpochPeriod \in Nat /\ EpochWord \in Nat
      /\ BlockWord \in Nat /\ GenesisBlock + EpochPeriod * EpochWord < BlockWord
  BY EpochAssumption DEF EpochAssumption
<1>2. e \in Nat /\ e <= EpochWord
  BY <1>1
<1>3. e * EpochPeriod \in Nat /\ e * EpochPeriod <= EpochWord * EpochPeriod
  BY <1>1, <1>2, Products
<1>4. EpochWord * EpochPeriod = EpochPeriod * EpochWord /\ EpochWord * EpochPeriod \in Nat
  BY <1>1
<1>5. GenesisBlock + e * EpochPeriod \in Nat /\ GenesisBlock + e * EpochPeriod < BlockWord
  BY <1>1, <1>3, <1>4
<1> QED BY <1>1, <1>5, Small DEF StartBlock

\* A block lies in its epoch.
LEMMA EpochOfBlock ==
    ASSUME NEW n \in Nat, n < EpochWord, NEW b \in BlocksBefore(n)
    PROVE  LET e == CalculateCurrentEpochNumber(b) IN
           /\ e \in Nat /\ e < EpochWord - n
           /\ GenesisBlock + e * EpochPeriod <= b
           /\ b < GenesisBlock + e * EpochPeriod + EpochPeriod
<1>1. /\ GenesisBlock \in Nat /\ EpochPeriod \in Nat /\ EpochWord \in Nat
      /\ EpochPeriod > 0 /\ BlockWord \in Nat
      /\ GenesisBlock + EpochPeriod * EpochWord < BlockWord
  BY EpochAssumption DEF EpochAssumption
<1> DEFINE k == EpochWord - n
           d == b - GenesisBlock
           q == d \div EpochPeriod
<1>2. k \in Nat /\ k <= EpochWord
  BY <1>1
<1>3. b \in Nat /\ GenesisBlock <= b /\ b < GenesisBlock + EpochPeriod * k
  BY DEF BlocksBefore
<1> HIDE DEF k
<1>4. /\ k * EpochPeriod \in Nat /\ k * EpochPeriod <= EpochWord * EpochPeriod
      /\ EpochWord * EpochPeriod \in Nat
      /\ k * EpochPeriod = EpochPeriod * k
      /\ EpochWord * EpochPeriod = EpochPeriod * EpochWord
  BY <1>1, <1>2, Products
<1>5. d \in Nat /\ d < k * EpochPeriod /\ d < BlockWord /\ b = GenesisBlock + d
  BY <1>1, <1>3, <1>4
<1> HIDE DEF d
<1>6. q \in Nat /\ q * EpochPeriod <= d /\ d < q * EpochPeriod + EpochPeriod
      /\ q * EpochPeriod \in Nat
  BY <1>1, <1>5, Division, Products
<1> HIDE DEF q
<1>7. q < k
  <2> SUFFICES ASSUME k <= q PROVE FALSE
    BY <1>2, <1>6
  <2>1. k * EpochPeriod <= q * EpochPeriod
    BY <1>1, <1>2, <1>6, Products
  <2> QED BY <2>1, <1>4, <1>5, <1>6
<1>8. q % EpochWord = q
  BY <1>1, <1>2, <1>6, <1>7, Small
<1>9. d % BlockWord = d
  BY <1>1, <1>5, Small
<1>10. CalculateCurrentEpochNumber(b) = q
  BY <1>8, <1>9 DEF CalculateCurrentEpochNumber, d, q
<1>11. q < EpochWord - n
  BY <1>7 DEF k
<1>12. /\ GenesisBlock + q * EpochPeriod <= b
       /\ b < GenesisBlock + q * EpochPeriod + EpochPeriod
  BY <1>1, <1>5, <1>6
<1> QED BY <1>6, <1>10, <1>11, <1>12

\* The effective epoch is the next one, or the one after it in the grace period at
\* the end of the epoch; neither wraps.
LEMMA EffectiveValue ==
    ASSUME NEW b \in BlocksBefore(2)
    PROVE  LET e   == CalculateCurrentEpochNumber(b)
               end == GenesisBlock + e * EpochPeriod + EpochPeriod
           IN  /\ GetEffectiveEpochByBlockNumber(b) =
                      IF b >= end - GracePeriod THEN e + 2 ELSE e + 1
               /\ StartBlock(e + 1) = end
               /\ StartBlock(e + 2) = end + EpochPeriod
<1>1. /\ GenesisBlock \in Nat /\ EpochPeriod \in Nat /\ EpochWord \in Nat
      /\ EpochPeriod > 0 /\ BlockWord \in Nat /\ EpochWord > 2
      /\ GracePeriod \in Nat /\ GracePeriod <= EpochPeriod
      /\ GenesisBlock + EpochPeriod * EpochWord < BlockWord
  BY EpochAssumption DEF EpochAssumption
<1> DEFINE e == CalculateCurrentEpochNumber(b)
<1>2. b \in Nat
  BY DEF BlocksBefore
<1>3. /\ e \in Nat /\ e < EpochWord - 2
      /\ GenesisBlock + e * EpochPeriod <= b
      /\ b < GenesisBlock + e * EpochPeriod + EpochPeriod
  BY <1>1, EpochOfBlock
<1> HIDE DEF e
<1>4. e \in 0 .. EpochWord /\ e + 1 \in 0 .. EpochWord /\ e + 2 \in 0 .. EpochWord
  BY <1>1, <1>3
<1>5. /\ e * EpochPeriod \in Nat
      /\ (e + 1) * EpochPeriod = e * EpochPeriod + EpochPeriod
      /\ (e + 2) * EpochPeriod = e * EpochPeriod + EpochPeriod + EpochPeriod
  BY <1>1, <1>3
<1>6. /\ StartBlock(e) = GenesisBlock + e * EpochPeriod
      /\ StartBlock(e + 1) = GenesisBlock + e * EpochPeriod + EpochPeriod
      /\ StartBlock(e + 2) = GenesisBlock + e * EpochPeriod + EpochPeriod + EpochPeriod
  <2>1. /\ StartBlock(e + 1) = GenesisBlock + (e + 1) * EpochPeriod
        /\ StartBlock(e + 2) = GenesisBlock + (e + 2) * EpochPeriod
        /\ StartBlock(e) = GenesisBlock + e * EpochPeriod
    BY <1>4, StartValue
  <2> QED BY <1>1, <1>5, <2>1
<1> DEFINE end == StartBlock(e) + EpochPeriod
<1>7. end = StartBlock(e + 1) /\ end \in Nat /\ end >= GracePeriod
  BY <1>1, <1>5, <1>6
<1>8. end < BlockWord
  <2>1. end <= GenesisBlock + EpochWord * EpochPeriod
    <3>1. (e + 1) * EpochPeriod <= EpochWord * EpochPeriod
      BY <1>1, <1>3, <1>4, Products
    <3> QED BY <3>1, <1>1, <1>5, <1>6
  <2> QED BY <2>1, <1>1, <1>7
<1>9. end % BlockWord = end /\ (end - GracePeriod) % BlockWord = end - GracePeriod
  BY <1>1, <1>7, <1>8, Small
<1>10. (e + 1) % EpochWord = e + 1 /\ (e + 2) % EpochWord = e + 2
  BY <1>1, <1>3, Small
<1>11. GetEffectiveEpochByBlockNumber(b) =
         IF b >= end - GracePeriod THEN e + 2 ELSE e + 1
  BY <1>9, <1>10 DEF GetEffectiveEpochByBlockNumber, e
<1> QED BY <1>1, <1>6, <1>11 DEF e

\* A registration or deregistration takes effect after more than a grace period
\* and at most an epoch and a grace period (GetEffectiveEpochByBlockNumber): the
\* event listener has at least GracePeriod blocks to handle it.
THEOREM EffectiveAhead ==
    ASSUME NEW b \in BlocksBefore(2)
    PROVE  LET start == StartBlock(GetEffectiveEpochByBlockNumber(b)) IN
           /\ start > b + GracePeriod
           /\ start <= b + EpochPeriod + GracePeriod
<1>1. /\ GenesisBlock \in Nat /\ EpochPeriod \in Nat /\ EpochWord > 2
      /\ GracePeriod \in Nat /\ GracePeriod <= EpochPeriod /\ EpochWord \in Nat
  BY EpochAssumption DEF EpochAssumption
<1> DEFINE e   == CalculateCurrentEpochNumber(b)
           end == GenesisBlock + e * EpochPeriod + EpochPeriod
<1>2. b \in Nat
  BY DEF BlocksBefore
<1>3. e \in Nat /\ e * EpochPeriod \in Nat /\ end - EpochPeriod <= b /\ b < end
  BY <1>1, EpochOfBlock
<1>4. /\ GetEffectiveEpochByBlockNumber(b) =
             IF b >= end - GracePeriod THEN e + 2 ELSE e + 1
      /\ StartBlock(e + 1) = end /\ StartBlock(e + 2) = end + EpochPeriod
  BY EffectiveValue
<1>5. end \in Nat
  BY <1>1, <1>3
<1> HIDE DEF e, end
<1> QED BY <1>1, <1>2, <1>3, <1>4, <1>5

\* A block is at or behind the start of an epoch exactly if its epoch is.
LEMMA EpochAtLeast ==
    ASSUME NEW b \in BlocksBefore(0), NEW s \in 0 .. EpochWord - 1
    PROVE  /\ b >= StartBlock(s) <=> CalculateCurrentEpochNumber(b) >= s
           /\ StartBlock(s) \in Nat
<1>1. /\ GenesisBlock \in Nat /\ EpochPeriod \in Nat /\ EpochWord \in Nat
      /\ EpochPeriod > 0 /\ b \in Nat
  BY EpochAssumption DEF EpochAssumption, BlocksBefore
<1> DEFINE e == CalculateCurrentEpochNumber(b)
<1>2. /\ e \in Nat /\ GenesisBlock + e * EpochPeriod <= b
      /\ b < GenesisBlock + e * EpochPeriod + EpochPeriod
  BY <1>1, EpochOfBlock
<1> HIDE DEF e
<1>3. StartBlock(s) = GenesisBlock + s * EpochPeriod /\ StartBlock(s) \in Nat
  BY <1>1, StartValue
<1>4. s \in Nat /\ s * EpochPeriod \in Nat /\ e * EpochPeriod \in Nat
  BY <1>1, <1>2, Products
<1>5. CASE s <= e
  <2>1. s * EpochPeriod <= e * EpochPeriod
    BY <1>1, <1>2, <1>4, <1>5, Products
  <2> QED BY <2>1, <1>1, <1>2, <1>3, <1>4, <1>5 DEF e
<1>6. CASE e < s
  <2>1. e * EpochPeriod + EpochPeriod <= s * EpochPeriod
    BY <1>1, <1>2, <1>4, <1>6, Products
  <2>2. b < StartBlock(s)
    BY <2>1, <1>1, <1>2, <1>3, <1>4
  <2>3. ~(b >= StartBlock(s)) /\ ~(e >= s)
    BY <2>2, <1>1, <1>2, <1>3, <1>4, <1>6
  <2> QED BY <2>3, <1>3 DEF e
<1> QED BY <1>2, <1>4, <1>5, <1>6

\* Unless the exit epoch lies before the activation, IsOperatorActive gives one
\* answer in all blocks of an epoch: deciding once per epoch is enough.
THEOREM StatusOfEpoch ==
    ASSUME NEW b \in BlocksBefore(0), NEW c \in BlocksBefore(0),
           CalculateCurrentEpochNumber(b) = CalculateCurrentEpochNumber(c),
           NEW active \in 0 .. EpochWord - 1, NEW exit \in 0 .. EpochWord - 1,
           active <= exit
    PROVE  IsOperatorActive(b, active, exit) <=> IsOperatorActive(c, active, exit)
<1>1. b \in Nat /\ c \in Nat /\ EpochWord \in Nat
  BY EpochAssumption DEF EpochAssumption, BlocksBefore
<1>2. /\ (b >= StartBlock(active) <=> c >= StartBlock(active)) /\ StartBlock(active) \in Nat
      /\ (b >= StartBlock(exit) <=> c >= StartBlock(exit)) /\ StartBlock(exit) \in Nat
  BY EpochAtLeast
<1>3. ~(exit < active)
  BY <1>1
<1> QED BY <1>1, <1>2, <1>3 DEF IsOperatorActive

----------------------------------------------------------------------------
(* Epochs fit their word.                                                  *)

LEMMA ModRange ==
    ASSUME NEW n \in Int, NEW m \in Nat, m > 0
    PROVE  n % m \in 0 .. m - 1
OBVIOUS

LEMMA EpochType ==
    ASSUME NEW b \in Nat
    PROVE  CalculateCurrentEpochNumber(b) \in Epochs
<1>1. (b - GenesisBlock) % BlockWord \in Nat
  BY EpochAssumption, ModRange DEF EpochAssumption
<1>2. ((b - GenesisBlock) % BlockWord) \div EpochPeriod \in Int
  BY <1>1, EpochAssumption DEF EpochAssumption
<1> QED BY <1>2, EpochAssumption, ModRange
        DEF CalculateCurrentEpochNumber, Epochs, EpochAssumption

LEMMA EffectiveType ==
    ASSUME NEW b \in Nat
    PROVE  GetEffectiveEpochByBlockNumber(b) \in Epochs
<1> DEFINE e == CalculateCurrentEpochNumber(b)
<1>1. e \in Int
  BY EpochType, EpochAssumption DEF Epochs, EpochAssumption
<1> HIDE DEF e
<1>2. e + 2 \in Int /\ e + 1 \in Int
  BY <1>1
<1>3. (e + 2) % EpochWord \in Epochs /\ (e + 1) % EpochWord \in Epochs
  BY <1>2, EpochAssumption, ModRange DEF Epochs, EpochAssumption
<1> QED BY <1>3 DEF GetEffectiveEpochByBlockNumber, e

----------------------------------------------------------------------------
(* Type correctness.                                                       *)

LEMMA RowFields ==
    ASSUME NEW r \in Row
    PROVE  /\ r.known \in BOOLEAN /\ r.isActive \in BOOLEAN
           /\ r.active \in Epochs /\ r.exit \in Epochs
           /\ \A e \in Epochs : [r EXCEPT !.exit = e] \in Row
           /\ \A x \in BOOLEAN : [r EXCEPT !.isActive = x] \in Row
BY DEF Row

LEMMA NoUpdateType == NoUpdate \in Update
BY EpochAssumption DEF NoUpdate, Update, NoRow, Row, Epochs, EpochAssumption

LEMMA EventFields ==
    ASSUME TypeOK, NEW i \in DOMAIN log
    PROVE  /\ log[i] \in Event
           /\ log[i].kind \in Kinds /\ log[i].op \in Operators /\ log[i].block \in Nat
           /\ Effective(i) \in Epochs
<1>1. log[i] \in Event
  BY DEF TypeOK
<1>2. log[i].kind \in Kinds /\ log[i].op \in Operators /\ log[i].block \in Nat
  BY <1>1 DEF Event
<1> QED BY <1>1, <1>2, EffectiveType DEF Effective

LEMMA NewRowType ==
    ASSUME TypeOK, NEW i \in DOMAIN log
    PROVE  [known |-> TRUE, active |-> Effective(i), exit |-> NeverEpoch,
            isActive |-> FALSE] \in Row
BY EventFields, EpochAssumption DEF Row, NeverEpoch, Epochs, EpochAssumption

LEMMA TypeInit == Init => TypeOK
<1> SUFFICES ASSUME Init PROVE TypeOK
  OBVIOUS
<1>1. NoRow \in Row
  BY EpochAssumption DEF NoRow, Row, Epochs, EpochAssumption
<1> QED BY <1>1, NoUpdateType, EpochAssumption
        DEF Init, Fresh, TypeOK, Epochs, EpochAssumption

\* Batches hold positions of the log.
BatchInLog == \A k \in Kinds : batch[k] \subseteq DOMAIN log

LEMMA ReceiveType ==
    ASSUME TypeOK, BatchInLog, NEW k \in Kinds, Receive(k)
    PROVE  TypeOK'
<1>1. PICK i \in batch[k] :
         /\ batch' = [batch EXCEPT ![k] = @ \ {i}]
         /\ cursor' = [cursor EXCEPT
                          ![k] = IF log[i].block > @ THEN log[i].block ELSE @]
         /\ handled' = handled \cup {i}
         /\ IF k = "registered" THEN HandleRegistered(i) ELSE HandleDeregistered(i)
  BY DEF Receive
<1>2. i \in DOMAIN log /\ i \in Nat
  BY DEF BatchInLog, TypeOK
<1>3. log[i].op \in Operators /\ log[i].block \in Nat /\ Effective(i) \in Epochs
  BY <1>2, EventFields
<1>4. /\ UNCHANGED <<block, log, last, state, upd, restarts>>
  BY DEF Receive
<1>5. ASSUME NEW row \in Row, SetRow(log[i].op, row)
      PROVE  rows' \in [Operators -> Row] /\ clean' \in SUBSET Operators
  BY <1>3, <1>5 DEF SetRow, TypeOK
<1>6. /\ rows' \in [Operators -> Row] /\ clean' \in SUBSET Operators
      /\ listener' \in {"running", "dead"} /\ failures' \in Nat
      /\ lost' \in SUBSET Nat
  <2>1. CASE HandleRegistered(i)
    <3>1. CASE Lose(i)
      <4>1. /\ failures' = failures + 1 /\ lost' = lost \cup {i}
            /\ rows' = rows /\ clean' = clean /\ listener' = listener
        BY <3>1 DEF Lose, Fail
      <4>2. lost \in SUBSET Nat /\ failures \in Nat
        BY DEF TypeOK
      <4>3. rows \in [Operators -> Row] /\ clean \in SUBSET Operators
            /\ listener \in {"running", "dead"}
        BY DEF TypeOK
      <4>4. lost' \in SUBSET Nat
        BY <4>1, <4>2, <1>2
      <4>5. failures' \in Nat
        BY <4>1, <4>2
      <4> QED BY <4>1, <4>3, <4>4, <4>5
    <3>2. CASE ~Lose(i)
      BY <2>1, <3>2, <1>2, <1>5, NewRowType DEF HandleRegistered, UpsertOperator, TypeOK
    <3> QED BY <3>1, <3>2
  <2>2. CASE HandleDeregistered(i)
    <3>1. [rows[log[i].op] EXCEPT !.exit = Effective(i)] \in Row
      BY <1>3, RowFields DEF TypeOK
    <3> QED BY <2>2, <3>1, <1>2, <1>5
         DEF HandleDeregistered, UpdateOperatorExitEpoch, Lose, Fail, TypeOK
  <2> QED BY <1>1, <2>1, <2>2
<1>7. batch' \in [Kinds -> SUBSET Nat] /\ cursor' \in [Kinds -> Nat]
      /\ handled' \in SUBSET Nat
  BY <1>1, <1>2, <1>3 DEF TypeOK
<1> QED BY <1>4, <1>6, <1>7 DEF TypeOK

LEMMA UpdateFields ==
    ASSUME NEW u \in Update
    PROVE  /\ u.epoch \in Epochs /\ u.block \in Nat
           /\ u.list \in [Operators -> Row]
           /\ u.todo \in SUBSET Operators /\ u.written \in SUBSET Operators
           /\ \A e \in Epochs : [u EXCEPT !.pc = "begin", !.epoch = e] \in Update
           /\ \A b \in Nat : [u EXCEPT !.pc = "list", !.block = b] \in Update
           /\ \A l \in [Operators -> Row], t \in SUBSET Operators :
                [u EXCEPT !.pc = "write", !.list = l, !.todo = t] \in Update
           /\ \A o \in Operators :
                [u EXCEPT !.todo = @ \ {o}, !.written = @ \cup {o}] \in Update
BY DEF Update

LEMMA UpdatorType ==
    ASSUME TypeOK, Updator \/ Abort
    PROVE  TypeOK'
<1> USE DEF UpdatorOnly
<1>1. CASE Tick
  <2>1. CurrentEpoch \in Epochs
    BY EpochType DEF CurrentEpoch, TypeOK
  <2> QED BY <1>1, <2>1, UpdateFields DEF Tick, TypeOK
<1>2. CASE Begin
  BY <1>2, UpdateFields DEF Begin, TypeOK
<1>3. CASE List
  <2>1. ListAllOperators \in SUBSET Operators
    BY DEF ListAllOperators
  <2>2. upd' \in Update
    BY <1>3, <2>1, UpdateFields DEF List, TypeOK
  <2> QED BY <1>3, <2>1, <2>2 DEF List, TypeOK
<1>4. ASSUME NEW o \in Operators, Write(o)
      PROVE  TypeOK'
  BY <1>4, UpdateFields DEF Write, TypeOK
<1>5. CASE Commit
  <2>1. \A o \in Operators : Decision(o) \in BOOLEAN
    BY DEF Decision, IsOperatorActive
  <2>2. rows' \in [Operators -> Row]
    BY <1>5, <2>1, RowFields DEF Commit, UpdateOperatorState, TypeOK
  <2>3. upd' \in Update /\ last' \in Epochs
    BY <1>5, NoUpdateType, UpdateFields DEF Commit, TypeOK
  <2> QED BY <1>5, <2>2, <2>3 DEF Commit, TypeOK
<1>6. CASE Abort
  BY <1>6, NoUpdateType DEF Abort, Fail, TypeOK
<1> QED BY <1>1, <1>2, <1>3, <1>4, <1>5, <1>6 DEF Updator

LEMMA AppendFacts ==
    ASSUME TypeOK, NEW k \in Kinds, NEW o \in Operators, Emit(k, o)
    PROVE  /\ log' \in Seq(Event)
           /\ DOMAIN log' = DOMAIN log \cup {Len(log) + 1}
           /\ \A i \in DOMAIN log : i \in DOMAIN log' /\ log'[i] = log[i]
           /\ log'[Len(log) + 1] = [kind |-> k, op |-> o, block |-> block + 1]
           /\ Len(log) \in Nat /\ DOMAIN log = 1 .. Len(log)
<1> DEFINE e == [kind |-> k, op |-> o, block |-> block + 1]
<1>1. e \in Event
  BY DEF Event, TypeOK
<1>2. log' = Append(log, e)
  BY DEF Emit
<1> HIDE DEF e
<1>3. log \in Seq(Event)
  BY DEF TypeOK
<1> QED BY <1>1, <1>2, <1>3 DEF e

LEMMA ChainType ==
    ASSUME TypeOK, Chain
    PROVE  TypeOK'
<1>1. CASE Mine
  BY <1>1 DEF Mine, TypeOK
<1>2. ASSUME NEW k \in Kinds, NEW o \in Operators, Emit(k, o)
      PROVE  TypeOK'
  <2>1. log' \in Seq(Event)
    BY <1>2, AppendFacts
  <2> QED BY <1>2, <2>1 DEF Emit, TypeOK
<1> QED BY <1>1, <1>2 DEF Chain

LEMMA FetchType ==
    ASSUME TypeOK, NEW k \in Kinds, Fetch(k)
    PROVE  TypeOK'
<1>1. Fetchable(k) \in SUBSET Nat
  BY DEF Fetchable, TypeOK
<1> QED BY <1>1 DEF Fetch, FetchTo, TypeOK

LEMMA RestartType ==
    ASSUME TypeOK, Restart
    PROVE  TypeOK'
BY NoUpdateType, EpochAssumption DEF Restart, TypeOK, Epochs, EpochAssumption

----------------------------------------------------------------------------
(* The watchers skip nothing.                                              *)

\* Blocks of the log never go back, and at most the next block is beyond the
\* head; no cursor is beyond the head.
LogOrdered ==
    /\ block >= GenesisBlock
    /\ \A i \in DOMAIN log :
          GenesisBlock <= log[i].block /\ log[i].block <= block + 1
    /\ \A i, j \in DOMAIN log : i <= j => log[i].block <= log[j].block
    /\ \A k \in Kinds : cursor[k] <= block

\* What was received is mined and lies at or before the cursor of its watcher.
HandledPassed ==
    \A h \in handled :
        /\ h \in DOMAIN log /\ log[h].block <= block
        /\ log[h].block <= cursor[log[h].kind]

\* A batch holds mined events of its kind, later than those received, and every
\* event that is not later than one of its own.
BatchComplete ==
    \A k \in Kinds : \A b \in batch[k] :
        /\ b \in DOMAIN log /\ log[b].kind = k /\ log[b].block <= block
        /\ \A h \in handled : log[h].kind = k => h < b
        /\ \A j \in DOMAIN log :
              log[j].kind = k /\ log[j].block <= log[b].block =>
                  j \in handled \cup batch[k]

WatchInv ==
    TypeOK /\ LogOrdered /\ HandledPassed /\ BatchComplete /\ NoEventSkipped

LEMMA WatchInit == Init => WatchInv
<1> SUFFICES ASSUME Init PROVE WatchInv
  OBVIOUS
<1>1. TypeOK
  BY TypeInit
<1>2. DOMAIN log = {}
  BY DEF Init
<1> QED BY <1>1, <1>2, EpochAssumption
        DEF Init, Fresh, WatchInv, LogOrdered, HandledPassed, BatchComplete,
            NoEventSkipped, EpochAssumption

LEMMA WatchBatch == WatchInv => BatchInLog
BY DEF WatchInv, BatchComplete, BatchInLog

\* The variables of the watchers, which the updator never touches.
watched == <<block, log, cursor, batch, handled>>

LEMMA WatchQuiet ==
    ASSUME WatchInv, TypeOK', UNCHANGED watched
    PROVE  WatchInv'
BY DEF watched, WatchInv, LogOrdered, HandledPassed, BatchComplete, NoEventSkipped

LEMMA WatchEmit ==
    ASSUME WatchInv, NEW k \in Kinds, NEW o \in Operators, Emit(k, o)
    PROVE  WatchInv'
<1> DEFINE n == Len(log) + 1
<1>1. /\ DOMAIN log' = DOMAIN log \cup {n}
      /\ \A i \in DOMAIN log : log'[i] = log[i] /\ i < n /\ i \in Nat
      /\ log'[n].kind = k /\ log'[n].block = block + 1 /\ n \in Nat
  <2>1. TypeOK
    BY DEF WatchInv
  <2>2. DOMAIN log = 1 .. Len(log) /\ Len(log) \in Nat
    BY <2>1, AppendFacts
  <2>3. log'[n] = [kind |-> k, op |-> o, block |-> block + 1]
    BY <2>1, AppendFacts
  <2>4. DOMAIN log' = DOMAIN log \cup {n} /\ \A i \in DOMAIN log : log'[i] = log[i]
    BY <2>1, AppendFacts
  <2> QED BY <2>2, <2>3, <2>4
<1>2. TypeOK'
  BY ChainType DEF WatchInv, Chain
<1>3. UNCHANGED <<block, cursor, batch, handled>>
  BY DEF Emit
<1>4. block \in Nat /\ \A i \in DOMAIN log : log[i].block \in Nat /\ log[i].kind \in Kinds
  BY EventFields DEF WatchInv, TypeOK
<1>5. \A q \in Kinds : cursor[q] \in Nat
  BY DEF WatchInv, TypeOK
<1> HIDE DEF n
<1>6. LogOrdered'
  BY <1>1, <1>3, <1>4, <1>5, EpochAssumption DEF WatchInv, LogOrdered, EpochAssumption
<1>7. HandledPassed'
  BY <1>1, <1>3 DEF WatchInv, HandledPassed
<1>8. BatchComplete'
  BY <1>1, <1>3, <1>4 DEF WatchInv, BatchComplete, HandledPassed
<1>9. NoEventSkipped'
  BY <1>1, <1>3, <1>4, <1>5 DEF WatchInv, NoEventSkipped, LogOrdered
<1> QED BY <1>2, <1>6, <1>7, <1>8, <1>9 DEF WatchInv

LEMMA WatchMine ==
    ASSUME WatchInv, Mine
    PROVE  WatchInv'
<1>1. TypeOK'
  BY ChainType DEF WatchInv, Chain
<1>2. block \in Nat /\ (\A i \in DOMAIN log : log[i].block \in Nat)
      /\ (\A k \in Kinds : cursor[k] \in Nat) /\ GenesisBlock \in Nat
  BY EventFields, EpochAssumption DEF WatchInv, TypeOK, EpochAssumption
<1>3. block' = block + 1 /\ UNCHANGED <<log, cursor, batch, handled>>
  BY DEF Mine
<1>4. LogOrdered'
  BY <1>2, <1>3 DEF WatchInv, LogOrdered
<1>5. HandledPassed'
  BY <1>2, <1>3 DEF WatchInv, HandledPassed
<1>6. BatchComplete'
  BY <1>2, <1>3 DEF WatchInv, BatchComplete
<1> QED BY <1>1, <1>3, <1>4, <1>5, <1>6 DEF WatchInv, NoEventSkipped

LEMMA WatchFetch ==
    ASSUME WatchInv, NEW k \in Kinds, Fetch(k)
    PROVE  WatchInv'
<1>1. TypeOK'
  BY FetchType DEF WatchInv
<1>2. UNCHANGED <<block, log, cursor, handled>> /\ batch[k] = {}
      /\ batch' = [batch EXCEPT ![k] = Fetchable(k)]
  BY DEF Fetch, FetchTo
<1>3. batch \in [Kinds -> SUBSET Nat] /\ batch'[k] = Fetchable(k)
      /\ \A q \in Kinds : q # k => batch'[q] = batch[q]
  BY <1>2 DEF WatchInv, TypeOK
<1>4. block \in Nat /\ (\A i \in DOMAIN log : i \in Nat /\ log[i].block \in Nat /\ log[i].kind \in Kinds)
      /\ (\A q \in Kinds : cursor[q] \in Nat)
  BY EventFields DEF WatchInv, TypeOK
<1>5. ASSUME NEW b \in Fetchable(k)
      PROVE  /\ b \in DOMAIN log /\ log[b].kind = k /\ log[b].block <= block
             /\ \A h \in handled : log[h].kind = k => h < b
             /\ \A j \in DOMAIN log :
                   log[j].kind = k /\ log[j].block <= log[b].block =>
                       j \in handled \cup Fetchable(k)
  <2>1. b \in DOMAIN log /\ log[b].kind = k /\ log[b].block <= block
        /\ cursor[k] < log[b].block
    BY DEF Fetchable
  <2>2. ASSUME NEW h \in handled, log[h].kind = k
        PROVE  h < b
    <3>1. h \in DOMAIN log /\ log[h].block <= cursor[k]
      BY <2>2 DEF WatchInv, HandledPassed
    <3>2. log[h].block < log[b].block
      BY <3>1, <2>1, <1>4
    <3> QED BY <3>1, <3>2, <2>1, <1>4 DEF WatchInv, LogOrdered
  <2>3. ASSUME NEW j \in DOMAIN log, log[j].kind = k, log[j].block <= log[b].block
        PROVE  j \in handled \cup Fetchable(k)
    <3>1. CASE log[j].block <= cursor[k]
      BY <2>3, <3>1, <1>2 DEF WatchInv, NoEventSkipped
    <3>2. CASE log[j].block > cursor[k]
      BY <2>1, <2>3, <3>2, <1>4 DEF Fetchable
    <3> QED BY <3>1, <3>2, <1>4
  <2> QED BY <2>1, <2>2, <2>3
<1>6. BatchComplete'
  BY <1>2, <1>3, <1>5 DEF WatchInv, BatchComplete
<1>7. NoEventSkipped'
  BY <1>2, <1>3, <1>4 DEF WatchInv, NoEventSkipped
<1>8. LogOrdered' /\ HandledPassed'
  BY <1>2 DEF WatchInv, LogOrdered, HandledPassed
<1> QED BY <1>1, <1>6, <1>7, <1>8 DEF WatchInv

LEMMA WatchReceive ==
    ASSUME WatchInv, NEW k \in Kinds, Receive(k)
    PROVE  WatchInv'
<1>1. TypeOK'
  BY ReceiveType, WatchBatch DEF WatchInv
<1>2. PICK i \in batch[k] :
         /\ \A j \in batch[k] : i <= j
         /\ batch' = [batch EXCEPT ![k] = @ \ {i}]
         /\ cursor' = [cursor EXCEPT
                          ![k] = IF log[i].block > @ THEN log[i].block ELSE @]
         /\ handled' = handled \cup {i}
  BY DEF Receive
<1>3. block' = block /\ log' = log
  BY DEF Receive
<1>4. /\ batch \in [Kinds -> SUBSET Nat] /\ cursor \in [Kinds -> Nat] /\ block \in Nat
      /\ \A j \in DOMAIN log : j \in Nat /\ log[j].block \in Nat /\ log[j].kind \in Kinds
  BY EventFields DEF WatchInv, TypeOK
<1>5. i \in DOMAIN log /\ log[i].kind = k /\ log[i].block <= block
  BY DEF WatchInv, BatchComplete
<1>6. /\ batch'[k] = batch[k] \ {i}
      /\ \A q \in Kinds : q # k => batch'[q] = batch[q] /\ cursor'[q] = cursor[q]
      /\ cursor'[k] = IF log[i].block > cursor[k] THEN log[i].block ELSE cursor[k]
  BY <1>2, <1>4
<1>7. \A q \in Kinds : cursor[q] <= cursor'[q] /\ cursor'[q] <= block
                       /\ cursor'[q] \in Nat
  BY <1>4, <1>5, <1>6 DEF WatchInv, LogOrdered
<1>8. LogOrdered'
  BY <1>3, <1>7 DEF WatchInv, LogOrdered
<1>9. HandledPassed'
  <2>1. log[i].block <= cursor'[k]
    BY <1>4, <1>5, <1>6
  <2>2. ASSUME NEW h \in handled
        PROVE  /\ h \in DOMAIN log /\ log[h].block <= block
               /\ log[h].block <= cursor'[log[h].kind]
    <3>1. h \in DOMAIN log /\ log[h].block <= block /\ log[h].block <= cursor[log[h].kind]
      BY DEF WatchInv, HandledPassed
    <3>2. cursor[log[h].kind] \in Nat /\ cursor[log[h].kind] <= cursor'[log[h].kind]
      BY <3>1, <1>4, <1>7
    <3> QED BY <3>1, <3>2, <1>4, <1>7
  <2> QED BY <1>2, <1>3, <1>5, <2>1, <2>2 DEF HandledPassed
<1>10. BatchComplete'
  <2>1. ASSUME NEW q \in Kinds, NEW b \in batch'[q]
        PROVE  /\ b \in DOMAIN log /\ log[b].kind = q /\ log[b].block <= block
               /\ \A h \in handled' : log[h].kind = q => h < b
               /\ \A j \in DOMAIN log :
                     log[j].kind = q /\ log[j].block <= log[b].block =>
                         j \in handled' \cup batch'[q]
    <3>1. b \in batch[q] /\ (q = k => b # i)
      BY <1>6
    <3>2. /\ b \in DOMAIN log /\ log[b].kind = q /\ log[b].block <= block
          /\ \A h \in handled : log[h].kind = q => h < b
          /\ \A j \in DOMAIN log :
                log[j].kind = q /\ log[j].block <= log[b].block =>
                    j \in handled \cup batch[q]
      BY <3>1 DEF WatchInv, BatchComplete
    <3>3. log[i].kind = q => i < b
      BY <1>2, <1>4, <1>5, <3>1, <3>2
    <3>4. handled \cup batch[q] \subseteq handled' \cup batch'[q]
      BY <1>2, <1>6
    <3> QED BY <1>2, <3>2, <3>3, <3>4
  <2> QED BY <2>1, <1>3 DEF BatchComplete
<1>11. NoEventSkipped'
  <2>1. ASSUME NEW j \in DOMAIN log, log[j].block <= cursor'[log[j].kind]
        PROVE  j \in handled' \cup batch'[log[j].kind]
    <3>1. handled \cup batch[log[j].kind] \subseteq handled' \cup batch'[log[j].kind]
      BY <1>2, <1>4, <1>6
    <3>2. CASE log[j].block <= cursor[log[j].kind]
      BY <3>1, <3>2 DEF WatchInv, NoEventSkipped
    <3>3. CASE log[j].kind = k /\ log[j].block <= log[i].block
      BY <3>1, <3>3 DEF WatchInv, BatchComplete
    <3> QED BY <2>1, <3>2, <3>3, <1>4, <1>6
  <2> QED BY <2>1, <1>3 DEF NoEventSkipped
<1> QED BY <1>1, <1>8, <1>9, <1>10, <1>11 DEF WatchInv

LEMMA WatchRestart ==
    ASSUME WatchInv, Restart
    PROVE  WatchInv'
<1>1. TypeOK'
  BY RestartType DEF WatchInv
<1>2. /\ UNCHANGED <<block, log>> /\ handled' = {}
      /\ \A k \in Kinds : batch'[k] = {} /\ cursor'[k] = GenesisBlock - 1
  BY DEF Restart
<1>3. /\ \A i \in DOMAIN log : log[i].block \in Nat /\ log[i].kind \in Kinds
      /\ GenesisBlock \in Nat /\ block \in Nat
  BY EventFields, EpochAssumption DEF WatchInv, TypeOK, EpochAssumption
<1>4. LogOrdered'
  BY <1>2, <1>3 DEF WatchInv, LogOrdered
<1>5. NoEventSkipped'
  BY <1>2, <1>3 DEF WatchInv, LogOrdered, NoEventSkipped
<1> QED BY <1>1, <1>2, <1>4, <1>5 DEF WatchInv, HandledPassed, BatchComplete

\* No event of the registry falls between two polls (chain_client.go), for any
\* number of operators, events, restarts and failures: WatchInv is inductive.
THEOREM WatchCorrect == Spec => []WatchInv
<1>1. Init => WatchInv
  BY WatchInit
<1>2. ASSUME WatchInv, [Next]_vars
      PROVE  WatchInv'
  <2> USE <1>2
  <2>1. CASE Mine
    BY <2>1, WatchMine
  <2>2. ASSUME NEW k \in Kinds, NEW o \in Operators, Emit(k, o)
        PROVE  WatchInv'
    BY <2>2, WatchEmit
  <2>3. ASSUME NEW k \in Kinds, Fetch(k)
        PROVE  WatchInv'
    BY <2>3, WatchFetch
  <2>4. ASSUME NEW k \in Kinds, Receive(k)
        PROVE  WatchInv'
    BY <2>4, WatchReceive
  <2>5. CASE Updator \/ Abort
    <3>1. UNCHANGED watched
      BY <2>5 DEF Updator, Abort, Tick, Begin, List, Write, Commit, UpdatorOnly,
                  watched
    <3>2. TypeOK'
      BY <2>5, UpdatorType DEF WatchInv
    <3> QED BY <3>1, <3>2, WatchQuiet
  <2>6. CASE Restart
    BY <2>6, WatchRestart
  <2>7. CASE UNCHANGED vars
    BY <2>7, WatchQuiet DEF vars, watched, WatchInv, TypeOK
  <2> QED BY <2>1, <2>2, <2>3, <2>4, <2>5, <2>6, <2>7 DEF Next, Chain
<1> QED BY <1>1, <1>2, PTL DEF Spec

\* Type correctness of the registry, for every choice of its constants.
THEOREM TypeCorrect == Spec => []TypeOK
<1>1. WatchInv => TypeOK
  BY DEF WatchInv
<1> QED BY <1>1, WatchCorrect, PTL

\* The watchers deliver every event of the registry at or before their cursor.
THEOREM SkipCorrect == Spec => []NoEventSkipped
<1>1. WatchInv => NoEventSkipped
  BY DEF WatchInv
<1> QED BY <1>1, WatchCorrect, PTL

----------------------------------------------------------------------------
(* Registrations are tracked.                                              *)

\* A set of positions has a greatest one.
LEMMA MaxExists ==
    ASSUME NEW n \in Nat, NEW S \in SUBSET (1 .. n), S # {}
    PROVE  Max(S) \in S /\ \A y \in S : y <= Max(S)
<1> DEFINE T == {u \in Nat : \A x \in S : x <= u}
<1>1. n \in T
  OBVIOUS
<1>2. PICK m \in T : \A y \in T : ~(<<y, m>> \in OpToRel(<, Nat))
  BY <1>1, NatLessThanWellFounded, WFMin
<1>3. \A y \in T : ~(y < m)
  BY <1>2 DEF OpToRel
<1>4. m \in S
  <2> SUFFICES ASSUME m \notin S PROVE FALSE
    OBVIOUS
  <2>1. m \in Nat /\ \A x \in S : x \in Nat /\ x >= 1 /\ x <= m /\ x # m
    OBVIOUS
  <2>2. \A x \in S : x <= m - 1
    BY <2>1
  <2>3. m - 1 \in Nat
    <3>1. PICK x \in S : TRUE
      OBVIOUS
    <3>2. x \in Nat /\ x >= 1 /\ x <= m
      BY <2>1
    <3> QED BY <2>1, <3>2
  <2>4. m - 1 \in T
    BY <2>2, <2>3
  <2> QED BY <2>1, <2>4, <1>3
<1>5. \E x \in S : \A y \in S : x >= y
  BY <1>4
<1>6. Max(S) \in S /\ \A y \in S : Max(S) >= y
  BY <1>5 DEF Max
<1> QED BY <1>6

Registration(i, o) == log[i].op = o /\ log[i].kind = "registered"

\* The row of an operator is about the latest of its registrations that were
\* received since the start.
RowsFollow ==
    \A o \in Operators : \A h \in handled :
        /\ Registration(h, o) /\ h \notin lost
        /\ \A g \in handled : Registration(g, o) => g <= h
        => rows[o].known /\ rows[o].active = Effective(h)

TrackInv == WatchInv /\ RowsFollow

LEMMA TrackGoal == TrackInv => RegistrationsTracked
<1> SUFFICES ASSUME TrackInv, NEW o \in Operators,
                    {i \in Mined(o) : log[i].kind = "registered"} # {},
                    {i \in Mined(o) : log[i].kind = "registered"} \subseteq handled,
                    Max({i \in Mined(o) : log[i].kind = "registered"}) \notin lost
             PROVE  LET regs == {i \in Mined(o) : log[i].kind = "registered"}
                    IN  rows[o].known /\ rows[o].active = Effective(Max(regs))
  BY DEF RegistrationsTracked
<1> DEFINE regs == {i \in Mined(o) : log[i].kind = "registered"}
<1>1. Len(log) \in Nat /\ DOMAIN log = 1 .. Len(log)
  BY DEF TrackInv, WatchInv, TypeOK
<1>2. regs \in SUBSET (1 .. Len(log))
  BY <1>1 DEF Mined
<1>3. Max(regs) \in regs /\ \A y \in regs : y <= Max(regs)
  BY <1>1, <1>2, MaxExists
<1>4. Max(regs) \in handled /\ Max(regs) \notin lost /\ Registration(Max(regs), o)
  BY <1>3 DEF Mined, Registration
<1>5. \A g \in handled : Registration(g, o) => g \in regs
  BY DEF TrackInv, WatchInv, HandledPassed, Registration, Mined
<1> HIDE DEF regs
<1>6. rows[o].known /\ rows[o].active = Effective(Max(regs))
  BY <1>3, <1>4, <1>5 DEF TrackInv, RowsFollow
<1> QED BY <1>6 DEF regs

\* A step that receives nothing and leaves the epochs of the rows alone.
LEMMA TrackQuiet ==
    ASSUME TrackInv, WatchInv', handled' \subseteq handled,
           handled' = {} \/ (handled' = handled /\ lost' = lost),
           \A i \in DOMAIN log : log'[i] = log[i],
           \A o \in Operators : /\ rows'[o].known = rows[o].known
                                 /\ rows'[o].active = rows[o].active
    PROVE  TrackInv'
<1>1. \A h \in handled : h \in DOMAIN log
  BY DEF TrackInv, WatchInv, HandledPassed
<1>2. CASE handled' = {}
  BY <1>2 DEF TrackInv, RowsFollow
<1>3. CASE handled' = handled /\ lost' = lost
  <2>1. \A h \in handled, o \in Operators : Registration(h, o)' <=> Registration(h, o)
    BY <1>1 DEF Registration
  <2>2. \A h \in handled : Effective(h)' = Effective(h)
    BY <1>1 DEF Effective
  <2> QED BY <1>3, <2>1, <2>2 DEF TrackInv, RowsFollow
<1> QED BY <1>2, <1>3

LEMMA TrackReceive ==
    ASSUME TrackInv, WatchInv', NEW k \in Kinds, Receive(k)
    PROVE  TrackInv'
<1>1. PICK i \in batch[k] :
         /\ handled' = handled \cup {i}
         /\ IF k = "registered" THEN HandleRegistered(i) ELSE HandleDeregistered(i)
  BY DEF Receive
<1>2. log' = log
  BY DEF Receive
<1>3. /\ i \in DOMAIN log /\ log[i].kind = k
      /\ \A h \in handled : log[h].kind = k => h < i
  BY DEF TrackInv, WatchInv, BatchComplete
<1>4. log[i].op \in Operators /\ i \in Nat /\ rows \in [Operators -> Row]
      /\ \A h \in handled : h \in Nat
  BY <1>3, EventFields DEF TrackInv, WatchInv, TypeOK
<1>5. \A h, o : (Registration(h, o)' <=> Registration(h, o)) /\ Effective(h)' = Effective(h)
  BY <1>2 DEF Registration, Effective
<1>6. CASE k = "registered" /\ ~Lose(i)
  <2>0. lost' = lost
    BY <1>1, <1>6 DEF HandleRegistered
  <2>1. rows' = [rows EXCEPT ![log[i].op] =
                   [known |-> TRUE, active |-> Effective(i),
                    exit |-> NeverEpoch, isActive |-> FALSE]]
    BY <1>1, <1>6 DEF HandleRegistered, UpsertOperator, SetRow
  <2>2. rows'[log[i].op].known /\ rows'[log[i].op].active = Effective(i)
    BY <2>1, <1>4
  <2>3. \A o \in Operators : o # log[i].op => rows'[o] = rows[o]
    BY <2>1, <1>4
  <2>4. ASSUME NEW o \in Operators, NEW h \in handled', Registration(h, o),
               h \notin lost,
               \A g \in handled' : Registration(g, o) => g <= h
        PROVE  rows'[o].known /\ rows'[o].active = Effective(h)
    <3>1. CASE o = log[i].op
      <4>1. Registration(i, o)
        BY <1>3, <1>6, <3>1 DEF Registration
      <4>2. i <= h
        BY <4>1, <2>4, <1>1
      <4>3. h = i
        <5>1. h \in handled => h < i
          BY <1>3, <1>6, <2>4 DEF Registration
        <5> QED BY <5>1, <4>2, <1>1, <1>4
      <4> QED BY <4>3, <3>1, <2>2
    <3>2. CASE o # log[i].op
      <4>1. h \in handled
        BY <1>1, <3>2, <2>4 DEF Registration
      <4>2. \A g \in handled : Registration(g, o) => g <= h
        BY <1>1, <2>4
      <4>3. rows[o].known /\ rows[o].active = Effective(h)
        BY <4>1, <4>2, <2>4 DEF TrackInv, RowsFollow
      <4> QED BY <4>3, <3>2, <2>3
    <3> QED BY <3>1, <3>2
  <2> QED BY <2>0, <2>4, <1>5 DEF TrackInv, RowsFollow
<1>7. CASE k = "registered" /\ Lose(i)
  <2>1. rows' = rows /\ lost' = lost \cup {i}
    BY <1>7 DEF Lose
  <2>2. ASSUME NEW o \in Operators, NEW h \in handled', Registration(h, o),
               h \notin lost',
               \A g \in handled' : Registration(g, o) => g <= h
        PROVE  rows[o].known /\ rows[o].active = Effective(h)
    <3>1. h \in handled /\ h \notin lost /\ \A g \in handled : Registration(g, o) => g <= h
      BY <1>1, <2>1, <2>2
    <3> QED BY <3>1, <2>2 DEF TrackInv, RowsFollow
  <2> QED BY <2>1, <2>2, <1>5 DEF TrackInv, RowsFollow
<1>8. CASE k = "deregistered"
  <2>0. lost \subseteq lost'
    BY <1>1, <1>8 DEF HandleDeregistered, Lose
  <2>1. \A o \in Operators : /\ rows'[o].known = rows[o].known
                             /\ rows'[o].active = rows[o].active
    <3>1. \/ rows' = rows
          \/ rows' = [rows EXCEPT ![log[i].op] =
                        [rows[log[i].op] EXCEPT !.exit = Effective(i)]]
      BY <1>1, <1>8 DEF HandleDeregistered, UpdateOperatorExitEpoch, SetRow, Lose
    <3>2. \A e : \A r \in Row : /\ [r EXCEPT !.exit = e].known = r.known
                               /\ [r EXCEPT !.exit = e].active = r.active
      BY DEF Row
    <3> DEFINE row == [rows[log[i].op] EXCEPT !.exit = Effective(i)]
    <3>3. row.known = rows[log[i].op].known /\ row.active = rows[log[i].op].active
      BY <3>2, <1>4
    <3> HIDE DEF row
    <3>4. rows' = rows \/ rows' = [rows EXCEPT ![log[i].op] = row]
      BY <3>1 DEF row
    <3> QED BY <3>3, <3>4, <1>4
  <2>2. \A o : ~Registration(i, o)
    BY <1>3, <1>8 DEF Registration
  <2>3. ASSUME NEW o \in Operators, NEW h \in handled', Registration(h, o),
               h \notin lost',
               \A g \in handled' : Registration(g, o) => g <= h
        PROVE  rows[o].known /\ rows[o].active = Effective(h)
    <3>1. h \in handled /\ \A g \in handled : Registration(g, o) => g <= h
      BY <1>1, <2>2, <2>3
    <3> QED BY <3>1, <2>0, <2>3 DEF TrackInv, RowsFollow
  <2> QED BY <2>1, <2>3, <1>5 DEF TrackInv, RowsFollow
<1> QED BY <1>6, <1>7, <1>8 DEF Kinds

LEMMA TrackStep ==
    ASSUME TrackInv, WatchInv', [Next]_vars
    PROVE  TrackInv'
<1>0. rows \in [Operators -> Row]
  BY DEF TrackInv, WatchInv, TypeOK
<1>1. CASE Mine
  BY <1>1, TrackQuiet DEF Mine
<1>2. ASSUME NEW k \in Kinds, NEW o \in Operators, Emit(k, o)
      PROVE  TrackInv'
  <2>1. \A i \in DOMAIN log : log'[i] = log[i]
    BY <1>2, AppendFacts DEF TrackInv, WatchInv
  <2>2. handled' = handled /\ lost' = lost /\ rows' = rows
    BY <1>2 DEF Emit
  <2> QED BY <2>1, <2>2, TrackQuiet
<1>3. ASSUME NEW k \in Kinds, Fetch(k)
      PROVE  TrackInv'
  BY <1>3, TrackQuiet DEF Fetch, FetchTo
<1>4. ASSUME NEW k \in Kinds, Receive(k)
      PROVE  TrackInv'
  BY <1>4, TrackReceive
<1>5. CASE Updator \/ Abort
  <2>1. handled' = handled /\ lost' = lost /\ log' = log
    BY <1>5 DEF Updator, Abort, Tick, Begin, List, Write, Commit, UpdatorOnly
  <2>2. \A o \in Operators : /\ rows'[o].known = rows[o].known
                             /\ rows'[o].active = rows[o].active
    <3>1. CASE Commit
      <4>1. \A x : \A r \in Row : /\ [r EXCEPT !.isActive = x].known = r.known
                                  /\ [r EXCEPT !.isActive = x].active = r.active
        BY DEF Row
      <4>2. rows' = [o \in Operators |->
                      IF o \in upd.written
                      THEN [rows[o] EXCEPT !.isActive = Decision(o)] ELSE rows[o]]
        BY <3>1 DEF Commit, UpdateOperatorState
      <4> QED BY <4>1, <4>2, <1>0
    <3>2. CASE ~Commit
      <4>1. rows' = rows
        BY <1>5, <3>2 DEF Updator, Abort, Tick, Begin, List, Write
      <4> QED BY <4>1
    <3> QED BY <3>1, <3>2
  <2> QED BY <2>1, <2>2, TrackQuiet
<1>6. CASE Restart
  BY <1>6, TrackQuiet DEF Restart
<1>7. CASE UNCHANGED vars
  BY <1>7, TrackQuiet DEF vars
<1> QED BY <1>1, <1>2, <1>3, <1>4, <1>5, <1>6, <1>7 DEF Next, Chain

LEMMA FollowCorrect == Spec => []RowsFollow
<1>1. Init => RowsFollow
  BY DEF Init, Fresh, RowsFollow
<1>2. RowsFollow /\ WatchInv /\ WatchInv' /\ [Next]_vars => RowsFollow'
  BY TrackStep DEF TrackInv
<1> QED BY <1>1, <1>2, WatchCorrect, PTL DEF Spec

\* An operator's row has the activation epoch of the last registration that was
\* received (handleOperatorRegistered) unless the statement for it failed, for
\* any number of operators, registrations, restarts and failures.
THEOREM RegistrationsCorrect == Spec => []RegistrationsTracked
<1>1. RowsFollow /\ WatchInv => RegistrationsTracked
  BY TrackGoal DEF TrackInv
<1> QED BY <1>1, FollowCorrect, WatchCorrect, PTL

----------------------------------------------------------------------------
(* One decision per epoch is enough.                                       *)

BlockBound == GenesisBlock <= block /\ block <= MaxBlock

LEMMA BoundBlocks ==
    ASSUME NEW b \in Nat, GenesisBlock <= b, b <= MaxBlock
    PROVE  b \in BlocksBefore(0)
<1>1. /\ GenesisBlock \in Nat /\ EpochPeriod \in Nat /\ EpochWord \in Nat /\ EpochWord > 2
      /\ MaxBlock \in Nat /\ MaxBlock < GenesisBlock + EpochPeriod * (EpochWord - 3)
  BY EpochAssumption, RegistryAssumption DEF EpochAssumption, RegistryAssumption
<1>2. /\ EpochPeriod * (EpochWord - 3) = EpochPeriod * EpochWord - 3 * EpochPeriod
      /\ EpochPeriod * EpochWord \in Nat
      /\ EpochWord - 0 = EpochWord
  BY <1>1
<1>3. b < GenesisBlock + EpochPeriod * EpochWord
  BY <1>1, <1>2
<1> QED BY <1>2, <1>3 DEF BlocksBefore

LEMMA StableNow ==
    ASSUME TypeOK, BlockBound
    PROVE  StableInEpoch
<1> SUFFICES ASSUME NEW o \in Operators, rows[o].active <= rows[o].exit,
                    NEW b \in GenesisBlock .. MaxBlock,
                    CalculateCurrentEpochNumber(b) = CurrentEpoch
             PROVE  IsOperatorActive(b, rows[o].active, rows[o].exit)
                    <=> IsOperatorActive(block, rows[o].active, rows[o].exit)
  BY DEF StableInEpoch
<1>1. b \in BlocksBefore(0)
  BY BoundBlocks, EpochAssumption, RegistryAssumption DEF EpochAssumption, RegistryAssumption
<1>2. block \in BlocksBefore(0)
  BY BoundBlocks DEF BlockBound, TypeOK
<1>3. rows[o].active \in 0 .. EpochWord - 1 /\ rows[o].exit \in 0 .. EpochWord - 1
  BY RowFields DEF TypeOK, Epochs
<1> QED BY <1>1, <1>2, <1>3, StatusOfEpoch DEF CurrentEpoch

LEMMA BoundCorrect == Spec => []BlockBound
<1>1. Init => BlockBound
  BY EpochAssumption, RegistryAssumption
     DEF Init, BlockBound, EpochAssumption, RegistryAssumption
<1>2. BlockBound /\ TypeOK /\ [Next]_vars => BlockBound'
  <2> SUFFICES ASSUME BlockBound, TypeOK, [Next]_vars PROVE BlockBound'
    OBVIOUS
  <2>1. block' = block \/ Mine
    BY DEF Next, Chain, Emit, Fetch, FetchTo, Receive, Updator, Tick, Begin, List,
           Write, Commit, Abort, Restart, UpdatorOnly, vars
  <2>2. GenesisBlock \in Nat /\ MaxBlock \in Nat /\ block \in Nat
    BY EpochAssumption, RegistryAssumption
       DEF EpochAssumption, RegistryAssumption, TypeOK
  <2> QED BY <2>1, <2>2 DEF BlockBound, Mine
<1> QED BY <1>1, <1>2, TypeCorrect, PTL DEF Spec

\* The status the updator decides (handleEpochUpdate) does not depend on which
\* block of the epoch it happened to read, for every row whose exit does not
\* precede its activation and for any epoch length.
THEOREM StableCorrect == Spec => []StableInEpoch
<1>1. BlockBound /\ TypeOK => StableInEpoch
  BY StableNow
<1> QED BY <1>1, BoundCorrect, TypeCorrect, PTL

----------------------------------------------------------------------------
(* Epochs, effective epochs and activity, in the order of the blocks.      *)

\* Epochs do not go back.
LEMMA EpochMonotone ==
    ASSUME NEW b \in BlocksBefore(0), NEW c \in BlocksBefore(0), b <= c
    PROVE  CalculateCurrentEpochNumber(b) <= CalculateCurrentEpochNumber(c)
<1> DEFINE s == CalculateCurrentEpochNumber(b)
<1>1. b \in Nat /\ c \in Nat /\ s \in 0 .. EpochWord - 1
  BY EpochType DEF BlocksBefore, Epochs
<1>2. s >= s /\ CalculateCurrentEpochNumber(c) \in Int /\ s \in Int
  BY <1>1, EpochType, EpochAssumption DEF Epochs, EpochAssumption
<1>3. b >= StartBlock(s) /\ StartBlock(s) \in Nat
  BY <1>1, <1>2, EpochAtLeast
<1>4. c >= StartBlock(s)
  BY <1>1, <1>3
<1>5. CalculateCurrentEpochNumber(c) >= s
  BY <1>1, <1>4, EpochAtLeast
<1> HIDE DEF s
<1> QED BY <1>2, <1>5 DEF s

\* What is effective later was emitted later.
LEMMA EffectiveMonotone ==
    ASSUME NEW b \in BlocksBefore(2), NEW c \in BlocksBefore(2), b <= c
    PROVE  GetEffectiveEpochByBlockNumber(b) <= GetEffectiveEpochByBlockNumber(c)
<1>1. /\ GenesisBlock \in Nat /\ EpochPeriod \in Nat /\ EpochWord \in Nat /\ EpochWord > 2
      /\ GracePeriod \in Nat /\ b \in Nat /\ c \in Nat
  BY EpochAssumption DEF EpochAssumption, BlocksBefore
<1> DEFINE End(e) == GenesisBlock + e * EpochPeriod + EpochPeriod
           eb == CalculateCurrentEpochNumber(b)
           ec == CalculateCurrentEpochNumber(c)
<1>2. eb \in Nat /\ ec \in Nat
  BY <1>1, EpochOfBlock
<1>3. /\ GetEffectiveEpochByBlockNumber(b) = IF b >= End(eb) - GracePeriod THEN eb + 2 ELSE eb + 1
      /\ GetEffectiveEpochByBlockNumber(c) = IF c >= End(ec) - GracePeriod THEN ec + 2 ELSE ec + 1
  BY EffectiveValue
<1>4. b \in BlocksBefore(0) /\ c \in BlocksBefore(0)
  BY <1>1 DEF BlocksBefore
<1>5. eb <= ec
  BY <1>4, EpochMonotone
<1>6. End(eb) \in Nat
  BY <1>1, <1>2
<1> HIDE DEF eb, ec, End
<1>7. CASE eb = ec
  BY <1>1, <1>2, <1>3, <1>6, <1>7
<1>8. CASE eb < ec
  BY <1>2, <1>3, <1>8
<1> QED BY <1>2, <1>5, <1>7, <1>8

\* No event is effective in the epoch that stands for no exit.
LEMMA EffectiveFits ==
    ASSUME NEW b \in BlocksBefore(3)
    PROVE  /\ b \in BlocksBefore(2) /\ b \in BlocksBefore(0)
           /\ GetEffectiveEpochByBlockNumber(b) \in Epochs
           /\ GetEffectiveEpochByBlockNumber(b) < NeverEpoch
<1>1. /\ GenesisBlock \in Nat /\ EpochPeriod \in Nat /\ EpochWord \in Nat /\ EpochWord > 2
      /\ b \in Nat /\ GenesisBlock <= b /\ b < GenesisBlock + EpochPeriod * (EpochWord - 3)
  BY EpochAssumption DEF EpochAssumption, BlocksBefore
<1>2. EpochWord > 3
  <2>1. EpochWord # 3
    BY <1>1
  <2> QED BY <1>1, <2>1
<1> DEFINE e   == CalculateCurrentEpochNumber(b)
           end == GenesisBlock + e * EpochPeriod + EpochPeriod
<1>3. e \in Nat /\ e < EpochWord - 3
  BY <1>1, <1>2, EpochOfBlock
<1>4. /\ EpochPeriod * (EpochWord - 3) = EpochPeriod * EpochWord - 3 * EpochPeriod
      /\ EpochPeriod * (EpochWord - 2) = EpochPeriod * EpochWord - 2 * EpochPeriod
      /\ EpochPeriod * (EpochWord - 0) = EpochPeriod * EpochWord
      /\ EpochPeriod * EpochWord \in Nat
  BY <1>1
<1>5. b \in BlocksBefore(2) /\ b \in BlocksBefore(0)
  BY <1>1, <1>4 DEF BlocksBefore
<1>6. GetEffectiveEpochByBlockNumber(b) = IF b >= end - GracePeriod THEN e + 2 ELSE e + 1
  BY <1>5, EffectiveValue
<1> HIDE DEF e, end
<1>7. GetEffectiveEpochByBlockNumber(b) \in {e + 1, e + 2}
  BY <1>6
<1> QED BY <1>1, <1>2, <1>3, <1>5, <1>7 DEF Epochs, NeverEpoch

\* IsOperatorActive, for an exit that does not precede the activation, in terms of
\* the epoch of the block.
LEMMA ActiveByEpoch ==
    ASSUME NEW b \in BlocksBefore(0), NEW active \in Epochs, NEW exit \in Epochs,
           active <= exit
    PROVE  LET e == CalculateCurrentEpochNumber(b) IN
           IsOperatorActive(b, active, exit) <=>
               active # exit /\ active <= e /\ (exit = NeverEpoch \/ e < exit)
<1> DEFINE e == CalculateCurrentEpochNumber(b)
<1>1. /\ active \in Nat /\ exit \in Nat /\ b \in Nat /\ e \in Nat
      /\ active \in 0 .. EpochWord - 1 /\ exit \in 0 .. EpochWord - 1
  BY EpochAssumption, EpochType DEF EpochAssumption, Epochs, BlocksBefore
<1>2. /\ (b >= StartBlock(active) <=> e >= active) /\ StartBlock(active) \in Nat
      /\ (b >= StartBlock(exit) <=> e >= exit) /\ StartBlock(exit) \in Nat
  BY <1>1, EpochAtLeast
<1> HIDE DEF e
<1>3. ~(exit < active) /\ (active # exit => exit > active)
  BY <1>1
<1>4. /\ StartBlock(active) <= b <=> active <= e
      /\ b < StartBlock(exit) <=> e < exit
  BY <1>1, <1>2
<1>5. IsOperatorActive(b, active, exit) <=>
          active # exit /\ active <= e /\ (exit = NeverEpoch \/ e < exit)
  BY <1>1, <1>2, <1>3, <1>4 DEF IsOperatorActive
<1> QED BY <1>5 DEF e

----------------------------------------------------------------------------
(* What the table says of an operator follows the log.                     *)

Own(i, o, k) == log[i].op = o /\ log[i].kind = k

\* The contract: an operator leaves only after it has registered, and not twice
\* without a registration in between.
LogAlternates ==
    \A o \in Operators : \A d \in DOMAIN log :
        Own(d, o, "deregistered") =>
            /\ \E r \in DOMAIN log : r < d /\ Own(r, o, "registered")
            /\ \A c \in DOMAIN log :
                  c < d /\ Own(c, o, "deregistered") =>
                      \E r \in DOMAIN log : c < r /\ r < d /\ Own(r, o, "registered")

\* An exit epoch is the one of a deregistration.
ExitsFollow ==
    \A o \in Operators :
        rows[o].known /\ rows[o].exit # NeverEpoch =>
            \E d \in DOMAIN log : Own(d, o, "deregistered") /\ rows[o].exit = Effective(d)

\* The epoch processed last lies behind the one under way, which lies behind the
\* chain; the block number was read in the epoch under way or later.
EpochsOrdered ==
    /\ last <= CurrentEpoch
    /\ upd.pc # "idle" => last < upd.epoch /\ upd.epoch <= CurrentEpoch
    /\ upd.pc \in {"list", "write"} =>
          /\ GenesisBlock <= upd.block /\ upd.block <= block
          /\ upd.epoch <= CalculateCurrentEpochNumber(upd.block)

\* While the statements are sent, what was listed is still in the table, and every
\* listed operator gets its statement.
ListCurrent ==
    upd.pc = "write" =>
        \A o \in clean : o \in upd.todo \cup upd.written /\ rows[o] = upd.list[o]

\* When the epoch of the chain is the one processed last, the listed rows hold what
\* was decided in some block of it.
Decided ==
    upd.pc = "idle" /\ last = CurrentEpoch =>
        \A o \in clean : \E b \in GenesisBlock .. block :
            /\ CalculateCurrentEpochNumber(b) = CurrentEpoch
            /\ rows[o].isActive = IsOperatorActive(b, rows[o].active, rows[o].exit)

DecideInv == EpochsOrdered /\ ListCurrent /\ Decided
HistoryInv == LogAlternates /\ ExitsFollow

----------------------------------------------------------------------------
(* The history of the log and of the exits is kept.                        *)

LEMMA HistoryInit == Init => HistoryInv
<1> SUFFICES ASSUME Init PROVE HistoryInv
  OBVIOUS
<1>1. DOMAIN log = {} /\ \A o \in Operators : rows[o].known = FALSE
  BY DEF Init, NoRow
<1> QED BY <1>1 DEF HistoryInv, LogAlternates, ExitsFollow

\* A step that leaves the log and the epochs of the rows.
LEMMA HistoryQuiet ==
    ASSUME HistoryInv, UNCHANGED log,
           \A o \in Operators : rows'[o].known = rows[o].known /\ rows'[o].exit = rows[o].exit
    PROVE  HistoryInv'
BY DEF HistoryInv, LogAlternates, ExitsFollow, Own, Effective

LEMMA HistoryEmit ==
    ASSUME WatchInv, HistoryInv, NEW k \in Kinds, NEW o \in Operators, Emit(k, o)
    PROVE  HistoryInv'
<1>0. PICK n : n = Len(log) + 1
  OBVIOUS
<1>1. TypeOK
  BY DEF WatchInv
<1>2. /\ DOMAIN log' = DOMAIN log \cup {n} /\ DOMAIN log = 1 .. Len(log) /\ Len(log) \in Nat
      /\ \A i \in DOMAIN log : log'[i] = log[i]
      /\ log'[n] = [kind |-> k, op |-> o, block |-> block + 1]
  BY <1>0, <1>1, AppendFacts
<1>3. rows' = rows /\ LastKind(o) # k
  BY DEF Emit
<1>4. /\ \A i \in DOMAIN log : i < n /\ i # n /\ i \in Nat
      /\ n \in Nat /\ n \notin DOMAIN log
  BY <1>0, <1>2
<1>5. \A i \in DOMAIN log : \A p, q : Own(i, p, q)' <=> Own(i, p, q)
  BY <1>2 DEF Own
<1>6. \A p, q : Own(n, p, q)' <=> p = o /\ q = k
  BY <1>2 DEF Own
<1>7. ASSUME k = "deregistered"
      PROVE  \E r \in DOMAIN log : /\ Own(r, o, "registered")
                                   /\ \A i \in DOMAIN log : log[i].op = o => i <= r
  <2> DEFINE own == {i \in DOMAIN log : log[i].op = o}
  <2>1. own # {}
    BY <1>3, <1>7 DEF LastKind
  <2>2. own \in SUBSET (1 .. Len(log))
    BY <1>2
  <2>3. Max(own) \in own /\ \A y \in own : y <= Max(own)
    BY <1>2, <2>1, <2>2, MaxExists
  <2>4. log[Max(own)].kind # "deregistered"
    BY <1>3, <1>7, <2>1 DEF LastKind
  <2>5. log[Max(own)].kind \in Kinds
    BY <1>1, <2>3, EventFields
  <2> QED BY <2>3, <2>4, <2>5 DEF Own, Kinds
<1>8. LogAlternates'
  <2> SUFFICES ASSUME NEW p \in Operators, NEW d \in DOMAIN log', Own(d, p, "deregistered")'
               PROVE  /\ \E r \in DOMAIN log' : r < d /\ Own(r, p, "registered")'
                      /\ \A c \in DOMAIN log' :
                            c < d /\ Own(c, p, "deregistered")' =>
                                \E r \in DOMAIN log' : c < r /\ r < d /\ Own(r, p, "registered")'
    BY DEF LogAlternates
  <2>1. CASE d \in DOMAIN log
    <3>1. Own(d, p, "deregistered")
      BY <1>5, <2>1
    <3>2. /\ \E r \in DOMAIN log : r < d /\ Own(r, p, "registered")
          /\ \A c \in DOMAIN log :
                c < d /\ Own(c, p, "deregistered") =>
                    \E r \in DOMAIN log : c < r /\ r < d /\ Own(r, p, "registered")
      BY <2>1, <3>1 DEF HistoryInv, LogAlternates
    <3>3. ~(n < d)
      BY <1>4, <2>1
    <3> QED BY <1>2, <1>5, <3>2, <3>3
  <2>2. CASE d = n
    <3>1. p = o /\ k = "deregistered"
      BY <1>6, <2>2
    <3>2. PICK r \in DOMAIN log : /\ Own(r, o, "registered")
                                  /\ \A i \in DOMAIN log : log[i].op = o => i <= r
      BY <1>7, <3>1
    <3>3. r < n /\ r \in DOMAIN log' /\ Own(r, p, "registered")'
      BY <1>2, <1>4, <1>5, <3>1, <3>2
    <3>4. ASSUME NEW c \in DOMAIN log', c < d, Own(c, p, "deregistered")'
          PROVE  c < r
      <4>1. c \in DOMAIN log
        BY <1>2, <1>4, <2>2, <3>4
      <4>2. Own(c, o, "deregistered")
        BY <1>5, <3>1, <3>4, <4>1
      <4>3. c <= r /\ c # r
        BY <3>2, <4>1, <4>2 DEF Own
      <4> QED BY <1>4, <4>1, <4>3
    <3> QED BY <2>2, <3>3, <3>4
  <2> QED BY <1>2, <2>1, <2>2
<1>9. ExitsFollow'
  <2>1. \A i \in DOMAIN log : Effective(i)' = Effective(i)
    BY <1>2 DEF Effective
  <2> QED BY <1>2, <1>3, <1>5, <2>1 DEF HistoryInv, ExitsFollow
<1> QED BY <1>8, <1>9 DEF HistoryInv

\* The row of an event: a registration has no exit, a deregistration its own.
LEMMA HistoryReceive ==
    ASSUME WatchInv, HistoryInv, NEW k \in Kinds, Receive(k)
    PROVE  HistoryInv'
<1>0. TypeOK
  BY DEF WatchInv
<1>1. PICK i \in batch[k] :
         IF k = "registered" THEN HandleRegistered(i) ELSE HandleDeregistered(i)
  BY DEF Receive
<1>2. log' = log
  BY DEF Receive
<1>3. i \in DOMAIN log /\ log[i].kind = k
  BY DEF WatchInv, BatchComplete
<1>4. log[i].op \in Operators /\ rows \in [Operators -> Row] /\ Effective(i) \in Epochs
  BY <1>0, <1>3, EventFields DEF TypeOK
<1>5. CASE rows' = rows
  BY <1>2, <1>5, HistoryQuiet
<1>6. CASE k = "registered" /\ rows' # rows
  <2> DEFINE row == [known |-> TRUE, active |-> Effective(i), exit |-> NeverEpoch,
                     isActive |-> FALSE]
  <2>1. rows' = [rows EXCEPT ![log[i].op] = row] /\ row.exit = NeverEpoch
    BY <1>1, <1>6 DEF HandleRegistered, UpsertOperator, SetRow, Lose
  <2> HIDE DEF row
  <2>2. LogAlternates'
    BY <1>2 DEF HistoryInv, LogAlternates, Own
  <2>3. \A o \in Operators : rows'[o] = rows[o] \/ rows'[o].exit = NeverEpoch
    BY <1>4, <2>1
  <2>4. ExitsFollow'
    BY <1>2, <2>3 DEF HistoryInv, ExitsFollow, Own, Effective
  <2> QED BY <2>2, <2>4 DEF HistoryInv
<1>7. CASE k = "deregistered" /\ rows' # rows
  <2> DEFINE row == [rows[log[i].op] EXCEPT !.exit = Effective(i)]
  <2>1. rows' = [rows EXCEPT ![log[i].op] = row]
    BY <1>1, <1>7 DEF HandleDeregistered, UpdateOperatorExitEpoch, SetRow, Lose
  <2>2. row.exit = Effective(i)
    <3>1. \A r \in Row : \A e : [r EXCEPT !.exit = e].exit = e
      BY DEF Row
    <3> QED BY <1>4, <3>1
  <2> HIDE DEF row
  <2>3. LogAlternates'
    BY <1>2 DEF HistoryInv, LogAlternates, Own
  <2>4. \A o \in Operators :
            rows'[o] = rows[o] \/ (o = log[i].op /\ rows'[o].exit = Effective(i))
    BY <1>4, <2>1, <2>2
  <2>5. Own(i, log[i].op, "deregistered")
    BY <1>3, <1>7 DEF Own
  <2>6. ExitsFollow'
    BY <1>2, <1>3, <2>4, <2>5 DEF HistoryInv, ExitsFollow, Own, Effective
  <2> QED BY <2>3, <2>6 DEF HistoryInv
<1> QED BY <1>5, <1>6, <1>7 DEF Kinds

\* The statements of an epoch update leave the epochs of the rows.
LEMMA CommitRows ==
    ASSUME TypeOK, Commit
    PROVE  \A o \in Operators :
              /\ rows'[o].known = rows[o].known /\ rows'[o].active = rows[o].active
              /\ rows'[o].exit = rows[o].exit
              /\ o \in upd.written => rows'[o].isActive = Decision(o)
<1>1. \A x : \A r \in Row : /\ [r EXCEPT !.isActive = x].known = r.known
                            /\ [r EXCEPT !.isActive = x].active = r.active
                            /\ [r EXCEPT !.isActive = x].exit = r.exit
                            /\ [r EXCEPT !.isActive = x].isActive = x
  BY DEF Row
<1>2. rows' = [o \in Operators |->
                 IF o \in upd.written
                 THEN [rows[o] EXCEPT !.isActive = Decision(o)] ELSE rows[o]]
  BY DEF Commit, UpdateOperatorState
<1>3. rows \in [Operators -> Row]
  BY DEF TypeOK
<1> QED BY <1>1, <1>2, <1>3

LEMMA HistoryStep == WatchInv /\ HistoryInv /\ [Next]_vars => HistoryInv'
<1> SUFFICES ASSUME WatchInv, HistoryInv, [Next]_vars PROVE HistoryInv'
  OBVIOUS
<1>1. ASSUME NEW k \in Kinds, NEW o \in Operators, Emit(k, o)
      PROVE  HistoryInv'
  BY <1>1, HistoryEmit
<1>2. ASSUME NEW k \in Kinds, Receive(k)
      PROVE  HistoryInv'
  BY <1>2, HistoryReceive
<1>3. CASE Commit
  <2>1. log' = log
    BY <1>3 DEF Commit, UpdatorOnly
  <2> QED BY <1>3, <2>1, CommitRows, HistoryQuiet DEF WatchInv
<1>4. CASE UNCHANGED <<log, rows>>
  BY <1>4, HistoryQuiet
<1>5. \/ UNCHANGED <<log, rows>> \/ Commit
      \/ \E k \in Kinds, o \in Operators : Emit(k, o)
      \/ \E k \in Kinds : Receive(k)
  BY DEF Next, Chain, Mine, Fetch, FetchTo, Updator, Tick, Begin, List, Write, Abort, Restart,
         UpdatorOnly, vars
<1> QED BY <1>1, <1>2, <1>3, <1>4, <1>5

----------------------------------------------------------------------------
(* The decisions of an epoch stay those of the epoch.                      *)

LEMMA CurrentFacts ==
    ASSUME TypeOK, BlockBound
    PROVE  /\ block \in BlocksBefore(0) /\ block \in Nat /\ GenesisBlock \in Nat
           /\ CurrentEpoch \in Nat /\ last \in Nat /\ upd.epoch \in Nat /\ upd.block \in Nat
<1>1. block \in BlocksBefore(0) /\ block \in Nat /\ GenesisBlock \in Nat
  BY BoundBlocks, EpochAssumption DEF TypeOK, BlockBound, EpochAssumption
<1>2. CurrentEpoch \in Nat
  BY <1>1, EpochType, EpochAssumption DEF CurrentEpoch, Epochs, EpochAssumption
<1>3. last \in Epochs /\ upd.epoch \in Epochs /\ upd.block \in Nat
  BY UpdateFields DEF TypeOK
<1>4. \A x \in Epochs : x \in Nat
  BY EpochAssumption DEF Epochs, EpochAssumption
<1> QED BY <1>1, <1>2, <1>3, <1>4

LEMMA DecideInit == Init => DecideInv
<1> SUFFICES ASSUME Init PROVE DecideInv
  OBVIOUS
<1>1. last = 0 /\ upd.pc = "idle" /\ clean = {}
  BY DEF Init, Fresh, NoUpdate
<1>2. CurrentEpoch \in Nat
  BY EpochType, EpochAssumption DEF Init, CurrentEpoch, Epochs, EpochAssumption
<1> QED BY <1>1, <1>2 DEF DecideInv, EpochsOrdered, ListCurrent, Decided

\* A step of the chain or of the listener that leaves the listed rows alone, or
\* takes them off the history.
LEMMA DecideQuiet ==
    ASSUME DecideInv, UNCHANGED <<block, last, upd>>, clean' \subseteq clean,
           \A o \in clean' : rows'[o] = rows[o]
    PROVE  DecideInv'
BY DEF DecideInv, EpochsOrdered, ListCurrent, Decided, CurrentEpoch

LEMMA DecideReceive ==
    ASSUME TypeOK, BatchInLog, DecideInv, NEW k \in Kinds, Receive(k)
    PROVE  DecideInv'
<1>1. PICK i \in batch[k] :
         IF k = "registered" THEN HandleRegistered(i) ELSE HandleDeregistered(i)
  BY DEF Receive
<1>2. \/ UNCHANGED <<rows, clean>>
      \/ \E row : rows' = [rows EXCEPT ![log[i].op] = row] /\ clean' = clean \ {log[i].op}
  BY <1>1 DEF HandleRegistered, HandleDeregistered, UpsertOperator, UpdateOperatorExitEpoch,
              SetRow, Lose
<1>3. rows \in [Operators -> Row] /\ clean \subseteq Operators
  BY DEF TypeOK
<1>4. clean' \subseteq clean /\ \A o \in clean' : rows'[o] = rows[o]
  BY <1>2, <1>3
<1>5. UNCHANGED <<block, last, upd>>
  BY DEF Receive
<1> QED BY <1>4, <1>5, DecideQuiet

\* The chain grows: its epoch does not go back, and in a new one nothing is decided.
LEMMA DecideMine ==
    ASSUME TypeOK, BlockBound, BlockBound', TypeOK', DecideInv, Mine
    PROVE  DecideInv'
<1>1. UNCHANGED <<last, upd, clean, rows>> /\ block' = block + 1
  BY DEF Mine
<1>2. /\ block \in BlocksBefore(0) /\ block \in Nat /\ GenesisBlock \in Nat
      /\ CurrentEpoch \in Nat /\ last \in Nat /\ upd.epoch \in Nat /\ upd.block \in Nat
  BY CurrentFacts
<1>3. block' \in BlocksBefore(0) /\ CurrentEpoch' \in Nat
  <2>1. block' \in Nat /\ GenesisBlock <= block' /\ block' <= MaxBlock
    BY DEF TypeOK, BlockBound
  <2>2. block' \in BlocksBefore(0)
    BY <2>1, BoundBlocks
  <2> QED BY <2>1, <2>2, EpochType, EpochAssumption DEF CurrentEpoch, Epochs, EpochAssumption
<1>4. CurrentEpoch <= CurrentEpoch'
  <2>1. block <= block'
    BY <1>1, <1>2
  <2> QED BY <1>2, <1>3, <2>1, EpochMonotone DEF CurrentEpoch
<1>5. EpochsOrdered'
  BY <1>1, <1>2, <1>3, <1>4 DEF DecideInv, EpochsOrdered
<1>6. ListCurrent'
  BY <1>1 DEF DecideInv, ListCurrent
<1>7. last = CurrentEpoch' => last = CurrentEpoch
  BY <1>2, <1>3, <1>4 DEF DecideInv, EpochsOrdered
<1>8. \A b : b \in GenesisBlock .. block => b \in GenesisBlock .. block'
  BY <1>1, <1>2
<1>9. Decided'
  BY <1>1, <1>7, <1>8 DEF DecideInv, Decided
<1> QED BY <1>5, <1>6, <1>9 DEF DecideInv

LEMMA DecideUpdator ==
    ASSUME TypeOK, BlockBound, DecideInv, Updator \/ Abort
    PROVE  DecideInv'
<1>0. /\ block \in BlocksBefore(0) /\ block \in Nat /\ GenesisBlock \in Nat
      /\ CurrentEpoch \in Nat /\ last \in Nat /\ upd.epoch \in Nat /\ upd.block \in Nat
      /\ GenesisBlock <= block /\ upd \in Update
  BY CurrentFacts DEF BlockBound, TypeOK
<1>1. block' = block /\ CurrentEpoch' = CurrentEpoch
  BY DEF Updator, Abort, Tick, Begin, List, Write, Commit, UpdatorOnly, CurrentEpoch
<1>2. CASE Tick
  <2>1. /\ CurrentEpoch > last /\ UNCHANGED <<rows, last, clean>>
        /\ upd' = [upd EXCEPT !.pc = "begin", !.epoch = CurrentEpoch]
    BY <1>2 DEF Tick
  <2>2. upd'.pc = "begin" /\ upd'.epoch = CurrentEpoch
    BY <1>0, <2>1 DEF Update
  <2> QED BY <1>0, <1>1, <2>1, <2>2 DEF DecideInv, EpochsOrdered, ListCurrent, Decided
<1>3. CASE Begin
  <2>1. /\ upd.pc = "begin" /\ UNCHANGED <<rows, last, clean>>
        /\ upd' = [upd EXCEPT !.pc = "list", !.block = block]
    BY <1>3 DEF Begin
  <2>2. upd'.pc = "list" /\ upd'.epoch = upd.epoch /\ upd'.block = block
    BY <1>0, <2>1 DEF Update
  <2> QED BY <1>0, <1>1, <2>1, <2>2 DEF DecideInv, EpochsOrdered, ListCurrent, Decided, CurrentEpoch
<1>4. CASE List
  <2>1. /\ upd.pc = "list" /\ UNCHANGED <<rows, last>> /\ clean' = ListAllOperators
        /\ upd' = [upd EXCEPT !.pc = "write", !.list = rows, !.todo = ListAllOperators]
    BY <1>4 DEF List
  <2>2. /\ upd'.pc = "write" /\ upd'.epoch = upd.epoch /\ upd'.block = upd.block
        /\ upd'.list = rows /\ upd'.todo = ListAllOperators
    BY <1>0, <2>1 DEF Update
  <2> QED BY <1>0, <1>1, <2>1, <2>2 DEF DecideInv, EpochsOrdered, ListCurrent, Decided
<1>5. ASSUME NEW o \in Operators, Write(o)
      PROVE  DecideInv'
  <2>1. /\ upd.pc = "write" /\ UNCHANGED <<rows, last, clean>>
        /\ upd' = [upd EXCEPT !.todo = @ \ {o}, !.written = @ \cup {o}]
    BY <1>5 DEF Write
  <2>2. /\ upd'.pc = "write" /\ upd'.epoch = upd.epoch /\ upd'.block = upd.block
        /\ upd'.list = upd.list
        /\ upd'.todo = upd.todo \ {o} /\ upd'.written = upd.written \cup {o}
    BY <1>0, <2>1 DEF Update
  <2> QED BY <1>0, <1>1, <2>1, <2>2 DEF DecideInv, EpochsOrdered, ListCurrent, Decided
<1>6. CASE Commit
  <2>1. /\ upd.pc = "write" /\ upd.todo = {} /\ last' = upd.epoch /\ clean' = clean
        /\ upd' = NoUpdate
    BY <1>6 DEF Commit
  <2>2. upd'.pc = "idle"
    BY <2>1 DEF NoUpdate
  <2>3. EpochsOrdered' /\ ListCurrent'
    BY <1>1, <2>1, <2>2 DEF DecideInv, EpochsOrdered, ListCurrent
  <2>4. ASSUME upd.epoch = CurrentEpoch, NEW o \in clean
        PROVE  \E b \in GenesisBlock .. block :
                  /\ CalculateCurrentEpochNumber(b) = CurrentEpoch
                  /\ rows'[o].isActive = IsOperatorActive(b, rows'[o].active, rows'[o].exit)
    <3>1. o \in Operators /\ o \in upd.written /\ rows[o] = upd.list[o]
      BY <2>1 DEF DecideInv, ListCurrent, TypeOK
    <3>2. /\ GenesisBlock <= upd.block /\ upd.block <= block
          /\ upd.epoch <= CalculateCurrentEpochNumber(upd.block)
      BY <2>1 DEF DecideInv, EpochsOrdered
    <3>3. upd.block \in BlocksBefore(0) /\ CalculateCurrentEpochNumber(upd.block) \in Nat
      <4>1. MaxBlock \in Nat /\ upd.block <= MaxBlock
        BY <1>0, <3>2, RegistryAssumption DEF BlockBound, RegistryAssumption
      <4>2. upd.block \in BlocksBefore(0)
        BY <1>0, <3>2, <4>1, BoundBlocks
      <4> QED BY <1>0, <4>2, EpochType, EpochAssumption DEF Epochs, EpochAssumption
    <3>4. CalculateCurrentEpochNumber(upd.block) <= CurrentEpoch
      BY <1>0, <3>2, <3>3, EpochMonotone DEF CurrentEpoch
    <3>5. CalculateCurrentEpochNumber(upd.block) = CurrentEpoch
      BY <1>0, <2>4, <3>2, <3>3, <3>4
    <3>6. /\ rows'[o].active = rows[o].active /\ rows'[o].exit = rows[o].exit
          /\ rows'[o].isActive = Decision(o)
      BY <1>6, <3>1, CommitRows
    <3>7. Decision(o) = IsOperatorActive(upd.block, rows'[o].active, rows'[o].exit)
      BY <3>1, <3>6 DEF Decision
    <3>8. upd.block \in GenesisBlock .. block
      BY <1>0, <3>2
    <3> QED BY <3>5, <3>6, <3>7, <3>8
  <2>5. Decided'
    BY <1>1, <2>1, <2>4 DEF Decided
  <2> QED BY <2>3, <2>5 DEF DecideInv
<1>7. CASE Abort
  <2>1. /\ upd.pc # "idle" /\ UNCHANGED <<rows, last, clean>> /\ upd' = NoUpdate
    BY <1>7 DEF Abort
  <2>2. upd'.pc = "idle"
    BY <2>1 DEF NoUpdate
  <2> QED BY <1>0, <1>1, <2>1, <2>2 DEF DecideInv, EpochsOrdered, ListCurrent, Decided
<1> QED BY <1>2, <1>3, <1>4, <1>5, <1>6, <1>7 DEF Updator

LEMMA DecideRestart ==
    ASSUME TypeOK, BlockBound, DecideInv, Restart
    PROVE  DecideInv'
<1>1. last' = 0 /\ upd' = NoUpdate /\ clean' = {} /\ block' = block
  BY DEF Restart
<1>2. upd'.pc = "idle" /\ CurrentEpoch' = CurrentEpoch /\ CurrentEpoch \in Nat
  BY <1>1, CurrentFacts DEF NoUpdate, CurrentEpoch
<1> QED BY <1>1, <1>2 DEF DecideInv, EpochsOrdered, ListCurrent, Decided

LEMMA DecideStep ==
    WatchInv /\ WatchInv' /\ BlockBound /\ BlockBound' /\ DecideInv /\ [Next]_vars => DecideInv'
<1> SUFFICES ASSUME WatchInv, WatchInv', BlockBound, BlockBound', DecideInv, [Next]_vars
             PROVE  DecideInv'
  OBVIOUS
<1>0. TypeOK /\ TypeOK' /\ BatchInLog
  BY WatchBatch DEF WatchInv
<1>1. CASE Mine
  BY <1>0, <1>1, DecideMine
<1>2. CASE Updator \/ Abort
  BY <1>0, <1>2, DecideUpdator
<1>3. CASE Restart
  BY <1>0, <1>3, DecideRestart
<1>4. ASSUME NEW k \in Kinds, Receive(k)
      PROVE  DecideInv'
  BY <1>0, <1>4, DecideReceive
<1>5. CASE UNCHANGED <<block, last, upd, clean, rows>>
  BY <1>5, DecideQuiet
<1>6. \/ UNCHANGED <<block, last, upd, clean, rows>>
      \/ Mine \/ Updator \/ Abort \/ Restart \/ \E k \in Kinds : Receive(k)
  BY DEF Next, Chain, Emit, Fetch, FetchTo, vars
<1> QED BY <1>1, <1>2, <1>3, <1>4, <1>5, <1>6

----------------------------------------------------------------------------
(* The status of an operator that has registered once.                     *)

\* The events of an operator that has registered once: the registration, and at
\* most one deregistration behind it.
LEMMA OneRegistration ==
    ASSUME WatchInv, LogAlternates, NEW o \in Operators, Cardinality(Regs(o)) = 1,
           Mined(o) # {}
    PROVE  \E r \in Mined(o) :
              /\ Regs(o) = {r} /\ log[r].kind = "registered"
              /\ \A i \in DOMAIN log : log[i].op = o /\ i # r => Own(i, o, "deregistered") /\ r < i
              /\ \A i, j \in DOMAIN log :
                    Own(i, o, "deregistered") /\ Own(j, o, "deregistered") => i = j
<1>1. TypeOK /\ Len(log) \in Nat /\ DOMAIN log = 1 .. Len(log)
  BY DEF WatchInv, TypeOK
<1>2. IsFiniteSet(Regs(o))
  <2>1. IsFiniteSet(DOMAIN log)
    BY <1>1, FS_Interval
  <2>2. Regs(o) \subseteq DOMAIN log
    BY DEF Regs
  <2> QED BY <2>1, <2>2, FS_Subset
<1>3. PICK r : Regs(o) = {r}
  BY <1>2, FS_Singleton
<1>4. r \in DOMAIN log /\ Own(r, o, "registered")
  BY <1>3 DEF Regs, Own
<1>5. \A i \in DOMAIN log : Own(i, o, "registered") => i = r
  BY <1>3 DEF Regs, Own
<1>6. ASSUME NEW i \in DOMAIN log, log[i].op = o, i # r
      PROVE  Own(i, o, "deregistered") /\ r < i
  <2>1. log[i].kind \in Kinds
    BY <1>1, EventFields
  <2>2. Own(i, o, "deregistered")
    BY <1>5, <1>6, <2>1 DEF Own, Kinds
  <2>3. PICK p \in DOMAIN log : p < i /\ Own(p, o, "registered")
    BY <2>2 DEF LogAlternates
  <2> QED BY <1>5, <2>2, <2>3
<1>7. ASSUME NEW i \in DOMAIN log, NEW j \in DOMAIN log, i < j,
             Own(i, o, "deregistered"), Own(j, o, "deregistered")
      PROVE  FALSE
  <2>1. PICK p \in DOMAIN log : i < p /\ p < j /\ Own(p, o, "registered")
    BY <1>7 DEF LogAlternates
  <2>2. p = r /\ i # r
    BY <1>4, <1>5, <1>7, <2>1 DEF Own
  <2>3. r < i
    BY <1>6, <1>7, <2>2 DEF Own
  <2> QED BY <1>1, <1>4, <2>1, <2>2, <2>3
<1>8. \A i, j \in DOMAIN log :
          Own(i, o, "deregistered") /\ Own(j, o, "deregistered") => i = j
  BY <1>1, <1>7
<1>9. r \in Mined(o)
  <2>1. PICK i \in Mined(o) : TRUE
    OBVIOUS
  <2>2. i \in DOMAIN log /\ log[i].op = o /\ log[i].block <= block
    BY DEF Mined
  <2>3. r <= i
    BY <1>1, <1>4, <1>6, <2>2
  <2>4. log[r].block <= log[i].block
    BY <1>4, <2>2, <2>3 DEF WatchInv, LogOrdered
  <2>5. log[r].block \in Nat /\ log[i].block \in Nat /\ block \in Nat
    BY <1>1, <1>4, <2>2, EventFields DEF TypeOK
  <2> QED BY <1>4, <2>2, <2>4, <2>5 DEF Mined, Own
<1> QED BY <1>3, <1>4, <1>6, <1>8, <1>9 DEF Own

\* Mined events have an effective epoch that fits, in the order of the log.
LEMMA MinedEffective ==
    ASSUME WatchInv, BlockBound, NEW o \in Operators, NEW i \in Mined(o)
    PROVE  /\ i \in DOMAIN log /\ i \in 1 .. Len(log) /\ Len(log) \in Nat
           /\ Effective(i) \in Epochs /\ Effective(i) \in Nat /\ Effective(i) < NeverEpoch
           /\ \A j \in Mined(o) : i <= j => Effective(i) <= Effective(j)
<1>0. TypeOK /\ i \in DOMAIN log /\ i \in 1 .. Len(log) /\ Len(log) \in Nat
  BY DEF WatchInv, TypeOK, Mined
<1>1. ASSUME NEW j \in Mined(o)
      PROVE  log[j].block \in BlocksBefore(3)
  <2>1. j \in DOMAIN log /\ log[j].block <= block /\ GenesisBlock <= log[j].block
    BY DEF Mined, WatchInv, LogOrdered
  <2>2. /\ log[j].block \in Nat /\ block \in Nat /\ GenesisBlock \in Nat
        /\ EpochPeriod \in Nat /\ EpochWord \in Nat /\ MaxBlock \in Nat /\ block <= MaxBlock
        /\ MaxBlock < GenesisBlock + EpochPeriod * (EpochWord - 3)
    BY <1>0, <2>1, EventFields, EpochAssumption, RegistryAssumption
       DEF TypeOK, BlockBound, EpochAssumption, RegistryAssumption
  <2>3. EpochPeriod * (EpochWord - 3) \in Int
    BY <2>2
  <2>4. log[j].block < GenesisBlock + EpochPeriod * (EpochWord - 3)
    BY <2>1, <2>2, <2>3
  <2> QED BY <2>1, <2>2, <2>4 DEF BlocksBefore
<1>2. \A j \in Mined(o) : /\ log[j].block \in BlocksBefore(2)
                          /\ Effective(j) \in Epochs /\ Effective(j) < NeverEpoch
  BY <1>1, EffectiveFits DEF Effective
<1>3. ASSUME NEW j \in Mined(o), i <= j
      PROVE  Effective(i) <= Effective(j)
  <2>1. log[i].block <= log[j].block
    BY <1>0, <1>3 DEF Mined, WatchInv, LogOrdered
  <2> QED BY <1>2, <2>1, EffectiveMonotone DEF Effective
<1>4. Effective(i) \in Nat
  BY <1>2, EpochAssumption DEF Epochs, EpochAssumption
<1> QED BY <1>0, <1>2, <1>3, <1>4

\* The row of such an operator, when its events were written, says of an epoch what
\* the log says.
LEMMA StatusOfRow ==
    ASSUME WatchInv, BlockBound, RowsFollow, HistoryInv, NEW o \in Operators,
           Cardinality(Regs(o)) = 1, Written(o), ExitRecorded(o),
           NEW b \in BlocksBefore(0)
    PROVE  IsOperatorActive(b, rows[o].active, rows[o].exit)
           <=> Standing(o, CalculateCurrentEpochNumber(b))
<1>0. TypeOK /\ LogAlternates /\ ExitsFollow
  BY DEF WatchInv, HistoryInv
<1>1. PICK r \in Mined(o) :
          /\ Regs(o) = {r} /\ log[r].kind = "registered"
          /\ \A i \in DOMAIN log : log[i].op = o /\ i # r => Own(i, o, "deregistered") /\ r < i
          /\ \A i, j \in DOMAIN log :
                Own(i, o, "deregistered") /\ Own(j, o, "deregistered") => i = j
  BY <1>0, OneRegistration DEF Written
<1> DEFINE e == CalculateCurrentEpochNumber(b)
           past == {i \in Mined(o) : Effective(i) <= e}
<1>2. e \in Nat
  BY EpochType, EpochAssumption DEF BlocksBefore, Epochs, EpochAssumption
<1>3. /\ r \in DOMAIN log /\ Len(log) \in Nat /\ DOMAIN log = 1 .. Len(log)
      /\ log[r].op = o /\ Effective(r) \in Epochs /\ Effective(r) \in Nat
      /\ Effective(r) < NeverEpoch
      /\ \A j \in Mined(o) : r <= j => Effective(r) <= Effective(j)
  BY <1>0, MinedEffective DEF Mined, TypeOK
<1>4. rows[o].known /\ rows[o].active = Effective(r)
  <2>1. r \in handled /\ r \notin lost /\ Registration(r, o)
    BY <1>1, <1>3 DEF Written, Registration
  <2>2. \A g \in handled : Registration(g, o) => g = r
    BY <1>1 DEF WatchInv, HandledPassed, Registration, Regs
  <2>3. \A g \in handled : Registration(g, o) => g <= r
    BY <1>3, <2>2
  <2> QED BY <2>1, <2>3 DEF RowsFollow
<1>5. rows[o].exit \in Epochs /\ NeverEpoch \in Nat /\ \A x \in Epochs : x <= NeverEpoch /\ x \in Nat
  BY <1>0, RowFields, EpochAssumption DEF TypeOK, Epochs, NeverEpoch, EpochAssumption
<1> HIDE DEF e
<1>6. Standing(o, e) <=> past # {} /\ log[Max(past)].kind = "registered"
  BY DEF Standing
<1>7. Mined(o) \in SUBSET (1 .. Len(log)) /\ past \in SUBSET (1 .. Len(log))
  BY <1>3 DEF Mined
<1>8. Max(Mined(o)) \in Mined(o) /\ \A y \in Mined(o) : y <= Max(Mined(o))
  BY <1>1, <1>3, <1>7, MaxExists
<1>9. past # {} => Max(past) \in past /\ \A y \in past : y <= Max(past)
  BY <1>3, <1>7, MaxExists
<1>10. CASE Mined(o) = {r}
  <2>1. rows[o].exit = NeverEpoch
    BY <1>1, <1>8, <1>10 DEF ExitRecorded
  <2>2. IsOperatorActive(b, rows[o].active, rows[o].exit) <=> Effective(r) <= e
    BY <1>3, <1>4, <1>5, <2>1, ActiveByEpoch DEF e
  <2>3. Standing(o, e) <=> Effective(r) <= e
    BY <1>1, <1>6, <1>9, <1>10
  <2> QED BY <2>2, <2>3 DEF e
<1>11. CASE Mined(o) # {r}
  <2>1. PICK d \in Mined(o) : d # r
    BY <1>1, <1>11
  <2>2. d \in DOMAIN log /\ log[d].op = o /\ Own(d, o, "deregistered") /\ r < d
    BY <1>1, <2>1 DEF Mined
  <2>3. Mined(o) = {r, d}
    <3>1. ASSUME NEW i \in Mined(o), i # r PROVE i = d
      <4>1. i \in DOMAIN log /\ log[i].op = o
        BY DEF Mined
      <4>2. Own(i, o, "deregistered")
        BY <1>1, <3>1, <4>1
      <4> QED BY <1>1, <2>2, <4>1, <4>2
    <3> QED BY <2>1, <3>1
  <2>4. Max(Mined(o)) = d
    <3>1. Max(Mined(o)) # r
      BY <1>3, <1>8, <2>1, <2>2
    <3> QED BY <1>8, <2>3, <3>1
  <2>5. rows[o].exit # NeverEpoch
    BY <2>2, <2>4 DEF ExitRecorded, Own
  <2>6. rows[o].exit = Effective(d)
    <3>1. PICK c \in DOMAIN log : Own(c, o, "deregistered") /\ rows[o].exit = Effective(c)
      BY <1>0, <1>4, <2>5 DEF ExitsFollow
    <3>2. c = d
      BY <1>1, <2>2, <3>1
    <3> QED BY <3>1, <3>2
  <2>7. Effective(d) \in Epochs /\ Effective(d) \in Nat /\ Effective(r) <= Effective(d)
    <3>1. r <= d
      BY <1>3, <2>2
    <3> QED BY <1>3, <3>1, MinedEffective
  <2>8. IsOperatorActive(b, rows[o].active, rows[o].exit) <=>
            Effective(r) # Effective(d) /\ Effective(r) <= e /\ e < Effective(d)
    BY <1>3, <1>4, <2>5, <2>6, <2>7, ActiveByEpoch DEF e
  <2>9. log[d].kind # "registered"
    BY <2>2 DEF Own
  <2>10. Standing(o, e) <=> Effective(r) <= e /\ ~(Effective(d) <= e)
    <3>1. CASE Effective(d) <= e
      <4>1. d \in past
        BY <3>1
      <4>2. Max(past) \in {r, d} /\ d <= Max(past)
        <5>1. past # {} /\ past \subseteq {r, d}
          BY <2>3, <4>1
        <5> HIDE DEF past
        <5> QED BY <1>9, <4>1, <5>1
      <4>3. Max(past) = d
        <5>1. ~(d <= r)
          BY <1>3, <2>2
        <5> QED BY <4>2, <5>1
      <4> QED BY <1>6, <2>9, <3>1, <4>3
    <3>2. CASE ~(Effective(d) <= e)
      <4>1. past \subseteq {r} /\ (r \in past <=> Effective(r) <= e)
        BY <2>3, <3>2
      <4> QED BY <1>1, <1>6, <1>9, <3>2, <4>1
    <3> QED BY <3>1, <3>2
  <2> QED BY <1>2, <1>3, <2>7, <2>8, <2>10 DEF e
<1> QED BY <1>10, <1>11

LEMMA StatusGoal ==
    WatchInv /\ BlockBound /\ RowsFollow /\ HistoryInv /\ DecideInv => StatusFollowsLog
<1> SUFFICES ASSUME WatchInv, BlockBound, RowsFollow, HistoryInv, DecideInv,
                    upd.pc = "idle", last = CurrentEpoch, NEW o \in clean,
                    Cardinality(Regs(o)) = 1, Written(o), ExitRecorded(o)
             PROVE  rows[o].isActive = Standing(o, CurrentEpoch)
  BY DEF StatusFollowsLog
<1>1. PICK b \in GenesisBlock .. block :
          /\ CalculateCurrentEpochNumber(b) = CurrentEpoch
          /\ rows[o].isActive = IsOperatorActive(b, rows[o].active, rows[o].exit)
  BY DEF DecideInv, Decided
<1>2. o \in Operators /\ TypeOK
  BY DEF WatchInv, TypeOK
<1>3. b \in BlocksBefore(0)
  <2>1. block \in Nat /\ GenesisBlock \in Nat /\ MaxBlock \in Nat /\ block <= MaxBlock
    BY <1>2, EpochAssumption, RegistryAssumption
       DEF TypeOK, BlockBound, EpochAssumption, RegistryAssumption
  <2>2. b \in Nat /\ GenesisBlock <= b /\ b <= MaxBlock
    BY <2>1
  <2> QED BY <2>2, BoundBlocks
<1>4. IsOperatorActive(b, rows[o].active, rows[o].exit) <=> Standing(o, CurrentEpoch)
  BY <1>1, <1>2, <1>3, StatusOfRow
<1>5. /\ IsOperatorActive(b, rows[o].active, rows[o].exit) \in BOOLEAN
      /\ Standing(o, CurrentEpoch) \in BOOLEAN
  BY DEF IsOperatorActive, Standing
<1> QED BY <1>1, <1>4, <1>5

\* When the update of the current epoch is done, an operator that has registered once,
\* whose events were all written before the table was listed and whose exit is
\* recorded, is active exactly if the registry says so (handleEpochUpdate), whatever
\* epoch length, failures, restarts and interleaving of updator and listener.
THEOREM StatusCorrect == Spec => []StatusFollowsLog
BY HistoryInit, HistoryStep, DecideInit, DecideStep, StatusGoal, WatchCorrect, BoundCorrect,
   FollowCorrect, PTL DEF Spec

=============================================================================
