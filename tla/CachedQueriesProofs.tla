----------------------- MODULE CachedQueriesProofs -----------------------
(***************************************************************************)
(* Theorems about the cached getters of the operators table: types, the    *)
(* causes an outdated answer can have, and when a deregistration panics.   *)
(***************************************************************************)
EXTENDS CachedQueries, TLAPS

USE CachedAssumption

----------------------------------------------------------------------------
(* The getters                                                             *)

LEMMA NoRowType == NoRow \in Row
BY DEF NoRow, Row

LEMMA AddressAsked == \A o \in Operators : ByAddress(o) \in Questions
BY DEF Questions

\* Every address has its own question, and its answer is the row.
LEMMA AddressAnswer ==
    ASSUME NEW tab, NEW o
    PROVE  Answers(tab, ByAddress(o)) = {tab[o]}
BY DEF Answers, ByAddress, GetOperatorByAddress

LEMMA AddressUnique ==
    ASSUME NEW o, NEW x, ByAddress(o) = ByAddress(x)
    PROVE  o = x
BY DEF ByAddress

LEMMA AnswerTypes ==
    ASSUME NEW tab \in [Operators -> Row], NEW e \in Questions
    PROVE  Answers(tab, e) \subseteq Row
<1> USE NoRowType
<1>1. \A k : GetOperatorBySigningKey(tab, k) \subseteq Row
  BY DEF GetOperatorBySigningKey
<1>2. \A k : GetOperatorByP2PKey(tab, k) \subseteq Row
  BY DEF GetOperatorByP2PKey
<1>3. CASE \E o \in Operators : e = ByAddress(o)
  BY <1>3, AddressAnswer
<1>4. CASE \E k \in SigningKeys : e = BySigningKey(k)
  BY <1>1, <1>4 DEF Answers, BySigningKey
<1>5. CASE \E k \in P2PKeys : e = PeerIDToP2PKey(k)
  BY <1>2, <1>5 DEF Answers, PeerIDToP2PKey, ByP2PKey
<1> QED BY <1>3, <1>4, <1>5 DEF Questions, Asked

\* A question the guarantee of SignersFresh is about.
Signers == {e \in Questions : e.by \in {"address", "signing"}}

\* What a statement about operator o with the keys of row does not name is about a
\* key that is not in the row, or about the address of someone else.
LEMMA NamedOrNotIn ==
    ASSUME NEW o \in Operators, NEW row, NEW e \in Signers,
           \A x \in Operators : e = ByAddress(x) => x = o
    PROVE  e \in Invalidates(o, row) \/ e \in NotIn(row)
<1>1. CASE \E x \in Operators : e = ByAddress(x)
  BY <1>1 DEF Invalidates
<1>2. CASE \E k \in SigningKeys : e = BySigningKey(k)
  BY <1>2 DEF Invalidates, NotIn, BySigningKey, Signers
<1>3. CASE \E k \in P2PKeys : e = PeerIDToP2PKey(k)
  BY <1>3 DEF Signers, PeerIDToP2PKey, ByP2PKey
<1> QED BY <1>1, <1>2, <1>3 DEF Signers, Questions, Asked

----------------------------------------------------------------------------
(* The invariant                                                           *)

\* Rows are never deleted: the update only writes rows that exist, and an answer
\* about an address that is not nil is about an address with a row.
RowsStay ==
    /\ \A o \in upd.todo \cup upd.written : Known(o)
    /\ \A o \in upd.written : upd.tab[o] # NoRow /\ upd.tab[o].address = o
    /\ \A o \in Operators : \A a \in cache[ByAddress(o)] : a # NoRow => Known(o)
    /\ \A c \in Callers, o \in Operators :
          ByAddress(o) \in call[c].ask /\ call[c].row # NoRow => Known(o)
    /\ call["listener"].pc = "got" /\ call["listener"].row # NoRow => \A o \in leaving : Known(o)

\* One event at a time, one update at a time.
Sequential ==
    /\ leaving # {} => pending["listener"] = {}
    /\ upd.on => pending["updator"] = {}
    /\ ~upd.on => upd.todo = {} /\ upd.written = {}
    /\ \A c \in Callers : call[c].pc # "fill" => call[c].ask = {}
    /\ call["listener"].pc = "fill" => \A o \in leaving : call["listener"].ask = {ByAddress(o)}

\* The answer "no row" about an operator that has one.
NilExplained ==
    /\ \A o \in Operators : Known(o) /\ NoRow \in cache[ByAddress(o)] =>
          ByAddress(o) \in excused \/ ByAddress(o) \in pending["listener"]
    /\ \A c \in Callers, o \in Operators :
          ByAddress(o) \in call[c].ask /\ call[c].row = NoRow /\ Known(o) => call[c].old
    /\ call["listener"].pc = "got" /\ call["listener"].row = NoRow =>
          \A o \in leaving : Known(o) => call["listener"].old

\* An answer on its way to the cache is what the table says, or known to be old.
FillsFresh ==
    \A c \in Callers : \A e \in call[c].ask :
        call[c].row \in Answers(rows, e) \/ call[c].old

CacheInv == TypeOK /\ RowsStay /\ Sequential /\ NilExplained /\ FillsFresh /\ SignersFresh

LEMMA InitCache == Init => CacheInv
<1> SUFFICES ASSUME Init PROVE CacheInv
  OBVIOUS
<1> USE NoRowType, AddressAsked
<1>1. TypeOK
  BY DEF Init, TypeOK, Known, NoUpdate, Rest
<1>2. RowsStay
  BY DEF Init, RowsStay, NoUpdate, Rest, Callers
<1>3. Sequential
  BY DEF Init, Sequential, NoUpdate, Rest, Callers
<1>4. NilExplained
  BY DEF Init, NilExplained, Rest, Callers
<1>5. FillsFresh
  BY DEF Init, FillsFresh, Rest
<1>6. SignersFresh
  BY DEF Init, SignersFresh, Explained, Stale, Cached
<1> QED BY <1>1, <1>2, <1>3, <1>4, <1>5, <1>6 DEF CacheInv

----------------------------------------------------------------------------
(* Reading                                                                 *)

Calls == [pc : {"rest", "fill", "got"}, ask : SUBSET Questions, row : Row, old : BOOLEAN]

LEMMA CallTypes ==
    /\ Rest \in Calls
    /\ \A e \in Questions, a \in Row : Filling(e, a) \in Calls
    /\ \A a \in Row, old \in BOOLEAN : Got(a, old) \in Calls
BY NoRowType DEF Rest, Filling, Got, Calls

\* A caller goes on with call x, and nothing else changes but what the listener
\* is about: x may be a fresh question or rest.
LEMMA CallKeeps ==
    ASSUME CacheInv, NEW c \in Callers, NEW x \in Calls, call' = [call EXCEPT ![c] = x],
           UNCHANGED <<rows, cache, upd, pending, excused>>,
           alive' \in BOOLEAN,
           leaving' \subseteq Operators,
           leaving' # {} => pending["listener"] = {},
           x.pc # "fill" => x.ask = {},
           \A e \in x.ask : x.row \in Answers(rows, e),
           c # "listener" => UNCHANGED leaving,
           c = "listener" => \A o \in leaving' :
               /\ x.pc = "fill" => x.ask = {ByAddress(o)}
               /\ x.pc = "got" => (x.row # NoRow => Known(o)) /\ (x.row = NoRow /\ Known(o) => x.old)
    PROVE  CacheInv'
<1>0. "listener" \in Callers /\ call \in [Callers -> Calls]
  BY DEF Callers, CacheInv, TypeOK, Calls
<1>1. TypeOK'
  BY <1>0 DEF CacheInv, TypeOK, Calls, Known
<1>2. \A o \in Operators : ByAddress(o) \in x.ask => x.row = rows[o]
  BY AddressAnswer
<1>3. RowsStay'
  BY <1>0, <1>2 DEF CacheInv, RowsStay, Known, Calls
<1>4. Sequential'
  BY <1>0 DEF CacheInv, Sequential, Calls
<1>5. NilExplained'
  BY <1>0, <1>2 DEF CacheInv, NilExplained, Known, Calls
<1>6. FillsFresh'
  BY <1>0 DEF CacheInv, FillsFresh, Calls
<1>7. SignersFresh'
  BY DEF CacheInv, SignersFresh, Explained, Stale, Cached
<1> QED BY <1>1, <1>3, <1>4, <1>5, <1>6, <1>7 DEF CacheInv

LEMMA AskKeeps ==
    ASSUME CacheInv, NEW r \in Readers, NEW e \in Asked, Ask(r, e)
    PROVE  CacheInv'
<1>1. PICK a \in Answers(rows, e) : call' = [call EXCEPT ![r] = Filling(e, a)]
  BY DEF Ask, Miss
<1>2. e \in Questions /\ a \in Row /\ r \in Callers /\ r # "listener"
  BY AnswerTypes DEF Questions, Callers, CacheInv, TypeOK
<1>3. /\ Filling(e, a) \in Calls
      /\ Filling(e, a).pc = "fill" /\ Filling(e, a).ask = {e} /\ Filling(e, a).row = a
  BY <1>2, CallTypes DEF Filling
<1>4. /\ leaving \subseteq Operators /\ alive \in BOOLEAN
      /\ leaving # {} => pending["listener"] = {}
  BY DEF CacheInv, TypeOK, Sequential
<1> QED BY <1>1, <1>2, <1>3, <1>4, CallKeeps DEF Ask, work

LEMMA GetFailsKeeps == ASSUME CacheInv, NEW c \in Callers, GetFails(c) PROVE CacheInv'
<1>1. Rest \in Calls /\ Rest.pc = "rest" /\ Rest.ask = {}
  BY CallTypes DEF Rest
<1>2. /\ leaving \subseteq Operators /\ alive \in BOOLEAN
      /\ leaving # {} => pending["listener"] = {}
  BY DEF CacheInv, TypeOK, Sequential
<1> QED BY <1>1, <1>2, CallKeeps DEF GetFails

LEMMA PanicKeeps == ASSUME CacheInv, Panic PROVE CacheInv'
<1>1. Rest \in Calls /\ Rest.pc = "rest" /\ Rest.ask = {}
  BY CallTypes DEF Rest
<1> QED BY <1>1, CallKeeps DEF Panic, Callers

LEMMA DeregisteredKeeps ==
    ASSUME CacheInv, NEW o \in Operators, Deregistered(o)
    PROVE  CacheInv'
<1> DEFINE e == ByAddress(o)
<1>0. /\ pending["listener"] = {} /\ leaving' = {o} /\ UNCHANGED <<rows, cache, upd, pending, excused>>
      /\ alive' = alive /\ alive \in BOOLEAN /\ "listener" \in Callers
      /\ e \in Questions
  BY AddressAsked DEF Deregistered, Receive, CacheInv, TypeOK, Callers
<1>1. CASE Miss("listener", e)
  <2>1. PICK a \in Answers(rows, e) : call' = [call EXCEPT !["listener"] = Filling(e, a)]
    BY <1>1 DEF Miss
  <2>2. a \in Row
    BY <1>0, AnswerTypes DEF CacheInv, TypeOK
  <2>3. /\ Filling(e, a) \in Calls
        /\ Filling(e, a).pc = "fill" /\ Filling(e, a).ask = {e} /\ Filling(e, a).row = a
    BY <1>0, <2>2, CallTypes DEF Filling
  <2> HIDE DEF e
  <2> QED BY <1>0, <2>1, <2>3, CallKeeps DEF e
<1>2. CASE \E a \in cache[e] : call' = [call EXCEPT !["listener"] = Got(a, e \in excused)]
  <2>1. PICK a \in cache[e] : call' = [call EXCEPT !["listener"] = Got(a, e \in excused)]
    BY <1>2
  <2>2. a \in Row /\ (e \in excused) \in BOOLEAN
    BY <1>0 DEF CacheInv, TypeOK
  <2> DEFINE x == Got(a, e \in excused)
  <2>3. x \in Calls /\ x.pc = "got" /\ x.ask = {} /\ x.row = a /\ x.old = (e \in excused)
    BY <2>2, CallTypes DEF Got
  <2>4. a # NoRow => Known(o)
    BY <2>1 DEF CacheInv, RowsStay
  <2>5. a = NoRow /\ Known(o) => e \in excused
    BY <1>0, <2>1 DEF CacheInv, NilExplained
  <2> HIDE DEF e, x
  <2> QED BY <1>0, <2>1, <2>3, <2>4, <2>5, CallKeeps DEF x
<1> QED BY <1>1, <1>2 DEF Deregistered

LEMMA FillKeeps == ASSUME CacheInv, NEW c \in Callers, Fill(c) PROVE CacheInv'
<1>1. PICK e \in call[c].ask :
          /\ cache' = [cache EXCEPT ![e] = {call[c].row}]
          /\ excused' = IF call[c].old THEN excused \cup {e} ELSE excused \ {e}
  BY DEF Fill
<1>2. /\ call \in [Callers -> Calls] /\ "listener" \in Callers
      /\ cache \in [Questions -> SUBSET Row] /\ excused \subseteq Questions
      /\ e \in Questions /\ call[c].row \in Row /\ call[c].old \in BOOLEAN
      /\ call[c].pc = "fill"
      /\ UNCHANGED <<rows, leaving, alive, upd, pending>>
  BY DEF CacheInv, TypeOK, Calls, Callers, Fill, work
<1> DEFINE x == IF c = "listener" THEN Got(call[c].row, call[c].old) ELSE Rest
<1>3. call' = [call EXCEPT ![c] = x]
  BY <1>2 DEF Fill
<1>4. /\ x \in Calls /\ x.pc # "fill" /\ x.ask = {}
      /\ c = "listener" => x.row = call[c].row /\ x.old = call[c].old
  BY <1>2, CallTypes DEF Got, Rest
<1> HIDE DEF x
<1>5. /\ call' \in [Callers -> Calls] /\ call'[c] = x
      /\ \A y \in Callers : y # c => call'[y] = call[y]
  BY <1>2, <1>3, <1>4
<1>6. /\ cache' \in [Questions -> SUBSET Row] /\ cache'[e] = {call[c].row}
      /\ \A q \in Questions : q # e => cache'[q] = cache[q]
  BY <1>1, <1>2
<1>7. /\ \A q : q # e => (q \in excused <=> q \in excused')
      /\ call[c].old => e \in excused'
      /\ excused' \subseteq Questions
  BY <1>1, <1>2
<1>8. TypeOK'
  BY <1>2, <1>5, <1>6, <1>7 DEF CacheInv, TypeOK, Calls, Known
<1>9. \A o \in Operators : e = ByAddress(o) =>
          /\ call[c].row # NoRow => Known(o)
          /\ call[c].row = NoRow /\ Known(o) => call[c].old
  BY <1>1 DEF CacheInv, RowsStay, NilExplained
<1>10. c = "listener" => \A o \in leaving : e = ByAddress(o)
  BY <1>1, <1>2 DEF CacheInv, Sequential
<1>11. leaving \subseteq Operators
  BY DEF CacheInv, TypeOK
<1>12. RowsStay'
  BY <1>2, <1>4, <1>5, <1>6, <1>9, <1>10, <1>11, AddressAsked DEF CacheInv, RowsStay, Known
<1>13. Sequential'
  BY <1>2, <1>4, <1>5 DEF CacheInv, Sequential
<1>14. NilExplained'
  BY <1>2, <1>4, <1>5, <1>6, <1>7, <1>9, <1>10, <1>11, AddressAsked DEF CacheInv, NilExplained, Known
<1>15. FillsFresh'
  BY <1>2, <1>4, <1>5 DEF CacheInv, FillsFresh
<1>16. call[c].row \in Answers(rows, e) \/ call[c].old
  BY <1>1 DEF CacheInv, FillsFresh
<1>17. SignersFresh'
  BY <1>2, <1>6, <1>7, <1>16 DEF CacheInv, SignersFresh, Explained, Stale, Cached
<1> QED BY <1>8, <1>12, <1>13, <1>14, <1>15, <1>17 DEF CacheInv

\* An answer disappears, and with it the need to remove it; or that has failed.
LEMMA RemoveKeeps ==
    ASSUME CacheInv, NEW e \in Questions,
           cache' = [cache EXCEPT ![e] = {}] \/ (cache' = cache /\ e \in excused'),
           excused' \subseteq Questions,
           \A q : q # e => (q \in excused <=> q \in excused'),
           pending' \in [Writers -> SUBSET Questions],
           \A w \in Writers : pending'[w] = pending[w] \/ pending'[w] = pending[w] \ {e},
           UNCHANGED <<rows, call, leaving, alive, upd>>
    PROVE  CacheInv'
<1>1. /\ cache' \in [Questions -> SUBSET Row]
      /\ cache'[e] = {} \/ (cache'[e] = cache[e] /\ e \in excused')
      /\ \A q \in Questions : q # e => cache'[q] = cache[q]
      /\ "listener" \in Writers /\ "updator" \in Writers
  BY DEF CacheInv, TypeOK, Writers
<1>2. TypeOK'
  BY <1>1 DEF CacheInv, TypeOK, Known
<1>3. RowsStay'
  BY <1>1, AddressAsked DEF CacheInv, RowsStay, Known
<1>4. Sequential'
  BY <1>1 DEF CacheInv, Sequential
<1>5. NilExplained'
  BY <1>1, AddressAsked DEF CacheInv, NilExplained, Known
<1>6. FillsFresh'
  BY DEF CacheInv, FillsFresh
<1>7. SignersFresh'
  BY <1>1 DEF CacheInv, SignersFresh, Explained, Stale, Cached
<1> QED BY <1>2, <1>3, <1>4, <1>5, <1>6, <1>7 DEF CacheInv

LEMMA ExpireKeeps == ASSUME CacheInv, NEW e \in Questions, Expire(e) PROVE CacheInv'
<1>1. /\ excused \subseteq Questions /\ pending \in [Writers -> SUBSET Questions]
      /\ cache' = [cache EXCEPT ![e] = {}] /\ excused' = excused \ {e}
      /\ UNCHANGED <<rows, call, leaving, alive, upd, pending>>
  BY DEF CacheInv, TypeOK, Expire, Remove, work
<1> QED BY <1>1, RemoveKeeps

LEMMA InvalidateKeeps ==
    ASSUME CacheInv, NEW w \in Writers, NEW e \in Questions, Invalidate(w, e)
    PROVE  CacheInv'
<1>1. /\ excused \subseteq Questions /\ pending \in [Writers -> SUBSET Questions]
      /\ pending' = [pending EXCEPT ![w] = @ \ {e}]
      /\ UNCHANGED <<rows, call, leaving, alive, upd>>
  BY DEF CacheInv, TypeOK, Invalidate, work
<1>2. CASE Remove(e)
  BY <1>1, <1>2, RemoveKeeps DEF Remove
<1>3. CASE excused' = excused \cup {e} /\ cache' = cache
  BY <1>1, <1>3, RemoveKeeps
<1> QED BY <1>2, <1>3 DEF Invalidate

----------------------------------------------------------------------------
(* Writing                                                                 *)

Changed(tab) == {e \in Questions : Answers(tab, e) # Answers(rows, e)}

\* What a write does to the calls on their way.
LEMMA Overtaken ==
    ASSUME CacheInv, NEW tab, NEW done, NEW unknown, Write(tab, done, unknown)
    PROVE  /\ call' \in [Callers -> Calls]
           /\ \A c \in Callers : c \in done => call'[c] = Rest
           /\ \A c \in Callers : c \notin done =>
                 /\ call'[c].pc = call[c].pc /\ call'[c].ask = call[c].ask
                 /\ call'[c].row = call[c].row
                 /\ call[c].old => call'[c].old
                 /\ call[c].ask \cap Changed(tab) # {} => call'[c].old
<1>1. call \in [Callers -> Calls]
  BY DEF CacheInv, TypeOK, Calls
<1>2. call' = [c \in Callers |-> IF c \in done THEN Rest ELSE
                  [call[c] EXCEPT !.old = call[c].old \/ call[c].ask \cap Changed(tab) # {}]]
  BY DEF Write, Changed
<1>3. \A c \in Callers : c \in done => call'[c] = Rest
  BY <1>2
<1>4. ASSUME NEW c \in Callers, c \notin done
      PROVE  /\ call'[c] \in Calls
             /\ call'[c].pc = call[c].pc /\ call'[c].ask = call[c].ask
             /\ call'[c].row = call[c].row
             /\ call[c].old => call'[c].old
             /\ call[c].ask \cap Changed(tab) # {} => call'[c].old
  <2> DEFINE b == call[c].old \/ call[c].ask \cap Changed(tab) # {}
  <2>1. call[c] \in Calls /\ b \in BOOLEAN
    BY <1>1, <1>4
  <2>2. (call[c].old => b) /\ (call[c].ask \cap Changed(tab) # {} => b)
    OBVIOUS
  <2>3. call'[c] = [call[c] EXCEPT !.old = b]
    BY <1>2, <1>4
  <2> HIDE DEF b
  <2> QED BY <2>1, <2>2, <2>3 DEF Calls
<1>5. call' \in [Callers -> Calls]
  BY <1>2, <1>3, <1>4, CallTypes
<1> QED BY <1>3, <1>4, <1>5

\* A statement or a transaction that keeps every row, gives the writer everything
\* to invalidate that it knows of, and adds rows only for the listener.
LEMMA WriteKeeps ==
    ASSUME CacheInv, NEW tab \in [Operators -> Row], NEW done \in SUBSET {"listener"},
           NEW unknown, NEW w \in Writers, NEW named,
           Write(tab, done, unknown), Schedule(w, named), pending[w] = {}, cache' = cache,
           \A o \in Operators : tab[o] # NoRow => tab[o].address = o,
           \A o \in Operators : Known(o) => tab[o] # NoRow,
           \A o \in Operators : ~Known(o) /\ tab[o] # NoRow =>
               w = "listener" /\ leaving = {} /\ ByAddress(o) \in named,
           \A e \in Signers : Answers(tab, e) # Answers(rows, e) => e \in named \/ e \in unknown,
           leaving' = {} \/ (leaving' = leaving /\ w = "updator"),
           alive' = alive,
           upd' = NoUpdate \/ (upd' = upd /\ w = "listener")
    PROVE  CacheInv'
<1>0. /\ rows' = tab
      /\ excused' = excused \cup {e \in Changed(tab) \cap unknown : Cached(e)}
      /\ pending' = [pending EXCEPT ![w] = named \cap Questions]
      /\ "listener" \in Callers /\ "listener" \in Writers /\ "updator" \in Writers
  BY DEF Write, Changed, Schedule, Callers, Writers
<1>1. /\ call' \in [Callers -> Calls]
      /\ \A c \in Callers : call'[c] = Rest \/
            /\ call'[c].pc = call[c].pc /\ call'[c].ask = call[c].ask
            /\ call'[c].row = call[c].row
            /\ call[c].old => call'[c].old
            /\ call[c].ask \cap Changed(tab) # {} => call'[c].old
  BY Overtaken
<1>2. Rest.pc = "rest" /\ Rest.ask = {} /\ Rest.row = NoRow
  BY DEF Rest
<1>3. /\ pending' \in [Writers -> SUBSET Questions] /\ pending'[w] = named \cap Questions
      /\ \A v \in Writers : v # w => pending'[v] = pending[v]
  BY <1>0 DEF CacheInv, TypeOK
<1>4. NoUpdate.on = FALSE /\ NoUpdate.todo = {} /\ NoUpdate.written = {}
  BY DEF NoUpdate
<1>5. /\ NoUpdate \in [on : BOOLEAN, list : [Operators -> Row], todo : SUBSET Operators,
                       written : SUBSET Operators, tab : [Operators -> Row]]
  BY NoRowType DEF NoUpdate
<1>6. TypeOK'
  <2>1. /\ rows' \in [Operators -> Row]
        /\ \A o \in Operators : Known(o)' => rows'[o].address = o
    BY <1>0 DEF Known
  <2>2. excused' \subseteq Questions
    BY <1>0 DEF Changed, CacheInv, TypeOK
  <2>3. leaving' \subseteq Operators /\ alive' \in BOOLEAN
    BY DEF CacheInv, TypeOK
  <2> QED BY <1>1, <1>3, <1>5, <2>1, <2>2, <2>3 DEF CacheInv, TypeOK, Calls
<1>7. \A o \in Operators : Known(o) => Known(o)'
  BY <1>0 DEF Known
<1>8. leaving \subseteq Operators /\ upd.todo \subseteq Operators /\ upd.written \subseteq Operators
  BY DEF CacheInv, TypeOK
<1>9. RowsStay'
  BY <1>0, <1>1, <1>2, <1>4, <1>7, <1>8 DEF CacheInv, RowsStay
<1>10. Sequential'
  BY <1>0, <1>1, <1>2, <1>3, <1>4 DEF CacheInv, Sequential
<1>11. FillsFresh'
  <2> SUFFICES ASSUME NEW c \in Callers, NEW e \in call'[c].ask, ~call'[c].old
               PROVE  call'[c].row \in Answers(tab, e)
    BY <1>0 DEF FillsFresh
  <2>1. e \in call[c].ask /\ call'[c].row = call[c].row /\ ~call[c].old /\ e \notin Changed(tab)
    BY <1>1, <1>2
  <2>2. e \in Questions
    BY <2>1 DEF CacheInv, TypeOK
  <2> QED BY <2>1, <2>2 DEF CacheInv, FillsFresh, Changed
<1>12. SignersFresh'
  <2> SUFFICES ASSUME NEW e \in Signers, Stale(e)'
               PROVE  e \in excused' \/ \E v \in Writers : e \in pending'[v]
    BY DEF SignersFresh, Explained, Signers
  <2>1. e \in Questions
    BY DEF Signers
  <2>2. CASE e \in Changed(tab)
    BY <1>0, <1>3, <2>1, <2>2 DEF Changed, Stale, Cached
  <2>3. CASE e \notin Changed(tab)
    <3>1. Stale(e)
      BY <1>0, <2>1, <2>3 DEF Changed, Stale, Cached
    <3>2. e \in excused \/ \E v \in Writers : e \in pending[v]
      BY <3>1 DEF CacheInv, SignersFresh, Explained, Signers
    <3> QED BY <1>0, <1>3, <3>2
  <2> QED BY <2>2, <2>3
<1>13. NilExplained'
  <2>1. ASSUME NEW o \in Operators, Known(o)', NoRow \in cache'[ByAddress(o)]
        PROVE  ByAddress(o) \in excused' \/ ByAddress(o) \in pending'["listener"]
    <3>1. CASE Known(o)
      BY <1>0, <1>3, <2>1, <3>1 DEF CacheInv, NilExplained
    <3>2. CASE ~Known(o)
      BY <1>0, <1>3, <2>1, <3>2, AddressAsked DEF Known
    <3> QED BY <3>1, <3>2
  <2>2. ASSUME NEW c \in Callers, NEW o \in Operators, ByAddress(o) \in call'[c].ask,
               call'[c].row = NoRow, Known(o)'
        PROVE  call'[c].old
    <3>1. CASE Known(o)
      BY <1>1, <1>2, <2>2, <3>1 DEF CacheInv, NilExplained
    <3>2. CASE ~Known(o)
      <4>1. ByAddress(o) \in Changed(tab)
        <5>1. tab[o] # rows[o]
          BY <1>0, <2>2, <3>2 DEF Known
        <5>2. Answers(tab, ByAddress(o)) = {tab[o]} /\ Answers(rows, ByAddress(o)) = {rows[o]}
          BY AddressAnswer
        <5> QED BY <5>1, <5>2, AddressAsked DEF Changed
      <4> QED BY <1>1, <1>2, <2>2, <4>1
    <3> QED BY <3>1, <3>2
  <2>3. ASSUME call'["listener"].pc = "got", call'["listener"].row = NoRow,
               NEW o \in leaving', Known(o)'
        PROVE  call'["listener"].old
    <3>1. o \in leaving /\ o \in Operators /\ Known(o)
      BY <1>0, <1>8, <2>3 DEF Known
    <3> QED BY <1>0, <1>1, <1>2, <2>3, <3>1 DEF CacheInv, NilExplained
  <2> QED BY <2>1, <2>2, <2>3 DEF NilExplained
<1> QED BY <1>6, <1>9, <1>10, <1>11, <1>12, <1>13 DEF CacheInv

\* A row is replaced: the answers it can change are those about its address, and
\* those about keys.
LEMMA ReplaceKeeps ==
    ASSUME CacheInv, NEW o \in Operators, NEW r \in Row, r.address = o, r # NoRow,
           NEW row, NEW done \in SUBSET {"listener"},
           Write([rows EXCEPT ![o] = r], done, NotIn(row)),
           Schedule("listener", Invalidates(o, row)), pending["listener"] = {}, cache' = cache,
           Known(o) \/ leaving = {},
           leaving' = {}, alive' = alive, upd' = upd
    PROVE  CacheInv'
<1> DEFINE tab == [rows EXCEPT ![o] = r]
<1>1. tab \in [Operators -> Row] /\ tab[o] = r /\ \A x \in Operators : x # o => tab[x] = rows[x]
  BY DEF CacheInv, TypeOK
<1> HIDE DEF tab
<1>2. \A x \in Operators : tab[x] # NoRow => tab[x].address = x
  BY <1>1 DEF CacheInv, TypeOK, Known
<1>3. \A x \in Operators : Known(x) => tab[x] # NoRow
  BY <1>1 DEF Known
<1>4. \A x \in Operators : ~Known(x) /\ tab[x] # NoRow => x = o
  BY <1>1 DEF Known
<1>5. ASSUME NEW e \in Signers, Answers(tab, e) # Answers(rows, e)
      PROVE  e \in Invalidates(o, row) \/ e \in NotIn(row)
  <2>1. ASSUME NEW x \in Operators, e = ByAddress(x) PROVE x = o
    <3>1. Answers(tab, e) = {tab[x]} /\ Answers(rows, e) = {rows[x]}
      BY <2>1, AddressAnswer
    <3> QED BY <1>1, <1>5, <3>1
  <2> QED BY <2>1, NamedOrNotIn
<1>6. ByAddress(o) \in Invalidates(o, row) /\ "listener" \in Writers
  BY DEF Invalidates, Writers
<1>7. Write(tab, done, NotIn(row))
  BY DEF tab
<1> QED BY <1>1, <1>2, <1>3, <1>4, <1>5, <1>6, <1>7, WriteKeeps

LEMMA UpsertKeeps ==
    ASSUME CacheInv, NEW o \in Operators, NEW p \in Pairs, UpsertOperator(o, p[1], p[2])
    PROVE  CacheInv'
<1> DEFINE r == Registered(o, p[1], p[2])
<1>1. p[1] \in Keys /\ p[2] \in Keys
  OBVIOUS
<1>2. r \in Row /\ r.address = o /\ r # NoRow
  BY <1>1 DEF Registered, Row, NoRow
<1> HIDE DEF r
<1>3. /\ Write([rows EXCEPT ![o] = r], {}, NotIn(r))
      /\ Schedule("listener", Invalidates(o, r)) /\ pending["listener"] = {} /\ leaving = {}
      /\ UNCHANGED <<cache, leaving, alive, upd>>
  BY DEF UpsertOperator, Upsert, Receive, work, r
<1> QED BY <1>2, <1>3, ReplaceKeeps

LEMMA ExitKeeps ==
    ASSUME CacheInv, NEW o \in Operators, UpdateOperatorExitEpoch(o)
    PROVE  CacheInv'
<1> DEFINE row == call["listener"].row
           r   == [rows[o] EXCEPT !.left = TRUE]
<1>1. Known(o) /\ pending["listener"] = {}
  BY DEF UpdateOperatorExitEpoch, CacheInv, RowsStay, Sequential
<1>2. rows[o] \in Row /\ rows[o].address = o
  BY <1>1 DEF CacheInv, TypeOK
<1>3. r \in Row /\ r.address = o
  BY <1>2 DEF Row
<1>4. r # NoRow
  BY <1>3 DEF NoRow
<1>5. [rows EXCEPT ![o].left = TRUE] = [rows EXCEPT ![o] = r]
  OBVIOUS
<1>6. /\ Write([rows EXCEPT ![o] = r], {"listener"}, NotIn(row))
      /\ Schedule("listener", Invalidates(o, row))
      /\ leaving' = {} /\ UNCHANGED <<cache, alive, upd>>
  BY <1>5 DEF UpdateOperatorExitEpoch
<1> HIDE DEF r, row
<1> QED BY <1>1, <1>3, <1>4, <1>6, ReplaceKeeps

LEMMA CommitKeeps == ASSUME CacheInv, Commit PROVE CacheInv'
<1> DEFINE tab == [o \in Operators |-> IF o \in upd.written THEN upd.tab[o] ELSE rows[o]]
           unknown == {e \in Questions : \A o \in upd.written : e \in NotIn(upd.list[o])}
<1>0. /\ upd.on /\ pending["updator"] = {} /\ upd.written \subseteq Operators
      /\ UNCHANGED <<cache, leaving, alive>> /\ upd' = NoUpdate
      /\ Write(tab, {}, unknown) /\ Schedule("updator", Listed)
      /\ "updator" \in Writers
  BY DEF Commit, CommitWith, CacheInv, Sequential, TypeOK, Writers
<1>1. /\ tab \in [Operators -> Row]
      /\ \A o \in Operators : tab[o] = IF o \in upd.written THEN upd.tab[o] ELSE rows[o]
  BY DEF CacheInv, TypeOK
<1> HIDE DEF tab
<1>2. \A o \in Operators : tab[o] # NoRow => tab[o].address = o
  BY <1>1 DEF CacheInv, TypeOK, RowsStay, Known
<1>3. \A o \in Operators : Known(o) <=> tab[o] # NoRow
  BY <1>0, <1>1 DEF CacheInv, RowsStay, Known
<1>4. ASSUME NEW e \in Signers, Answers(tab, e) # Answers(rows, e)
      PROVE  e \in Listed \/ e \in unknown
  <2>1. CASE \E x \in Operators : e = ByAddress(x)
    <3>1. PICK x \in Operators : e = ByAddress(x)
      BY <2>1
    <3>2. Answers(tab, e) = {tab[x]} /\ Answers(rows, e) = {rows[x]}
      BY <3>1, AddressAnswer
    <3>3. x \in upd.written
      BY <1>1, <1>4, <3>2
    <3> QED BY <3>1, <3>3 DEF Listed, Invalidates
  <2>2. CASE \A x \in Operators : e # ByAddress(x)
    <3>1. \A o \in upd.written : e \in Invalidates(o, upd.list[o]) \/ e \in NotIn(upd.list[o])
      BY <1>0, <2>2, NamedOrNotIn
    <3> QED BY <3>1 DEF Listed, Signers
  <2> QED BY <2>1, <2>2
<1> HIDE DEF unknown
<1> QED BY <1>0, <1>1, <1>2, <1>3, <1>4, WriteKeeps

\* The transaction goes on, or away, without a write that shows.
LEMMA UpdateKeeps ==
    ASSUME CacheInv,
           upd' \in [on : BOOLEAN, list : [Operators -> Row], todo : SUBSET Operators,
                     written : SUBSET Operators, tab : [Operators -> Row]],
           upd'.on => pending["updator"] = {},
           ~upd'.on => upd'.todo = {} /\ upd'.written = {},
           \A o \in upd'.todo \cup upd'.written : Known(o),
           \A o \in upd'.written : upd'.tab[o] # NoRow /\ upd'.tab[o].address = o,
           UNCHANGED <<rows, cache, call, leaving, alive, pending, excused>>
    PROVE  CacheInv'
<1>1. TypeOK'
  BY DEF CacheInv, TypeOK, Known
<1>2. RowsStay'
  BY DEF CacheInv, RowsStay, Known
<1>3. Sequential'
  BY DEF CacheInv, Sequential
<1>4. NilExplained' /\ FillsFresh'
  BY DEF CacheInv, NilExplained, FillsFresh, Known
<1>5. SignersFresh'
  BY DEF CacheInv, SignersFresh, Explained, Stale, Cached
<1> QED BY <1>1, <1>2, <1>3, <1>4, <1>5 DEF CacheInv

LEMMA NoUpdateType ==
    /\ NoUpdate \in [on : BOOLEAN, list : [Operators -> Row], todo : SUBSET Operators,
                     written : SUBSET Operators, tab : [Operators -> Row]]
    /\ NoUpdate.on = FALSE /\ NoUpdate.todo = {} /\ NoUpdate.written = {}
BY NoRowType DEF NoUpdate

LEMMA ListKeeps == ASSUME CacheInv, ListAllOperators PROVE CacheInv'
<1> DEFINE found == {o \in Operators : Known(o)}
<1>1. /\ upd' = [NoUpdate EXCEPT !.on = TRUE, !.list = rows, !.todo = found]
      /\ pending["updator"] = {}
      /\ UNCHANGED <<rows, cache, call, leaving, alive, pending, excused>>
      /\ rows \in [Operators -> Row]
  BY DEF ListAllOperators, List, CacheInv, TypeOK
<1>2. /\ upd' \in [on : BOOLEAN, list : [Operators -> Row], todo : SUBSET Operators,
                    written : SUBSET Operators, tab : [Operators -> Row]]
      /\ upd'.on /\ upd'.todo = found /\ upd'.written = {}
  BY <1>1, NoUpdateType
<1> QED BY <1>1, <1>2, UpdateKeeps

LEMMA StateKeeps ==
    ASSUME CacheInv, NEW o \in Operators, NEW p \in Pairs, NEW b \in BOOLEAN,
           UpdateOperatorState(o, p[1], p[2], b)
    PROVE  CacheInv'
<1> DEFINE r == [rows[o] EXCEPT !.sk = p[1], !.pk = p[2], !.isActive = b]
<1>0. p[1] \in Keys /\ p[2] \in Keys
  OBVIOUS
<1>1. Known(o) /\ rows[o] \in Row /\ rows[o].address = o
  BY DEF CacheInv, RowsStay, TypeOK, UpdateOperatorState
<1>2. r \in Row /\ r.address = o
  BY <1>0, <1>1 DEF Row
<1>3. r # NoRow
  BY <1>2 DEF NoRow
<1>4. /\ upd' = [upd EXCEPT !.todo = upd.todo \ {o}, !.written = upd.written \cup {o}, !.tab[o] = r]
      /\ UNCHANGED <<rows, cache, call, leaving, alive, pending, excused>> /\ o \in upd.todo
  BY DEF UpdateOperatorState
<1> HIDE DEF r
<1>5. upd \in [on : BOOLEAN, list : [Operators -> Row], todo : SUBSET Operators,
               written : SUBSET Operators, tab : [Operators -> Row]]
  BY DEF CacheInv, TypeOK
<1>6. /\ upd' \in [on : BOOLEAN, list : [Operators -> Row], todo : SUBSET Operators,
                    written : SUBSET Operators, tab : [Operators -> Row]]
      /\ upd'.on = upd.on /\ upd'.todo = upd.todo \ {o} /\ upd'.written = upd.written \cup {o}
      /\ upd'.tab[o] = r /\ \A x \in Operators : x # o => upd'.tab[x] = upd.tab[x]
  BY <1>2, <1>4, <1>5
<1>7. upd.on /\ pending["updator"] = {}
  BY <1>4, <1>5 DEF CacheInv, Sequential
<1>8. \A x \in upd'.todo \cup upd'.written : Known(x)
  BY <1>1, <1>6 DEF CacheInv, RowsStay
<1>9. \A x \in upd'.written : upd'.tab[x] # NoRow /\ upd'.tab[x].address = x
  BY <1>2, <1>3, <1>5, <1>6 DEF CacheInv, RowsStay
<1> QED BY <1>4, <1>6, <1>7, <1>8, <1>9, UpdateKeeps

LEMMA RestartKeeps == ASSUME CacheInv, Restart PROVE CacheInv'
<1> USE NoUpdateType
<1>0. /\ call' = [c \in Callers |-> Rest] /\ leaving' = {} /\ alive' = TRUE /\ upd' = NoUpdate
      /\ pending' = [w \in Writers |-> {}]
      /\ excused' = excused \cup UNION {pending[w] : w \in Writers}
      /\ UNCHANGED <<rows, cache>>
      /\ "listener" \in Callers /\ "listener" \in Writers /\ "updator" \in Writers
      /\ Rest.pc = "rest" /\ Rest.ask = {} /\ Rest.row = NoRow
  BY DEF Restart, Callers, Writers, Rest
<1>1. \A e : e \in excused' <=> e \in excused \/ \E w \in Writers : e \in pending[w]
  BY <1>0
<1>2. TypeOK'
  <2>1. excused' \subseteq Questions
    BY <1>1 DEF CacheInv, TypeOK
  <2>2. call' \in [Callers -> Calls]
    BY <1>0, CallTypes
  <2> QED BY <1>0, <2>1, <2>2 DEF CacheInv, TypeOK, Calls, Known
<1>3. RowsStay'
  BY <1>0 DEF CacheInv, RowsStay, Known
<1>4. Sequential'
  BY <1>0 DEF Sequential
<1>5. NilExplained'
  BY <1>0, <1>1 DEF CacheInv, NilExplained, Known
<1>6. FillsFresh'
  BY <1>0 DEF FillsFresh
<1>7. SignersFresh'
  BY <1>0, <1>1 DEF CacheInv, SignersFresh, Explained, Stale, Cached
<1> QED BY <1>2, <1>3, <1>4, <1>5, <1>6, <1>7 DEF CacheInv

LEMMA StutterKeeps == ASSUME CacheInv, UNCHANGED vars PROVE CacheInv'
BY DEF vars, work, CacheInv, TypeOK, RowsStay, Sequential, NilExplained, FillsFresh,
       SignersFresh, Explained, Stale, Cached, Known

LEMMA StepCache == CacheInv /\ [Next]_vars => CacheInv'
<1> SUFFICES ASSUME CacheInv, [Next]_vars PROVE CacheInv'
  OBVIOUS
<1>1. CASE Abort
  BY <1>1, NoUpdateType, UpdateKeeps DEF Abort
<1> QED BY <1>1, AskKeeps, FillKeeps, GetFailsKeeps, ExpireKeeps, InvalidateKeeps,
           DeregisteredKeeps, ExitKeeps, UpsertKeeps, StateKeeps, PanicKeeps, ListKeeps,
           CommitKeeps, RestartKeeps, StutterKeeps DEF Next

----------------------------------------------------------------------------

\* Types, and every row keeps the address it is stored under, though updates and
\* exits are written from what was read earlier or came out of the cache.
THEOREM CachedTypes == Spec => []TypeOK
<1>1. CacheInv => TypeOK
  BY DEF CacheInv
<1> QED BY <1>1, InitCache, StepCache, PTL DEF Spec

\* A row that consensus checks or the listener get from the cache is what the table
\* says, or there is a reason why nobody has removed it.
THEOREM SignersCorrect == Spec => []SignersFresh
<1>1. CacheInv => SignersFresh
  BY DEF CacheInv
<1> QED BY <1>1, InitCache, StepCache, PTL DEF Spec

\* A deregistration ends the listener only when the operator has no row, unless the
\* answer it was given had a reason to be old.
THEOREM PanicCorrect == Spec => PanicsOnlyWithoutRow
<1>1. CacheInv /\ [Next]_vars =>
          [alive /\ ~alive' => \A o \in leaving : ~Known(o) \/ call["listener"].old]_vars
  <2> SUFFICES ASSUME CacheInv, Next, alive, ~alive', NEW o \in leaving, Known(o)
               PROVE  call["listener"].old
    OBVIOUS
  <2>1. Panic
    BY DEF Next, Ask, Fill, GetFails, Expire, Invalidate, Deregistered, UpdateOperatorExitEpoch,
           UpsertOperator, Upsert, UpdateOperatorState, ListAllOperators, List, Commit,
           CommitWith, Abort, Restart, work
  <2> QED BY <2>1 DEF Panic, CacheInv, NilExplained
<1> QED BY <1>1, InitCache, StepCache, PTL DEF Spec, PanicsOnlyWithoutRow

=============================================================================
