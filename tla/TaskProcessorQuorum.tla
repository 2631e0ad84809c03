------------------------ MODULE TaskProcessorQuorum ------------------------
(***************************************************************************)
(* The operators whose signatures a consensus response holds have the      *)
(* threshold weight: proved for every choice of the constants under which  *)
(* weights and threshold do not change from one epoch to the next.         *)
(*                                                                         *)
(* First, whoever was counted has signed.  Then, calculateTotalWeight adds *)
(* up natural numbers with a fold over a set: such a fold is shown to be   *)
(* the cardinality of a set of units, so that the library's theorems about *)
(* finite sets say what is needed about sums.  The rest follows the        *)
(* weights from the operators table into the maps and from there into the  *)
(* stored row.  Then, no quorum is forgotten: the goroutine that stored    *)
(* last is the witness.  Last, every signature that is stored was given by *)
(* its operator, for the task of the row.                                  *)
(***************************************************************************)
EXTENDS TaskProcessorSafety, FiniteSetTheorems, WellFoundedInduction

\* The statements and tests the actions are written with stand for themselves.
USE DEF ListTasks, CreateTask, DeleteTaskByID, GetOperatorBySigningKey,
        ActiveOperator, VerifyResponse, VerifyTaskResponse, OnChain

----------------------------------------------------------------------------
(* Whoever was counted has signed.                                         *)

\* Between adding up the weights and the insert: what is still to look up is in
\* the maps held, and the operators counted are among that and the signatures.
Froms(S) == {e.from : e \in S}

Covered(p) ==
    /\ pc[p] \in {"collect", "gather"} =>
          /\ Keys(p) \subseteq Froms(Deref(p))
          /\ ref[p].counted \subseteq Keys(p) \cup Froms(ref[p].sigs)
    /\ pc[p] = "gather" => ref[p].keys # {}
    /\ pc[p] = "create" => ref[p].counted \subseteq Froms(ref[p].sigs)

CoverHeld == \A p \in Procs : Covered(p)

CoverInv == SignersCoverCounted /\ CoverHeld

\* A step that leaves q, if q is between the two, with at least the maps it had.
Keeps(q) ==
    pc'[q] \in {"collect", "gather", "create"} =>
        /\ pc'[q] = pc[q]
        /\ ref'[q].counted = ref[q].counted
        /\ ref'[q].keys = ref[q].keys /\ ref'[q].sigs = ref[q].sigs
        /\ Froms(Deref(q)) \subseteq Froms(Deref(q)')

\* The keys of responses have a first.
LEMMA FirstIsKey ==
    ASSUME NEW S \in SUBSET Entry, NEW keys \in SUBSET Froms(S), keys # {}
    PROVE  FirstOf(keys) \in keys
<1>1. \E o \in Operators : keys # {} => o \in keys
  BY DEF Froms, Entry
<1> QED BY <1>1 DEF FirstOf

LEMMA CoverInit == Init => CoverInv
BY DEF Init, CoverInv, SignersCoverCounted, CoverHeld, Covered

LEMMA CoveredKept ==
    ASSUME NEW q \in Procs, Covered(q), Keeps(q)
    PROVE  Covered(q)'
<1>1. ASSUME pc'[q] = "collect"
      PROVE  Keys(q)' = Froms(Deref(q)') /\ Keys(q) \subseteq Keys(q)'
  BY <1>1 DEF Keeps, Keys, Froms
<1>2. ASSUME pc'[q] = "gather"
      PROVE  Keys(q)' = Keys(q)
  BY <1>2 DEF Keeps, Keys
<1> QED BY <1>1, <1>2 DEF Covered, Keeps

LEMMA CoverQuiet ==
    ASSUME CoverInv, UNCHANGED consensus, \A q \in Procs : Keeps(q)
    PROVE  CoverInv'
<1>1. SignersCoverCounted'
  BY DEF CoverInv, SignersCoverCounted
<1>2. CoverHeld'
  BY CoveredKept DEF CoverInv, CoverHeld
<1> QED BY <1>1, <1>2 DEF CoverInv

LEMMA KeepsSame ==
    ASSUME NEW q \in Procs, pc'[q] = pc[q], job'[q] = job[q], ref'[q] = ref[q],
           UNCHANGED track
    PROVE  Keeps(q)
BY DEF Keeps, Deref, Responses

LEMMA KeepsStore ==
    ASSUME NEW q \in Procs, pc'[q] = pc[q], job'[q] = job[q], ref'[q] = ref[q],
           NEW j, NEW o, StoreEntry(j, o)
    PROVE  Keeps(q)
<1> DEFINE new == [task |-> j.task, from |-> o, content |-> j.content,
                   epoch |-> j.epoch, weight |-> j.weight]
<1>1. /\ track' = {e \in track : ~(e.task = j.task /\ e.from = o)} \cup {new}
      /\ new.task = j.task /\ new.from = o
  BY DEF StoreEntry
<1> HIDE DEF new
<1>2. ASSUME NEW t, NEW e \in track, e.task = t
      PROVE  \E x \in track' : x.task = t /\ x.from = e.from
  BY <1>1, <1>2
<1>3. ASSUME NEW e \in Deref(q) PROVE \E x \in Deref(q)' : x.from = e.from
  BY <1>2, <1>3 DEF Deref, Responses
<1> QED BY <1>3 DEF Keeps, Froms

LEMMA KeepsDetach ==
    ASSUME TypeInv, NEW q \in Procs, pc'[q] = pc[q], job'[q] = job[q],
           NEW gone, Detach(gone), track' = {e \in track : e.task \notin gone}
    PROVE  Keeps(q)
<1>0. ref[q] \in Ref
  BY DEF TypeInv, TypeOK
<1>1. CASE ref[q].live /\ job[q].task \in gone
  <2>1. ref'[q] = [ref[q] EXCEPT !.live = FALSE, !.rows = Deref(q)]
    BY <1>1 DEF Detach
  <2>2. /\ ~ref'[q].live /\ ref'[q].counted = ref[q].counted
        /\ ref'[q].keys = ref[q].keys /\ ref'[q].sigs = ref[q].sigs
        /\ ref'[q].rows = Deref(q)
    BY <1>0, <2>1 DEF Ref
  <2>3. Deref(q)' = Deref(q)
    BY <2>2 DEF Deref
  <2> QED BY <2>2, <2>3 DEF Keeps
<1>2. CASE ~(ref[q].live /\ job[q].task \in gone)
  <2>1. ref'[q] = ref[q]
    BY <1>2 DEF Detach
  <2>2. Deref(q)' = Deref(q)
    BY <1>2, <2>1 DEF Deref, Responses
  <2> QED BY <2>1, <2>2 DEF Keeps
<1> QED BY <1>1, <1>2

LEMMA KeepsMoves ==
    ASSUME TypeInv, NEW p \in Procs,
           \/ Done(p) \/ Return(p)
           \/ \E l \in Labels \ {"collect", "gather", "create"} :
                 /\ pc' = [pc EXCEPT ![p] = l]
                 /\ \A q \in Procs \ {p} : job'[q] = job[q] /\ ref'[q] = ref[q],
           \/ UNCHANGED track
           \/ \E j, o : StoreEntry(j, o)
    PROVE  \A q \in Procs : Keeps(q)
<1> USE DEF TypeInv, TypeOK
<1>1. /\ pc'[p] \notin {"collect", "gather", "create"}
      /\ \A q \in Procs \ {p} :
            pc'[q] = pc[q] /\ job'[q] = job[q] /\ ref'[q] = ref[q]
  <2>1. CASE Done(p)
    BY <2>1 DEF Done, Rest
  <2>2. CASE Return(p)
    BY <2>1, <2>2 DEF Return
  <2>3. CASE \E l \in Labels \ {"collect", "gather", "create"} :
                 /\ pc' = [pc EXCEPT ![p] = l]
                 /\ \A q \in Procs \ {p} : job'[q] = job[q] /\ ref'[q] = ref[q]
    BY <2>3
  <2> QED BY <2>1, <2>2, <2>3
<1>2. Keeps(p)
  BY <1>1 DEF Keeps
<1>3. ASSUME NEW q \in Procs \ {p} PROVE Keeps(q)
  BY <1>1, KeepsSame, KeepsStore
<1> QED BY <1>2, <1>3

LEMMA KeepsReboot ==
    ASSUME Reboot
    PROVE  \A q \in Procs : Keeps(q)
BY DEF Reboot, Keeps

\* A step of goroutines that neither add up nor collect.
KeepsAll == UNCHANGED consensus /\ \A q \in Procs : Keeps(q)

LEMMA KeepsPanic ==
    ASSUME TypeInv, NEW p \in Procs, Panic(p)
    PROVE  KeepsAll
BY PanicFrame, KeepsReboot, KeepsMoves DEF KeepsAll, Panic

LEMMA KeepsGoroutines ==
    ASSUME TypeInv, NEW p \in Procs,
           \/ ProcessResponse(p) \/ SendRequest(p)
           \/ Process(p) \/ Sign(p) \/ Respond(p)
    PROVE  KeepsAll
<1>1. CASE Panic(p)
  BY <1>1, KeepsPanic
<1>2. CASE ~Panic(p)
  <2>1. UNCHANGED consensus
    BY <1>2 DEF ProcessResponse, Receive, Lookup, Seen, Store, Violation,
                SendRequest, ApiRequest, ApiCreate, Process, Sign, Respond, db
  <2>2. UNCHANGED track \/ \E j, o : StoreEntry(j, o)
    BY <1>2 DEF ProcessResponse, Receive, Lookup, Seen, Store, Violation,
                SendRequest, ApiRequest, ApiCreate, Process, Sign, Respond
  <2>3. \/ Done(p)
        \/ \E l \in Labels \ {"collect", "gather", "create"} :
              /\ pc' = [pc EXCEPT ![p] = l]
              /\ \A q \in Procs \ {p} : job'[q] = job[q] /\ ref'[q] = ref[q]
    <3>1. CASE ProcessResponse(p)
      BY <3>1 DEF ProcessResponse, Receive, Lookup, Seen, Store, Violation, Goto,
                  Labels, TypeInv, TypeOK
    <3>2. CASE SendRequest(p)
      BY <3>2 DEF SendRequest, ApiRequest, ApiCreate, Goto, Labels, TypeInv, TypeOK
    <3>3. CASE Process(p) \/ Sign(p) \/ Respond(p)
      BY <1>2, <3>3 DEF Process, Sign, Respond, Goto, Labels, TypeInv, TypeOK
    <3> QED BY <3>1, <3>2, <3>3
  <2> QED BY <2>1, <2>2, <2>3, KeepsMoves DEF KeepsAll
<1> QED BY <1>1, <1>2

LEMMA CoverConsensus ==
    ASSUME TypeInv, CoverInv, NEW p \in Procs, CheckConsensus(p)
    PROVE  CoverInv'
<1>0. ref[p] \in Ref
  BY DEF TypeInv, TypeOK
<1>1. CASE Load(p)
  <2>1. UNCHANGED <<consensus, track>>
    BY <1>1 DEF Load, db
  <2>2. \/ Return(p)
        \/ \E l \in Labels \ {"collect", "gather", "create"} :
              /\ pc' = [pc EXCEPT ![p] = l]
              /\ \A q \in Procs \ {p} : job'[q] = job[q] /\ ref'[q] = ref[q]
    BY <1>1 DEF Load, Labels, TypeInv, TypeOK
  <2> QED BY <2>1, <2>2, KeepsMoves, CoverQuiet
<1>2. CASE Total(p) /\ (Panic(p) \/ Return(p))
  <2>1. CASE Panic(p)
    BY <2>1, KeepsPanic, CoverQuiet DEF KeepsAll
  <2>2. CASE ~Panic(p)
    BY <1>2, <2>2, KeepsMoves, CoverQuiet DEF Total, db
  <2> QED BY <2>1, <2>2
<1>3. CASE Total(p) /\ ~Panic(p) /\ ~Return(p)
  <2>1. /\ ref' = [ref EXCEPT ![p] = [@ EXCEPT !.counted = {e.from : e \in Deref(p)}]]
        /\ pc' = [pc EXCEPT ![p] = "collect"]
        /\ UNCHANGED <<job, consensus, track>>
    BY <1>3 DEF Total, db
  <2>2. ASSUME NEW q \in Procs \ {p} PROVE Keeps(q)
    BY <2>1, KeepsSame DEF TypeInv, TypeOK
  <2>3. ref'[p] = [ref[p] EXCEPT !.counted = {e.from : e \in Deref(p)}]
    BY <2>1 DEF TypeInv, TypeOK
  <2>4. /\ ref'[p].counted = {e.from : e \in Deref(p)}
        /\ ref'[p].live = ref[p].live /\ ref'[p].rows = ref[p].rows
    BY <1>0, <2>3 DEF Ref
  <2>5. Deref(p)' = Deref(p) /\ pc'[p] = "collect"
    BY <2>1, <2>4 DEF Deref, Responses, TypeInv, TypeOK
  <2>6. Keys(p)' = Froms(Deref(p)) /\ ref'[p].counted = Froms(Deref(p))
    BY <2>4, <2>5 DEF Keys, Froms
  <2>7. Covered(p)'
    BY <2>5, <2>6 DEF Covered
  <2>8. SignersCoverCounted'
    BY <2>1 DEF CoverInv, SignersCoverCounted
  <2> QED BY <2>2, <2>7, <2>8, CoveredKept DEF CoverInv, CoverHeld
<1>4. CASE Collect(p)
  <2>1. CASE Return(p)
    BY <1>4, <2>1, KeepsMoves, CoverQuiet DEF Collect, db
  <2>2. CASE ~Return(p)
    <3> DEFINE o == FirstOf(Keys(p))
               left == Keys(p) \ {o}
               new == ref[p].sigs \cup {e \in Deref(p) : e.from = o}
    <3>1. /\ Take(p, o) /\ pc[p] \in {"collect", "gather"}
          /\ UNCHANGED <<job, consensus, track>>
          /\ \A q \in Procs \ {p} : pc'[q] = pc[q] /\ ref'[q] = ref[q]
      BY <1>4, <2>2, CollectMoves DEF Collect, db, TypeInv, TypeOK
    <3>2. ASSUME NEW q \in Procs \ {p} PROVE Keeps(q)
      BY <3>1, KeepsSame
    <3>3. Covered(p)
      BY DEF CoverInv, CoverHeld
    <3>4. Keys(p) # {} => o \in Froms(Deref(p))
      <4>1. Keys(p) \subseteq Froms(Deref(p)) /\ Deref(p) \subseteq Entry
        BY <3>1, <3>3, DerefType DEF Covered
      <4> QED BY <4>1, FirstIsKey
    <3>5. Keys(p) # {} => o \in Froms(new)
      BY <3>4 DEF Froms
    <3>6. Froms(ref[p].sigs) \subseteq Froms(new)
      BY DEF Froms
    <3>7. ref[p].counted \subseteq left \cup Froms(new)
      BY <3>1, <3>3, <3>5, <3>6 DEF Covered
    <3>8. ASSUME left = {} PROVE Covered(p)'
      <4>1. ref'[p] = [NoRef EXCEPT !.counted = ref[p].counted, !.sigs = new]
            /\ pc'[p] = "create"
        BY <3>1, <3>8 DEF Take, TypeInv, TypeOK
      <4>2. ref'[p].counted = ref[p].counted /\ ref'[p].sigs = new
        BY <4>1 DEF NoRef
      <4> QED BY <3>7, <3>8, <4>1, <4>2 DEF Covered
    <3>9. ASSUME left # {} PROVE Covered(p)'
      <4>1. ref'[p] = [ref[p] EXCEPT !.keys = left, !.sigs = new]
            /\ pc'[p] = "gather"
        BY <3>1, <3>9 DEF Take, TypeInv, TypeOK
      <4>2. /\ ref'[p].counted = ref[p].counted /\ ref'[p].sigs = new
            /\ ref'[p].live = ref[p].live /\ ref'[p].rows = ref[p].rows
            /\ ref'[p].keys = left
        BY <1>0, <4>1 DEF Ref
      <4>3. Deref(p)' = Deref(p) /\ Keys(p)' = left
        BY <3>1, <4>1, <4>2 DEF Deref, Responses, Keys
      <4>4. left \subseteq Froms(Deref(p))
        BY <3>1, <3>3 DEF Covered
      <4> HIDE DEF left, new
      <4> QED BY <3>7, <3>9, <4>1, <4>2, <4>3, <4>4 DEF Covered
    <3>10. SignersCoverCounted'
      BY <3>1 DEF CoverInv, SignersCoverCounted
    <3>11. Covered(p)'
      BY <3>8, <3>9
    <3> QED BY <3>2, <3>10, <3>11, CoveredKept DEF CoverInv, CoverHeld
  <2> QED BY <2>1, <2>2
<1>5. CASE Create(p)
  <2>1. CASE UNCHANGED consensus
    <3>1. \/ Return(p)
          \/ pc' = [pc EXCEPT ![p] = "complete"] /\ UNCHANGED <<job, ref>>
      BY <1>5 DEF Create, Goto
    <3> QED BY <1>5, <2>1, <3>1, KeepsMoves, CoverQuiet DEF Create, Labels
  <2>2. CASE ~UNCHANGED consensus
    <3> DEFINE row == [task |-> job[p].task, content |-> job[p].content,
                       epoch |-> job[p].epoch, sigs |-> ref[p].sigs,
                       counted |-> ref[p].counted]
    <3>1. /\ consensus' = consensus \cup {row}
          /\ pc[p] = "create" /\ pc' = [pc EXCEPT ![p] = "complete"]
          /\ UNCHANGED <<job, ref, track>>
      BY <1>5, <2>2 DEF Create, Goto
    <3>2. row.counted \subseteq {e.from : e \in row.sigs}
      <4>1. ref[p].counted \subseteq Froms(ref[p].sigs)
        BY <3>1 DEF CoverInv, CoverHeld, Covered
      <4>2. row.counted = ref[p].counted /\ row.sigs = ref[p].sigs
        OBVIOUS
      <4> QED BY <4>1, <4>2 DEF Froms
    <3> HIDE DEF row
    <3>3. SignersCoverCounted'
      BY <3>1, <3>2 DEF CoverInv, SignersCoverCounted
    <3>4. \A q \in Procs : Keeps(q)
      BY <3>1, KeepsMoves DEF Labels
    <3> QED BY <3>3, <3>4, CoveredKept DEF CoverInv, CoverHeld
  <2> QED BY <2>1, <2>2
<1>6. CASE Complete(p)
  BY <1>6, KeepsMoves, CoverQuiet DEF Complete
<1> QED BY <1>1, <1>2, <1>3, <1>4, <1>5, <1>6 DEF CheckConsensus

LEMMA KeepsTickers ==
    ASSUME TypeInv, CheckTimeouts \/ CheckConfirmations
    PROVE  KeepsAll
<1> USE ProcsFacts
<1>0. Labels \ {"collect", "gather", "create"} =
         {"idle", "next", "lookup", "seen", "store", "load", "total", "complete",
          "process", "sign", "respond", "apiCreate", "delete", "forget"}
  BY DEF Labels
<1>1. CASE TimeoutTick \/ ConfirmTick
  <2>1. /\ \E p \in Tickers : pc' = [pc EXCEPT ![p] = "next"]
        /\ UNCHANGED <<consensus, track, job, ref>>
    BY <1>1 DEF TimeoutTick, ConfirmTick, db
  <2>2. PICK p \in Tickers : pc' = [pc EXCEPT ![p] = "next"]
    BY <2>1
  <2>3. p \in Procs
    BY DEF Procs
  <2> QED BY <1>0, <2>1, <2>2, <2>3, KeepsMoves DEF KeepsAll
<1>2. ASSUME NEW r \in batch["timeout"], TimeoutVisit(r) PROVE KeepsAll
  <2>1. CASE Panic("timeout")
    BY <2>1, KeepsPanic
  <2>2. CASE ~Panic("timeout")
    <3>1. \E l \in {"idle", "next", "delete", "process"} :
              pc' = [pc EXCEPT !["timeout"] = l]
      BY <1>2, <2>2, Zenon DEF TimeoutVisit, Rest
    <3>2. \A q \in Procs \ {"timeout"} : job'[q] = job[q]
      BY <1>2, <2>2 DEF TimeoutVisit, TypeInv, TypeOK
    <3>3. UNCHANGED <<consensus, track, ref>>
      BY <1>2, <2>2 DEF TimeoutVisit, db
    <3> QED BY <1>0, <3>1, <3>2, <3>3, KeepsMoves DEF KeepsAll
  <2> QED BY <2>1, <2>2
<1>3. CASE TimeoutDelete
  <2>1. pc' = [pc EXCEPT !["timeout"] = "forget"]
        /\ UNCHANGED <<consensus, track, job, ref>>
    BY <1>3 DEF TimeoutDelete, Goto
  <2> QED BY <1>0, <2>1, KeepsMoves DEF KeepsAll
<1>4. CASE TimeoutForget
  <2> DEFINE gone == {job["timeout"].task}
  <2>1. /\ track' = {e \in track : e.task \notin gone} /\ Detach(gone)
        /\ pc'["timeout"] \notin {"collect", "gather", "create"} /\ UNCHANGED consensus
        /\ \A q \in Procs \ {"timeout"} : pc'[q] = pc[q] /\ job'[q] = job[q]
    BY <1>4 DEF TimeoutForget, Rest, TypeInv, TypeOK, db
  <2>2. ASSUME NEW q \in Procs \ {"timeout"} PROVE Keeps(q)
    BY <2>1, KeepsDetach
  <2>3. Keeps("timeout")
    BY <2>1 DEF Keeps
  <2> QED BY <2>1, <2>2, <2>3 DEF KeepsAll
<1>5. ASSUME NEW r \in batch["confirm"], ConfirmVisit(r) PROVE KeepsAll
  <2>1. /\ \E l \in {"idle", "next", "process"} : pc' = [pc EXCEPT !["confirm"] = l]
        /\ \A q \in Procs \ {"confirm"} : job'[q] = job[q]
        /\ UNCHANGED <<consensus, track, ref>>
    BY <1>5 DEF ConfirmVisit, Rest, TypeInv, TypeOK
  <2> QED BY <1>0, <2>1, KeepsMoves DEF KeepsAll
<1> QED BY <1>1, <1>2, <1>3, <1>4, <1>5 DEF CheckTimeouts, CheckConfirmations

LEMMA KeepsSurroundings ==
    ASSUME TypeInv, CleanupAll \/ Surroundings
    PROVE  KeepsAll
<1>1. CASE CleanupAll
  <2>1. track' = {e \in track : e.task \notin TaskIds}
    BY <1>1 DEF CleanupAll, TypeInv, TypeOK, Entry
  <2>2. ASSUME NEW q \in Procs PROVE Keeps(q)
    BY <1>1, <2>1, KeepsDetach DEF CleanupAll
  <2> QED BY <1>1, <2>2 DEF KeepsAll, CleanupAll, db
<1>2. CASE Crash
  BY <1>2, KeepsReboot DEF KeepsAll, Crash, Reboot, db
<1>3. CASE Surroundings /\ ~Crash
  <2>1. UNCHANGED <<consensus, track, pc, job, ref>>
    BY <1>3 DEF Surroundings, EpochState, OperatorsCommit, UpsertOperator,
                ChainEpoch, ChainConfirms, procs, db
  <2> QED BY <2>1, KeepsSame DEF KeepsAll
<1> QED BY <1>1, <1>2, <1>3

LEMMA CoverStep == TypeInv /\ CoverInv /\ [Next]_vars => CoverInv'
<1> SUFFICES ASSUME TypeInv, CoverInv, [Next]_vars PROVE CoverInv'
  OBVIOUS
<1>1. CASE UNCHANGED vars
  <2>1. UNCHANGED <<consensus, track, pc, job, ref>>
    BY <1>1 DEF vars
  <2> QED BY <2>1, KeepsSame, CoverQuiet
<1>2. CASE Next
  BY <1>2, KeepsGoroutines, KeepsTickers, KeepsSurroundings, CoverConsensus, CoverQuiet
     DEF Next, ProcessTask, KeepsAll
<1> QED BY <1>1, <1>2

\* A consensus response holds the signature of every operator whose weight was
\* counted for it, although the maps are read twice without the mutex while other
\* goroutines fill them and cleanup drops them.
THEOREM CoverCorrect == Spec => []SignersCoverCounted
<1>1. CoverInv => SignersCoverCounted
  BY DEF CoverInv
<1>2. Spec => []TypeInv
  BY TypeInit, TypeStep, PTL DEF Spec
<1> QED BY <1>1, <1>2, CoverInit, CoverStep, PTL DEF Spec

----------------------------------------------------------------------------
(* Sums over finite sets                                                   *)

\* The weights as sets of units: w[x] units for each x of S.
Units(w, S) == {u \in S \X Nat : u[2] \in 1 .. w[u[1]]}
Size(w, S)  == Cardinality(Units(w, S))

\* The element the folds take next.
Pick(s) == CHOOSE x \in s : TRUE

\* What the folds of MapThenSumSet over the weights w compute.
Adds(F, w, S) ==
    F = [s \in SUBSET S |->
           IF s = {} THEN 0 ELSE w[Pick(s)] + F[s \ {Pick(s)}]]

LEMMA UnitsFinite ==
    ASSUME NEW S, IsFiniteSet(S), NEW w, \A x \in S : w[x] \in Nat
    PROVE  IsFiniteSet(Units(w, S)) /\ Size(w, S) \in Nat
<1> DEFINE f == [x \in S |-> {x} \X (1 .. w[x])]
           T == {f[x] : x \in S}
<1>1. f \in Surjection(S, T)
  <2>1. f \in [S -> T] /\ \A A \in T : \E x \in S : f[x] = A
    OBVIOUS
  <2> HIDE DEF f, T
  <2> QED BY <2>1 DEF Surjection
<1>2. IsFiniteSet(T)
  BY <1>1, FS_Surjection
<1>3. ASSUME NEW x \in S PROVE IsFiniteSet(f[x])
  <2>1. IsFiniteSet({x})
    BY FS_Singleton
  <2>2. w[x] \in Int /\ 1 \in Int
    OBVIOUS
  <2>3. IsFiniteSet(1 .. w[x])
    BY <2>2, FS_Interval
  <2> QED BY <2>1, <2>3, FS_Product
<1>4. \A A \in T : IsFiniteSet(A)
  BY <1>3
<1>5. Units(w, S) = UNION T
  BY DEF Units
<1>6. IsFiniteSet(UNION T)
  BY <1>2, <1>4, FS_UNION
<1> QED BY <1>5, <1>6, FS_CardinalityType DEF Size

LEMMA UnitsEmpty == ASSUME NEW w PROVE Size(w, {}) = 0
<1>1. Units(w, {}) = {}
  BY DEF Units
<1> QED BY <1>1, FS_EmptySet DEF Size

LEMMA UnitsRemove ==
    ASSUME NEW S, IsFiniteSet(S), NEW w, \A x \in S : w[x] \in Nat, NEW s \in SUBSET S, NEW x \in s
    PROVE  Size(w, s) = w[x] + Size(w, s \ {x})
<1> DEFINE A == Units(w, s \ {x})
           B == {x} \X (1 .. w[x])
<1>0. IsFiniteSet(s) /\ IsFiniteSet(s \ {x})
  BY FS_Subset
<1>1. IsFiniteSet(A)
  BY <1>0, UnitsFinite
<1>2. IsFiniteSet(B) /\ Cardinality(B) = w[x]
  <2>1. w[x] \in Nat
    OBVIOUS
  <2>2. IsFiniteSet({x}) /\ Cardinality({x}) = 1
    BY FS_Singleton
  <2>3. IsFiniteSet(1 .. w[x]) /\ Cardinality(1 .. w[x]) = w[x]
    BY <2>1, FS_Interval
  <2>4. IsFiniteSet(B) /\ Cardinality(B) = 1 * w[x]
    BY <2>2, <2>3, FS_Product
  <2> QED BY <2>1, <2>4
<1>3. Units(w, s) = A \cup B
  BY DEF Units
<1>4. A \cap B = {}
  BY DEF Units
<1>5. Cardinality(A \cup B) = Cardinality(A) + Cardinality(B) - Cardinality(A \cap B)
  BY <1>1, <1>2, FS_Union
<1>6. Cardinality(A) \in Nat /\ Cardinality(A \cap B) = 0 /\ w[x] \in Nat
  BY <1>1, <1>4, FS_CardinalityType, FS_EmptySet
<1> HIDE DEF A, B
<1> QED BY <1>2, <1>3, <1>5, <1>6 DEF Size, A

\* Counting the units is one way to add up, and it is the only one.
LEMMA SizeAdds ==
    ASSUME NEW S, IsFiniteSet(S), NEW w, \A x \in S : w[x] \in Nat
    PROVE  Adds([s \in SUBSET S |-> Size(w, s)], w, S)
<1> DEFINE F == [s \in SUBSET S |-> Size(w, s)]
<1>1. ASSUME NEW s \in SUBSET S
      PROVE  F[s] = IF s = {} THEN 0 ELSE w[Pick(s)] + F[s \ {Pick(s)}]
  <2>1. CASE s = {}
    BY <2>1, UnitsEmpty
  <2>2. CASE s # {}
    <3>1. Pick(s) \in s
      BY <2>2 DEF Pick
    <3> QED BY <2>2, <3>1, UnitsRemove
  <2> QED BY <2>1, <2>2
<1> QED BY <1>1 DEF Adds

LEMMA AddsOnce ==
    ASSUME NEW S, IsFiniteSet(S), NEW w, \A x \in S : w[x] \in Nat, NEW F, Adds(F, w, S)
    PROVE  F[S] = Size(w, S)
<1> DEFINE G == [s \in SUBSET S |-> Size(w, s)]
           bad == {s \in SUBSET S : F[s] # G[s]}
<1>1. SUFFICES ASSUME bad # {} PROVE FALSE
  OBVIOUS
<1>2. IsWellFoundedOn(StrictSubsetOrdering(S), FiniteSubsetsOf(S))
  BY FS_StrictSubsetOrderingWellFounded
<1>3. bad \subseteq FiniteSubsetsOf(S)
  BY FS_FiniteSubsetsOfFinite
<1>4. PICK s \in bad : \A r \in bad : ~(<<r, s>> \in StrictSubsetOrdering(S))
  <2> HIDE DEF bad
  <2> QED BY <1>1, <1>2, <1>3, WFMin
<1>5. s \in SUBSET S /\ F[s] # G[s]
  OBVIOUS
<1>6. ASSUME NEW r \in SUBSET s, r # s PROVE F[r] = G[r]
  <2>1. <<r, s>> \in StrictSubsetOrdering(S)
    BY <1>5, <1>6 DEF StrictSubsetOrdering
  <2> QED BY <1>4, <1>5, <2>1
<1>7. F[s] = IF s = {} THEN 0 ELSE w[Pick(s)] + F[s \ {Pick(s)}]
  BY <1>5, Zenon DEF Adds
<1>8. G[s] = IF s = {} THEN 0 ELSE w[Pick(s)] + G[s \ {Pick(s)}]
  <2>1. Adds(G, w, S)
    BY SizeAdds
  <2> HIDE DEF G
  <2> QED BY <1>5, <2>1, Zenon DEF Adds
<1>9. s # {} => F[s \ {Pick(s)}] = G[s \ {Pick(s)}]
  <2>1. s # {} => Pick(s) \in s
    BY DEF Pick
  <2> QED BY <2>1, <1>6
<1> QED BY <1>5, <1>7, <1>8, <1>9

LEMMA SumIsSize ==
    ASSUME NEW S, IsFiniteSet(S), NEW w, \A x \in S : w[x] \in Nat
    PROVE  MapThenSumSet(LAMBDA x : w[x], S) = Size(w, S)
<1> DEFINE F == CHOOSE f : Adds(f, w, S)
<1>1. MapThenSumSet(LAMBDA x : w[x], S) = F[S]
  BY DEF MapThenSumSet, MapThenFoldSet, Adds, Pick
<1>2. Adds(F, w, S)
  BY SizeAdds
<1> QED BY <1>1, <1>2, AddsOnce

LEMMA TotalWeightIsSize ==
    ASSUME NEW S, IsFiniteSet(S), \A e \in S : e.weight \in Nat
    PROVE  TotalWeight(S) = Size([e \in S |-> e.weight], S)
<1> DEFINE w == [e \in S |-> e.weight]
           P(f) == f = [s \in SUBSET S |->
                     IF s = {} THEN 0 ELSE Pick(s).weight + f[s \ {Pick(s)}]]
           F == CHOOSE f : P(f)
<1>1. TotalWeight(S) = F[S]
  BY DEF TotalWeight, MapThenSumSet, MapThenFoldSet, Pick
<1>2. ASSUME NEW f PROVE P(f) <=> Adds(f, w, S)
  <2>1. ASSUME NEW s \in SUBSET S, s # {} PROVE w[Pick(s)] = Pick(s).weight
    BY <2>1 DEF Pick
  <2> QED BY <2>1 DEF Adds
<1>3. \A e \in S : w[e] \in Nat
  OBVIOUS
<1> HIDE DEF w
<1>4. \E f : P(f)
  <2>1. Adds([s \in SUBSET S |-> Size(w, s)], w, S)
    BY <1>3, SizeAdds
  <2> HIDE DEF P
  <2> QED BY <1>2, <2>1
<1>5. P(F)
  BY <1>4
<1>6. Adds(F, w, S)
  BY <1>2, <1>5
<1> HIDE DEF P, F
<1> QED BY <1>1, <1>3, <1>6, AddsOnce DEF w

\* More elements weigh no less.
LEMMA SizeMonotone ==
    ASSUME NEW T, IsFiniteSet(T), NEW S \in SUBSET T, NEW w, \A x \in T : w[x] \in Nat
    PROVE  Size(w, S) <= Size(w, T)
<1>1. IsFiniteSet(Units(w, T))
  BY UnitsFinite
<1>2. Units(w, S) \in SUBSET Units(w, T)
  BY DEF Units
<1> QED BY <1>1, <1>2, FS_Subset DEF Size

LEMMA FromFinite ==
    ASSUME NEW S, IsFiniteSet(S)
    PROVE  IsFiniteSet({e.from : e \in S})
<1> DEFINE f == [e \in S |-> e.from]
           T == {e.from : e \in S}
<1>1. f \in [S -> T] /\ \A o \in T : \E e \in S : f[e] = o
  OBVIOUS
<1> HIDE DEF f, T
<1>2. f \in Surjection(S, T)
  BY <1>1 DEF Surjection
<1>3. IsFiniteSet(T)
  BY <1>2, FS_Surjection
<1> QED BY <1>3 DEF T

\* Entries of different operators, each weighing no more than its operator does,
\* weigh no more than their operators together.
LEMMA SizeOfOperators ==
    ASSUME NEW S, IsFiniteSet(S), NEW w,
           \A e \in S : e.weight \in Nat /\ w[e.from] \in Nat /\ e.weight <= w[e.from],
           \A e, f \in S : e.from = f.from => e = f
    PROVE  TotalWeight(S) \in Nat /\ TotalWeight(S) <= Size(w, {e.from : e \in S})
<1> DEFINE v == [e \in S |-> e.weight]
           T == {e.from : e \in S}
           A == Units(v, S)
           B == Units(w, T)
           f == [u \in A |-> <<u[1].from, u[2]>>]
<1>1. TotalWeight(S) = Size(v, S) /\ Size(v, S) \in Nat
  BY TotalWeightIsSize, UnitsFinite
<1>2. IsFiniteSet(B)
  <2>1. IsFiniteSet(T)
    BY FromFinite
  <2>2. \A o \in T : w[o] \in Nat
    OBVIOUS
  <2> HIDE DEF T
  <2> QED BY <2>1, <2>2, UnitsFinite
<1>3. ASSUME NEW u \in A
      PROVE  /\ u[1] \in S /\ u[2] \in Nat /\ u = <<u[1], u[2]>>
             /\ <<u[1].from, u[2]>> \in B
  <2>1. u[1] \in S /\ u[2] \in 1 .. u[1].weight /\ u = <<u[1], u[2]>>
    BY DEF Units
  <2>2. u[2] \in 1 .. w[u[1].from]
    BY <2>1
  <2>3. u[1].from \in T
    BY <2>1
  <2> QED BY <2>1, <2>2, <2>3 DEF Units
<1>4. f \in [A -> B]
  BY <1>3
<1>5. ASSUME NEW x \in A, NEW y \in A, f[x] = f[y] PROVE x = y
  <2>1. x[1].from = y[1].from /\ x[2] = y[2]
    BY <1>5
  <2>2. x[1] = y[1]
    BY <1>3, <2>1
  <2> QED BY <1>3, <2>1, <2>2
<1> HIDE DEF A, B, f
<1>6. f \in Injection(A, B)
  BY <1>4, <1>5 DEF Injection, IsInjective
<1>7. Cardinality(A) <= Cardinality(B)
  BY <1>2, <1>6, FS_Injection
<1> QED BY <1>1, <1>7 DEF Size, A, B

----------------------------------------------------------------------------
(* Jobs: the epochs they are about and the weights they carry.             *)

\* Weights and threshold are the same in every epoch of the chain; before the
\* first update of an epoch the operators table holds no larger weight (the
\* event listener writes 0); responses name an epoch of the chain.
Steady ==
    /\ \A e, f \in Epochs \ {0} : Weight[e] = Weight[f] /\ Threshold[e] = Threshold[f]
    /\ \A o \in Operators : Weight[0][o] <= Weight[1][o]
    /\ \A m \in Messages : m.epoch # 0

LEMMA SteadyFacts ==
    ASSUME Steady
    PROVE  /\ 1 \in Epochs
           /\ Weight[1] \in [Operators -> Nat] /\ Threshold[1] \in Nat
           /\ \A e \in Epochs \ {0} :
                 Weight[e] = Weight[1] /\ Threshold[e] = Threshold[1]
           /\ \A e \in Epochs, o \in Operators :
                 Weight[e][o] \in Nat /\ Weight[e][o] <= Weight[1][o]
<1> USE ConstantsAssumption DEF ConstantsAssumption
<1>1. 1 \in Epochs
  BY DEF Epochs
<1>2. Weight[1] \in [Operators -> Nat] /\ Threshold[1] \in Nat
  BY <1>1
<1>3. \A e \in Epochs \ {0} : Weight[e] = Weight[1] /\ Threshold[e] = Threshold[1]
  BY <1>1 DEF Steady
<1>4. ASSUME NEW e \in Epochs, NEW o \in Operators
      PROVE  Weight[e][o] \in Nat /\ Weight[e][o] <= Weight[1][o]
  <2>1. Weight[e][o] \in Nat /\ Weight[1][o] \in Nat
    BY <1>1
  <2>2. Weight[e][o] <= Weight[1][o]
    BY <1>3, <2>1 DEF Steady
  <2> QED BY <2>1, <2>2
<1> QED BY <1>1, <1>2, <1>3, <1>4

\* Tasks, and the jobs made of them and of responses, are about an epoch of the
\* chain; what a goroutine is about to store weighs what the operator does.
RowEpochs ==
    /\ chainEpoch # 0
    /\ \A r \in tasks : r.epoch # 0
    /\ \A k \in Tickers : \A r \in batch[k] : r.epoch # 0
JobsSteady ==
    \A p \in Procs :
        /\ pc[p] \notin {"idle", "next"} => job[p].epoch # 0
        /\ pc[p] \in {"seen", "store"} => job[p].weight <= Weight[1][job[p].from]
        /\ pc[p] = "respond" => job[p].weight <= Weight[1][Self]

JobsInv == RowEpochs /\ JobsSteady

\* q goes on with the job it has, or rests.
Carries(q) ==
    pc'[q] \notin {"idle", "next"} =>
        /\ pc[q] \notin {"idle", "next"}
        /\ job'[q] = job[q]
        /\ pc'[q] \in {"seen", "store"} => pc[q] \in {"seen", "store"}
        /\ pc'[q] = "respond" => pc[q] = "respond"

\* The step is p's, which gets a job that is as it should be.
Starts(p) ==
    /\ \A q \in Procs \ {p} : pc'[q] = pc[q] /\ job'[q] = job[q]
    /\ job'[p].epoch # 0
    /\ pc'[p] \in {"seen", "store"} => job'[p].weight <= Weight[1][job'[p].from]
    /\ pc'[p] = "respond" => job'[p].weight <= Weight[1][Self]

LEMMA JobsInit == Init => JobsInv
BY DEF Init, JobsInv, RowEpochs, JobsSteady

LEMMA JobsQuiet ==
    ASSUME JobsSteady,
           \/ \A q \in Procs : Carries(q)
           \/ \E p \in Procs : Starts(p)
    PROVE  JobsSteady'
<1>1. CASE \A q \in Procs : Carries(q)
  BY <1>1 DEF JobsSteady, Carries
<1>2. CASE \E p \in Procs : Starts(p)
  <2>1. PICK p \in Procs : Starts(p)
    BY <1>2
  <2> QED BY <2>1 DEF JobsSteady, Starts
<1> QED BY <1>1, <1>2

LEMMA CarriesMoves ==
    ASSUME TypeInv, NEW p \in Procs,
           \/ Done(p) \/ Reboot \/ Panic(p)
           \/ Return(p) /\ pc[p] \notin {"idle", "next"}
           \/ /\ \E l \in Labels : pc' = [pc EXCEPT ![p] = l]
              /\ pc[p] \notin {"idle", "next"} \/ pc'[p] \in {"idle", "next"}
              /\ pc'[p] \notin {"seen", "respond"}
              /\ pc'[p] = "store" => pc[p] = "seen"
              /\ UNCHANGED job
    PROVE  \A q \in Procs : Carries(q)
<1> USE DEF TypeInv, TypeOK, Carries
<1>1. CASE Done(p)
  BY <1>1 DEF Done, Rest
<1>2. CASE Return(p) /\ pc[p] \notin {"idle", "next"}
  <2>1. CASE cont[p] = "process"
    <3>1. pc' = [pc EXCEPT ![p] = "process"] /\ UNCHANGED job
      BY <1>2, <2>1 DEF Return
    <3> QED BY <1>2, <3>1
  <2> QED BY <1>1, <1>2, <2>1 DEF Return
<1>3. CASE Reboot
  BY <1>3 DEF Reboot
<1>4. CASE Panic(p)
  BY <1>4, <1>1, <1>3 DEF Panic
<1> QED BY <1>1, <1>2, <1>3, <1>4

\* These steps keep their goroutine's job or end it.
LEMMA CarriesPlain ==
    ASSUME TypeInv, NEW p \in Procs,
           Seen(p) \/ Store(p) \/ CheckConsensus(p) \/ Process(p) \/ Respond(p) \/ ApiCreate(p)
    PROVE  \A q \in Procs : Carries(q)
<1> USE DEF TypeInv, TypeOK
<1>1. \/ Done(p) \/ Panic(p)
      \/ Return(p) /\ pc[p] \notin {"idle", "next"}
      \/ /\ \E l \in Labels : pc' = [pc EXCEPT ![p] = l]
         /\ pc[p] \notin {"idle", "next"} \/ pc'[p] \in {"idle", "next"}
         /\ pc'[p] \notin {"seen", "respond"}
         /\ pc'[p] = "store" => pc[p] = "seen"
         /\ UNCHANGED job
  <2>1. CASE Seen(p) \/ Store(p)
    BY <2>1 DEF Seen, Store, Violation, Goto, Labels
  <2>2. CASE CheckConsensus(p)
    BY <2>2, CollectMoves
       DEF CheckConsensus, Load, Total, Collect, Create, Complete, Goto, Labels
  <2>3. CASE Process(p) \/ Respond(p) \/ ApiCreate(p)
    BY <2>3 DEF Process, Respond, ApiCreate, Goto, Labels
  <2> QED BY <2>1, <2>2, <2>3
<1> QED BY <1>1, CarriesMoves

LEMMA JobsGoroutines ==
    ASSUME Steady, TypeInv, JobsInv, NEW p \in Procs,
           ProcessResponse(p) \/ ProcessTask(p) \/ SendRequest(p)
    PROVE  JobsSteady'
<1> USE DEF TypeInv, TypeOK
<1>0. /\ Self \in Operators
      /\ \A o \in Operators : OperatorWeight(o) <= Weight[1][o]
  BY ConstantsAssumption, SteadyFacts DEF ConstantsAssumption, OperatorWeight
<1>1. CASE Receive(p)
  <2>1. PICK m \in Messages :
          job' = [job EXCEPT ![p] =
                    [task |-> m.task, from |-> m.from, signer |-> m.signer,
                     content |-> m.content, epoch |-> m.epoch, weight |-> 0]]
    BY <1>1 DEF Receive
  <2>2. pc' = [pc EXCEPT ![p] = "lookup"] /\ m.epoch # 0
    BY <1>1 DEF Receive, Steady
  <2>3. Starts(p)
    BY <2>1, <2>2 DEF Starts
  <2> QED BY <2>3, JobsQuiet DEF JobsInv
<1>2. CASE Lookup(p)
  <2>1. CASE Done(p)
    BY <2>1, CarriesMoves, JobsQuiet DEF JobsInv
  <2>2. CASE ~Done(p)
    <3>1. /\ job' = [job EXCEPT ![p] = [@ EXCEPT !.weight = OperatorWeight(job[p].from)]]
          /\ pc' = [pc EXCEPT ![p] = "seen"] /\ pc[p] = "lookup"
      BY <1>2, <2>2 DEF Lookup, Violation
    <3>2. job[p] \in Job /\ job[p].epoch # 0
      BY <3>1 DEF JobHeld, JobsInv, JobsSteady
    <3>3. job'[p] = [job[p] EXCEPT !.weight = OperatorWeight(job[p].from)]
      BY <3>1
    <3>4. /\ job'[p].from = job[p].from /\ job'[p].from \in Operators
          /\ job'[p].epoch = job[p].epoch
          /\ job'[p].weight = OperatorWeight(job[p].from)
      BY <3>2, <3>3 DEF Job
    <3>5. job'[p].weight <= Weight[1][job'[p].from]
      BY <1>0, <3>4
    <3>6. Starts(p)
      BY <3>1, <3>2, <3>4, <3>5 DEF Starts
    <3> QED BY <3>6, JobsQuiet DEF JobsInv
  <2> QED BY <2>1, <2>2
<1>3. CASE Seen(p) \/ Store(p) \/ CheckConsensus(p) \/ Process(p) \/ Respond(p) \/ ApiCreate(p)
  BY <1>3, CarriesPlain, JobsQuiet DEF JobsInv
<1>4. CASE Sign(p)
  <2>1. CASE Done(p) \/ Panic(p)
    BY <2>1, CarriesMoves, JobsQuiet DEF JobsInv
  <2>2. CASE ~(Done(p) \/ Panic(p))
    <3>1. /\ job' = [job EXCEPT ![p] = [@ EXCEPT !.weight = OperatorWeight(Self)]]
          /\ pc' = [pc EXCEPT ![p] = "respond"] /\ pc[p] = "sign"
      BY <1>4, <2>2 DEF Sign
    <3>2. job[p] \in Job /\ job[p].epoch # 0
      BY <3>1 DEF JobHeld, JobsInv, JobsSteady
    <3>3. job'[p] = [job[p] EXCEPT !.weight = OperatorWeight(Self)]
      BY <3>1
    <3>4. /\ job'[p].epoch = job[p].epoch
          /\ job'[p].weight = OperatorWeight(Self)
      BY <3>2, <3>3 DEF Job
    <3>5. job'[p].weight <= Weight[1][Self]
      BY <1>0, <3>4
    <3>6. Starts(p)
      BY <3>1, <3>2, <3>4, <3>5 DEF Starts
    <3> QED BY <3>6, JobsQuiet DEF JobsInv
  <2> QED BY <2>1, <2>2
<1>5. CASE ApiRequest(p)
  <2>1. PICK r \in Requests :
          job' = [job EXCEPT ![p] =
                    [task |-> r.task, from |-> Self, signer |-> Self,
                     content |-> r.content, epoch |-> chainEpoch, weight |-> 0]]
    BY <1>5 DEF ApiRequest
  <2>2. pc' = [pc EXCEPT ![p] = "apiCreate"] /\ chainEpoch # 0
    BY <1>5 DEF ApiRequest, JobsInv, RowEpochs
  <2>3. Starts(p)
    BY <2>1, <2>2 DEF Starts
  <2> QED BY <2>3, JobsQuiet DEF JobsInv
<1> QED BY <1>1, <1>2, <1>3, <1>4, <1>5 DEF ProcessResponse, ProcessTask, SendRequest

LEMMA JobsOthers ==
    ASSUME TypeInv, JobsInv,
           CheckTimeouts \/ CheckConfirmations \/ CleanupAll \/ Surroundings
    PROVE  JobsSteady'
<1> USE ProcsFacts DEF TypeInv, TypeOK
<1>1. CASE TimeoutTick \/ ConfirmTick
  <2>1. \A q \in Procs : Carries(q)
    BY <1>1 DEF TimeoutTick, ConfirmTick, Carries
  <2> QED BY <2>1, JobsQuiet DEF JobsInv
<1>2. CASE TimeoutDelete \/ TimeoutForget
  <2>1. \A q \in Procs : Carries(q)
    BY <1>2 DEF TimeoutDelete, TimeoutForget, Goto, Rest, Carries
  <2> QED BY <2>1, JobsQuiet DEF JobsInv
<1>3. ASSUME NEW k \in Tickers, NEW r \in batch[k],
             job' = [job EXCEPT ![k] = JobOf(r)],
             \E l \in {"delete", "process"} : pc' = [pc EXCEPT ![k] = l]
      PROVE  JobsSteady'
  <2>0. k \in Procs
    BY DEF Procs
  <2>1. job'[k].epoch = r.epoch /\ r.epoch # 0
    BY <1>3, <2>0 DEF JobOf, JobsInv, RowEpochs
  <2>2. Starts(k)
    BY <1>3, <2>0, <2>1 DEF Starts
  <2> QED BY <2>0, <2>2, JobsQuiet DEF JobsInv
<1>4. ASSUME NEW r \in batch["timeout"], TimeoutVisit(r) PROVE JobsSteady'
  <2>1. CASE Panic("timeout")
    BY <2>1, CarriesMoves, JobsQuiet DEF JobsInv
  <2>2. CASE UNCHANGED job /\ ~Panic("timeout")
                /\ pc' = [pc EXCEPT !["timeout"] = Rest(batch'["timeout"])]
    <3>1. \A q \in Procs : Carries(q)
      BY <2>2 DEF Carries, Rest
    <3> QED BY <3>1, JobsQuiet DEF JobsInv
  <2>3. CASE /\ job' = [job EXCEPT !["timeout"] = JobOf(r)] /\ ~Panic("timeout")
             /\ pc' = [pc EXCEPT !["timeout"] =
                         IF NextRetry(r.task) >= MaxRetry THEN "delete" ELSE "process"]
    <3>1. \E l \in {"delete", "process"} : pc' = [pc EXCEPT !["timeout"] = l]
      BY <2>3, Zenon
    <3> QED BY <2>3, <3>1, <1>3
  <2> QED BY <1>4, <2>1, <2>2, <2>3, Zenon DEF TimeoutVisit
<1>5. ASSUME NEW r \in batch["confirm"], ConfirmVisit(r) PROVE JobsSteady'
  <2>1. CASE UNCHANGED job /\ pc' = [pc EXCEPT !["confirm"] = Rest(batch'["confirm"])]
    <3>1. \A q \in Procs : Carries(q)
      BY <2>1 DEF Carries, Rest
    <3> QED BY <3>1, JobsQuiet DEF JobsInv
  <2>2. CASE /\ job' = [job EXCEPT !["confirm"] = JobOf(r)]
             /\ pc' = [pc EXCEPT !["confirm"] = "process"]
    BY <2>2, <1>3
  <2> QED BY <1>5, <2>1, <2>2 DEF ConfirmVisit
<1>6. CASE Crash
  BY <1>6, CarriesMoves, JobsQuiet DEF Crash, JobsInv
<1>7. CASE CleanupAll \/ (Surroundings /\ ~Crash)
  <2>1. UNCHANGED <<pc, job>>
    BY <1>7 DEF CleanupAll, Surroundings, EpochState, OperatorsCommit,
                UpsertOperator, ChainEpoch, ChainConfirms, procs
  <2>2. \A q \in Procs : Carries(q)
    BY <2>1 DEF Carries
  <2> QED BY <2>2, JobsQuiet DEF JobsInv
<1> QED BY <1>1, <1>2, <1>4, <1>5, <1>6, <1>7 DEF CheckTimeouts, CheckConfirmations

\* About the same task, content and epoch.
Same(x, y) == x.task = y.task /\ x.content = y.content /\ x.epoch = y.epoch

\* The rows a step leaves are about what rows were that were there.
OldRows == \A x \in tasks' : \E r \in tasks : Same(x, r)
OldBatches == \A k \in Tickers : \A x \in batch'[k] : x \in batch[k] \cup tasks

LEMMA UpdateSame ==
    ASSUME TypeInv, \/ \E t, st : tasks' = SetStatus(t, st)
                    \/ \E t : tasks' = IncrementRetryCount(t)
    PROVE  OldRows
<1> SUFFICES ASSUME NEW x, x \in tasks' PROVE \E r \in tasks : Same(x, r)
  BY DEF OldRows
<1>1. CASE \E t, st : tasks' = SetStatus(t, st)
  <2>1. PICK t, st : tasks' = SetStatus(t, st)
    BY <1>1
  <2>2. PICK r \in tasks : x = IF r.task = t THEN [r EXCEPT !.status = st] ELSE r
    BY <2>1 DEF SetStatus
  <2>3. Same(x, r)
    BY <2>2 DEF TypeInv, TypeOK, TaskRow, Same
  <2> QED BY <2>3
<1>2. CASE \E t : tasks' = IncrementRetryCount(t)
  <2>1. PICK t : tasks' = IncrementRetryCount(t)
    BY <1>2
  <2>2. PICK r \in tasks : x = IF r.task = t THEN [r EXCEPT !.retry = NextRetry(t)] ELSE r
    BY <2>1 DEF IncrementRetryCount
  <2>3. Same(x, r)
    BY <2>2 DEF TypeInv, TypeOK, TaskRow, Same
  <2> QED BY <2>3
<1> QED BY <1>1, <1>2

\* Rows are created by SendRequest, from its job, and are else only updated or
\* deleted.
LEMMA TableMoves ==
    ASSUME TypeInv, Next
    PROVE  \/ OldRows
           \/ \E p \in Procs : /\ pc[p] = "apiCreate"
                               /\ \A x \in tasks' : x \in tasks \/ Same(x, job[p])
<1>1. ASSUME NEW p \in Procs, ApiCreate(p), ~UNCHANGED tasks
      PROVE  pc[p] = "apiCreate" /\ \A x \in tasks' : x \in tasks \/ Same(x, job[p])
  <2> DEFINE x == [task |-> job[p].task, content |-> job[p].content,
                   epoch |-> job[p].epoch, retry |-> 0,
                   status |-> IF job[p].content \notin confirmed
                              THEN "confirming" ELSE "pending"]
  <2>1. tasks' = tasks \cup {x} /\ pc[p] = "apiCreate"
    BY <1>1 DEF ApiCreate
  <2>2. Same(x, job[p])
    BY DEF Same
  <2> HIDE DEF x
  <2> QED BY <2>1, <2>2
<1>2. CASE \A p \in Procs : ApiCreate(p) => UNCHANGED tasks
  <2>1. \/ tasks' \subseteq tasks
        \/ \E t, st : tasks' = SetStatus(t, st)
        \/ \E t : tasks' = IncrementRetryCount(t)
    <3>1. ASSUME NEW p \in Procs,
                 ProcessResponse(p) \/ Process(p) \/ Sign(p) \/ Respond(p) \/ SendRequest(p)
          PROVE  UNCHANGED tasks
      BY <1>2, <3>1, PanicFrame DEF ProcessResponse, Receive, Lookup, Seen, Store, Violation,
         Process, Sign, Respond, SendRequest, ApiRequest, db
    <3>2. ASSUME NEW p \in Procs, CheckConsensus(p)
          PROVE  UNCHANGED tasks \/ \E t, st : tasks' = SetStatus(t, st)
      BY <3>2, PanicFrame DEF CheckConsensus, Load, Total, Collect, Create, Complete, db
    <3>3. CASE CheckTimeouts
      BY <3>3, PanicFrame, ProcsFacts DEF CheckTimeouts, TimeoutTick, TimeoutVisit,
         TimeoutDelete, TimeoutForget, db
    <3>4. CASE CheckConfirmations
      BY <3>4 DEF CheckConfirmations, ConfirmTick, ConfirmVisit, db
    <3>5. CASE CleanupAll \/ Surroundings
      BY <3>5 DEF CleanupAll, Surroundings, EpochState, OperatorsCommit,
         UpsertOperator, ChainEpoch, ChainConfirms, Crash, Reboot, db
    <3> QED BY <3>1, <3>2, <3>3, <3>4, <3>5 DEF Next, ProcessTask
  <2>2. OldRows
    BY <2>1, UpdateSame DEF OldRows, Same
  <2> QED BY <2>2
<1> QED BY <1>1, <1>2

\* A ticker visits rows that were in the table when it listed them.
LEMMA BatchMoves == ASSUME TypeInv, Next PROVE OldBatches
<1> USE ProcsFacts DEF TypeInv, TypeOK
<1>1. ASSUME NEW p \in Procs,
             ProcessResponse(p) \/ ProcessTask(p) \/ SendRequest(p)
      PROVE  OldBatches
  <2>1. UNCHANGED batch \/ batch' = [k \in Tickers |-> {}]
    BY <1>1 DEF ProcessResponse, Receive, Lookup, Seen, Store, Violation, ProcessTask,
       CheckConsensus, Load, Total, Collect, Take, Create, Complete, Process, Sign, Respond,
       SendRequest, ApiRequest, ApiCreate, Panic, Reboot, Done, Return, Goto
  <2> QED BY <2>1 DEF OldBatches
<1>2. CASE TimeoutTick \/ ConfirmTick
  BY <1>2 DEF TimeoutTick, ConfirmTick, OldBatches
<1>3. ASSUME NEW r \in batch["timeout"], TimeoutVisit(r) PROVE OldBatches
  <2>1. \/ batch' = [batch EXCEPT !["timeout"] = @ \ {r}]
        \/ batch' = [k \in Tickers |-> {}] \/ UNCHANGED batch
    BY <1>3 DEF TimeoutVisit, Panic, Reboot, Done
  <2> QED BY <2>1 DEF OldBatches
<1>4. CASE TimeoutDelete \/ TimeoutForget
  BY <1>4 DEF TimeoutDelete, TimeoutForget, Goto, OldBatches
<1>5. ASSUME NEW r \in batch["confirm"], ConfirmVisit(r) PROVE OldBatches
  BY <1>5 DEF ConfirmVisit, OldBatches
<1>6. CASE CleanupAll \/ Surroundings
  <2>1. UNCHANGED batch \/ batch' = [k \in Tickers |-> {}]
    BY <1>6 DEF CleanupAll, Surroundings, EpochState, OperatorsCommit,
       UpsertOperator, ChainEpoch, ChainConfirms, Crash, Reboot, procs
  <2> QED BY <2>1 DEF OldBatches
<1> QED BY <1>1, <1>2, <1>3, <1>4, <1>5, <1>6 DEF Next, CheckTimeouts, CheckConfirmations

\* The chain is never before its first epoch.
LEMMA ChainMoves == ASSUME TypeInv, Next PROVE chainEpoch' = chainEpoch \/ chainEpoch' # 0
<1>1. CASE ChainEpoch
  BY <1>1 DEF ChainEpoch, Epochs, TypeInv, TypeOK
<1>2. CASE ~ChainEpoch
  BY <1>2 DEF Next, ProcessResponse, Receive, Lookup, Seen, Store, Violation, ProcessTask,
     CheckConsensus, Load, Total, Collect, Create, Complete, Process, Sign, Respond,
     SendRequest, ApiRequest, ApiCreate, Panic, Reboot, CheckTimeouts, TimeoutTick,
     TimeoutVisit, TimeoutDelete, TimeoutForget, CheckConfirmations, ConfirmTick,
     ConfirmVisit, CleanupAll, Surroundings, EpochState, OperatorsCommit,
     UpsertOperator, ChainConfirms, Crash, world
<1> QED BY <1>1, <1>2

LEMMA EpochsStep ==
    ASSUME TypeInv, JobsInv, Next
    PROVE  RowEpochs'
<1>1. chainEpoch' # 0
  BY ChainMoves DEF JobsInv, RowEpochs
<1>2. \A r \in tasks' : r.epoch # 0
  <2>1. CASE OldRows
    BY <2>1 DEF OldRows, Same, JobsInv, RowEpochs
  <2>2. CASE ~OldRows
    <3>1. PICK p \in Procs : /\ pc[p] = "apiCreate"
                             /\ \A x \in tasks' : x \in tasks \/ Same(x, job[p])
      BY <2>2, TableMoves
    <3>2. job[p].epoch # 0
      BY <3>1 DEF JobsInv, JobsSteady
    <3> QED BY <3>1, <3>2 DEF Same, JobsInv, RowEpochs
  <2> QED BY <2>1, <2>2
<1>3. \A k \in Tickers : \A r \in batch'[k] : r.epoch # 0
  BY BatchMoves DEF OldBatches, JobsInv, RowEpochs
<1> QED BY <1>1, <1>2, <1>3 DEF RowEpochs

LEMMA JobsStep ==
    ASSUME Steady
    PROVE  TypeInv /\ JobsInv /\ [Next]_vars => JobsInv'
<1> SUFFICES ASSUME TypeInv, JobsInv, [Next]_vars PROVE JobsInv'
  OBVIOUS
<1>1. CASE UNCHANGED vars
  BY <1>1 DEF vars, JobsInv, RowEpochs, JobsSteady
<1>2. CASE Next
  BY <1>2, EpochsStep, JobsGoroutines, JobsOthers DEF Next, JobsInv
<1> QED BY <1>1, <1>2

----------------------------------------------------------------------------
(* The maps of responses                                                   *)

\* A map of one task: one entry per operator, none heavier than its operator.
Tally(S) ==
    /\ IsFiniteSet(S)
    /\ \A e \in S : e.weight <= Weight[1][e.from]
    /\ \A e, f \in S : e.from = f.from => e = f

TrackTally ==
    /\ IsFiniteSet(track)
    /\ \A e \in track : e.weight <= Weight[1][e.from]
    /\ \A e, f \in track : e.task = f.task /\ e.from = f.from => e = f

TallyInv ==
    TrackTally /\ \A p \in Procs : Tally(ref[p].rows) /\ IsFiniteSet(ref[p].sigs)

LEMMA TallyEmpty == Tally({})
BY FS_EmptySet DEF Tally

LEMMA TallyInit == Init => TallyInv
<1> SUFFICES ASSUME Init PROVE TallyInv
  OBVIOUS
<1>1. TrackTally
  BY FS_EmptySet DEF Init, TrackTally
<1>2. \A p \in Procs : ref[p].rows = {} /\ ref[p].sigs = {}
  BY DEF Init, NoRef
<1> QED BY <1>1, <1>2, TallyEmpty, FS_EmptySet DEF TallyInv

LEMMA TallyHeld ==
    ASSUME TallyInv, NEW p \in Procs
    PROVE  Tally(Deref(p))
<1>1. ASSUME NEW t PROVE Tally(Responses(t))
  <2>1. IsFiniteSet(Responses(t))
    <3>1. Responses(t) \in SUBSET track /\ IsFiniteSet(track)
      BY DEF Responses, TallyInv, TrackTally
    <3> QED BY <3>1, FS_Subset
  <2> QED BY <2>1 DEF Responses, Tally, TallyInv, TrackTally
<1> QED BY <1>1 DEF Deref, TallyInv

\* The maps q holds are the ones it held, or none, or a copy of what they are; the
\* signatures it collects are taken from them.
Holds(q) ==
    /\ ref'[q].rows \in {ref[q].rows, {}, Deref(q)}
    /\ ref'[q].sigs \subseteq ref[q].sigs \cup Deref(q)

LEMMA HoldsMoves ==
    ASSUME TypeInv, NEW p \in Procs,
           \/ Done(p) \/ Return(p) \/ Reboot \/ Panic(p) \/ UNCHANGED ref
           \/ /\ \A q \in Procs \ {p} : ref'[q] = ref[q]
              /\ ref'[p].rows \in {ref[p].rows, {}, Deref(p)}
              /\ ref'[p].sigs \subseteq ref[p].sigs \cup Deref(p)
    PROVE  \A q \in Procs : Holds(q)
<1> USE DEF TypeInv, TypeOK, Holds
<1>1. CASE Done(p)
  BY <1>1 DEF Done, NoRef
<1>2. CASE Return(p)
  BY <1>1, <1>2 DEF Return, NoRef
<1>3. CASE Reboot
  BY <1>3 DEF Reboot, NoRef
<1>4. CASE Panic(p)
  BY <1>4, <1>1, <1>3 DEF Panic
<1> QED BY <1>1, <1>2, <1>3, <1>4

LEMMA HoldsDetach ==
    ASSUME TypeInv, NEW gone, Detach(gone)
    PROVE  \A q \in Procs : Holds(q)
<1> SUFFICES ASSUME NEW q \in Procs PROVE Holds(q)
  OBVIOUS
<1>1. ref[q] \in Ref
  BY DEF TypeInv, TypeOK
<1>2. CASE ref[q].live /\ job[q].task \in gone
  <2>1. ref'[q] = [ref[q] EXCEPT !.live = FALSE, !.rows = Deref(q)]
    BY <1>2 DEF Detach
  <2>2. ref'[q].rows = Deref(q) /\ ref'[q].sigs = ref[q].sigs
    BY <1>1, <2>1 DEF Ref
  <2> QED BY <2>2 DEF Holds
<1>3. CASE ~(ref[q].live /\ job[q].task \in gone)
  BY <1>3 DEF Detach, Holds
<1> QED BY <1>2, <1>3

LEMMA TakeHolds ==
    ASSUME TypeInv, NEW p \in Procs, NEW o, Take(p, o)
    PROVE  /\ ref'[p].counted = ref[p].counted
           /\ ref'[p].rows \in {ref[p].rows, {}}
           /\ ref'[p].sigs = ref[p].sigs \cup {e \in Deref(p) : e.from = o}
<1> DEFINE left == Keys(p) \ {o}
           new == ref[p].sigs \cup {e \in Deref(p) : e.from = o}
<1>0. ref[p] \in Ref
  BY DEF TypeInv, TypeOK
<1>1. ref'[p] = IF left = {} THEN [NoRef EXCEPT !.counted = ref[p].counted, !.sigs = new]
                ELSE [ref[p] EXCEPT !.keys = left, !.sigs = new]
  BY DEF Take, TypeInv, TypeOK
<1> HIDE DEF left, new
<1>2. CASE left = {}
  <2>1. ref'[p] = [NoRef EXCEPT !.counted = ref[p].counted, !.sigs = new]
    BY <1>1, <1>2
  <2> QED BY <2>1 DEF NoRef, new
<1>3. CASE left # {}
  <2>1. ref'[p] = [ref[p] EXCEPT !.keys = left, !.sigs = new]
    BY <1>1, <1>3
  <2>2. ref'[p].counted = ref[p].counted /\ ref'[p].rows = ref[p].rows /\ ref'[p].sigs = new
    BY <1>0, <2>1 DEF Ref
  <2> QED BY <2>2 DEF new
<1> QED BY <1>2, <1>3

LEMMA HoldsStep ==
    ASSUME TypeInv, Next
    PROVE  \A q \in Procs : Holds(q)
<1> USE ProcsFacts
<1>1. ASSUME NEW p \in Procs,
             ProcessResponse(p) \/ Process(p) \/ Sign(p) \/ Respond(p) \/ SendRequest(p)
      PROVE  \A q \in Procs : Holds(q)
  <2>1. Done(p) \/ Panic(p) \/ UNCHANGED ref
    BY <1>1 DEF ProcessResponse, Receive, Lookup, Seen, Store, Violation, Process, Sign,
       Respond, SendRequest, ApiRequest, ApiCreate, Goto
  <2> QED BY <2>1, HoldsMoves
<1>2. ASSUME NEW p \in Procs, CheckConsensus(p)
      PROVE  \A q \in Procs : Holds(q)
  <2>0. ref[p] \in Ref
    BY DEF TypeInv, TypeOK
  <2>1. CASE Return(p) \/ Panic(p) \/ UNCHANGED ref
    BY <2>1, HoldsMoves
  <2>2. CASE ~(Return(p) \/ Panic(p) \/ UNCHANGED ref)
    <3> DEFINE o == FirstOf(Keys(p))
    <3>1. \/ ref' = [ref EXCEPT ![p] = [NoRef EXCEPT !.live = TRUE]]
          \/ ref' = [ref EXCEPT ![p] = [@ EXCEPT !.counted = {e.from : e \in Deref(p)}]]
          \/ Take(p, o)
      BY <1>2, <2>2 DEF CheckConsensus, Load, Total, Collect, Create, Complete, Goto
    <3>2. \A q \in Procs \ {p} : ref'[q] = ref[q]
      BY <3>1 DEF Take, TypeInv, TypeOK
    <3>4. /\ ref'[p].rows \in {ref[p].rows, {}, Deref(p)}
          /\ ref'[p].sigs \subseteq ref[p].sigs \cup Deref(p)
      <4>1. CASE ref' = [ref EXCEPT ![p] = [NoRef EXCEPT !.live = TRUE]]
        <5>1. ref'[p].rows = {} /\ ref'[p].sigs = {}
          BY <4>1 DEF NoRef, TypeInv, TypeOK
        <5> QED BY <5>1
      <4>2. CASE ref' = [ref EXCEPT ![p] = [@ EXCEPT !.counted = {e.from : e \in Deref(p)}]]
        <5>1. ref'[p] = [ref[p] EXCEPT !.counted = {e.from : e \in Deref(p)}]
          BY <4>2 DEF TypeInv, TypeOK
        <5>2. ref'[p].rows = ref[p].rows /\ ref'[p].sigs = ref[p].sigs
          BY <2>0, <5>1 DEF Ref
        <5> QED BY <5>2
      <4>3. CASE Take(p, o)
        BY <2>0, <4>3, TakeHolds
      <4> QED BY <3>1, <4>1, <4>2, <4>3
    <3> QED BY <3>2, <3>4, HoldsMoves
  <2> QED BY <2>1, <2>2
<1>3. CASE CheckTimeouts
  <2>1. CASE TimeoutForget
    BY <2>1, HoldsDetach DEF TimeoutForget
  <2>2. CASE ~TimeoutForget
    <3>1. Panic("timeout") \/ UNCHANGED ref
      BY <1>3, <2>2 DEF CheckTimeouts, TimeoutTick, TimeoutVisit, TimeoutDelete, Goto
    <3> QED BY <3>1, HoldsMoves
  <2> QED BY <2>1, <2>2
<1>4. CASE CheckConfirmations
  <2>1. UNCHANGED ref
    BY <1>4 DEF CheckConfirmations, ConfirmTick, ConfirmVisit
  <2> QED BY <2>1, HoldsMoves
<1>5. CASE CleanupAll
  BY <1>5, HoldsDetach DEF CleanupAll
<1>6. CASE Surroundings
  <2>1. Reboot \/ UNCHANGED ref
    BY <1>6 DEF Surroundings, EpochState, OperatorsCommit, UpsertOperator,
       ChainEpoch, ChainConfirms, Crash, procs
  <2> QED BY <2>1, HoldsMoves
<1> QED BY <1>1, <1>2, <1>3, <1>4, <1>5, <1>6 DEF Next, ProcessTask

\* Entries come from a job that stores a response, and are else only dropped.
LEMMA TrackMoves ==
    ASSUME Next
    PROVE  \/ track' \subseteq track
           \/ \E p \in Procs :
                 \/ pc[p] = "store" /\ StoreEntry(job[p], job[p].from)
                 \/ pc[p] = "respond" /\ StoreEntry(job[p], Self)
<1>1. ASSUME NEW p \in Procs,
             ProcessResponse(p) \/ ProcessTask(p) \/ SendRequest(p)
      PROVE  \/ track' \subseteq track
             \/ pc[p] = "store" /\ StoreEntry(job[p], job[p].from)
             \/ pc[p] = "respond" /\ StoreEntry(job[p], Self)
  BY <1>1 DEF ProcessResponse, Receive, Lookup, Seen, Store, Violation, ProcessTask,
     CheckConsensus, Load, Total, Collect, Create, Complete, Process, Sign, Respond,
     SendRequest, ApiRequest, ApiCreate, Panic, Reboot
<1>2. CASE CheckTimeouts
  BY <1>2 DEF CheckTimeouts, TimeoutTick, TimeoutVisit, TimeoutDelete, TimeoutForget,
     Panic, Reboot
<1>3. CASE CheckConfirmations \/ CleanupAll \/ Surroundings
  BY <1>3 DEF CheckConfirmations, ConfirmTick, ConfirmVisit, CleanupAll, Surroundings,
     EpochState, OperatorsCommit, UpsertOperator, ChainEpoch, ChainConfirms, Crash,
     Reboot
<1> QED BY <1>1, <1>2, <1>3 DEF Next

LEMMA TallyStep ==
    TypeInv /\ JobsInv /\ TallyInv /\ [Next]_vars => TallyInv'
<1> SUFFICES ASSUME TypeInv, JobsInv, TallyInv, [Next]_vars PROVE TallyInv'
  OBVIOUS
<1>1. CASE UNCHANGED vars
  BY <1>1 DEF vars, TallyInv, TrackTally, Tally
<1>2. CASE Next
  <2>1. ASSUME NEW q \in Procs PROVE Tally(ref'[q].rows)
    BY <1>2, HoldsStep, TallyHeld, TallyEmpty DEF Holds, TallyInv
  <2>3. ASSUME NEW q \in Procs PROVE IsFiniteSet(ref'[q].sigs)
    <3>1. IsFiniteSet(ref[q].sigs) /\ IsFiniteSet(Deref(q))
      BY TallyHeld DEF TallyInv, Tally
    <3>2. IsFiniteSet(ref[q].sigs \cup Deref(q))
      BY <3>1, FS_Union
    <3>3. ref'[q].sigs \in SUBSET (ref[q].sigs \cup Deref(q))
      BY <1>2, HoldsStep DEF Holds
    <3> QED BY <3>2, <3>3, FS_Subset
  <2>2. TrackTally'
    <3>1. CASE track' \subseteq track
      <4>1. IsFiniteSet(track')
        BY <3>1, FS_Subset DEF TallyInv, TrackTally
      <4> QED BY <3>1, <4>1 DEF TallyInv, TrackTally
    <3>2. ASSUME NEW p \in Procs, NEW o,
                 \/ pc[p] = "store" /\ o = job[p].from
                 \/ pc[p] = "respond" /\ o = Self,
                 StoreEntry(job[p], o)
          PROVE  TrackTally'
      <4> DEFINE new == [task |-> job[p].task, from |-> o, content |-> job[p].content,
                         epoch |-> job[p].epoch, weight |-> job[p].weight]
                 old == {e \in track : ~(e.task = job[p].task /\ e.from = o)}
      <4>1. track' = old \cup {new}
        BY <3>2 DEF StoreEntry
      <4>2. new.task = job[p].task /\ new.from = o /\ new.weight = job[p].weight
        OBVIOUS
      <4>3. job[p].weight <= Weight[1][o]
        BY <3>2 DEF JobsInv, JobsSteady
      <4> HIDE DEF new
      <4>4. IsFiniteSet(track')
        <5>1. IsFiniteSet(old)
          BY FS_Subset DEF TallyInv, TrackTally
        <5> HIDE DEF old
        <5> QED BY <4>1, <5>1, FS_AddElement
      <4>5. ASSUME NEW e \in track' PROVE e.weight <= Weight[1][e.from]
        BY <4>1, <4>2, <4>3 DEF TallyInv, TrackTally
      <4>6. ASSUME NEW e \in track', NEW f \in track', e.task = f.task, e.from = f.from
            PROVE  e = f
        BY <4>1, <4>2, <4>6 DEF TallyInv, TrackTally
      <4> QED BY <4>4, <4>5, <4>6 DEF TrackTally
    <3> QED BY <1>2, <3>1, <3>2, TrackMoves
  <2> QED BY <2>1, <2>2, <2>3 DEF TallyInv, Tally
<1> QED BY <1>1, <1>2

----------------------------------------------------------------------------
(* The quorum                                                              *)

Reached(S) == IsFiniteSet(S) /\ Size(Weight[1], S) >= Threshold[1]

\* What was counted had the threshold, at the insert and in the stored rows.
QuorumInv ==
    /\ \A p \in Procs : pc[p] \in {"collect", "gather", "create"} => Reached(ref[p].counted)
    /\ \A r \in consensus :
          r.epoch # 0 /\ IsFiniteSet(r.sigs) /\ Reached(r.counted)

LEMMA QuorumInit == Init => QuorumInv
BY DEF Init, QuorumInv

LEMMA QuorumQuiet ==
    ASSUME QuorumInv, KeepsAll
    PROVE  QuorumInv'
<1>1. ASSUME NEW q \in Procs, pc'[q] \in {"collect", "gather", "create"}
      PROVE  Reached(ref'[q].counted)
  <2>1. pc[q] \in {"collect", "gather", "create"} /\ ref'[q].counted = ref[q].counted
    BY <1>1 DEF KeepsAll, Keeps
  <2> QED BY <2>1 DEF QuorumInv
<1> QED BY <1>1 DEF QuorumInv, KeepsAll, Reached

\* Entries that reach the threshold make their operators reach it.
LEMMA CountedReached ==
    ASSUME Steady, TypeInv, TallyInv, NEW p \in Procs, epoch # 0,
           ~(TotalWeight(Deref(p)) < Threshold[epoch])
    PROVE  Reached({e.from : e \in Deref(p)})
<1>1. Tally(Deref(p))
  BY TallyHeld
<1>2. Deref(p) \subseteq Entry
  BY DEF TypeInv, TypeOK, Deref, Responses, Ref
<1>3. \A e \in Deref(p) : /\ e.weight \in Nat /\ Weight[1][e.from] \in Nat
                         /\ e.weight <= Weight[1][e.from]
  BY <1>1, <1>2, SteadyFacts DEF Tally, Entry
<1> DEFINE O == {e.from : e \in Deref(p)}
<1>4. IsFiniteSet(O)
  BY <1>1, FromFinite DEF Tally
<1>5. /\ TotalWeight(Deref(p)) \in Nat
      /\ TotalWeight(Deref(p)) <= Size(Weight[1], O)
  BY <1>1, <1>3, SizeOfOperators DEF Tally
<1>6. Size(Weight[1], O) \in Nat
  <2>1. \A o \in O : Weight[1][o] \in Nat
    BY <1>3
  <2> HIDE DEF O
  <2> QED BY <1>4, <2>1, UnitsFinite
<1>7. Threshold[epoch] = Threshold[1] /\ Threshold[1] \in Nat
  BY SteadyFacts DEF TypeInv, TypeOK
<1> HIDE DEF O
<1>8. Reached(O)
  BY <1>4, <1>5, <1>6, <1>7 DEF Reached
<1> QED BY <1>8 DEF O

LEMMA QuorumConsensus ==
    ASSUME Steady, TypeInv, JobsInv, TallyInv, QuorumInv, NEW p \in Procs,
           CheckConsensus(p)
    PROVE  QuorumInv'
<1>0. ref[p] \in Ref
  BY DEF TypeInv, TypeOK
<1>a. ASSUME UNCHANGED <<consensus, track>>, Return(p) \/ pc' = [pc EXCEPT ![p] = "total"],
             \A q \in Procs \ {p} : job'[q] = job[q] /\ ref'[q] = ref[q]
      PROVE  QuorumInv'
  <2>1. "total" \in Labels \ {"collect", "gather", "create"}
    BY DEF Labels
  <2>2. KeepsAll
    BY <1>a, <2>1, KeepsMoves DEF KeepsAll
  <2> QED BY <2>2, QuorumQuiet
<1>b. ASSUME Return(p) PROVE \A q \in Procs \ {p} : job'[q] = job[q] /\ ref'[q] = ref[q]
  BY <1>b DEF Return, Done, TypeInv, TypeOK
<1>1. CASE Load(p)
  BY <1>1, <1>a, <1>b DEF Load, db, TypeInv, TypeOK
<1>2. CASE Panic(p)
  BY <1>2, KeepsPanic, QuorumQuiet
<1>3. CASE Total(p) /\ ~Panic(p)
  <2>1. CASE Return(p)
    BY <1>3, <2>1, <1>a, <1>b DEF Total, db
  <2>2. CASE ~Return(p)
    <3>1. /\ epoch # 0 /\ ~(TotalWeight(Deref(p)) < Threshold[epoch])
          /\ ref' = [ref EXCEPT ![p] = [@ EXCEPT !.counted = {e.from : e \in Deref(p)}]]
          /\ pc' = [pc EXCEPT ![p] = "collect"] /\ UNCHANGED consensus
      BY <1>3, <2>2 DEF Total, db
    <3>2. ref'[p] = [ref[p] EXCEPT !.counted = {e.from : e \in Deref(p)}]
      BY <3>1 DEF TypeInv, TypeOK
    <3>3. ref'[p].counted = {e.from : e \in Deref(p)}
      BY <1>0, <3>2 DEF Ref
    <3>4. Reached(ref'[p].counted)
      BY <3>1, <3>3, CountedReached
    <3>5. ASSUME NEW q \in Procs \ {p} PROVE pc'[q] = pc[q] /\ ref'[q] = ref[q]
      BY <3>1 DEF TypeInv, TypeOK
    <3> QED BY <3>1, <3>4, <3>5 DEF QuorumInv, Reached
  <2> QED BY <2>1, <2>2
<1>4. CASE Collect(p)
  <2>1. CASE Return(p)
    BY <1>4, <2>1, <1>a, <1>b DEF Collect, db
  <2>2. CASE ~Return(p)
    <3>1. /\ Take(p, FirstOf(Keys(p))) /\ pc[p] \in {"collect", "gather"}
          /\ UNCHANGED consensus
      BY <1>4, <2>2 DEF Collect, db
    <3>3. ref'[p].counted = ref[p].counted
      BY <3>1, TakeHolds
    <3>4. Reached(ref'[p].counted)
      BY <3>1, <3>3 DEF QuorumInv
    <3>5. ASSUME NEW q \in Procs \ {p} PROVE pc'[q] = pc[q] /\ ref'[q] = ref[q]
      BY <3>1 DEF Take, TypeInv, TypeOK
    <3> QED BY <3>1, <3>4, <3>5 DEF QuorumInv, Reached
  <2> QED BY <2>1, <2>2
<1>5. CASE Create(p)
  <2>1. CASE UNCHANGED consensus
    <3>1. \/ Return(p)
          \/ pc' = [pc EXCEPT ![p] = "complete"] /\ UNCHANGED <<job, ref>>
      BY <1>5 DEF Create, Goto
    <3>2. KeepsAll
      BY <1>5, <2>1, <3>1, KeepsMoves DEF Create, Labels, KeepsAll
    <3> QED BY <3>2, QuorumQuiet
  <2>2. CASE ~UNCHANGED consensus
    <3> DEFINE row == [task |-> job[p].task, content |-> job[p].content,
                       epoch |-> job[p].epoch, sigs |-> ref[p].sigs,
                       counted |-> ref[p].counted]
    <3>1. /\ consensus' = consensus \cup {row}
          /\ pc[p] = "create" /\ pc' = [pc EXCEPT ![p] = "complete"]
          /\ UNCHANGED ref
      BY <1>5, <2>2 DEF Create, Goto
    <3>2. row.epoch = job[p].epoch /\ row.sigs = ref[p].sigs /\ row.counted = ref[p].counted
      OBVIOUS
    <3> HIDE DEF row
    <3>3. row.epoch # 0 /\ IsFiniteSet(row.sigs) /\ Reached(row.counted)
      BY <3>1, <3>2 DEF JobsInv, JobsSteady, TallyInv, Tally, QuorumInv
    <3> QED BY <3>1, <3>3 DEF QuorumInv, Reached, TypeInv, TypeOK
  <2> QED BY <2>1, <2>2
<1>6. CASE Complete(p)
  BY <1>6, <1>a, <1>b DEF Complete
<1> QED BY <1>1, <1>2, <1>3, <1>4, <1>5, <1>6 DEF CheckConsensus

LEMMA QuorumStep ==
    ASSUME Steady
    PROVE  TypeInv /\ JobsInv /\ TallyInv /\ QuorumInv /\ [Next]_vars => QuorumInv'
<1> SUFFICES ASSUME TypeInv, JobsInv, TallyInv, QuorumInv, [Next]_vars PROVE QuorumInv'
  OBVIOUS
<1>1. CASE UNCHANGED vars
  BY <1>1 DEF vars, QuorumInv, Reached
<1>2. CASE Next
  BY <1>2, KeepsGoroutines, KeepsTickers, KeepsSurroundings, QuorumQuiet, QuorumConsensus
     DEF Next, ProcessTask
<1> QED BY <1>1, <1>2

\* Who was counted has signed, so that those who have signed reach the threshold.
LEMMA QuorumOfSigners ==
    ASSUME Steady
    PROVE  TypeInv /\ CoverInv /\ QuorumInv => QuorumSigned
<1> SUFFICES ASSUME TypeInv, CoverInv, QuorumInv, NEW r \in consensus
             PROVE  MapThenSumSet(LAMBDA o : Weight[r.epoch][o], {e.from : e \in r.sigs})
                       >= Threshold[r.epoch]
  BY DEF QuorumSigned
<1> DEFINE O == {e.from : e \in r.sigs}
<1>1. r.epoch \in Epochs \ {0} /\ IsFiniteSet(r.sigs) /\ Reached(r.counted)
  BY DEF QuorumInv, TypeInv, TypeOK, Row
<1>2. Weight[r.epoch] = Weight[1] /\ Threshold[r.epoch] = Threshold[1] /\ Threshold[1] \in Nat
  BY <1>1, SteadyFacts
<1>3. \A o \in O : Weight[1][o] \in Nat
  BY SteadyFacts DEF TypeInv, TypeOK, Row, Entry
<1>4. IsFiniteSet(O)
  BY <1>1, FromFinite
<1>5. r.counted \in SUBSET O
  BY DEF CoverInv, SignersCoverCounted
<1> HIDE DEF O
<1>6. MapThenSumSet(LAMBDA o : Weight[r.epoch][o], O) = Size(Weight[r.epoch], O)
  BY <1>2, <1>3, <1>4, SumIsSize
<1>7. Size(Weight[1], r.counted) <= Size(Weight[1], O)
  BY <1>3, <1>4, <1>5, SizeMonotone
<1>8. Size(Weight[1], O) \in Nat /\ Size(Weight[1], r.counted) \in Nat
  BY <1>1, <1>3, <1>4, <1>5, UnitsFinite DEF Reached
<1>9. Size(Weight[1], r.counted) >= Threshold[1]
  BY <1>1 DEF Reached
<1>10. Size(Weight[r.epoch], O) >= Threshold[r.epoch]
  BY <1>2, <1>7, <1>8, <1>9
<1> QED BY <1>6, <1>10 DEF O

\* Every stored consensus response holds the signatures of operators with the
\* threshold weight, although weights are added up and signatures collected in
\* two passes over maps that other goroutines fill, and that cleanup drops, and
\* although a late response may replace one that was counted: for any weights,
\* operators, workers and failures, while weights and threshold are steady.
THEOREM QuorumCorrect ==
    ASSUME Steady
    PROVE  Spec => []QuorumSigned
<1>1. Spec => [](TypeInv /\ CoverInv)
  BY TypeInit, TypeStep, CoverInit, CoverStep, PTL DEF Spec
<1>2. Spec => [](JobsInv /\ TallyInv /\ QuorumInv)
  BY <1>1, JobsInit, JobsStep, TallyInit, TallyStep, QuorumInit, QuorumStep, PTL DEF Spec
<1> QED BY <1>1, <1>2, QuorumOfSigners, PTL

----------------------------------------------------------------------------
(* No quorum is forgotten.                                                 *)

\* The database and the topic answer; no operator changes its signing key, so
\* that the table has the same operators in every epoch; this node's operator
\* has not the threshold weight by itself.  The chain may fail and the process
\* may die.
Dependable ==
    /\ "db" \notin Faults /\ "publish" \notin Faults
    /\ \A e \in Epochs : Registered[e] = Registered[1]
    /\ Weight[1][Self] < Threshold[1]

\* Responses are stored of operators with a row, and before the first epoch
\* update of this node's only: handleResponses lets none of epoch 0 through.
KnownJobs ==
    \A p \in Procs :
        /\ pc[p] \in {"lookup", "seen", "store"} => epoch # 0
        /\ pc[p] \in {"seen", "store"} => job[p].from \in Registered[1]
        /\ pc[p] = "respond" => Self \in Registered[1]
KnownTrack ==
    \A e \in track : e.from \in Registered[1] /\ (epoch = 0 => e.from = Self)

KnownInv == KnownJobs /\ KnownTrack

LEMMA KnownInit == Init => KnownInv
BY DEF Init, KnownInv, KnownJobs, KnownTrack

\* q is no nearer to a store than it was.
Lags(q) ==
    /\ pc'[q] \in {"lookup", "seen", "store"} =>
          pc[q] \in {"lookup", "seen", "store"} /\ epoch' = epoch
    /\ pc'[q] \in {"seen", "store"} => pc[q] \in {"seen", "store"} /\ job'[q] = job[q]
    /\ pc'[q] = "respond" => pc[q] = "respond"

\* The step is p's: the other goroutines stay where they are.
Alone(p) ==
    \A q \in Procs \ {p} : pc'[q] = pc[q] /\ job'[q] = job[q] /\ ref'[q] = ref[q]

LEMMA AloneMoves ==
    ASSUME TypeInv, NEW p \in Procs,
           Done(p) \/ Return(p) \/ (p \notin Tickers /\ Panic(p))
    PROVE  Alone(p) /\ pc'[p] \in {"idle", "next", "process"}
<1> USE DEF TypeInv, TypeOK, Alone
<1>1. CASE Done(p)
  BY <1>1 DEF Done, Rest
<1>2. CASE Return(p)
  BY <1>1, <1>2 DEF Return
<1> QED BY <1>1, <1>2 DEF Panic

LEMMA KnownQuiet ==
    ASSUME KnownInv, \A q \in Procs : Lags(q), track' \subseteq track,
           epoch' = epoch \/ epoch' # 0 \/ track' = {}
    PROVE  KnownInv'
<1>1. KnownJobs'
  BY DEF KnownInv, KnownJobs, Lags
<1>2. KnownTrack'
  BY DEF KnownInv, KnownTrack
<1> QED BY <1>1, <1>2 DEF KnownInv

LEMMA KnownReboot ==
    ASSUME KnownInv, Reboot
    PROVE  KnownInv'
<1>1. \A q \in Procs : pc'[q] = "idle"
  BY DEF Reboot
<1>2. track' = {}
  BY DEF Reboot
<1> QED BY <1>1, <1>2 DEF KnownInv, KnownJobs, KnownTrack

LEMMA KnownAlone ==
    ASSUME KnownInv, NEW p \in Procs, Alone(p), UNCHANGED <<epoch, track>>,
           /\ pc'[p] \in {"lookup", "seen", "store"} => epoch # 0
           /\ pc'[p] \in {"seen", "store"} => job'[p].from \in Registered[1]
           /\ pc'[p] = "respond" => Self \in Registered[1]
    PROVE  KnownInv'
<1>1. KnownJobs'
  BY DEF KnownInv, KnownJobs, Alone
<1>2. KnownTrack'
  BY DEF KnownInv, KnownTrack
<1> QED BY <1>1, <1>2 DEF KnownInv

LEMMA KnownStores ==
    ASSUME KnownInv, NEW p \in Procs, Alone(p), UNCHANGED epoch, NEW o,
           StoreEntry(job[p], o), o \in Registered[1], epoch = 0 => o = Self,
           pc'[p] \notin {"lookup", "seen", "store", "respond"}
    PROVE  KnownInv'
<1> DEFINE new == [task |-> job[p].task, from |-> o, content |-> job[p].content,
                   epoch |-> job[p].epoch, weight |-> job[p].weight]
<1>1. track' \subseteq track \cup {new}
  BY DEF StoreEntry
<1>2. new.from = o
  OBVIOUS
<1> HIDE DEF new
<1>3. KnownTrack'
  BY <1>1, <1>2 DEF KnownInv, KnownTrack
<1>4. KnownJobs'
  BY DEF KnownInv, KnownJobs, Alone
<1> QED BY <1>3, <1>4 DEF KnownInv

LEMMA KnownGoroutines ==
    ASSUME Steady, Dependable, TypeInv, KnownInv, NEW p \in Procs,
           ProcessResponse(p) \/ ProcessTask(p) \/ SendRequest(p)
    PROVE  KnownInv'
<1> USE DEF TypeInv, TypeOK, world
<1>0. \A o \in Operators : Registered[opEpoch[o]] = Registered[1]
  BY DEF Dependable
<1>1. CASE Reboot
  BY <1>1, KnownReboot
<1>2. CASE /\ Done(p) \/ Return(p) \/ (p \notin Tickers /\ Panic(p))
           /\ ~Reboot /\ ~Store(p)
  <2>1. CASE ~Respond(p)
    <3>1. UNCHANGED <<epoch, track>>
      BY <1>2, <2>1 DEF ProcessResponse, Receive, Lookup, Seen, Violation, ProcessTask,
         CheckConsensus, Load, Total, Collect, Create, Complete, Process, Sign,
         SendRequest, ApiRequest, ApiCreate, Panic
    <3> QED BY <1>2, <3>1, AloneMoves, KnownAlone
  <2>2. CASE Respond(p)
    <3>1. /\ StoreEntry(job[p], Self) /\ UNCHANGED epoch /\ Self \in Registered[1]
      BY <2>2 DEF Respond, KnownInv, KnownJobs
    <3> QED BY <1>2, <3>1, AloneMoves, KnownStores
  <2> QED BY <2>1, <2>2
<1>3. CASE Receive(p) \/ ApiRequest(p)
  <2>1. CASE Receive(p)
    <3>1. /\ pc' = [pc EXCEPT ![p] = "lookup"] /\ UNCHANGED <<epoch, track>>
          /\ epoch # 0
      BY <2>1 DEF Receive, Steady
    <3>2. Alone(p)
      BY <2>1 DEF Receive, Alone
    <3> QED BY <3>1, <3>2, KnownAlone
  <2>2. CASE ApiRequest(p)
    <3>1. pc' = [pc EXCEPT ![p] = "apiCreate"] /\ UNCHANGED <<epoch, track>>
      BY <2>2 DEF ApiRequest
    <3>2. Alone(p)
      BY <2>2 DEF ApiRequest, Alone
    <3> QED BY <3>1, <3>2, KnownAlone
  <2> QED BY <1>3, <2>1, <2>2
<1>4. CASE Lookup(p) /\ ~Done(p)
  <2>1. /\ job' = [job EXCEPT ![p] = [@ EXCEPT !.weight = OperatorWeight(job[p].from)]]
        /\ job[p].from \in Registered[opEpoch[job[p].from]]
        /\ pc' = [pc EXCEPT ![p] = "seen"] /\ pc[p] = "lookup"
        /\ UNCHANGED <<epoch, track, ref>>
    BY <1>4 DEF Lookup, Violation
  <2>2. job[p] \in Job /\ job'[p] = [job[p] EXCEPT !.weight = OperatorWeight(job[p].from)]
    BY <2>1 DEF JobHeld
  <2>3. job'[p].from = job[p].from /\ job[p].from \in Operators
    BY <2>2 DEF Job
  <2>4. Alone(p)
    BY <2>1 DEF Alone
  <2> QED BY <1>0, <2>1, <2>3, <2>4, KnownAlone DEF KnownInv, KnownJobs
<1>5. CASE Seen(p) /\ ~Done(p)
  <2>1. /\ pc[p] = "seen" /\ pc' = [pc EXCEPT ![p] = "store"]
        /\ UNCHANGED <<epoch, track, job, ref>>
    BY <1>5 DEF Seen, Violation, Goto
  <2>2. Alone(p)
    BY <2>1 DEF Alone
  <2> QED BY <2>1, <2>2, KnownAlone DEF KnownInv, KnownJobs
<1>6. CASE Store(p) \/ (Respond(p) /\ ~Done(p))
  <2>1. /\ pc' = [pc EXCEPT ![p] = "load"] /\ UNCHANGED <<epoch, job, ref>>
    BY <1>6 DEF Store, Respond, Goto
  <2>2. Alone(p) /\ pc'[p] = "load"
    BY <2>1 DEF Alone
  <2>3. PICK o \in {job[p].from, Self} :
          /\ StoreEntry(job[p], o)
          /\ o \in Registered[1] /\ (epoch = 0 => o = Self)
    BY <1>6 DEF Store, Respond, KnownInv, KnownJobs
  <2> QED BY <2>1, <2>2, <2>3, KnownStores
<1>7. CASE CheckConsensus(p) \/ Process(p) \/ ApiCreate(p)
  <2>1. CASE Reboot \/ Done(p) \/ Return(p) \/ (p \notin Tickers /\ Panic(p))
    BY <1>1, <1>2, <1>6, <2>1
  <2>2. CASE ~(Reboot \/ Done(p) \/ Return(p) \/ (p \notin Tickers /\ Panic(p)))
    <3>1. /\ \E l \in {"total", "collect", "gather", "create", "complete", "sign", "process"} :
                pc' = [pc EXCEPT ![p] = l]
          /\ UNCHANGED <<epoch, track, job>>
      BY <1>7, <2>2, CollectMoves DEF CheckConsensus, Load, Total, Create, Complete, Process,
         ApiCreate, Goto, Panic
    <3>2. \A q \in Procs \ {p} : ref'[q] = ref[q]
      BY <1>7, <2>2, CollectMoves DEF CheckConsensus, Load, Total, Create, Complete, Process,
         ApiCreate, Goto, Panic
    <3>3. Alone(p)
      BY <3>1, <3>2 DEF Alone
    <3> QED BY <3>1, <3>3, KnownAlone
  <2> QED BY <2>1, <2>2
<1>8. CASE Sign(p) /\ ~Done(p) /\ ~Panic(p)
  <2>1. /\ pc' = [pc EXCEPT ![p] = "respond"] /\ UNCHANGED <<epoch, track, ref>>
        /\ Self \in Registered[opEpoch[Self]] /\ Self \in Operators
    BY <1>8, ConstantsAssumption DEF Sign, ConstantsAssumption
  <2>2. Alone(p)
    BY <1>8, <2>1 DEF Sign, Alone
  <2> QED BY <1>0, <2>1, <2>2, KnownAlone
<1> QED BY <1>1, <1>2, <1>3, <1>4, <1>5, <1>6, <1>7, <1>8
       DEF ProcessResponse, ProcessTask, SendRequest, Panic

LEMMA KnownOthers ==
    ASSUME TypeInv, KnownInv,
           CheckTimeouts \/ CheckConfirmations \/ CleanupAll \/ Surroundings
    PROVE  KnownInv'
<1> USE ProcsFacts DEF TypeInv, TypeOK, world, procs, Lags
<1>1. CASE Reboot
  BY <1>1, KnownReboot
<1>2. CASE CheckTimeouts /\ ~Reboot
  <2>1. UNCHANGED epoch /\ track' \subseteq track
    BY <1>2 DEF CheckTimeouts, TimeoutTick, TimeoutVisit, TimeoutDelete, TimeoutForget,
       Panic
  <2>2. \E l \in {"idle", "next", "delete", "process", "forget"} :
           pc' = [pc EXCEPT !["timeout"] = l]
    BY <1>2 DEF CheckTimeouts, TimeoutTick, TimeoutVisit, TimeoutDelete, TimeoutForget,
       Panic, Goto, Rest
  <2>3. \A q \in Procs \ {"timeout"} : job'[q] = job[q]
    BY <1>2 DEF CheckTimeouts, TimeoutTick, TimeoutVisit, TimeoutDelete, TimeoutForget,
       Panic, Goto
  <2>4. \A q \in Procs : Lags(q)
    BY <2>1, <2>2, <2>3
  <2> QED BY <2>1, <2>4, KnownQuiet
<1>3. CASE CheckConfirmations
  <2>1. UNCHANGED epoch /\ track' \subseteq track
    BY <1>3 DEF CheckConfirmations, ConfirmTick, ConfirmVisit
  <2>2. \E l \in {"idle", "next", "process"} : pc' = [pc EXCEPT !["confirm"] = l]
    BY <1>3 DEF CheckConfirmations, ConfirmTick, ConfirmVisit, Rest
  <2>3. \A q \in Procs \ {"confirm"} : job'[q] = job[q]
    BY <1>3 DEF CheckConfirmations, ConfirmTick, ConfirmVisit
  <2>4. \A q \in Procs : Lags(q)
    BY <2>1, <2>2, <2>3
  <2> QED BY <2>1, <2>4, KnownQuiet
<1>4. CASE EpochState
  <2>1. epoch' # 0 /\ UNCHANGED <<track, pc, job>>
    BY <1>4 DEF EpochState, Epochs
  <2> QED BY <2>1 DEF KnownInv, KnownJobs, KnownTrack
<1>5. CASE CleanupAll \/ (Surroundings /\ ~Reboot /\ ~EpochState)
  <2>1. UNCHANGED <<epoch, pc, job>> /\ track' \subseteq track
    BY <1>5 DEF CleanupAll, Surroundings, OperatorsCommit, UpsertOperator, ChainEpoch,
       ChainConfirms, Crash
  <2> QED BY <2>1, KnownQuiet
<1> QED BY <1>1, <1>2, <1>3, <1>4, <1>5

LEMMA KnownStep ==
    ASSUME Steady, Dependable
    PROVE  TypeInv /\ KnownInv /\ [Next]_vars => KnownInv'
<1> SUFFICES ASSUME TypeInv, KnownInv, [Next]_vars PROVE KnownInv'
  OBVIOUS
<1>1. CASE UNCHANGED vars
  BY <1>1 DEF vars, KnownInv, KnownJobs, KnownTrack
<1>2. CASE Next
  BY <1>2, KnownGoroutines, KnownOthers DEF Next
<1> QED BY <1>1, <1>2

\* The responses for t have the threshold weight.
Full(t) == epoch # 0 /\ TotalWeight(Responses(t)) >= Threshold[epoch]

\* A response for t is about a slot that has its consensus.
SlotTaken(t) ==
    \E r \in consensus, e \in Responses(t) : SlotOf[r.content] = SlotOf[e.content]

\* p will find what the maps of t hold now: it has not looked them up yet, or it
\* holds the maps that are still filled, or it comes to the insert with a content
\* of the slot of some response that is there.
Guards(p, t) ==
    /\ Checking(p, t)
    /\ pc[p] \in {"total", "collect", "gather"} => ref[p].live
    /\ \E e \in Responses(t) : SlotOf[e.content] = SlotOf[job[p].content]

Watched(t) ==
    Full(t) => HasConsensus(t) \/ SlotTaken(t) \/ \E p \in Procs : Guards(p, t)

WatchInv == \A t \in TaskIds : Watched(t)

LEMMA WatchInit == Init => WatchInv
BY DEF Init, WatchInv, Watched, Full

LEMMA WatchForgets == WatchInv => NoQuorumForgotten
BY DEF WatchInv, Watched, Full, SlotTaken, Guards, NoQuorumForgotten

\* The responses of one task weigh a natural number; no responses weigh nothing,
\* and this node's alone less than the threshold.
LEMMA WeightOf ==
    ASSUME Steady, Dependable, TypeInv, TallyInv, NEW t
    PROVE  /\ TotalWeight(Responses(t)) \in Nat
           /\ (\A e \in Responses(t) : e.from = Self) =>
                 TotalWeight(Responses(t)) < Threshold[1]
<1> DEFINE S == Responses(t)
           O == {e.from : e \in S}
<1>1. IsFiniteSet(S)
  <2>1. S \in SUBSET track /\ IsFiniteSet(track)
    BY DEF Responses, TallyInv, TrackTally
  <2> QED BY <2>1, FS_Subset
<1>2. S \subseteq Entry /\ Self \in Operators
  BY ConstantsAssumption DEF Responses, TypeInv, TypeOK, ConstantsAssumption
<1>3. \A e \in S : /\ e.weight \in Nat /\ Weight[1][e.from] \in Nat
                   /\ e.weight <= Weight[1][e.from]
  BY <1>2, SteadyFacts DEF Responses, Entry, TallyInv, TrackTally
<1>4. \A e, f \in S : e.from = f.from => e = f
  BY DEF Responses, TallyInv, TrackTally
<1> HIDE DEF S
<1>5. TotalWeight(S) \in Nat /\ TotalWeight(S) <= Size(Weight[1], O)
  BY <1>1, <1>3, <1>4, SizeOfOperators
<1>6. ASSUME \A e \in S : e.from = Self
      PROVE  TotalWeight(S) < Threshold[1]
  <2>1. O \in SUBSET {Self}
    BY <1>6
  <2>2. \A o \in {Self} : Weight[1][o] \in Nat
    BY <1>2, SteadyFacts
  <2>3. IsFiniteSet({Self})
    BY FS_Singleton
  <2> HIDE DEF O
  <2>4. Size(Weight[1], O) <= Size(Weight[1], {Self})
    BY <2>1, <2>2, <2>3, SizeMonotone
  <2>5. Size(Weight[1], {Self}) = Weight[1][Self] + Size(Weight[1], {Self} \ {Self})
    BY <2>2, <2>3, UnitsRemove
  <2>6. {Self} \ {Self} = {} /\ Size(Weight[1], {}) = 0
    BY UnitsEmpty
  <2>7. Size(Weight[1], {Self}) = Weight[1][Self]
    BY <2>2, <2>5, <2>6
  <2>8. Size(Weight[1], O) \in Nat /\ Threshold[1] \in Nat
    <3>1. IsFiniteSet(O) /\ \A o \in O : Weight[1][o] \in Nat
      BY <2>1, <2>2, <2>3, FS_Subset
    <3> QED BY <3>1, UnitsFinite, SteadyFacts
  <2> QED BY <1>5, <2>2, <2>4, <2>7, <2>8 DEF Dependable
<1> QED BY <1>5, <1>6 DEF S

\* Whoever is on its way to the insert stays as it is.
Onward(q) ==
    pc[q] \in {"load", "total", "collect", "gather", "create"} =>
        pc'[q] = pc[q] /\ job'[q] = job[q] /\ ref'[q] = ref[q]

LEMMA WatchedKept ==
    ASSUME NEW t, Watched(t), Full(t)' => Full(t), Responses(t)' = Responses(t),
           consensus \subseteq consensus',
           \A q \in Procs : Guards(q, t) => HasConsensus(t)' \/ SlotTaken(t)' \/ Guards(q, t)'
    PROVE  Watched(t)'
<1>1. HasConsensus(t) => HasConsensus(t)'
  BY DEF HasConsensus
<1>2. SlotTaken(t) => SlotTaken(t)'
  BY DEF SlotTaken
<1> QED BY <1>1, <1>2 DEF Watched

LEMMA SameFull ==
    ASSUME NEW t, UNCHANGED epoch, Responses(t)' = Responses(t)
    PROVE  Full(t)' = Full(t)
BY DEF Full

LEMMA WatchQuiet ==
    ASSUME WatchInv, UNCHANGED <<epoch, track>>, consensus \subseteq consensus',
           \A q \in Procs : Onward(q)
    PROVE  WatchInv'
<1> SUFFICES ASSUME NEW t \in TaskIds PROVE Watched(t)'
  BY DEF WatchInv
<1>1. Responses(t)' = Responses(t)
  BY DEF Responses
<1>2. ASSUME NEW q \in Procs, Guards(q, t) PROVE Guards(q, t)'
  BY <1>1, <1>2 DEF Guards, Checking, Onward
<1> QED BY <1>1, <1>2, SameFull, WatchedKept DEF WatchInv

LEMMA WatchReboot == ASSUME Reboot PROVE WatchInv'
BY DEF Reboot, WatchInv, Watched, Full

\* p moves; for the tasks of the others nothing changes.
LEMMA WatchAlone ==
    ASSUME WatchInv, NEW p \in Procs, Alone(p), UNCHANGED epoch,
           consensus \subseteq consensus',
           NEW t \in TaskIds, Responses(t)' = Responses(t),
           Guards(p, t) /\ Full(t) => HasConsensus(t)' \/ SlotTaken(t)' \/ Guards(p, t)'
    PROVE  Watched(t)'
<1>1. ASSUME NEW q \in Procs \ {p}, Guards(q, t) PROVE Guards(q, t)'
  BY <1>1 DEF Guards, Checking, Alone
<1>2. Full(t)' = Full(t)
  BY SameFull
<1>3. CASE Full(t)
  BY <1>1, <1>2, <1>3, WatchedKept DEF WatchInv
<1>4. CASE ~Full(t)
  BY <1>2, <1>4 DEF Watched
<1> QED BY <1>3, <1>4

\* After a store its own goroutine is at the beginning of its check.
LEMMA WatchStores ==
    ASSUME WatchInv, NEW p \in Procs, Alone(p), UNCHANGED <<epoch, consensus>>,
           NEW o, StoreEntry(job[p], o), job'[p] = job[p],
           pc[p] \in {"store", "respond"}, pc'[p] = "load"
    PROVE  WatchInv'
<1> SUFFICES ASSUME NEW t \in TaskIds PROVE Watched(t)'
  BY DEF WatchInv
<1> DEFINE new == [task |-> job[p].task, from |-> o, content |-> job[p].content,
                   epoch |-> job[p].epoch, weight |-> job[p].weight]
<1>1. track' = {e \in track : ~(e.task = job[p].task /\ e.from = o)} \cup {new}
  BY DEF StoreEntry
<1>2. new.task = job[p].task /\ new.content = job[p].content
  OBVIOUS
<1> HIDE DEF new
<1>3. CASE t = job[p].task
  <2>1. new \in Responses(t)'
    BY <1>1, <1>2, <1>3 DEF Responses
  <2>2. Guards(p, t)'
    BY <1>2, <1>3, <2>1 DEF Guards, Checking
  <2> QED BY <2>2 DEF Watched
<1>4. CASE t # job[p].task
  <2>1. Responses(t)' = Responses(t)
    BY <1>1, <1>2, <1>4 DEF Responses
  <2>2. ~Guards(p, t)
    BY DEF Guards, Checking
  <2> QED BY <2>1, <2>2, WatchAlone
<1> QED BY <1>3, <1>4

\* A goroutine that is not in a check, or at its end.
LEMMA WatchGoroutines ==
    ASSUME Dependable, TypeInv, WatchInv, NEW p \in Procs,
           \/ ProcessResponse(p) \/ Process(p) \/ Sign(p) \/ Respond(p)
           \/ SendRequest(p) \/ Complete(p)
    PROVE  WatchInv'
<1> USE DEF TypeInv, TypeOK, world, db, Fails
<1>1. CASE Reboot
  BY <1>1, WatchReboot
<1>2. CASE Store(p) \/ Respond(p)
  <2>1. /\ pc' = [pc EXCEPT ![p] = "load"] /\ UNCHANGED <<epoch, consensus, job, ref>>
        /\ pc[p] \in {"store", "respond"}
    BY <1>2 DEF Store, Respond, Goto, Dependable
  <2>2. Alone(p) /\ pc'[p] = "load" /\ job'[p] = job[p]
    BY <2>1 DEF Alone
  <2>3. \E o : StoreEntry(job[p], o)
    BY <1>2 DEF Store, Respond
  <2> QED BY <2>1, <2>2, <2>3, WatchStores
<1>3. CASE ~Reboot /\ ~Store(p) /\ ~Respond(p)
  <2>1. UNCHANGED <<epoch, consensus, track>>
    BY <1>3 DEF ProcessResponse, Receive, Lookup, Seen, Violation, Process, Sign,
       SendRequest, ApiRequest, ApiCreate, Complete, Panic
  <2>2. pc[p] \notin {"load", "total", "collect", "gather", "create"}
    BY <1>3 DEF ProcessResponse, Receive, Lookup, Seen, Process, Sign,
       SendRequest, ApiRequest, ApiCreate, Complete
  <2>3. Alone(p)
    <3>1. CASE Done(p) \/ Return(p) \/ (p \notin Tickers /\ Panic(p))
      BY <3>1, AloneMoves
    <3>2. CASE ~(Done(p) \/ Return(p) \/ (p \notin Tickers /\ Panic(p)))
      BY <1>3, <3>2 DEF ProcessResponse, Receive, Lookup, Seen, Violation, Process, Sign,
         SendRequest, ApiRequest, ApiCreate, Complete, Panic, Goto, Alone
    <3> QED BY <3>1, <3>2
  <2>4. \A q \in Procs : Onward(q)
    BY <2>2, <2>3 DEF Onward, Alone
  <2> QED BY <2>1, <2>4, WatchQuiet
<1> QED BY <1>1, <1>2, <1>3

\* The check itself: it returns early only when the maps that are still filled
\* have not the threshold weight.
LEMMA WatchConsensus ==
    ASSUME Steady, Dependable, TypeInv, TallyInv, KnownInv, CoverInv, WatchInv,
           NEW p \in Procs,
           Load(p) \/ Total(p) \/ Collect(p) \/ Create(p)
    PROVE  WatchInv'
<1> USE DEF TypeInv, TypeOK, world, db, Fails
<1>0. ref[p] \in Ref
  OBVIOUS
<1>1. CASE epoch = 0 /\ Panic(p)
  BY <1>1 DEF Panic, Reboot, WatchInv, Watched, Full
<1>2. CASE ~(epoch = 0 /\ Panic(p))
  <2>1. /\ UNCHANGED <<epoch, track>> /\ consensus \subseteq consensus'
        /\ pc[p] \in {"load", "total", "collect", "gather", "create"}
    BY <1>2 DEF Load, Total, Collect, Create
  <2>2. Alone(p)
    <3>1. CASE Return(p)
      BY <3>1, AloneMoves
    <3>2. CASE ~Return(p)
      BY <1>2, <3>2, CollectMoves DEF Load, Total, Create, Goto, Alone
    <3> QED BY <3>1, <3>2
  <2>3. ASSUME NEW t \in TaskIds, Guards(p, t), Full(t)
        PROVE  HasConsensus(t)' \/ SlotTaken(t)' \/ Guards(p, t)'
    <3>1. Responses(t)' = Responses(t) /\ job[p].task = t /\ Responses(t) # {}
      BY <2>1, <2>3 DEF Responses, Guards, Checking
    <3>2. ASSUME NEW l \in {"total", "collect", "gather", "create"}, pc' = [pc EXCEPT ![p] = l],
                 UNCHANGED job, l # "create" => ref'[p].live
          PROVE  Guards(p, t)'
      BY <2>3, <3>1, <3>2 DEF Guards, Checking
    <3>3. CASE Load(p)
      <4>1. /\ ref' = [ref EXCEPT ![p] = [NoRef EXCEPT !.live = TRUE]]
            /\ pc' = [pc EXCEPT ![p] = "total"] /\ UNCHANGED job
        BY <3>1, <3>3 DEF Load
      <4>2. ref'[p].live
        BY <4>1 DEF NoRef
      <4> QED BY <3>2, <4>1, <4>2
    <3>4. CASE Total(p)
      <4>1. ref[p].live /\ Deref(p) = Responses(t)
        BY <2>3, <3>1, <3>4 DEF Total, Guards, Deref
      <4>2. ~(TotalWeight(Responses(t)) < Threshold[epoch])
        <5>1. TotalWeight(Responses(t)) \in Nat /\ Threshold[epoch] \in Nat
          BY WeightOf, ConstantsAssumption DEF ConstantsAssumption
        <5> QED BY <2>3, <5>1 DEF Full
      <4>3. /\ ref' = [ref EXCEPT ![p] = [@ EXCEPT !.counted = {e.from : e \in Deref(p)}]]
            /\ pc' = [pc EXCEPT ![p] = "collect"] /\ UNCHANGED job
        BY <1>2, <3>4, <4>1, <4>2 DEF Total
      <4>4. ref'[p] = [ref[p] EXCEPT !.counted = {e.from : e \in Deref(p)}]
        BY <4>3
      <4>5. ref'[p].live
        <5>1. ref'[p].live = ref[p].live
          BY <1>0, <4>4 DEF Ref
        <5> QED BY <4>1, <5>1
      <4> QED BY <3>2, <4>3, <4>5
    <3>5. CASE Collect(p)
      <4> DEFINE o == FirstOf(Keys(p))
      <4>1. /\ Deref(p) = Responses(t) /\ ref[p].live
            /\ pc[p] \in {"collect", "gather"}
        BY <2>3, <3>1, <3>5 DEF Collect, Guards, Deref
      <4>2. Keys(p) # {} /\ Keys(p) \subseteq Froms(Responses(t))
        <5>1. Covered(p)
          BY DEF CoverInv, CoverHeld
        <5>2. CASE pc[p] = "collect"
          <6>1. Keys(p) = {e.from : e \in Responses(t)}
            BY <4>1, <5>2 DEF Keys
          <6> QED BY <3>1, <6>1 DEF Froms
        <5>3. CASE pc[p] = "gather"
          BY <4>1, <5>1, <5>3 DEF Covered, Keys
        <5> QED BY <4>1, <5>2, <5>3
      <4>3. o \in Froms(Responses(t))
        <5>1. Responses(t) \subseteq Entry
          BY DEF Responses, TypeInv, TypeOK
        <5> QED BY <4>2, <5>1, FirstIsKey
      <4>4. o \in Operators /\ o \in Registered[1]
        BY <4>3 DEF Froms, Responses, KnownInv, KnownTrack, Entry
      <4>5. GetOperatorBySigningKey(o)
        BY <4>4 DEF Dependable
      <4>6. Take(p, o)
        BY <3>5, <4>5 DEF Collect, Dependable
      <4>7. CASE Keys(p) \ {o} = {}
        BY <3>2, <4>6, <4>7 DEF Take
      <4>8. CASE Keys(p) \ {o} # {}
        <5>1. PICK keys, sigs : ref'[p] = [ref[p] EXCEPT !.keys = keys, !.sigs = sigs]
          BY <4>6, <4>8 DEF Take
        <5>2. ref'[p].live
          <6>1. ref'[p].live = ref[p].live
            BY <1>0, <5>1 DEF Ref
          <6> QED BY <4>1, <6>1
        <5> QED BY <3>2, <4>6, <4>8, <5>2 DEF Take
      <4> QED BY <4>7, <4>8
    <3>6. CASE Create(p)
      <4>1. CASE Conflicts(job[p])
        <5>1. UNCHANGED consensus
          BY <3>6, <4>1 DEF Create
        <5> QED BY <2>3, <3>1, <4>1, <5>1 DEF Conflicts, HasConsensus, SlotTaken, Guards
      <4>2. CASE ~Conflicts(job[p])
        <5> DEFINE row == [task |-> job[p].task, content |-> job[p].content,
                           epoch |-> job[p].epoch, sigs |-> ref[p].sigs,
                           counted |-> ref[p].counted]
        <5>1. row \in consensus' /\ row.task = t
          BY <3>1, <3>6, <4>2 DEF Create, Dependable
        <5> QED BY <5>1 DEF HasConsensus
      <4> QED BY <4>1, <4>2
    <3> QED BY <3>3, <3>4, <3>5, <3>6
  <2>4. ASSUME NEW t \in TaskIds PROVE Watched(t)'
    <3>1. Responses(t)' = Responses(t)
      BY <2>1 DEF Responses
    <3> QED BY <2>1, <2>2, <2>3, <3>1, WatchAlone
  <2> QED BY <2>4 DEF WatchInv
<1> QED BY <1>1, <1>2

LEMMA NothingWeighs ==
    ASSUME Steady, Dependable
    PROVE  ~(TotalWeight({}) >= Threshold[1])
<1>1. TotalWeight({}) = 0
  <2>1. TotalWeight({}) = Size([e \in {} |-> e.weight], {})
    BY FS_EmptySet, TotalWeightIsSize
  <2> QED BY <2>1, UnitsEmpty
<1>2. Weight[1][Self] \in Nat /\ Threshold[1] \in Nat
  BY SteadyFacts, ConstantsAssumption DEF ConstantsAssumption
<1> QED BY <1>1, <1>2 DEF Dependable

\* Maps that are dropped hold no quorum any more.
LEMMA WatchDrops ==
    ASSUME Steady, Dependable, TypeInv, WatchInv, NEW gone, Detach(gone),
           track' = {e \in track : e.task \notin gone}, UNCHANGED <<epoch, consensus>>,
           \A q \in Procs : pc[q] \in {"load", "total", "collect", "gather", "create"} =>
                               pc'[q] = pc[q] /\ job'[q] = job[q]
    PROVE  WatchInv'
<1> SUFFICES ASSUME NEW t \in TaskIds PROVE Watched(t)'
  BY DEF WatchInv
<1>1. CASE t \in gone
  <2>1. Responses(t)' = {}
    BY <1>1 DEF Responses
  <2>2. epoch # 0 => Threshold[epoch] = Threshold[1]
    BY SteadyFacts DEF TypeInv, TypeOK
  <2> QED BY <2>1, <2>2, NothingWeighs DEF Watched, Full
<1>2. CASE t \notin gone
  <2>1. Responses(t)' = Responses(t)
    BY <1>2 DEF Responses
  <2>2. ASSUME NEW q \in Procs, Guards(q, t) PROVE Guards(q, t)'
    <3>1. job[q].task = t /\ pc'[q] = pc[q] /\ job'[q] = job[q]
      BY <2>2 DEF Guards, Checking
    <3>2. ref'[q] = ref[q]
      BY <1>2, <3>1 DEF Detach
    <3> QED BY <2>1, <2>2, <3>1, <3>2 DEF Guards, Checking
  <2> QED BY <2>1, <2>2, SameFull, WatchedKept DEF WatchInv
<1> QED BY <1>1, <1>2

\* The first epoch finds no quorum, and a later one no other threshold.
LEMMA WatchEpoch ==
    ASSUME Steady, Dependable, TypeInv, TallyInv, KnownInv, WatchInv, EpochState
    PROVE  WatchInv'
<1> SUFFICES ASSUME NEW t \in TaskIds PROVE Watched(t)'
  BY DEF WatchInv
<1>1. UNCHANGED <<consensus, track, pc, job, ref>> /\ epoch' \in Epochs \ {0}
  BY DEF EpochState, TypeInv, TypeOK, db, procs, Epochs
<1>2. Threshold[epoch'] = Threshold[1] /\ (epoch # 0 => Threshold[epoch] = Threshold[1])
  BY <1>1, SteadyFacts DEF TypeInv, TypeOK
<1>3. Responses(t)' = Responses(t)
  BY <1>1 DEF Responses
<1>4. CASE epoch = 0
  <2>1. TotalWeight(Responses(t)) \in Nat /\ TotalWeight(Responses(t)) < Threshold[1]
    BY <1>4, WeightOf DEF KnownInv, KnownTrack, Responses
  <2>2. Threshold[1] \in Nat
    BY SteadyFacts
  <2>3. ~(TotalWeight(Responses(t)) >= Threshold[1])
    BY <2>1, <2>2
  <2> QED BY <1>2, <1>3, <2>3 DEF Watched, Full
<1>5. CASE epoch # 0
  <2>1. Full(t)' => Full(t)
    BY <1>2, <1>3, <1>5 DEF Full
  <2>2. \A q \in Procs : Guards(q, t) => Guards(q, t)'
    BY <1>1, <1>3 DEF Guards, Checking
  <2> QED BY <1>1, <1>3, <2>1, <2>2, WatchedKept DEF WatchInv
<1> QED BY <1>4, <1>5

LEMMA WatchOthers ==
    ASSUME Steady, Dependable, TypeInv, TallyInv, KnownInv, WatchInv,
           CheckTimeouts \/ CheckConfirmations \/ CleanupAll \/ Surroundings
    PROVE  WatchInv'
<1> USE ProcsFacts DEF TypeInv, TypeOK, world, procs, db
<1>1. CASE Reboot
  BY <1>1, WatchReboot
<1>2. CASE TimeoutForget
  <2>1. PICK gone : gone = {job["timeout"].task}
    OBVIOUS
  <2>2. /\ track' = {e \in track : e.task \notin gone} /\ Detach(gone)
        /\ UNCHANGED <<epoch, consensus>>
    BY <1>2, <2>1 DEF TimeoutForget
  <2>3. \A q \in Procs : pc[q] \in {"load", "total", "collect", "gather", "create"} =>
                            pc'[q] = pc[q] /\ job'[q] = job[q]
    BY <1>2 DEF TimeoutForget
  <2> QED BY <2>2, <2>3, WatchDrops
<1>3. CASE CleanupAll
  <2>1. track' = {e \in track : e.task \notin TaskIds}
    BY <1>3 DEF CleanupAll, Entry
  <2>2. Detach(TaskIds) /\ UNCHANGED <<epoch, consensus, pc, job>>
    BY <1>3 DEF CleanupAll
  <2> QED BY <2>1, <2>2, WatchDrops
<1>4. CASE EpochState
  BY <1>4, WatchEpoch
<1>5. CASE CheckTimeouts /\ ~Reboot /\ ~TimeoutForget
  <2>1. UNCHANGED <<epoch, consensus, track, ref>> /\ pc["timeout"] \in {"idle", "next", "delete"}
    BY <1>5 DEF CheckTimeouts, TimeoutTick, TimeoutVisit, TimeoutDelete, Panic, Goto
  <2>2. \A q \in Procs \ {"timeout"} : pc'[q] = pc[q] /\ job'[q] = job[q]
    BY <1>5 DEF CheckTimeouts, TimeoutTick, TimeoutVisit, TimeoutDelete, Panic, Goto
  <2> QED BY <2>1, <2>2, WatchQuiet DEF Onward
<1>6. CASE CheckConfirmations
  <2>1. UNCHANGED <<epoch, consensus, track, ref>> /\ pc["confirm"] \in {"idle", "next"}
    BY <1>6 DEF CheckConfirmations, ConfirmTick, ConfirmVisit
  <2>2. \A q \in Procs \ {"confirm"} : pc'[q] = pc[q] /\ job'[q] = job[q]
    BY <1>6 DEF CheckConfirmations, ConfirmTick, ConfirmVisit
  <2> QED BY <2>1, <2>2, WatchQuiet DEF Onward
<1>7. CASE Surroundings /\ ~Reboot /\ ~EpochState
  <2>1. UNCHANGED <<epoch, consensus, track, ref, pc, job>>
    BY <1>7 DEF Surroundings, OperatorsCommit, UpsertOperator, ChainEpoch,
       ChainConfirms, Crash
  <2> QED BY <2>1, WatchQuiet DEF Onward
<1> QED BY <1>1, <1>2, <1>3, <1>4, <1>5, <1>6, <1>7

LEMMA WatchStep ==
    ASSUME Steady, Dependable
    PROVE  TypeInv /\ TallyInv /\ KnownInv /\ CoverInv /\ WatchInv /\ [Next]_vars
             => WatchInv'
<1> SUFFICES ASSUME TypeInv, TallyInv, KnownInv, CoverInv, WatchInv, [Next]_vars
             PROVE  WatchInv'
  OBVIOUS
<1>1. CASE UNCHANGED vars
  BY <1>1, WatchQuiet DEF vars, Onward
<1>2. CASE Next
  BY <1>2, WatchGoroutines, WatchConsensus, WatchOthers
     DEF Next, ProcessTask, CheckConsensus
<1> QED BY <1>1, <1>2

\* Responses that reach the threshold are never left lying: a goroutine is on its
\* way to the insert, or the task or the slot has its consensus.  This holds for
\* any messages, conflicting ones among them, any goroutines, failures of the
\* chain, restarts and cleanups between any two steps.
THEOREM NothingForgotten ==
    ASSUME Steady, Dependable
    PROVE  Spec => []NoQuorumForgotten
<1>1. Spec => [](TypeInv /\ JobsInv /\ TallyInv /\ KnownInv /\ CoverInv)
  BY TypeInit, TypeStep, JobsInit, JobsStep, TallyInit, TallyStep, KnownInit, KnownStep,
     CoverInit, CoverStep, PTL DEF Spec
<1>2. Spec => []WatchInv
  BY <1>1, WatchInit, WatchStep, PTL DEF Spec
<1> QED BY <1>2, WatchForgets, PTL

----------------------------------------------------------------------------
(* Every signature that is stored was given, for the task of the row.      *)

\* The operator of entry e has given this signature: it delivered the response and
\* had signed it, or it is this node's own about a value on the chain.
Given(e) ==
    \/ [task |-> e.task, from |-> e.from, signer |-> e.from,
        content |-> e.content, epoch |-> e.epoch] \in Messages
    \/ e.from = Self /\ e.content \in Truth \ ZeroBlock

\* A worker deals with the response it received, and stores it once verified.
Responding == {"lookup", "seen", "store"}
Received(j) ==
    [task |-> j.task, from |-> j.from, signer |-> j.signer,
     content |-> j.content, epoch |-> j.epoch] \in Messages
GivenJobs ==
    \A p \in Procs :
        /\ pc[p] \in Responding => Received(job[p])
        /\ pc[p] = "store" => job[p].signer = job[p].from

\* What the maps hold, and what a check holds of them, was given.
GivenMaps ==
    /\ \A e \in track : Given(e)
    /\ \A p \in Procs : \A e \in ref[p].rows \cup ref[p].sigs : Given(e)

\* The maps a check holds are those of its task.
Holding == {"total", "collect", "gather", "create"}
OwnMaps ==
    \A p \in Procs : pc[p] \in Holding =>
        \A e \in ref[p].rows \cup ref[p].sigs : e.task = job[p].task

GivenInv == SignaturesGiven /\ GivenJobs /\ GivenMaps /\ OwnMaps

LEMMA GivenInit == Init => GivenInv
BY DEF Init, GivenInv, SignaturesGiven, GivenJobs, GivenMaps, OwnMaps, Responding, Holding,
       NoRef

\* Between the lookup of the maps and the insert a check has one job; so has a
\* worker until it stores its response.
HoldsOn(q) ==
    /\ pc'[q] \in Holding => \/ pc[q] \in Holding /\ job'[q] = job[q]
                             \/ ref'[q].rows = {} /\ ref'[q].sigs = {}
    /\ pc'[q] \in Responding => \/ pc'[q] = pc[q] /\ job'[q] = job[q]
                                \/ Receive(q) \/ Lookup(q) \/ Seen(q)

LEMMA HoldsOnMoves ==
    ASSUME TypeInv, NEW p \in Procs,
           \/ Done(p) \/ Return(p) \/ Panic(p) \/ Reboot
           \/ Alone(p) /\ HoldsOn(p)
    PROVE  \A q \in Procs : HoldsOn(q)
<1> USE DEF Holding, Responding
<1>1. CASE Reboot
  <2>1. \A q \in Procs : pc'[q] = "idle"
    BY <1>1 DEF Reboot
  <2> QED BY <2>1 DEF HoldsOn
<1>2. CASE Done(p) \/ Return(p) \/ (p \notin Tickers /\ Panic(p))
  <2>1. Alone(p) /\ pc'[p] \in {"idle", "next", "process"}
    BY <1>2, AloneMoves
  <2> QED BY <2>1 DEF Alone, HoldsOn
<1>3. CASE Alone(p) /\ HoldsOn(p)
  BY <1>3 DEF Alone, HoldsOn
<1> QED BY <1>1, <1>2, <1>3 DEF Panic

LEMMA HoldingMoves == ASSUME TypeInv, Next PROVE \A q \in Procs : HoldsOn(q)
<1> USE ProcsFacts DEF TypeInv, TypeOK
<1>1. ASSUME NEW p \in Procs,
             ProcessResponse(p) \/ Process(p) \/ Sign(p) \/ Respond(p) \/ SendRequest(p)
      PROVE  \A q \in Procs : HoldsOn(q)
  <2>1. CASE Done(p) \/ Panic(p)
    BY <2>1, HoldsOnMoves
  <2>2. CASE ~(Done(p) \/ Panic(p))
    <3>1. pc'[p] \notin Holding
      BY <1>1, <2>2 DEF ProcessResponse, Receive, Lookup, Seen, Store, Violation, Process,
         Sign, Respond, SendRequest, ApiRequest, ApiCreate, Goto, Holding
    <3>a. pc'[p] \in Responding => Receive(p) \/ Lookup(p) \/ Seen(p)
      BY <1>1, <2>2 DEF ProcessResponse, Store, Process, Sign, Respond, SendRequest,
         ApiRequest, ApiCreate, Goto, Responding
    <3>2. Alone(p)
      BY <1>1, <2>2 DEF ProcessResponse, Receive, Lookup, Seen, Store, Violation, Process,
         Sign, Respond, SendRequest, ApiRequest, ApiCreate, Goto, Alone
    <3> QED BY <3>1, <3>a, <3>2, HoldsOnMoves DEF HoldsOn
  <2> QED BY <2>1, <2>2
<1>2. ASSUME NEW p \in Procs, CheckConsensus(p) PROVE \A q \in Procs : HoldsOn(q)
  <2>1. CASE Return(p) \/ Panic(p)
    BY <2>1, HoldsOnMoves
  <2>2. CASE ~(Return(p) \/ Panic(p))
    <3>1. Alone(p)
      BY <1>2, <2>2, CollectMoves DEF CheckConsensus, Load, Total, Create, Complete, Goto, Alone
    <3>2. pc'[p] \in Holding \/ pc'[p] = "complete"
      BY <1>2, <2>2, CollectMoves DEF CheckConsensus, Load, Total, Create, Complete, Goto, Holding
    <3>3. \/ pc[p] \in Holding /\ job'[p] = job[p]
          \/ ref'[p] = [NoRef EXCEPT !.live = TRUE]
          \/ pc'[p] = "complete"
      BY <1>2, <2>2, CollectMoves
         DEF CheckConsensus, Load, Total, Collect, Create, Complete, Goto, Holding
    <3>4. [NoRef EXCEPT !.live = TRUE].rows = {} /\ [NoRef EXCEPT !.live = TRUE].sigs = {}
      BY DEF NoRef
    <3>5. HoldsOn(p)
      BY <3>2, <3>3, <3>4 DEF HoldsOn, Holding, Responding
    <3> QED BY <3>1, <3>5, HoldsOnMoves
  <2> QED BY <2>1, <2>2
<1>3. CASE CheckTimeouts
  <2>1. CASE Panic("timeout")
    BY <2>1, HoldsOnMoves
  <2>2. CASE ~Panic("timeout")
    <3>1. /\ \E l \in {"idle", "next", "delete", "process", "forget"} :
                pc' = [pc EXCEPT !["timeout"] = l]
          /\ \A q \in Procs \ {"timeout"} : job'[q] = job[q]
      BY <1>3, <2>2 DEF CheckTimeouts, TimeoutTick, TimeoutVisit, TimeoutDelete,
         TimeoutForget, Goto, Rest
    <3> QED BY <3>1 DEF HoldsOn, Holding, Responding
  <2> QED BY <2>1, <2>2
<1>4. CASE CheckConfirmations
  <2>1. /\ \E l \in {"idle", "next", "process"} : pc' = [pc EXCEPT !["confirm"] = l]
        /\ \A q \in Procs \ {"confirm"} : job'[q] = job[q]
    BY <1>4 DEF CheckConfirmations, ConfirmTick, ConfirmVisit, Rest
  <2> QED BY <2>1 DEF HoldsOn, Holding, Responding
<1>5. CASE CleanupAll \/ Surroundings
  <2>1. CASE Crash
    BY <2>1, HoldsOnMoves DEF Crash
  <2>2. CASE ~Crash
    <3>1. UNCHANGED <<pc, job>>
      BY <1>5, <2>2 DEF CleanupAll, Surroundings, EpochState, OperatorsCommit,
         UpsertOperator, ChainEpoch, ChainConfirms, procs
    <3> QED BY <3>1 DEF HoldsOn, Holding, Responding
  <2> QED BY <2>1, <2>2
<1> QED BY <1>1, <1>2, <1>3, <1>4, <1>5 DEF Next, ProcessTask

\* A consensus response is stored by a check, from its job and the maps it holds.
LEMMA ConsensusMoves ==
    ASSUME Next
    PROVE  \/ UNCHANGED consensus
           \/ \E p \in Procs : /\ pc[p] = "create"
                               /\ consensus' = consensus \cup
                                    {[task |-> job[p].task, content |-> job[p].content,
                                      epoch |-> job[p].epoch, sigs |-> ref[p].sigs,
                                      counted |-> ref[p].counted]}
<1> USE DEF db
<1>1. ASSUME NEW p \in Procs, Create(p)
      PROVE  \/ UNCHANGED consensus
             \/ /\ pc[p] = "create"
                /\ consensus' = consensus \cup
                     {[task |-> job[p].task, content |-> job[p].content,
                       epoch |-> job[p].epoch, sigs |-> ref[p].sigs,
                       counted |-> ref[p].counted]}
  BY <1>1 DEF Create
<1>2. ASSUME NEW p \in Procs,
             ProcessResponse(p) \/ (ProcessTask(p) /\ ~Create(p)) \/ SendRequest(p)
      PROVE  UNCHANGED consensus
  BY <1>2 DEF ProcessResponse, Receive, Lookup, Seen, Store, Violation, ProcessTask,
     CheckConsensus, Load, Total, Collect, Complete, Process, Sign, Respond,
     SendRequest, ApiRequest, ApiCreate, Panic, Reboot
<1>3. CASE CheckTimeouts
  BY <1>3 DEF CheckTimeouts, TimeoutTick, TimeoutVisit, TimeoutDelete, TimeoutForget,
     Panic, Reboot
<1>4. CASE CheckConfirmations \/ CleanupAll \/ Surroundings
  BY <1>4 DEF CheckConfirmations, ConfirmTick, ConfirmVisit, CleanupAll, Surroundings,
     EpochState, OperatorsCommit, UpsertOperator, ChainEpoch, ChainConfirms, Crash,
     Reboot
<1> QED BY <1>1, <1>2, <1>3, <1>4 DEF Next

LEMMA GivenJobsStep ==
    ASSUME TypeInv, GivenInv, Next
    PROVE  GivenJobs'
<1> SUFFICES ASSUME NEW q \in Procs, pc'[q] \in Responding
             PROVE  Received(job'[q]) /\ (pc'[q] = "store" => job'[q].signer = job'[q].from)
  BY DEF GivenJobs, Received, Responding
<1> USE DEF TypeInv, TypeOK
<1>1. HoldsOn(q)
  BY HoldingMoves
<1>2. CASE pc'[q] = pc[q] /\ job'[q] = job[q]
  BY <1>2 DEF GivenInv, GivenJobs
<1>3. CASE Receive(q)
  <2>1. PICK m \in Messages :
          job' = [job EXCEPT ![q] =
                    [task |-> m.task, from |-> m.from, signer |-> m.signer,
                     content |-> m.content, epoch |-> m.epoch, weight |-> 0]]
    BY <1>3 DEF Receive
  <2>2. m = [task |-> m.task, from |-> m.from, signer |-> m.signer,
             content |-> m.content, epoch |-> m.epoch]
    BY ConstantsAssumption DEF ConstantsAssumption, Message
  <2>3. pc'[q] = "lookup"
    BY <1>3 DEF Receive
  <2>4. /\ job'[q].task = m.task /\ job'[q].from = m.from /\ job'[q].signer = m.signer
        /\ job'[q].content = m.content /\ job'[q].epoch = m.epoch
    BY <2>1
  <2> QED BY <2>2, <2>3, <2>4 DEF Received
<1>4. CASE (Lookup(q) \/ Seen(q)) /\ Done(q)
  BY <1>4, AloneMoves DEF Responding
<1>5. CASE Lookup(q) /\ ~Done(q)
  <2>1. /\ job' = [job EXCEPT ![q] = [@ EXCEPT !.weight = OperatorWeight(job[q].from)]]
        /\ pc[q] = "lookup" /\ pc'[q] = "seen"
    BY <1>5 DEF Lookup, Violation
  <2>2. job[q] \in Job /\ job'[q] = [job[q] EXCEPT !.weight = OperatorWeight(job[q].from)]
    BY <2>1 DEF JobHeld
  <2>3. /\ job'[q].task = job[q].task /\ job'[q].from = job[q].from
        /\ job'[q].signer = job[q].signer
        /\ job'[q].content = job[q].content /\ job'[q].epoch = job[q].epoch
    BY <2>2 DEF Job
  <2>4. Received(job[q])
    BY <2>1 DEF GivenInv, GivenJobs, Responding
  <2> QED BY <2>1, <2>3, <2>4 DEF Received
<1>6. CASE Seen(q) /\ ~Done(q)
  <2>1. /\ pc[q] = "seen" /\ job'[q] = job[q] /\ job[q].signer = job[q].from
    BY <1>6 DEF Seen, Violation, Goto
  <2> QED BY <2>1 DEF GivenInv, GivenJobs, Responding
<1> QED BY <1>1, <1>2, <1>3, <1>4, <1>5, <1>6 DEF HoldsOn

\* A response is stored verified, and this node's own is about a value on the chain.
LEMMA GivenTrackStep ==
    ASSUME TruthInv, GivenInv, Next
    PROVE  \A e \in track' : Given(e)
<1>1. CASE track' \subseteq track
  BY <1>1 DEF GivenInv, GivenMaps
<1>2. ASSUME NEW p \in Procs, NEW o,
             \/ pc[p] = "store" /\ o = job[p].from
             \/ pc[p] = "respond" /\ o = Self,
             StoreEntry(job[p], o)
      PROVE  \A e \in track' : Given(e)
  <2> DEFINE new == [task |-> job[p].task, from |-> o, content |-> job[p].content,
                     epoch |-> job[p].epoch, weight |-> job[p].weight]
  <2>1. track' \subseteq track \cup {new}
    BY <1>2 DEF StoreEntry
  <2>2. /\ new.task = job[p].task /\ new.from = o /\ new.content = job[p].content
        /\ new.epoch = job[p].epoch
    OBVIOUS
  <2> HIDE DEF new
  <2>3. CASE pc[p] = "store" /\ o = job[p].from
    <3>1. Received(job[p]) /\ job[p].signer = o
      BY <2>3 DEF GivenInv, GivenJobs, Responding
    <3>2. Given(new)
      BY <2>2, <2>3, <3>1 DEF Received, Given
    <3> QED BY <2>1, <3>2 DEF GivenInv, GivenMaps
  <2>4. CASE pc[p] = "respond" /\ o = Self
    <3>1. Given(new)
      BY <2>2, <2>4 DEF Given, TruthInv, TruthHeld
    <3> QED BY <2>1, <3>1 DEF GivenInv, GivenMaps
  <2> QED BY <1>2, <2>3, <2>4
<1> QED BY <1>1, <1>2, TrackMoves

LEMMA GivenStep == TypeInv /\ TruthInv /\ GivenInv /\ [Next]_vars => GivenInv'
<1> SUFFICES ASSUME TypeInv, TruthInv, GivenInv, [Next]_vars PROVE GivenInv'
  OBVIOUS
<1>1. CASE UNCHANGED vars
  BY <1>1 DEF vars, GivenInv, SignaturesGiven, GivenJobs, GivenMaps, OwnMaps
<1>2. CASE Next
  <2>1. \A q \in Procs : Holds(q) /\ HoldsOn(q)
    BY <1>2, HoldsStep, HoldingMoves
  <2>2. GivenJobs'
    BY <1>2, GivenJobsStep
  <2>3. GivenMaps'
    <3>1. ASSUME NEW q \in Procs, NEW e \in ref'[q].rows \cup ref'[q].sigs PROVE Given(e)
      BY <2>1 DEF Holds, Deref, Responses, GivenInv, GivenMaps
    <3> QED BY <1>2, <3>1, GivenTrackStep DEF GivenMaps, Given
  <2>4. OwnMaps'
    <3> SUFFICES ASSUME NEW q \in Procs, pc'[q] \in Holding,
                        NEW e \in ref'[q].rows \cup ref'[q].sigs
                 PROVE  e.task = job'[q].task
      BY DEF OwnMaps, Holding
    <3>1. pc[q] \in Holding /\ job'[q] = job[q]
      BY <2>1 DEF HoldsOn
    <3>2. \A f \in ref[q].rows \cup ref[q].sigs \cup Deref(q) : f.task = job[q].task
      BY <3>1 DEF GivenInv, OwnMaps, Deref, Responses
    <3> QED BY <2>1, <3>1, <3>2 DEF Holds
  <2>5. SignaturesGiven'
    <3>1. CASE UNCHANGED consensus
      BY <3>1 DEF GivenInv, SignaturesGiven
    <3>2. CASE ~UNCHANGED consensus
      <4>1. PICK p \in Procs : /\ pc[p] = "create"
                               /\ consensus' = consensus \cup
                                    {[task |-> job[p].task, content |-> job[p].content,
                                      epoch |-> job[p].epoch, sigs |-> ref[p].sigs,
                                      counted |-> ref[p].counted]}
        BY <1>2, <3>2, ConsensusMoves
      <4> DEFINE row == [task |-> job[p].task, content |-> job[p].content,
                         epoch |-> job[p].epoch, sigs |-> ref[p].sigs,
                         counted |-> ref[p].counted]
      <4>2. row.sigs = ref[p].sigs /\ row.task = job[p].task
        OBVIOUS
      <4>3. consensus' = consensus \cup {row}
        BY <4>1
      <4> HIDE DEF row
      <4>4. \A e \in row.sigs : e.task = row.task /\ Given(e)
        BY <4>1, <4>2 DEF GivenInv, GivenMaps, OwnMaps, Holding
      <4> QED BY <4>3, <4>4 DEF GivenInv, SignaturesGiven, Given
    <3> QED BY <3>1, <3>2
  <2> QED BY <2>2, <2>3, <2>4, <2>5 DEF GivenInv
<1> QED BY <1>1, <1>2

\* Every signature a consensus response holds was given by its operator for the task
\* of the row, with the content and epoch it was counted for: whatever peers deliver
\* (forwarded responses and lies among it), however often cleanup drops maps that
\* checks still hold and responses are stored again, and wherever the process dies.
THEOREM GivenCorrect == Spec => []SignaturesGiven
<1>1. GivenInv => SignaturesGiven
  BY DEF GivenInv
<1>2. Spec => [](TypeInv /\ TruthInv)
  BY TypeInit, TypeStep, TruthInit, TruthStep, PTL DEF Spec
<1> QED BY <1>1, <1>2, GivenInit, GivenStep, PTL DEF Spec

============================================================================
