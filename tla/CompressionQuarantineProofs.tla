----------------------- MODULE CompressionQuarantineProofs -----------------------
(***************************************************************************)
(* Proofs about CompressionQuarantine, for any number of calls and         *)
(* threads.  Every step touches one call, so a count changes by what the   *)
(* call adds or takes; that the flags tell which of the two happens is     *)
(* what the inductive invariant adds.                                      *)
(***************************************************************************)
EXTENDS CompressionQuarantine, FiniteSetTheorems, SequenceTheorems, TLAPS

USE DEF vars, loopVars, flagVars, gaugeVars, ghostVars, Waiter, Worker

-----------------------------------------------------------------------------
(* Counting *)

One(p) == IF p THEN 1 ELSE 0

\* Two finite sets that differ at most in c differ in size by that.
LEMMA CountChange ==
    ASSUME NEW S, NEW T, NEW c, IsFiniteSet(S), \A x : x # c => (x \in S <=> x \in T)
    PROVE  /\ IsFiniteSet(T) /\ Cardinality(S) \in Nat /\ Cardinality(T) \in Nat
           /\ Cardinality(T) = Cardinality(S) + One(c \in T) - One(c \in S)
<1>1. Cardinality(S) \in Nat
  BY FS_CardinalityType
<1>2. CASE c \in S <=> c \in T
  <2>1. S = T
    BY <1>2
  <2> QED
    BY <1>1, <2>1 DEF One
<1>3. CASE c \in T /\ c \notin S
  <2>1. T = S \union {c}
    BY <1>3
  <2> QED
    BY <1>1, <1>3, <2>1, FS_AddElement DEF One
<1>4. CASE c \in S /\ c \notin T
  <2>1. T = S \ {c}
    BY <1>4
  <2> QED
    BY <1>1, <1>4, <2>1, FS_RemoveElement, FS_CardinalityType DEF One
<1> QED
  BY <1>2, <1>3, <1>4

\* A step of call c alone.
OnlyOf(c) ==
    \A x \in Calls \ {c} :
        waiter'[x] = waiter[x] /\ worker'[x] = worker[x] /\ timedOut'[x] = timedOut[x]

\* A step of one call moves the numbers of outliving and of waiting jobs by at most one.
LEMMA CountsOfStep ==
    ASSUME NEW c \in Calls, OnlyOf(c)
    PROVE  /\ Cardinality(Outliving) \in Nat /\ Cardinality(Waiting) \in Nat
           /\ Cardinality(Outliving') = Cardinality(Outliving)
                                       + One(c \in Outliving') - One(c \in Outliving)
           /\ Cardinality(Waiting') = Cardinality(Waiting)
                                     + One(c \in Waiting') - One(c \in Waiting)
<1>1. IsFiniteSet(Outliving) /\ IsFiniteSet(Waiting)
  BY QuarantineCallsAssumption, FS_Subset DEF Outliving, Waiting
<1>2. \A x : x # c => (x \in Outliving <=> x \in Outliving')
  BY DEF OnlyOf, Outliving
<1>3. \A x : x # c => (x \in Waiting <=> x \in Waiting')
  BY DEF OnlyOf, Waiting
<1> QED
  BY <1>1, <1>2, <1>3, CountChange

\* Noting a debt keeps the types, whoever notes it.
LEMMA NoteDebtTypes ==
    ASSUME TypeOK, NEW c \in Calls, NEW late, NEW started, NoteDebt(c, late, started)
    PROVE  debtNoted' \in [Calls -> BOOLEAN] /\ debt' \in Int /\ slipped' \in Nat
<1>1. CASE Owes(c, late, started)
  <2>1. debtNoted' = [debtNoted EXCEPT ![c] = TRUE]
    BY <1>1 DEF NoteDebt
  <2>2. debtNoted' \in [Calls -> BOOLEAN]
    BY <2>1 DEF TypeOK
  <2>3. debt' = debt + 1 /\ slipped' = IF debt = 0 THEN 0 ELSE slipped
    BY <1>1 DEF NoteDebt
  <2> QED
    BY <2>2, <2>3 DEF TypeOK
<1>2. CASE ~Owes(c, late, started)
  BY <1>2 DEF NoteDebt, TypeOK
<1> QED
  BY <1>1, <1>2

-----------------------------------------------------------------------------
(* The inductive invariant *)

\* The proxy starts with no job, no debt and an empty gauge.
LEMMA InitInv == Init => IndInv
<1> SUFFICES ASSUME Init PROVE IndInv
  OBVIOUS
<1> USE DEF Init
<1>1. Outliving = {} /\ Waiting = {} /\ Cardinality({}) = 0
  BY FS_EmptySet DEF Outliving, Waiting
<1>2. <<>> \in Seq(Calls) /\ Len(<<>>) = 0
  OBVIOUS
<1>3. TypeOK
  BY <1>2 DEF TypeOK
<1>4. SidesOK /\ PoolDistinct
  BY <1>2 DEF SidesOK, PoolDistinct, InPool
<1>5. FlagsOK
  BY <1>1 DEF FlagsOK
<1>6. DebtIsExact /\ GaugeIsExact /\ OneLooks
  BY <1>1 DEF DebtIsExact, GaugeIsExact, OneLooks
<1> QED
  BY <1>3, <1>4, <1>5, <1>6 DEF IndInv

\* A call looks at the debt while no other call is past its look.
LEMMA CheckInv ==
    ASSUME IndInv, NEW c \in Calls, Check(c)
    PROVE  IndInv'
<1> USE DEF Check, Clear
<1>1. TypeOK'
  BY DEF IndInv, TypeOK
<1>2. OnlyOf(c)
  BY DEF IndInv, TypeOK, OnlyOf
<1>3. SidesOK'
  BY DEF IndInv, TypeOK, SidesOK, InPool, LoopFree
<1>4. PoolDistinct'
  BY DEF IndInv, PoolDistinct
<1>5. FlagsOK'
  BY DEF IndInv, TypeOK, SidesOK, FlagsOK, Outliving, Waiting, LoopFree
<1>6. DebtIsExact'
  BY <1>2, CountsOfStep DEF IndInv, TypeOK, SidesOK, FlagsOK, DebtIsExact, Outliving, One
<1>7. GaugeIsExact'
  <2>1. c \notin Waiting /\ c \notin Waiting'
    BY DEF IndInv, TypeOK, SidesOK, Waiting
  <2>2. Cardinality(Waiting') = Cardinality(Waiting)
    BY <1>2, <2>1, CountsOfStep DEF One
  <2> QED
    BY <2>2 DEF IndInv, GaugeIsExact
<1>8. OneLooks'
  BY DEF IndInv, TypeOK, OneLooks, LoopFree
<1> QED
  BY <1>1, <1>3, <1>4, <1>5, <1>6, <1>7, <1>8 DEF IndInv

\* The result is in time.
LEMMA ReturnInv ==
    ASSUME IndInv, NEW c \in Calls, Return(c)
    PROVE  IndInv'
<1> USE DEF Return
<1>1. TypeOK'
  BY DEF IndInv, TypeOK
<1>2. OnlyOf(c)
  BY DEF IndInv, TypeOK, OnlyOf
<1>3. SidesOK'
  BY DEF IndInv, TypeOK, SidesOK, InPool, LoopFree
<1>4. PoolDistinct'
  BY DEF IndInv, PoolDistinct
<1>5. FlagsOK'
  BY DEF IndInv, TypeOK, SidesOK, FlagsOK, Outliving, Waiting, LoopFree
<1>6. DebtIsExact'
  BY <1>2, CountsOfStep DEF IndInv, TypeOK, SidesOK, FlagsOK, DebtIsExact, Outliving, One
<1>7. GaugeIsExact'
  <2>1. c \notin Waiting /\ c \notin Waiting'
    BY DEF IndInv, TypeOK, SidesOK, Waiting
  <2>2. Cardinality(Waiting') = Cardinality(Waiting)
    BY <1>2, <2>1, CountsOfStep DEF One
  <2> QED
    BY <2>2 DEF IndInv, GaugeIsExact
<1>8. OneLooks'
  BY DEF IndInv, TypeOK, OneLooks, LoopFree
<1> QED
  BY <1>1, <1>3, <1>4, <1>5, <1>6, <1>7, <1>8 DEF IndInv

\* The call is late; its item is cancelled if no thread has it.
LEMMA ExpireInv ==
    ASSUME IndInv, NEW c \in Calls, Expire(c)
    PROVE  IndInv'
<1> USE DEF Expire, CancelItem
<1>1. TypeOK'
  BY DEF IndInv, TypeOK
<1>2. OnlyOf(c)
  BY DEF IndInv, TypeOK, OnlyOf
<1>3. SidesOK'
  BY DEF IndInv, TypeOK, SidesOK, InPool, LoopFree
<1>4. PoolDistinct'
  BY DEF IndInv, PoolDistinct
<1>5. FlagsOK'
  BY DEF IndInv, TypeOK, SidesOK, FlagsOK, Outliving, Waiting, LoopFree
<1>6. DebtIsExact'
  BY <1>2, CountsOfStep DEF IndInv, TypeOK, SidesOK, FlagsOK, DebtIsExact, Outliving, One
<1>7. GaugeIsExact'
  <2>1. c \in Waiting' <=> c \in Waiting
    BY DEF IndInv, TypeOK, SidesOK, Waiting
  <2>2. Cardinality(Waiting') = Cardinality(Waiting)
    BY <1>2, <2>1, CountsOfStep DEF One
  <2> QED
    BY <2>2 DEF IndInv, GaugeIsExact
<1>8. OneLooks'
  BY DEF IndInv, TypeOK, OneLooks, LoopFree
<1> QED
  BY <1>1, <1>3, <1>4, <1>5, <1>6, <1>7, <1>8 DEF IndInv

\* The call is given up, and owed if its worker runs.
LEMMA RecordTimeoutInv ==
    ASSUME IndInv, NEW c \in Calls, RecordTimeout(c)
    PROVE  IndInv'
<1> USE DEF RecordTimeout, NoteDebt, Owes, Started, Unqueues
<1>1. TypeOK'
  <2> USE DEF IndInv, TypeOK
  <2>1. waiter' \in [Calls -> {"none", "checked", "waiting", "expired", "done"}]
        /\ worker' \in [Calls -> {"none", "pooled", "picked", "running", "finished", "cancelled"}]
    OBVIOUS
  <2>2. queued' \in [Calls -> BOOLEAN] /\ timedOut' \in [Calls -> BOOLEAN]
    OBVIOUS
  <2>3. debtNoted' \in [Calls -> BOOLEAN] /\ debt' \in Int /\ slipped' \in Nat
    <3>1. NoteDebt(c, TRUE, Started(c))
      BY DEF RecordTimeout
    <3> HIDE DEF NoteDebt, Owes, RecordTimeout
    <3> QED
      BY <3>1, NoteDebtTypes
  <2>4. gauge' \in Int /\ inFlight' \in Int
    OBVIOUS
  <2> QED
    BY <2>1, <2>2, <2>3, <2>4
<1>2. OnlyOf(c)
  BY DEF IndInv, TypeOK, OnlyOf
<1>3. SidesOK'
  BY DEF IndInv, TypeOK, SidesOK, InPool, LoopFree
<1>4. PoolDistinct'
  BY DEF IndInv, PoolDistinct
<1>5. FlagsOK'
  BY DEF IndInv, TypeOK, SidesOK, FlagsOK, Outliving, Waiting, LoopFree
<1>6. DebtIsExact'
  BY <1>2, CountsOfStep DEF IndInv, TypeOK, SidesOK, FlagsOK, DebtIsExact, Outliving, One
<1>7. GaugeIsExact'
  <2>1. c \in Waiting <=> queued[c]
    BY DEF IndInv, TypeOK, SidesOK, FlagsOK, Waiting
  <2>2. c \notin Waiting'
    BY DEF IndInv, TypeOK, SidesOK, Waiting
  <2>3. gauge' = (IF queued[c] THEN gauge - 1 ELSE gauge) /\ leaked' = leaked
    OBVIOUS
  <2>4. Cardinality(Waiting') = Cardinality(Waiting) + One(c \in Waiting') - One(c \in Waiting)
        /\ Cardinality(Waiting) \in Nat
    BY <1>2, CountsOfStep
  <2>5. gauge \in Int /\ leaked \in Nat /\ gauge = leaked + Cardinality(Waiting)
    BY DEF IndInv, TypeOK, GaugeIsExact
  <2> QED
    BY <2>1, <2>2, <2>3, <2>4, <2>5 DEF GaugeIsExact, One
<1>8. OneLooks'
  BY DEF IndInv, TypeOK, OneLooks, LoopFree
<1> QED
  BY <1>1, <1>3, <1>4, <1>5, <1>6, <1>7, <1>8 DEF IndInv

\* The request is cancelled, and the gauge keeps what was queued.
LEMMA CancelCallInv ==
    ASSUME IndInv, NEW c \in Calls, CancelCall(c)
    PROVE  IndInv'
<1> USE DEF CancelCall, CancelItem
<1>1. TypeOK'
  BY DEF IndInv, TypeOK
<1>2. OnlyOf(c)
  BY DEF IndInv, TypeOK, OnlyOf
<1>3. SidesOK'
  BY DEF IndInv, TypeOK, SidesOK, InPool, LoopFree
<1>4. PoolDistinct'
  BY DEF IndInv, PoolDistinct
<1>5. FlagsOK'
  BY DEF IndInv, TypeOK, SidesOK, FlagsOK, Outliving, Waiting, LoopFree
<1>6. DebtIsExact'
  BY <1>2, CountsOfStep DEF IndInv, TypeOK, SidesOK, FlagsOK, DebtIsExact, Outliving, One
<1>7. GaugeIsExact'
  <2>1. c \notin Waiting' <=> worker[c] \notin {"picked"}
    BY DEF IndInv, TypeOK, SidesOK, Waiting
  <2>2. c \in Waiting <=> worker[c] \in {"pooled", "picked", "cancelled"}
    BY DEF IndInv, TypeOK, SidesOK, Waiting
  <2>3. Cardinality(Waiting') = Cardinality(Waiting) + One(c \in Waiting') - One(c \in Waiting)
        /\ Cardinality(Waiting) \in Nat
    BY <1>2, CountsOfStep
  <2>4. CASE worker[c] \in {"pooled", "cancelled"}
    BY <2>1, <2>2, <2>3, <2>4 DEF IndInv, TypeOK, GaugeIsExact, One
  <2>5. CASE worker[c] \notin {"pooled", "cancelled"}
    BY <2>1, <2>2, <2>3, <2>5 DEF IndInv, TypeOK, GaugeIsExact, One
  <2> QED
    BY <2>4, <2>5
<1>8. OneLooks'
  BY DEF IndInv, TypeOK, OneLooks, LoopFree
<1> QED
  BY <1>1, <1>3, <1>4, <1>5, <1>6, <1>7, <1>8 DEF IndInv

\* The worker starts, and owes if its call is late already.
LEMMA StartInv ==
    ASSUME IndInv, NEW c \in Calls, Start(c)
    PROVE  IndInv'
<1> USE DEF Start, NoteDebt, Owes, LateAtStart, Unqueues
<1>1. TypeOK'
  <2> USE DEF IndInv, TypeOK
  <2>1. waiter' \in [Calls -> {"none", "checked", "waiting", "expired", "done"}]
        /\ worker' \in [Calls -> {"none", "pooled", "picked", "running", "finished", "cancelled"}]
    OBVIOUS
  <2>2. queued' \in [Calls -> BOOLEAN] /\ timedOut' \in [Calls -> BOOLEAN]
    OBVIOUS
  <2>3. debtNoted' \in [Calls -> BOOLEAN] /\ debt' \in Int /\ slipped' \in Nat
    <3>1. NoteDebt(c, LateAtStart(c), TRUE)
      BY DEF Start
    <3> HIDE DEF NoteDebt, Owes, Start
    <3> QED
      BY <3>1, NoteDebtTypes
  <2>4. gauge' \in Int /\ inFlight' \in Int
    OBVIOUS
  <2> QED
    BY <2>1, <2>2, <2>3, <2>4
<1>2. OnlyOf(c)
  BY DEF IndInv, TypeOK, OnlyOf
<1>3. SidesOK'
  BY DEF IndInv, TypeOK, SidesOK, InPool, LoopFree
<1>4. PoolDistinct'
  BY DEF IndInv, PoolDistinct
<1>5. FlagsOK'
  BY DEF IndInv, TypeOK, SidesOK, FlagsOK, Outliving, Waiting, LoopFree
<1>6. DebtIsExact'
  BY <1>2, CountsOfStep DEF IndInv, TypeOK, SidesOK, FlagsOK, DebtIsExact, Outliving, One
<1>7. GaugeIsExact'
  <2>1. c \in Waiting <=> queued[c]
    BY DEF IndInv, TypeOK, SidesOK, FlagsOK, Waiting
  <2>2. c \notin Waiting'
    BY DEF IndInv, TypeOK, SidesOK, Waiting
  <2>3. gauge' = (IF queued[c] THEN gauge - 1 ELSE gauge) /\ leaked' = leaked
    OBVIOUS
  <2>4. Cardinality(Waiting') = Cardinality(Waiting) + One(c \in Waiting') - One(c \in Waiting)
        /\ Cardinality(Waiting) \in Nat
    BY <1>2, CountsOfStep
  <2>5. gauge \in Int /\ leaked \in Nat /\ gauge = leaked + Cardinality(Waiting)
    BY DEF IndInv, TypeOK, GaugeIsExact
  <2> QED
    BY <2>1, <2>2, <2>3, <2>4, <2>5 DEF GaugeIsExact, One
<1>8. OneLooks'
  BY DEF IndInv, TypeOK, OneLooks, LoopFree
<1> QED
  BY <1>1, <1>3, <1>4, <1>5, <1>6, <1>7, <1>8 DEF IndInv

\* The worker ends and settles what it owes.
LEMMA FinishInv ==
    ASSUME IndInv, NEW c \in Calls, Finish(c)
    PROVE  IndInv'
<1> USE DEF Finish
<1>1. TypeOK'
  BY DEF IndInv, TypeOK
<1>2. OnlyOf(c)
  BY DEF IndInv, TypeOK, OnlyOf
<1>3. SidesOK'
  BY DEF IndInv, TypeOK, SidesOK, InPool, LoopFree
<1>4. PoolDistinct'
  BY DEF IndInv, PoolDistinct
<1>5. FlagsOK'
  BY DEF IndInv, TypeOK, SidesOK, FlagsOK, Outliving, Waiting, LoopFree
<1>6. DebtIsExact'
  BY <1>2, CountsOfStep DEF IndInv, TypeOK, SidesOK, FlagsOK, DebtIsExact, Outliving, One
<1>7. GaugeIsExact'
  <2>1. c \notin Waiting /\ c \notin Waiting'
    BY DEF IndInv, TypeOK, SidesOK, Waiting
  <2>2. Cardinality(Waiting') = Cardinality(Waiting)
    BY <1>2, <2>1, CountsOfStep DEF One
  <2> QED
    BY <2>2 DEF IndInv, GaugeIsExact
<1>8. OneLooks'
  BY DEF IndInv, TypeOK, OneLooks, LoopFree
<1> QED
  BY <1>1, <1>3, <1>4, <1>5, <1>6, <1>7, <1>8 DEF IndInv

\* The slot is free for a new call.
LEMMA RecycleInv ==
    ASSUME IndInv, NEW c \in Calls, Recycle(c)
    PROVE  IndInv'
<1> USE DEF Recycle
<1>1. TypeOK'
  BY DEF IndInv, TypeOK
<1>2. OnlyOf(c)
  BY DEF IndInv, TypeOK, OnlyOf
<1>3. SidesOK'
  BY DEF IndInv, TypeOK, SidesOK, InPool, LoopFree
<1>4. PoolDistinct'
  BY DEF IndInv, PoolDistinct
<1>5. FlagsOK'
  BY DEF IndInv, TypeOK, SidesOK, FlagsOK, Outliving, Waiting, LoopFree
<1>6. DebtIsExact'
  BY <1>2, CountsOfStep DEF IndInv, TypeOK, SidesOK, FlagsOK, DebtIsExact, Outliving, One
<1>7. GaugeIsExact'
  <2>1. c \notin Waiting /\ c \notin Waiting'
    BY DEF IndInv, TypeOK, SidesOK, Waiting
  <2>2. Cardinality(Waiting') = Cardinality(Waiting)
    BY <1>2, <2>1, CountsOfStep DEF One
  <2> QED
    BY <2>2 DEF IndInv, GaugeIsExact
<1>8. OneLooks'
  BY DEF IndInv, TypeOK, OneLooks, LoopFree
<1> QED
  BY <1>1, <1>3, <1>4, <1>5, <1>6, <1>7, <1>8 DEF IndInv

\* A call goes to the end of the queue, and slips past a debt at most once.
LEMMA SubmitInv ==
    ASSUME IndInv, NEW c \in Calls, Submit(c)
    PROVE  IndInv'
<1> USE DEF Submit
<1>1. /\ pool' \in Seq(Calls) /\ Len(pool') = Len(pool) + 1 /\ Len(pool) \in Nat
      /\ \A i \in 1..Len(pool) : pool'[i] = pool[i]
      /\ pool'[Len(pool) + 1] = c
  BY DEF IndInv, TypeOK
<1>2. TypeOK'
  BY <1>1 DEF IndInv, TypeOK
<1>3. OnlyOf(c)
  BY DEF IndInv, TypeOK, OnlyOf
<1>4. \A x \in Calls : InPool(x)' <=> InPool(x) \/ x = c
  <2>1. ASSUME NEW x \in Calls, NEW i \in 1..Len(pool'), pool'[i] = x, x # c
        PROVE  \E j \in 1..Len(pool) : pool[j] = x
    BY <1>1, <2>1
  <2>2. ASSUME NEW x \in Calls, NEW i \in 1..Len(pool), pool[i] = x
        PROVE  \E j \in 1..Len(pool') : pool'[j] = x
    BY <1>1, <2>2
  <2>3. \E j \in 1..Len(pool') : pool'[j] = c
    BY <1>1
  <2> QED
    BY <2>1, <2>2, <2>3 DEF InPool
<1>5. ~InPool(c)
  BY DEF IndInv, SidesOK
<1>6. SidesOK'
  <2>1. ASSUME NEW x \in Calls, x # c
        PROVE  /\ waiter'[x] = waiter[x] /\ worker'[x] = worker[x]
               /\ timedOut'[x] = timedOut[x] /\ (InPool(x)' <=> InPool(x))
    BY <1>4, <2>1 DEF IndInv, TypeOK
  <2>2. waiter'[c] = "waiting" /\ worker'[c] = "pooled" /\ InPool(c)' /\ ~timedOut'[c]
    BY <1>4 DEF IndInv, TypeOK, SidesOK
  <2> QED
    BY <2>1, <2>2 DEF IndInv, SidesOK
<1>7. PoolDistinct'
  <2>1. \A i \in 1..Len(pool) : pool[i] # c
    BY <1>5 DEF InPool
  <2>2. ASSUME NEW i \in 1..Len(pool'), NEW j \in 1..Len(pool'), pool'[i] = pool'[j]
        PROVE  i = j
    <3> HIDE DEF Submit
    <3>1. CASE i \in 1..Len(pool) /\ j \in 1..Len(pool)
      BY <1>1, <2>2, <3>1 DEF IndInv, PoolDistinct
    <3>2. CASE i = Len(pool) + 1 \/ j = Len(pool) + 1
      BY <1>1, <2>1, <2>2, <3>2
    <3> QED
      BY <1>1, <3>1, <3>2
  <2> QED
    BY <2>2 DEF PoolDistinct
<1>8. FlagsOK'
  BY DEF IndInv, TypeOK, SidesOK, FlagsOK, Outliving, Waiting
<1>9. DebtIsExact'
  BY <1>3, CountsOfStep DEF IndInv, TypeOK, SidesOK, FlagsOK, DebtIsExact, Outliving, One
<1>10. GaugeIsExact'
  <2>1. c \in Waiting' /\ c \notin Waiting
    BY DEF IndInv, TypeOK, SidesOK, Waiting
  <2>2. Cardinality(Waiting') = Cardinality(Waiting) + 1 /\ Cardinality(Waiting) \in Nat
    BY <1>3, <2>1, CountsOfStep DEF One
  <2> QED
    BY <2>2 DEF IndInv, TypeOK, GaugeIsExact
<1>11. OneLooks'
  BY DEF IndInv, TypeOK, OneLooks
<1> QED
  BY <1>2, <1>6, <1>7, <1>8, <1>9, <1>10, <1>11 DEF IndInv

\* A thread takes the first item: the call is no longer in the queue.
LEMMA PickInv ==
    ASSUME IndInv, Pick
    PROVE  IndInv'
<1> USE DEF Pick
<1>0. PICK c \in Calls : c = Head(pool)
  BY DEF IndInv, TypeOK
<1>1. /\ pool' \in Seq(Calls) /\ Len(pool') = Len(pool) - 1 /\ Len(pool) \in Nat
      /\ Len(pool) >= 1 /\ c = pool[1]
      /\ \A i \in 1..Len(pool') : pool'[i] = pool[i + 1] /\ i + 1 \in 1..Len(pool)
  BY <1>0 DEF IndInv, TypeOK
<1>2. TypeOK'
  BY <1>0, <1>1 DEF IndInv, TypeOK
<1>4. PoolDistinct'
  <2>1. ASSUME NEW i \in 1..Len(pool'), NEW j \in 1..Len(pool'), pool'[i] = pool'[j]
        PROVE  i = j
    <3>1. i + 1 = j + 1 /\ i \in Int /\ j \in Int
      BY <1>1, <2>1 DEF IndInv, PoolDistinct
    <3> QED
      BY <3>1
  <2> QED
    BY <2>1 DEF PoolDistinct
<1>5. \A x \in Calls : InPool(x)' <=> InPool(x) /\ x # c
  <2>1. ASSUME NEW x \in Calls, NEW i \in 1..Len(pool'), pool'[i] = x
        PROVE  (\E j \in 1..Len(pool) : pool[j] = x) /\ x # c
    <3>1. pool[i + 1] = x /\ i + 1 \in 1..Len(pool) /\ i + 1 # 1 /\ 1 \in 1..Len(pool)
      BY <1>1, <2>1
    <3> QED
      BY <1>1, <3>1 DEF IndInv, PoolDistinct
  <2>2. ASSUME NEW x \in Calls, NEW i \in 1..Len(pool), pool[i] = x, x # c
        PROVE  \E j \in 1..Len(pool') : pool'[j] = x
    <3>1. i - 1 \in 1..Len(pool') /\ pool'[i - 1] = x
      BY <1>1, <2>2
    <3> QED
      BY <3>1
  <2> QED
    BY <2>1, <2>2 DEF InPool
<1>6. InPool(c) /\ worker[c] \in {"pooled", "cancelled"}
  <2>1. InPool(c)
    BY <1>1 DEF InPool
  <2> QED
    BY <1>1, <2>1 DEF IndInv, SidesOK
<1>7. worker' = IF worker[c] = "cancelled" THEN worker ELSE [worker EXCEPT ![c] = "picked"]
  BY <1>0
<1>8. SidesOK'
  <2>1. ASSUME NEW x \in Calls, x # c
        PROVE  worker'[x] = worker[x] /\ (InPool(x)' <=> InPool(x))
    BY <1>5, <1>7, <2>1 DEF IndInv, TypeOK
  <2>2. ~InPool(c)' /\ worker'[c] \in {"picked", "cancelled"}
        /\ (worker'[c] = "cancelled" <=> worker[c] = "cancelled")
    <3> HIDE DEF Pick
    <3>1. ~InPool(c)'
      BY <1>1, <1>5
    <3>2. worker[c] = "cancelled" \/ (worker[c] = "pooled" /\ worker'[c] = "picked")
      BY <1>1, <1>6, <1>7 DEF IndInv, TypeOK
    <3>3. worker[c] = "cancelled" => worker'[c] = "cancelled"
      BY <1>7
    <3> QED
      BY <3>1, <3>2, <3>3
  <2>3. waiter'  = waiter /\ timedOut' = timedOut
    OBVIOUS
  <2> HIDE DEF Pick
  <2> DEFINE Sides(x) ==
        /\ waiter[x] \in {"none", "checked"} <=> worker[x] = "none"
        /\ worker[x] = "cancelled" => waiter[x] \in {"expired", "done"}
        /\ waiter[x] = "expired" => worker[x] # "pooled"
        /\ waiter[x] = "done" => worker[x] # "pooled"
        /\ timedOut[x] => waiter[x] = "done"
        /\ InPool(x) => worker[x] \in {"pooled", "cancelled"}
        /\ worker[x] = "pooled" => InPool(x)
  <2>4. \A x \in Calls : Sides(x)
    BY DEF IndInv, SidesOK
  <2>5. ASSUME NEW x \in Calls, x # c
        PROVE  Sides(x)'
    BY <2>1, <2>3, <2>4, <2>5
  <2>6. Sides(c)'
    BY <1>6, <2>2, <2>3, <2>4
  <2> QED
    BY <2>5, <2>6 DEF SidesOK
<1>9. Outliving' = Outliving
  BY <1>1, <1>6, <1>7 DEF IndInv, TypeOK, Outliving
<1>10. Waiting' = Waiting
  BY <1>1, <1>6, <1>7 DEF IndInv, TypeOK, Waiting
<1>11. FlagsOK'
  BY <1>1, <1>6, <1>7, <1>9, <1>10 DEF IndInv, TypeOK, FlagsOK
<1>12. DebtIsExact' /\ GaugeIsExact'
  BY <1>9, <1>10 DEF IndInv, DebtIsExact, GaugeIsExact
<1>13. OneLooks'
  BY DEF IndInv, OneLooks
<1> QED
  BY <1>2, <1>4, <1>8, <1>11, <1>12, <1>13 DEF IndInv

\* Every step of a request, a pool thread or a timer keeps the invariant.
LEMMA NextInv == IndInv /\ [Next]_vars => IndInv'
<1> SUFFICES ASSUME IndInv, [Next]_vars PROVE IndInv'
  OBVIOUS
<1>1. CASE Pick
  BY <1>1, PickInv
<1>2. ASSUME NEW c \in Calls, Loop(c)
      PROVE  IndInv'
  <2>1. CASE Refuse(c)
    BY <2>1 DEF Refuse, IndInv, TypeOK, SidesOK, PoolDistinct, FlagsOK, DebtIsExact,
       GaugeIsExact, OneLooks, InPool, Outliving, Waiting
  <2> QED
    BY <1>2, <2>1, CheckInv, SubmitInv, ReturnInv, ExpireInv, RecordTimeoutInv, CancelCallInv
    DEF Loop
<1>3. ASSUME NEW c \in Calls, Thread(c)
      PROVE  IndInv'
  BY <1>3, StartInv, FinishInv DEF Thread
<1>4. ASSUME NEW c \in Calls, Recycle(c)
      PROVE  IndInv'
  BY <1>4, RecycleInv
<1>5. CASE UNCHANGED vars
  BY <1>5 DEF IndInv, TypeOK, SidesOK, PoolDistinct, FlagsOK, DebtIsExact,
     GaugeIsExact, OneLooks, InPool, Outliving, Waiting
<1> QED
  BY <1>1, <1>2, <1>3, <1>4, <1>5 DEF Next

-----------------------------------------------------------------------------
(* Theorems *)

\* The inductive invariant: the two sides of each call, its flags, the counts.
THEOREM QuarantineInvariance == Spec => []IndInv
<1>1. Init => IndInv
  BY InitInv
<1>2. IndInv /\ [Next]_vars => IndInv'
  BY NextInv
<1> QED
  BY <1>1, <1>2, PTL DEF Spec

\* _compression_timed_out_in_flight counts exactly the workers that outlive a
\* call recorded as timed out.
THEOREM ExactDebt == Spec => []DebtIsExact
<1>1. IndInv => DebtIsExact
  BY DEF IndInv
<1> QED
  BY <1>1, QuarantineInvariance, PTL

\* _compression_queued counts the calls that wait for a thread, and for good
\* the requests cancelled before one took their call.
THEOREM ExactGauge == Spec => []GaugeIsExact
<1>1. IndInv => GaugeIsExact
  BY DEF IndInv
<1> QED
  BY <1>1, QuarantineInvariance, PTL

\* At most one call gets past the quarantine that _run_compression_in_executor()
\* raises, whatever the number of calls.
THEOREM AtMostOneSlip == Spec => []OneSlip
<1>1. IndInv => OneSlip
  BY DEF IndInv, OneLooks, OneSlip
<1> QED
  BY <1>1, QuarantineInvariance, PTL
=============================================================================
