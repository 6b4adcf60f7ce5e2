--------------------------- MODULE ImagePoolProofs ---------------------------
(***************************************************************************)
(* Proofs about ImagePool, for any requests, any number of pools and any   *)
(* number of call items handed out ahead.  Whoever resets which pool, the  *)
(* queues of the pools and the states of the futures keep in step.         *)
(***************************************************************************)
EXTENDS ImagePool, SequenceTheorems, TLAPS

-----------------------------------------------------------------------------
(* Queues without repetition *)

Distinct(s) == \A i, j \in DOMAIN s : s[i] = s[j] => i = j

LEMMA AppendDistinct ==
    ASSUME NEW S, NEW s \in Seq(S), Distinct(s), NEW x \in S, x \notin ToSet(s)
    PROVE  /\ Append(s, x) \in Seq(S) /\ Distinct(Append(s, x))
           /\ ToSet(Append(s, x)) = ToSet(s) \union {x}
<1>1. /\ Append(s, x) \in Seq(S) /\ Len(s) \in Nat
      /\ DOMAIN s = 1..Len(s) /\ DOMAIN Append(s, x) = 1..(Len(s) + 1)
      /\ \A i \in 1..Len(s) : Append(s, x)[i] = s[i]
      /\ Append(s, x)[Len(s) + 1] = x
  OBVIOUS
<1>2. \A i \in 1..Len(s) : s[i] # x
  BY <1>1 DEF ToSet
<1>3. \A i \in DOMAIN Append(s, x) : i \in DOMAIN s \/ i = Len(s) + 1
  BY <1>1
<1>4. \A i \in DOMAIN s : i \in DOMAIN Append(s, x)
  BY <1>1
<1>5. Len(s) + 1 \in DOMAIN Append(s, x)
  BY <1>1
<1>6. Distinct(Append(s, x))
  BY <1>1, <1>2, <1>3 DEF Distinct
<1>7. ToSet(Append(s, x)) = ToSet(s) \union {x}
  BY <1>1, <1>3, <1>4, <1>5 DEF ToSet
<1> QED
  BY <1>1, <1>6, <1>7

LEMMA TailDistinct ==
    ASSUME NEW S, NEW s \in Seq(S), Distinct(s), s # <<>>
    PROVE  /\ Tail(s) \in Seq(S) /\ Distinct(Tail(s))
           /\ Head(s) \in ToSet(s) /\ ToSet(s) \subseteq S
           /\ ToSet(Tail(s)) = ToSet(s) \ {Head(s)}
<1>1. /\ Tail(s) \in Seq(S) /\ Len(s) \in Nat /\ Len(s) >= 1 /\ Head(s) = s[1]
      /\ DOMAIN s = 1..Len(s) /\ DOMAIN Tail(s) = 1..(Len(s) - 1)
      /\ \A i \in 1..(Len(s) - 1) : Tail(s)[i] = s[i + 1]
      /\ \A i \in 1..Len(s) : s[i] \in S
  OBVIOUS
<1>2. \A i \in DOMAIN Tail(s) : i + 1 \in DOMAIN s /\ i + 1 # 1
  BY <1>1
<1>3. \A i \in DOMAIN s : i # 1 => i - 1 \in DOMAIN Tail(s) /\ Tail(s)[i - 1] = s[i]
  BY <1>1
<1>4. 1 \in DOMAIN s
  BY <1>1
<1>5. Distinct(Tail(s))
  <2>1. ASSUME NEW i \in DOMAIN Tail(s), NEW j \in DOMAIN Tail(s), Tail(s)[i] = Tail(s)[j]
        PROVE  i = j
    <3>1. i + 1 = j + 1
      BY <1>1, <1>2, <2>1 DEF Distinct
    <3> QED
      BY <1>1, <3>1
  <2> QED
    BY <2>1 DEF Distinct
<1>6. ASSUME NEW x \in ToSet(Tail(s))
      PROVE  x \in ToSet(s) \ {Head(s)}
  <2>1. PICK i \in DOMAIN Tail(s) : x = s[i + 1]
    BY <1>1, <1>6 DEF ToSet
  <2> QED
    BY <1>1, <1>2, <1>4, <2>1 DEF ToSet, Distinct
<1>7. ASSUME NEW x \in ToSet(s) \ {Head(s)}
      PROVE  x \in ToSet(Tail(s))
  <2>1. PICK i \in DOMAIN s : x = s[i]
    BY <1>7 DEF ToSet
  <2>2. i # 1
    BY <1>1, <1>7, <2>1
  <2>3. i - 1 \in DOMAIN Tail(s) /\ Tail(s)[i - 1] = x
    BY <1>3, <2>1, <2>2
  <2> QED
    BY <2>3 DEF ToSet
<1>8. Head(s) \in ToSet(s) /\ ToSet(s) \subseteq S
  BY <1>1, <1>4 DEF ToSet
<1> QED
  BY <1>1, <1>5, <1>6, <1>7, <1>8

\* What a sequence is without position i.
LEMMA RemoveAtPositions ==
    ASSUME NEW S, NEW s \in Seq(S), NEW i \in 1..Len(s)
    PROVE  /\ RemoveAt(s, i) \in Seq(S) /\ Len(RemoveAt(s, i)) = Len(s) - 1
           /\ \A j \in 1..(Len(s) - 1) :
                 RemoveAt(s, i)[j] = IF j < i THEN s[j] ELSE s[j + 1]
<1> DEFINE L == SubSeq(s, 1, i - 1)
           R == SubSeq(s, i + 1, Len(s))
<1>1. Len(s) \in Nat /\ i \in Nat /\ i <= Len(s) /\ i >= 1
  OBVIOUS
<1>2. L \in Seq(S) /\ Len(L) = i - 1 /\ \A j \in 1..(i - 1) : L[j] = s[j]
  BY SubSeqProperties, ElementOfSeq
<1>3. /\ R \in Seq(S) /\ Len(R) = Len(s) - i
      /\ \A j \in 1..(Len(s) - i) : R[j] = s[i + j]
  BY SubSeqProperties, ElementOfSeq
<1> HIDE DEF L, R
<1>4. /\ L \o R \in Seq(S) /\ Len(L \o R) = Len(L) + Len(R)
      /\ \A j \in 1..(Len(L) + Len(R)) :
            (L \o R)[j] = IF j <= Len(L) THEN L[j] ELSE R[j - Len(L)]
  BY <1>2, <1>3, ConcatProperties
<1>5. Len(L) + Len(R) = Len(s) - 1
  <2>1. (i - 1) + (Len(s) - i) = Len(s) - 1
    BY <1>1
  <2> QED
    BY <1>2, <1>3, <2>1
<1>6. ASSUME NEW j \in 1..(Len(s) - 1)
      PROVE  (L \o R)[j] = IF j < i THEN s[j] ELSE s[j + 1]
  <2>1. CASE j < i
    <3>1. j \in 1..(i - 1) /\ j <= i - 1 /\ j \in 1..(Len(L) + Len(R))
      BY <1>1, <1>5, <2>1
    <3>2. (L \o R)[j] = L[j]
      BY <1>2, <1>4, <3>1
    <3> QED
      BY <1>2, <2>1, <3>1, <3>2
  <2>2. CASE ~(j < i)
    <3>1. /\ ~(j <= i - 1) /\ j - (i - 1) \in 1..(Len(s) - i)
          /\ i + (j - (i - 1)) = j + 1 /\ j \in 1..(Len(L) + Len(R))
      BY <1>1, <1>5, <2>2
    <3>2. (L \o R)[j] = R[j - (i - 1)]
      BY <1>2, <1>4, <3>1
    <3>3. R[j - (i - 1)] = s[i + (j - (i - 1))]
      BY <1>3, <3>1
    <3> QED
      BY <2>2, <3>1, <3>2, <3>3
  <2> QED
    BY <2>1, <2>2
<1>7. RemoveAt(s, i) = L \o R
  BY DEF RemoveAt, L, R
<1> QED
  BY <1>4, <1>5, <1>6, <1>7

LEMMA RemoveDistinct ==
    ASSUME NEW S, NEW s \in Seq(S), Distinct(s), NEW i \in DOMAIN s
    PROVE  /\ RemoveAt(s, i) \in Seq(S) /\ Distinct(RemoveAt(s, i))
           /\ ToSet(RemoveAt(s, i)) = ToSet(s) \ {s[i]}
<1> DEFINE t == RemoveAt(s, i)
           at(j) == IF j < i THEN j ELSE j + 1
<1>1. Len(s) \in Nat /\ DOMAIN s = 1..Len(s) /\ i \in 1..Len(s)
  OBVIOUS
<1>2. /\ t \in Seq(S) /\ Len(t) = Len(s) - 1
      /\ \A j \in 1..(Len(s) - 1) : t[j] = s[at(j)]
  BY <1>1, RemoveAtPositions
<1>3. DOMAIN t = 1..(Len(s) - 1)
  BY <1>1, <1>2
<1> HIDE DEF t
<1>4. \A j \in DOMAIN t : at(j) \in DOMAIN s /\ at(j) # i
  BY <1>1, <1>3
<1>5. \A j, k \in DOMAIN t : at(j) = at(k) => j = k
  BY <1>1, <1>3
<1>6. \A k \in DOMAIN s : k # i => \E j \in DOMAIN t : at(j) = k
  <2>1. ASSUME NEW k \in DOMAIN s, k # i
        PROVE  \E j \in DOMAIN t : at(j) = k
    <3>1. CASE k < i
      <4>1. k \in DOMAIN t /\ at(k) = k
        BY <1>1, <1>3, <3>1
      <4> QED
        BY <4>1
    <3>2. CASE k > i
      <4>1. k - 1 \in DOMAIN t /\ at(k - 1) = k
        BY <1>1, <1>3, <3>2
      <4> QED
        BY <4>1
    <3> QED
      BY <1>1, <2>1, <3>1, <3>2
  <2> QED
    BY <2>1
<1> HIDE DEF at
<1>7. Distinct(t)
  BY <1>2, <1>3, <1>4, <1>5 DEF Distinct
<1>8. ToSet(t) \subseteq ToSet(s) \ {s[i]}
  BY <1>2, <1>3, <1>4 DEF ToSet, Distinct
<1>9. ToSet(s) \ {s[i]} \subseteq ToSet(t)
  BY <1>2, <1>3, <1>6 DEF ToSet
<1> QED
  BY <1>2, <1>7, <1>8, <1>9 DEF t

LEMMA EmptyDistinct == Distinct(<<>>) /\ ToSet(<<>>) = {} /\ \A S : <<>> \in Seq(S)
BY DEF Distinct, ToSet
-----------------------------------------------------------------------------
(* The inductive invariant *)

USE DEF vars, Pools, None

Conditions == {"up", "shut", "broken"}
States     == {"none", "waiting", "result", "raised", "brokenPool", "cancelled"}
Answers    == {"none", "compressed", "original", "cancelled"}

Held(p) == ToSet(pending[p]) \union ToSet(taken[p])

TypesOK ==
    /\ created \in 0..MaxPools /\ current \in {None, created}
    /\ pending \in [Pools -> Seq(Requests)]
    /\ taken \in [Pools -> Seq(Requests)]
    /\ condition \in [Pools -> Conditions]
    /\ future \in [Requests -> [state : States, pool : 0..MaxPools]]
    /\ answer \in [Requests -> Answers]

\* No job is held twice, and what a pool holds waits for it; only what the
\* worker has got may have been given up by its request.
QueueOK(p) ==
    /\ Distinct(pending[p]) /\ Distinct(taken[p])
    /\ ToSet(pending[p]) \intersect ToSet(taken[p]) = {}
    /\ \A r \in Held(p) : future[r].state = "waiting" /\ future[r].pool = p
    /\ \A r \in ToSet(pending[p]) : answer[r] = "none"

\* Some request of pool p or an older one was sent on with its original messages.
FailedBy(p) == \E q \in Requests : answer[q] = "original" /\ future[q].pool \in 1..p

PoolOK(p) ==
    /\ p > created => condition[p] = "up" /\ Held(p) = {}
    /\ condition[p] = "broken" => Held(p) = {}
    /\ condition[p] = "shut" => FailedBy(p)

FutureOK(r) ==
    /\ future[r].state = "none" => future[r] = NoFuture
    /\ future[r].state # "none" => future[r].pool \in 1..created
    /\ answer[r] = "none" /\ future[r].state = "waiting" => r \in Held(future[r].pool)
    /\ future[r].state = "cancelled" => FailedBy(future[r].pool)
    /\ answer[r] = "cancelled" => future[r].state = "cancelled"

IndInv ==
    /\ TypesOK
    /\ \A p \in Pools : QueueOK(p) /\ PoolOK(p)
    /\ \A r \in Requests : FutureOK(r)
    /\ NoPoolLeaks

\* Only requests have jobs in a pool.
LEMMA HeldAreRequests ==
    ASSUME TypesOK, NEW p \in Pools
    PROVE  ToSet(pending[p]) \subseteq Requests /\ Held(p) \subseteq Requests
<1>1. pending[p] \in Seq(Requests) /\ taken[p] \in Seq(Requests)
  BY DEF TypesOK
<1>2. ASSUME NEW s \in Seq(Requests)
      PROVE  ToSet(s) \subseteq Requests
  BY <1>2 DEF ToSet
<1> QED
  BY <1>1, <1>2 DEF Held

LEMMA InitInv ==
    ASSUME MaxPools \in Nat, Init
    PROVE  IndInv
<1>1. TypesOK
  BY EmptyDistinct DEF Init, TypesOK, NoFuture, States, Conditions, Answers
<1>2. ASSUME NEW p \in Pools
      PROVE  QueueOK(p) /\ PoolOK(p)
  BY <1>2, EmptyDistinct DEF Init, QueueOK, PoolOK, Held
<1>3. \A r \in Requests : FutureOK(r)
  BY DEF Init, FutureOK, NoFuture
<1>4. NoPoolLeaks
  BY DEF Init, NoPoolLeaks
<1> QED
  BY <1>1, <1>2, <1>3, <1>4 DEF IndInv

\* Whoever failed stays failed.
LEMMA FailuresLast ==
    ASSUME IndInv, NEW p,
           \A q \in Requests : answer[q] # "none" => answer'[q] = answer[q],
           \A q \in Requests : future[q].pool # None => future'[q].pool = future[q].pool,
           FailedBy(p)
    PROVE  FailedBy(p)'
BY DEF FailedBy
\* A request that goes on with an answer of its own leaves the queues alone.
LEMMA AnswerTypes ==
    ASSUME TypesOK, NEW r \in Requests, NEW a \in Answers, Answer(r, a)
    PROVE  /\ answer' \in [Requests -> Answers] /\ answer'[r] = a
           /\ \A q \in Requests \ {r} : answer'[q] = answer[q]
BY DEF TypesOK, Answer

\* A job submitted to a broken pool is not taken, and the pool is replaced.
LEMMA RefusedInv ==
    ASSUME MaxPools \in Nat, IndInv, NEW r \in Requests, Submit(r),
           current # None, condition[current] = "broken"
    PROVE  IndInv'
<1>1. /\ answer[r] = "none" /\ future[r] = NoFuture
      /\ Answer(r, "original") /\ current' = None /\ condition' = condition
      /\ created' = created /\ pending' = pending /\ future' = future /\ taken' = taken
  BY DEF Submit, Reset
<1>2. TypesOK
  BY DEF IndInv
<1>3. /\ answer' \in [Requests -> Answers] /\ answer'[r] = "original"
      /\ \A q \in Requests \ {r} : answer'[q] = answer[q]
  BY <1>1, <1>2, AnswerTypes DEF Answers
<1>4. ASSUME NEW p, FailedBy(p)
      PROVE  FailedBy(p)'
  BY <1>1, <1>3, <1>4 DEF FailedBy
<1>5. TypesOK'
  BY <1>1, <1>2, <1>3 DEF TypesOK
<1>6. ASSUME NEW p \in Pools
      PROVE  QueueOK(p)' /\ PoolOK(p)'
  <2>1. QueueOK(p) /\ PoolOK(p)
    BY DEF IndInv
  <2>2. Held(p)' = Held(p) /\ Held(p) \subseteq Requests
    BY <1>1, <1>2 DEF Held, TypesOK, ToSet
  <2>3. r \notin Held(p)
    BY <1>1, <2>1 DEF QueueOK, NoFuture
  <2>4. QueueOK(p)'
    BY <1>1, <1>3, <2>1, <2>2, <2>3 DEF QueueOK, Held
  <2>5. PoolOK(p)'
    BY <1>1, <1>4, <2>1, <2>2 DEF PoolOK
  <2> QED
    BY <2>4, <2>5
<1>7. ASSUME NEW q \in Requests
      PROVE  FutureOK(q)'
  <2>1. FutureOK(q)
    BY DEF IndInv
  <2>2. \A p : Held(p)' = Held(p)
    BY <1>1 DEF Held
  <2> QED
    BY <1>1, <1>3, <1>4, <2>1, <2>2 DEF FutureOK, NoFuture
<1>8. NoPoolLeaks'
  BY <1>1 DEF NoPoolLeaks, IndInv
<1> QED
  BY <1>5, <1>6, <1>7, <1>8 DEF IndInv

\* A job submitted to the current pool, or to a new one, is its last.
LEMMA AcceptedInv ==
    ASSUME MaxPools \in Nat, IndInv, NEW r \in Requests, Submit(r),
           current = None \/ condition[current] # "broken"
    PROVE  IndInv'
<1>1. PICK p \in Pools :
         /\ p = IF current = None THEN created + 1 ELSE current
         /\ current' = p /\ created' = IF current = None THEN p ELSE created
         /\ pending' = [pending EXCEPT ![p] = Append(@, r)]
         /\ future' = [future EXCEPT ![r] = [state |-> "waiting", pool |-> p]]
         /\ UNCHANGED <<condition, answer, taken>>
  BY DEF Submit
<1>2. answer[r] = "none" /\ future[r] = NoFuture
  BY DEF Submit
<1>3. TypesOK /\ QueueOK(p) /\ PoolOK(p)
  BY DEF IndInv
<1>4. created' = p /\ created' \in 0..MaxPools /\ created \in Nat /\ created <= created'
  BY <1>1, <1>3 DEF TypesOK
<1>5. \A x \in Pools : r \notin Held(x)
  BY <1>2 DEF IndInv, QueueOK, NoFuture
<1>6. /\ pending'[p] \in Seq(Requests) /\ Distinct(pending'[p])
      /\ ToSet(pending'[p]) = ToSet(pending[p]) \union {r}
  BY <1>1, <1>3, <1>5, AppendDistinct DEF TypesOK, QueueOK, Held
<1>7. \A x \in Pools \ {p} : pending'[x] = pending[x]
  BY <1>1, <1>3 DEF TypesOK
<1>8. /\ future'[r].state = "waiting" /\ future'[r].pool = p
      /\ \A q \in Requests \ {r} : future'[q] = future[q]
  BY <1>1, <1>3 DEF TypesOK
<1>9. condition[p] # "broken"
  BY <1>1, <1>3, <1>4 DEF PoolOK
<1>10. ASSUME NEW x, FailedBy(x)
       PROVE  FailedBy(x)'
  BY <1>1, <1>2, <1>8, <1>10 DEF FailedBy
<1>11. TypesOK'
  <2>1. pending' \in [Pools -> Seq(Requests)]
    BY <1>1, <1>3, <1>6 DEF TypesOK
  <2>2. future' \in [Requests -> [state : States, pool : 0..MaxPools]]
    BY <1>1, <1>3 DEF TypesOK, States
  <2> QED
    BY <1>1, <1>3, <1>4, <2>1, <2>2 DEF TypesOK
<1>12. ASSUME NEW x \in Pools
       PROVE  QueueOK(x)' /\ PoolOK(x)'
  <2>1. QueueOK(x) /\ PoolOK(x) /\ Held(x) \subseteq Requests \ {r}
    BY <1>3, <1>5, HeldAreRequests DEF IndInv
  <2>2. CASE x # p
    <3>1. pending'[x] = pending[x] /\ taken'[x] = taken[x] /\ Held(x)' = Held(x)
      BY <1>1, <1>7, <2>2 DEF Held
    <3>2. QueueOK(x)'
      BY <1>1, <1>8, <2>1, <3>1 DEF QueueOK
    <3>3. x > created' => x > created
      BY <1>4
    <3> QED
      BY <1>1, <1>10, <2>1, <3>1, <3>2, <3>3 DEF PoolOK
  <2>3. CASE x = p
    <3>1. Held(p)' = Held(p) \union {r}
      BY <1>1, <1>6 DEF Held
    <3>2. QueueOK(p)'
      BY <1>1, <1>2, <1>5, <1>6, <1>8, <2>1, <2>3, <3>1 DEF QueueOK, Held
    <3>3. ~(p > created')
      BY <1>4
    <3> QED
      BY <1>1, <1>9, <1>10, <2>1, <2>3, <3>2, <3>3 DEF PoolOK
  <2> QED
    BY <2>2, <2>3
<1>13. ASSUME NEW q \in Requests
       PROVE  FutureOK(q)'
  <2>1. FutureOK(q)
    BY DEF IndInv
  <2>2. ASSUME NEW x \in Pools
        PROVE  Held(x) \subseteq Held(x)'
    BY <1>1, <1>6, <1>7, <2>2 DEF Held
  <2>3. CASE q = r
    <3>1. r \in Held(p)' /\ p \in 1..created'
      BY <1>4, <1>6 DEF Held
    <3> QED
      BY <1>1, <1>2, <1>8, <2>3, <3>1 DEF FutureOK
  <2>4. CASE q # r
    <3>1. future'[q] = future[q] /\ answer'[q] = answer[q]
      BY <1>1, <1>8, <2>4
    <3>2. \A x \in 1..created : x \in Pools /\ x \in 1..created'
      BY <1>3, <1>4 DEF TypesOK
    <3> QED
      BY <1>10, <2>1, <2>2, <3>1, <3>2 DEF FutureOK
  <2> QED
    BY <2>3, <2>4
<1>14. NoPoolLeaks'
  <2>1. \A x \in 1..created' : x # p => x \in 1..created
    BY <1>1, <1>4
  <2> QED
    BY <1>1, <2>1 DEF NoPoolLeaks, IndInv
<1> QED
  BY <1>11, <1>12, <1>13, <1>14 DEF IndInv
\* A request that fails open takes its job out of the queue it may still be in,
\* and shuts the current pool down, to which it may never have belonged.
LEMMA FailedOpenInv ==
    ASSUME MaxPools \in Nat, IndInv, NEW r \in Requests, answer[r] = "none",
           future[r].state # "none", Answer(r, "original"), Reset(current),
           UNCHANGED <<created, taken, future>>,
           pending' \in [Pools -> Seq(Requests)],
           \A p \in Pools : /\ Distinct(pending'[p])
                            /\ ToSet(pending'[p]) = ToSet(pending[p]) \ {r}
    PROVE  IndInv'
<1>1. TypesOK /\ FutureOK(r)
  BY DEF IndInv
<1>2. /\ answer' \in [Requests -> Answers] /\ answer'[r] = "original"
      /\ \A q \in Requests \ {r} : answer'[q] = answer[q]
  BY <1>1, AnswerTypes DEF Answers
<1>3. /\ current' = None
      /\ condition' \in [Pools -> Conditions]
      /\ \A p \in Pools : condition'[p] = IF p = current /\ condition[p] # "broken"
                                          THEN "shut" ELSE condition[p]
  BY <1>1 DEF Reset, TypesOK, Conditions
<1>4. created \in Nat /\ future[r].pool \in 1..created
  BY <1>1 DEF FutureOK, TypesOK
<1>5. ASSUME NEW p, FailedBy(p)
      PROVE  FailedBy(p)'
  BY <1>2, <1>5 DEF FailedBy
<1>6. FailedBy(created)'
  BY <1>2, <1>4 DEF FailedBy
<1>7. TypesOK'
  BY <1>1, <1>2, <1>3 DEF TypesOK
<1>8. ASSUME NEW p \in Pools
      PROVE  QueueOK(p)' /\ PoolOK(p)'
  <2>1. QueueOK(p) /\ PoolOK(p) /\ Held(p) \subseteq Requests
    BY <1>1, HeldAreRequests DEF IndInv
  <2>2. /\ Held(p)' \subseteq Held(p) /\ ToSet(pending'[p]) \subseteq ToSet(pending[p])
        /\ r \notin ToSet(pending'[p])
    BY DEF Held
  <2>3. QueueOK(p)'
    <3>1. ToSet(pending[p]) \subseteq Requests
      BY <2>1 DEF Held
    <3>2. \A q \in ToSet(pending'[p]) : answer'[q] = "none"
      BY <1>2, <2>1, <2>2, <3>1 DEF QueueOK
    <3> QED
      BY <2>1, <2>2, <3>2 DEF QueueOK
  <2>4. CASE p = current /\ condition[p] # "broken"
    <3>1. p = created /\ created' = created
      BY <1>1, <2>4 DEF TypesOK
    <3>2. condition'[p] = "shut" /\ ~(p > created')
      BY <1>3, <1>4, <2>4, <3>1
    <3>3. FailedBy(p)'
      BY <1>6, <3>1
    <3> QED
      BY <2>3, <3>2, <3>3 DEF PoolOK
  <2>5. CASE ~(p = current /\ condition[p] # "broken")
    <3>1. condition'[p] = condition[p]
      BY <1>3, <2>5
    <3> QED
      BY <1>5, <2>1, <2>2, <2>3, <3>1 DEF PoolOK
  <2> QED
    BY <2>4, <2>5
<1>9. ASSUME NEW q \in Requests
      PROVE  FutureOK(q)'
  <2>1. FutureOK(q)
    BY DEF IndInv
  <2>2. CASE q = r
    BY <1>2, <1>5, <2>1, <2>2 DEF FutureOK, NoFuture
  <2>3. CASE q # r
    <3>1. answer'[q] = answer[q]
      BY <1>2, <2>3
    <3>2. \A x \in Pools : q \in Held(x) => q \in Held(x)'
      BY <2>3 DEF Held
    <3>3. \A x \in 1..created : x \in Pools
      BY <1>1, <1>4 DEF TypesOK
    <3> QED
      BY <1>5, <2>1, <3>1, <3>2, <3>3 DEF FutureOK, NoFuture
  <2> QED
    BY <2>2, <2>3
<1>10. NoPoolLeaks'
  <2>1. \A x \in 1..created : x \in Pools
    BY <1>1, <1>4 DEF TypesOK
  <2> QED
    BY <1>3, <2>1 DEF NoPoolLeaks, IndInv
<1> QED
  BY <1>7, <1>8, <1>9, <1>10 DEF IndInv

LEMMA TimesOutInv ==
    ASSUME MaxPools \in Nat, IndInv, NEW r \in Requests, TimesOut(r)
    PROVE  IndInv'
<1> DEFINE p == future[r].pool
<1>1. TypesOK /\ FutureOK(r) /\ future[r].state = "waiting" /\ answer[r] = "none"
  BY DEF IndInv, TimesOut
<1>2. p \in Pools
  BY <1>1 DEF FutureOK, TypesOK
<1>3. ASSUME NEW x \in Pools, r \in ToSet(pending[x])
      PROVE  x = p
  BY <1>3 DEF IndInv, QueueOK, Held
<1>4. CASE r \in ToSet(pending[p])
  <2>1. PICK i \in DOMAIN pending[p] :
           pending[p][i] = r /\ pending' = [pending EXCEPT ![p] = RemoveAt(@, i)]
    BY <1>4 DEF TimesOut
  <2>2. pending[p] \in Seq(Requests) /\ Distinct(pending[p])
    BY <1>1, <1>2 DEF TypesOK, IndInv, QueueOK
  <2>3. /\ RemoveAt(pending[p], i) \in Seq(Requests) /\ Distinct(RemoveAt(pending[p], i))
        /\ ToSet(RemoveAt(pending[p], i)) = ToSet(pending[p]) \ {r}
    BY <2>1, <2>2, RemoveDistinct
  <2>4. /\ pending' \in [Pools -> Seq(Requests)]
        /\ pending'[p] = RemoveAt(pending[p], i)
        /\ \A x \in Pools \ {p} : pending'[x] = pending[x]
    BY <1>1, <1>2, <2>1, <2>3 DEF TypesOK
  <2>5. \A x \in Pools : /\ Distinct(pending'[x])
                         /\ ToSet(pending'[x]) = ToSet(pending[x]) \ {r}
    BY <1>3, <2>3, <2>4 DEF IndInv, QueueOK
  <2> QED
    BY <1>1, <2>4, <2>5, FailedOpenInv DEF TimesOut
<1>5. CASE r \notin ToSet(pending[p])
  <2>1. pending' = pending
    BY <1>5 DEF TimesOut
  <2>2. \A x \in Pools : /\ Distinct(pending'[x])
                         /\ ToSet(pending'[x]) = ToSet(pending[x]) \ {r}
    BY <1>3, <1>5, <2>1 DEF IndInv, QueueOK
  <2> QED
    BY <1>1, <2>1, <2>2, FailedOpenInv DEF TimesOut, TypesOK
<1> QED
  BY <1>4, <1>5

LEMMA ResumeInv ==
    ASSUME MaxPools \in Nat, IndInv, NEW r \in Requests, Resume(r)
    PROVE  IndInv'
<1>1. /\ TypesOK /\ FutureOK(r) /\ answer[r] = "none"
      /\ UNCHANGED <<created, pending, taken, future>>
  BY DEF IndInv, Resume
<1>2. CASE future[r].state \in {"raised", "brokenPool"}
  <2>1. Answer(r, "original") /\ Reset(current)
    BY <1>2 DEF Resume
  <2>2. \A x \in Pools : /\ Distinct(pending'[x])
                         /\ ToSet(pending'[x]) = ToSet(pending[x]) \ {r}
    BY <1>1, <1>2 DEF IndInv, QueueOK, Held
  <2> QED
    BY <1>1, <1>2, <2>1, <2>2, FailedOpenInv DEF TypesOK
<1>3. CASE future[r].state \in {"result", "cancelled"}
  <2>1. PICK a \in {"compressed", "cancelled"} :
           /\ Answer(r, a) /\ (a = "cancelled" => future[r].state = "cancelled")
           /\ current' = current /\ condition' = condition
    BY <1>3 DEF Resume
  <2>2. /\ answer' \in [Requests -> Answers] /\ answer'[r] = a
        /\ \A q \in Requests \ {r} : answer'[q] = answer[q]
    BY <1>1, <2>1, AnswerTypes DEF Answers
  <2>3. ASSUME NEW p, FailedBy(p)
        PROVE  FailedBy(p)'
    BY <1>1, <2>2, <2>3 DEF FailedBy
  <2>4. TypesOK' /\ NoPoolLeaks'
    BY <1>1, <2>1, <2>2 DEF TypesOK, NoPoolLeaks, IndInv
  <2>5. \A p : Held(p)' = Held(p)
    BY <1>1 DEF Held
  <2>6. ASSUME NEW p \in Pools
        PROVE  QueueOK(p)' /\ PoolOK(p)'
    <3>1. QueueOK(p) /\ PoolOK(p) /\ ToSet(pending[p]) \subseteq Requests
      BY <1>1, HeldAreRequests DEF IndInv
    <3>2. r \notin ToSet(pending[p])
      BY <1>3, <3>1 DEF QueueOK, Held
    <3>3. QueueOK(p)'
      BY <1>1, <2>2, <2>5, <3>1, <3>2 DEF QueueOK
    <3> QED
      BY <1>1, <2>1, <2>3, <2>5, <3>1, <3>3 DEF PoolOK
  <2>7. ASSUME NEW q \in Requests
        PROVE  FutureOK(q)'
    <3>1. FutureOK(q)
      BY DEF IndInv
    <3>2. future'[q] = future[q] /\ created' = created
      BY <1>1
    <3>3. answer'[q] = "none" => answer[q] = "none"
      BY <1>1, <2>2
    <3>4. answer'[q] = "cancelled" => future[q].state = "cancelled"
      BY <2>1, <2>2, <3>1 DEF FutureOK
    <3> QED
      BY <2>3, <2>5, <3>1, <3>2, <3>3, <3>4 DEF FutureOK, NoFuture
  <2> QED
    BY <2>4, <2>6, <2>7 DEF IndInv
<1> QED
  BY <1>2, <1>3 DEF Resume
\* Futures completed by a pool keep the request they belong to.
LEMMA Completed ==
    ASSUME TypesOK, NEW R, NEW state \in States \ {"none"}, Complete(R, state),
           \A q \in Requests : q \in R => future[q].state # "none"
    PROVE  /\ future' \in [Requests -> [state : States, pool : 0..MaxPools]]
           /\ \A q \in Requests : /\ future'[q].pool = future[q].pool
                                  /\ q \in R => future'[q].state = state
                                  /\ q \notin R => future'[q] = future[q]
BY DEF TypesOK, Complete

\* The manager hands the worker the first job that is pending.
LEMMA HandOutInv ==
    ASSUME MaxPools \in Nat, IndInv, NEW p \in Pools, HandOut(p)
    PROVE  IndInv'
<1>1. /\ taken' = [taken EXCEPT ![p] = Append(@, Head(pending[p]))]
      /\ pending' = [pending EXCEPT ![p] = Tail(@)]
      /\ condition[p] # "broken" /\ pending[p] # <<>>
      /\ UNCHANGED <<current, created, condition, future, answer>>
  BY DEF HandOut
<1>2. TypesOK /\ QueueOK(p)
  BY DEF IndInv
<1>3. /\ Tail(pending[p]) \in Seq(Requests) /\ Distinct(Tail(pending[p]))
      /\ Head(pending[p]) \in ToSet(pending[p]) /\ ToSet(pending[p]) \subseteq Requests
      /\ ToSet(Tail(pending[p])) = ToSet(pending[p]) \ {Head(pending[p])}
  BY <1>1, <1>2, TailDistinct DEF TypesOK, QueueOK
<1>4. Head(pending[p]) \notin ToSet(taken[p])
  BY <1>2, <1>3 DEF QueueOK
<1>5. /\ Append(taken[p], Head(pending[p])) \in Seq(Requests)
      /\ Distinct(Append(taken[p], Head(pending[p])))
      /\ ToSet(Append(taken[p], Head(pending[p])))
           = ToSet(taken[p]) \union {Head(pending[p])}
  BY <1>2, <1>3, <1>4, AppendDistinct DEF TypesOK, QueueOK
<1>6. /\ pending' \in [Pools -> Seq(Requests)] /\ taken' \in [Pools -> Seq(Requests)]
      /\ pending'[p] = Tail(pending[p])
      /\ taken'[p] = Append(taken[p], Head(pending[p]))
      /\ \A x \in Pools \ {p} : pending'[x] = pending[x] /\ taken'[x] = taken[x]
  BY <1>1, <1>2, <1>3, <1>5 DEF TypesOK
<1>7. \A x \in Pools : Held(x)' = Held(x)
  BY <1>3, <1>5, <1>6 DEF Held
<1>8. \A x : FailedBy(x)' <=> FailedBy(x)
  BY <1>1 DEF FailedBy
<1>9. TypesOK' /\ NoPoolLeaks'
  BY <1>1, <1>2, <1>6 DEF TypesOK, NoPoolLeaks, IndInv
<1>10. ASSUME NEW x \in Pools
       PROVE  QueueOK(x)' /\ PoolOK(x)'
  <2>1. QueueOK(x) /\ PoolOK(x)
    BY DEF IndInv
  <2>2. /\ Distinct(pending'[x]) /\ Distinct(taken'[x])
        /\ ToSet(pending'[x]) \intersect ToSet(taken'[x]) = {}
        /\ ToSet(pending'[x]) \subseteq ToSet(pending[x])
    BY <1>3, <1>5, <1>6, <2>1 DEF QueueOK
  <2>3. QueueOK(x)'
    BY <1>1, <1>7, <2>1, <2>2 DEF QueueOK
  <2> QED
    BY <1>1, <1>7, <1>8, <2>1, <2>3 DEF PoolOK
<1>11. ASSUME NEW q \in Requests
       PROVE  FutureOK(q)'
  <2>1. FutureOK(q)
    BY DEF IndInv
  <2>2. \A x \in 1..created : x \in Pools
    BY <1>2 DEF TypesOK
  <2> QED
    BY <1>1, <1>7, <1>8, <2>1, <2>2 DEF FutureOK, NoFuture
<1> QED
  BY <1>9, <1>10, <1>11 DEF IndInv

\* What the pool p completes it no longer holds; what it holds it has not completed.
LEMMA CompleteInv ==
    ASSUME MaxPools \in Nat, IndInv, NEW p \in Pools, NEW R \in SUBSET Held(p),
           NEW state \in {"result", "raised", "brokenPool", "cancelled"},
           Complete(R, state),
           UNCHANGED <<current, created, answer>>,
           pending' \in [Pools -> Seq(Requests)], taken' \in [Pools -> Seq(Requests)],
           \A x \in Pools \ {p} : pending'[x] = pending[x] /\ taken'[x] = taken[x],
           Distinct(pending'[p]), Distinct(taken'[p]),
           ToSet(pending'[p]) = ToSet(pending[p]) \ R,
           ToSet(taken'[p]) = ToSet(taken[p]) \ R,
           \/ condition' = condition
           \/ /\ condition' = [condition EXCEPT ![p] = "broken"]
              /\ R = Held(p) /\ p <= created,
           state = "cancelled" => FailedBy(p)
    PROVE  IndInv'
<1>1. TypesOK /\ QueueOK(p) /\ PoolOK(p)
  BY DEF IndInv
<1>2. R \subseteq Requests /\ \A q \in R : future[q].state = "waiting" /\ future[q].pool = p
  BY <1>1, HeldAreRequests DEF QueueOK
<1>3. /\ future' \in [Requests -> [state : States, pool : 0..MaxPools]]
      /\ \A q \in Requests : /\ future'[q].pool = future[q].pool
                             /\ q \in R => future'[q].state = state
                             /\ q \notin R => future'[q] = future[q]
  BY <1>1, <1>2, Completed DEF States
<1>4. /\ Held(p)' = Held(p) \ R
      /\ \A x \in Pools \ {p} : Held(x)' = Held(x)
  BY DEF Held
<1>5. \A x : FailedBy(x)' <=> FailedBy(x)
  BY <1>3 DEF FailedBy
<1>6. /\ condition' \in [Pools -> Conditions]
      /\ \A x \in Pools : \/ condition'[x] = condition[x]
                          \/ condition'[x] = "broken" /\ x = p /\ R = Held(p) /\ p <= created
  BY <1>1 DEF TypesOK, Conditions
<1>7. TypesOK' /\ NoPoolLeaks'
  <2>1. \A x \in 1..created : x \in Pools
    BY <1>1 DEF TypesOK
  <2> QED
    BY <1>1, <1>3, <1>6, <2>1 DEF TypesOK, NoPoolLeaks, IndInv
<1>8. ASSUME NEW x \in Pools
      PROVE  QueueOK(x)' /\ PoolOK(x)'
  <2>1. QueueOK(x) /\ PoolOK(x) /\ Held(x) \subseteq Requests
    BY <1>1, HeldAreRequests DEF IndInv
  <2>2. /\ Held(x)' \subseteq Held(x) /\ Held(x)' \intersect R = {}
        /\ ToSet(pending'[x]) \subseteq ToSet(pending[x])
        /\ ToSet(taken'[x]) \subseteq ToSet(taken[x])
        /\ Distinct(pending'[x]) /\ Distinct(taken'[x])
    <3>1. CASE x = p
      BY <1>4, <2>1, <3>1
    <3>2. CASE x # p
      <4>1. pending'[x] = pending[x] /\ taken'[x] = taken[x] /\ Held(x)' = Held(x)
        BY <1>4, <3>2
      <4>2. Held(x) \intersect R = {}
        BY <1>2, <2>1, <3>2 DEF QueueOK
      <4> QED
        BY <2>1, <4>1, <4>2 DEF QueueOK
    <3> QED
      BY <3>1, <3>2
  <2>3. \A q \in Held(x)' : future'[q] = future[q]
    BY <1>3, <2>1, <2>2
  <2>4. QueueOK(x)'
    BY <2>1, <2>2, <2>3 DEF QueueOK
  <2>5. CASE condition'[x] = condition[x]
    BY <1>5, <2>1, <2>2, <2>4, <2>5 DEF PoolOK
  <2>6. CASE condition'[x] = "broken" /\ x = p /\ R = Held(p) /\ p <= created
    <3>1. Held(x)' = {} /\ ~(x > created)
      BY <1>1, <1>4, <2>6 DEF TypesOK
    <3> QED
      BY <2>4, <2>6, <3>1 DEF PoolOK
  <2> QED
    BY <1>6, <2>5, <2>6
<1>9. ASSUME NEW q \in Requests
      PROVE  FutureOK(q)'
  <2>1. FutureOK(q)
    BY DEF IndInv
  <2>2. CASE q \in R
    <3>1. /\ future'[q].pool = p /\ future'[q].state = state
          /\ future[q].state = "waiting" /\ future[q].pool = p
      BY <1>2, <1>3, <2>2
    <3>2. p \in 1..created /\ answer[q] # "cancelled"
      BY <2>1, <3>1 DEF FutureOK
    <3> QED
      BY <1>5, <3>1, <3>2 DEF FutureOK
  <2>3. CASE q \notin R
    <3>1. future'[q] = future[q]
      BY <1>3, <2>3
    <3>2. \A x \in Pools : q \in Held(x) => q \in Held(x)'
      BY <1>4, <2>3
    <3>3. \A x \in 1..created : x \in Pools
      BY <1>1 DEF TypesOK
    <3> QED
      BY <1>5, <2>1, <3>1, <3>2, <3>3 DEF FutureOK, NoFuture
  <2> QED
    BY <2>2, <2>3
<1> QED
  BY <1>7, <1>8, <1>9 DEF IndInv
\* The worker returns or raises for the job it got first.
LEMMA WorkerEndsInv ==
    ASSUME MaxPools \in Nat, IndInv, NEW p \in Pools, WorkerEnds(p)
    PROVE  IndInv'
<1>1. PICK state \in {"result", "raised"} : Complete({Head(taken[p])}, state)
  BY DEF WorkerEnds
<1>2. /\ taken[p] # <<>> /\ taken' = [taken EXCEPT ![p] = Tail(@)]
      /\ UNCHANGED <<current, created, pending, condition, answer>>
  BY DEF WorkerEnds
<1>3. TypesOK /\ QueueOK(p)
  BY DEF IndInv
<1>4. /\ Tail(taken[p]) \in Seq(Requests) /\ Distinct(Tail(taken[p]))
      /\ Head(taken[p]) \in ToSet(taken[p])
      /\ ToSet(Tail(taken[p])) = ToSet(taken[p]) \ {Head(taken[p])}
  BY <1>2, <1>3, TailDistinct DEF TypesOK, QueueOK
<1>5. /\ taken' \in [Pools -> Seq(Requests)] /\ taken'[p] = Tail(taken[p])
      /\ \A x \in Pools \ {p} : taken'[x] = taken[x]
  BY <1>2, <1>3, <1>4 DEF TypesOK
<1>6. /\ {Head(taken[p])} \in SUBSET Held(p)
      /\ ToSet(pending'[p]) = ToSet(pending[p]) \ {Head(taken[p])}
  BY <1>2, <1>3, <1>4 DEF QueueOK, Held
<1>7. pending' \in [Pools -> Seq(Requests)] /\ Distinct(pending'[p])
  BY <1>2, <1>3 DEF TypesOK, QueueOK
<1> QED
  BY <1>1, <1>2, <1>4, <1>5, <1>6, <1>7, CompleteInv

\* The worker dies and all the pool holds fails with it.
LEMMA WorkerDiesInv ==
    ASSUME MaxPools \in Nat, IndInv, NEW p \in Pools, WorkerDies(p)
    PROVE  IndInv'
<1>1. /\ Complete(ToSet(taken[p]) \union ToSet(pending[p]), "brokenPool")
      /\ taken[p] # <<>>
      /\ taken' = [taken EXCEPT ![p] = <<>>] /\ pending' = [pending EXCEPT ![p] = <<>>]
      /\ condition' = [condition EXCEPT ![p] = "broken"]
      /\ UNCHANGED <<current, created, answer>>
  BY DEF WorkerDies
<1>2. TypesOK /\ QueueOK(p) /\ PoolOK(p)
  BY DEF IndInv
<1>3. /\ taken' \in [Pools -> Seq(Requests)] /\ pending' \in [Pools -> Seq(Requests)]
      /\ taken'[p] = <<>> /\ pending'[p] = <<>>
      /\ \A x \in Pools \ {p} : taken'[x] = taken[x] /\ pending'[x] = pending[x]
  BY <1>1, <1>2, EmptyDistinct DEF TypesOK
<1>4. /\ Distinct(pending'[p]) /\ Distinct(taken'[p])
      /\ ToSet(pending'[p]) = {} /\ ToSet(taken'[p]) = {}
  BY <1>3, EmptyDistinct
<1>5. p <= created
  <2>1. Head(taken[p]) \in ToSet(taken[p])
    BY <1>1, <1>2, TailDistinct DEF TypesOK, QueueOK
  <2>2. ~(p > created)
    BY <1>2, <2>1 DEF PoolOK, Held
  <2> QED
    BY <1>2, <2>2 DEF TypesOK
<1>6. Complete(Held(p), "brokenPool")
  <2>1. Held(p) = ToSet(taken[p]) \union ToSet(pending[p])
    BY DEF Held
  <2> QED
    BY <1>1, <2>1
<1>7. ToSet(pending'[p]) = ToSet(pending[p]) \ Held(p)
      /\ ToSet(taken'[p]) = ToSet(taken[p]) \ Held(p)
  BY <1>4 DEF Held
<1> QED
  BY <1>1, <1>3, <1>4, <1>5, <1>6, <1>7, CompleteInv

\* A pool that was shut down cancels what is still pending there.
LEMMA CancelPendingInv ==
    ASSUME MaxPools \in Nat, IndInv, NEW p \in Pools, CancelPending(p)
    PROVE  IndInv'
<1>1. /\ Complete(ToSet(pending[p]), "cancelled") /\ condition[p] = "shut"
      /\ pending' = [pending EXCEPT ![p] = <<>>]
      /\ UNCHANGED <<current, created, taken, condition, answer>>
  BY DEF CancelPending
<1>2. TypesOK /\ QueueOK(p) /\ FailedBy(p)
  BY <1>1 DEF IndInv, PoolOK
<1>3. /\ pending' \in [Pools -> Seq(Requests)] /\ taken' \in [Pools -> Seq(Requests)]
      /\ pending'[p] = <<>> /\ taken'[p] = taken[p]
      /\ \A x \in Pools \ {p} : taken'[x] = taken[x] /\ pending'[x] = pending[x]
  BY <1>1, <1>2, EmptyDistinct DEF TypesOK
<1>4. Distinct(pending'[p]) /\ Distinct(taken'[p]) /\ ToSet(pending'[p]) = {}
  BY <1>2, <1>3, EmptyDistinct DEF QueueOK
<1>5. /\ ToSet(pending[p]) \in SUBSET Held(p)
      /\ ToSet(pending'[p]) = ToSet(pending[p]) \ ToSet(pending[p])
      /\ ToSet(taken'[p]) = ToSet(taken[p]) \ ToSet(pending[p])
  BY <1>2, <1>3, <1>4 DEF Held, QueueOK
<1> QED
  BY <1>1, <1>2, <1>3, <1>4, <1>5, CompleteInv

LEMMA NextInv ==
    ASSUME MaxPools \in Nat, IndInv, [Next]_vars
    PROVE  IndInv'
<1>1. ASSUME NEW r \in Requests, Submit(r)
      PROVE  IndInv'
  BY <1>1, RefusedInv, AcceptedInv
<1>2. ASSUME NEW r \in Requests, Resume(r)
      PROVE  IndInv'
  BY <1>2, ResumeInv
<1>3. ASSUME NEW r \in Requests, TimesOut(r)
      PROVE  IndInv'
  BY <1>3, TimesOutInv
<1>4. ASSUME NEW p \in Pools, HandOut(p)
      PROVE  IndInv'
  BY <1>4, HandOutInv
<1>5. ASSUME NEW p \in Pools, WorkerEnds(p)
      PROVE  IndInv'
  BY <1>5, WorkerEndsInv
<1>6. ASSUME NEW p \in Pools, WorkerDies(p)
      PROVE  IndInv'
  BY <1>6, WorkerDiesInv
<1>7. ASSUME NEW p \in Pools, CancelPending(p)
      PROVE  IndInv'
  BY <1>7, CancelPendingInv
<1>8. CASE UNCHANGED vars
  BY <1>8 DEF IndInv, TypesOK, QueueOK, PoolOK, FutureOK, NoPoolLeaks, Held, FailedBy
<1> QED
  BY <1>1, <1>2, <1>3, <1>4, <1>5, <1>6, <1>7, <1>8 DEF Next

-----------------------------------------------------------------------------
(* Theorems *)

\* Queues, pools, futures and answers keep in step.
THEOREM PoolInvariance ==
    ASSUME MaxPools \in Nat
    PROVE  Spec => []IndInv
BY InitInv, NextInv, PTL DEF Spec

\* No reset, timeout or crash of a worker forgets the job of another request: as
\* long as a request waits, an unbroken pool holds its job.
THEOREM NoJobForgotten ==
    ASSUME MaxPools \in Nat
    PROVE  Spec => []JobsAreHeld
<1>1. IndInv => JobsAreHeld
  <2>1. ASSUME IndInv, NEW r \in Requests, answer[r] = "none", future[r].state = "waiting"
        PROVE  /\ condition[future[r].pool] # "broken"
               /\ r \in ToSet(pending[future[r].pool]) \union ToSet(taken[future[r].pool])
    <3>1. FutureOK(r) /\ created \in 0..MaxPools
      BY <2>1 DEF IndInv, TypesOK
    <3>2. future[r].pool \in Pools /\ r \in Held(future[r].pool)
      BY <2>1, <3>1 DEF FutureOK
    <3>3. PoolOK(future[r].pool)
      BY <2>1, <3>2 DEF IndInv
    <3> QED
      BY <3>2, <3>3 DEF PoolOK, Held
  <2> QED
    BY <2>1 DEF JobsAreHeld
<1> QED
  BY <1>1, PoolInvariance, PTL

\* Every pool but the current one has been shut down or is broken, so no worker
\* process is left that no request would use or end.
THEOREM PoolsAreReplaced ==
    ASSUME MaxPools \in Nat
    PROVE  Spec => []NoPoolLeaks
<1>1. IndInv => NoPoolLeaks
  BY DEF IndInv
<1> QED
  BY <1>1, PoolInvariance, PTL

\* What breaks FailsOpen is always another request of the same pool or an older
\* one, that was itself sent on with its original messages.
THEOREM CancellationIsForeign ==
    ASSUME MaxPools \in Nat
    PROVE  Spec => []CancelledByAnother
<1>1. IndInv => CancelledByAnother
  <2>1. ASSUME IndInv, NEW r \in Requests, answer[r] = "cancelled"
        PROVE  FailedBy(future[r].pool)
    BY <2>1 DEF IndInv, FutureOK
  <2> QED
    BY <2>1 DEF CancelledByAnother, FailedBy
<1> QED
  BY <1>1, PoolInvariance, PTL
=============================================================================
