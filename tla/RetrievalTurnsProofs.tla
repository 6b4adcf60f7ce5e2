------------------------ MODULE RetrievalTurnsProofs ------------------------
(***************************************************************************)
(* Proofs about RetrievalTurns, for any hashes, any number of rounds and   *)
(* calls, and any store that keeps the promise of RedeemableStore.         *)
(***************************************************************************)
EXTENDS RetrievalTurns, SequenceTheorems, TLAPS

USE DEF vars, handlerVars, loopVars, outVars

Result == [call : Keys, says : Says]
Filled == [calls : Seq(Calls), answered : Seq(Keys)]

-----------------------------------------------------------------------------
(* The calls of a response *)

\* A response is a sequence of calls.
LEMMA ResponsesAreSeqs == Responses \subseteq Seq(Calls)
<1>1. ASSUME NEW n \in 0..MaxCalls, NEW r \in [1..n -> Calls]
      PROVE  r \in Seq(Calls)
  BY TurnsBoundsAssumption, SeqDef
<1> QED
  BY <1>1 DEF Responses

\* In a response that holds nothing but retrievals, the next one due is the one
\* after those that have their result.
LEMMA NextDue ==
    ASSUME NEW m \in 0..Len(response), response \in Seq(Calls), m < Len(response),
           OtherCalls(response) = {}, DOMAIN results = 1..m
    PROVE  /\ Turn = m + 1 /\ Calling = response[m + 1] /\ Calling \in Keys
           /\ Due = {Turn} <=> m + 1 = Len(response)
<1>1. Len(response) \in Nat
  OBVIOUS
<1>2. CcrCalls(response) = 1..Len(response)
  BY DEF CcrCalls, OtherCalls
<1>3. Due = (m + 1)..Len(response)
  BY <1>1, <1>2 DEF Due
<1>4. /\ m + 1 \in Due
      /\ \A i \in Due : m + 1 <= i
      /\ \A i \in Due : i \in Int
  BY <1>1, <1>3
<1>5. \A i \in Due : (\A j \in Due : i <= j) => i = m + 1
  BY <1>1, <1>4
<1>6. Turn \in Due /\ \A j \in Due : Turn <= j
  BY <1>4 DEF Turn
<1>7. Turn = m + 1
  BY <1>5, <1>6
<1>8. Calling \in Keys
  BY <1>2, <1>3, <1>6 DEF Calling, CcrCalls, Due
<1>9. Due = {m + 1} <=> m + 1 = Len(response)
  <2>1. CASE m + 1 = Len(response)
    BY <1>1, <1>3, <2>1
  <2>2. CASE m + 1 # Len(response)
    <3>1. Len(response) \in Due /\ Len(response) # m + 1
      BY <1>1, <1>3, <2>2
    <3> QED
      BY <2>2, <3>1
  <2> QED
    BY <2>1, <2>2
<1> QED
  BY <1>7, <1>8, <1>9 DEF Calling

-----------------------------------------------------------------------------
(* The store *)

\* An access that deletes a lapsed entry costs nothing that is redeemable.
LEMMA CleanKeeps ==
    ASSUME held = [j \in Keys |-> held[j]], NEW k, CleanIfLapsed(k), UNCHANGED now
    PROVE  Redeemable' = Redeemable /\ held' = [j \in Keys |-> held'[j]]
           /\ [PromiseNext]_promiseVars
<1>1. CASE k \in Stored /\ Lapsed(k)
  <2>1. held' = [held EXCEPT ![k] = Absent]
    BY <1>1 DEF CleanIfLapsed
  <2>2. Redeemable' = Redeemable /\ held' = [j \in Keys |-> held'[j]]
    BY <1>1, <2>1 DEF Redeemable, Stored, Lapsed
  <2>3. Expire({k})
    <3>1. held' = [j \in Keys |-> IF j \in {k} THEN Absent ELSE held[j]]
      BY <1>1, <2>1 DEF Stored
    <3> QED
      BY <1>1, <3>1 DEF Expire, Stored
  <2>4. PromiseNext
    BY <1>1, <2>3 DEF PromiseNext, Stored
  <2> QED
    BY <2>2, <2>4
<1>2. CASE ~(k \in Stored /\ Lapsed(k))
  BY <1>2 DEF CleanIfLapsed, Redeemable, Stored, Lapsed, promiseVars
<1> QED
  BY <1>1, <1>2

\* The store keeps its shape.
LEMMA PromiseKeepsShape ==
    ASSUME held = [k \in Keys |-> held[k]], PromiseNext
    PROVE  held' = [k \in Keys |-> held'[k]]
BY DEF PromiseNext, Advance, ForgetAll, Expire, Insert, Overwrite, EvictOldest

-----------------------------------------------------------------------------
(* The steps *)

\* One more result: the round goes on, and whatever it says is no denial of
\* what lasts.
LEMMA GiveInv ==
    ASSUME IndInv, Retrieving, NEW text \in Says, Give(text),
           lasting' \subseteq lasting, (text \in {"content", "error"} \/ Calling \notin lasting),
           UNCHANGED <<response, rounds, sent>>
    PROVE  /\ RoundOK' /\ LastingIsDelivered' /\ phase' \in {"status", "send"}
           /\ DOMAIN results' \subseteq Nat
           /\ \A i \in DOMAIN results' : results'[i] \in Result
<1>1. PICK m \in 0..Len(response) :
         results = [i \in 1..m |-> results[i]] /\ m < Len(response)
  BY DEF IndInv, RoundOK
<1>2. /\ OtherCalls(response) = {} /\ response \in Seq(Calls) /\ Len(response) \in Nat
      /\ \A i \in 1..m : results[i].call = response[i] /\ results[i] \in Result
      /\ \A i \in 1..m : results[i].call \in lasting => results[i].says \in {"content", "error"}
  BY <1>1 DEF IndInv, RoundOK, TypeOK, Result, LastingIsDelivered
<1>3. DOMAIN results = 1..m
  BY <1>1
<1>4. /\ Turn = m + 1 /\ Calling = response[m + 1] /\ Calling \in Keys
      /\ Due = {Turn} <=> m + 1 = Len(response)
  BY <1>1, <1>2, <1>3, NextDue
<1>5. PICK v : v = [call |-> Calling, says |-> text]
  OBVIOUS
<1>6. /\ results' = [i \in 1..m \union {m + 1} |-> IF i = m + 1 THEN v ELSE results[i]]
      /\ phase' = IF m + 1 = Len(response) THEN "send" ELSE "status"
  BY <1>3, <1>4, <1>5 DEF Give
<1>7. 1..m \union {m + 1} = 1..(m + 1)
  BY <1>1
<1>8. /\ DOMAIN results' = 1..(m + 1) /\ results'[m + 1] = v
      /\ \A i \in 1..m : results'[i] = results[i]
      /\ results' = [i \in 1..(m + 1) |-> results'[i]]
  BY <1>1, <1>6, <1>7
<1>9. v \in Result /\ v.call = response[m + 1] /\ v.says = text
  BY <1>4, <1>5 DEF Result
<1>10. \A i \in 1..(m + 1) : results'[i] \in Result /\ results'[i].call = response[i]
  <2>1. \A i \in 1..(m + 1) : i = m + 1 \/ i \in 1..m
    BY <1>1
  <2> QED
    BY <1>2, <1>8, <1>9, <2>1
<1>11. RoundOK'
  <2>1. /\ OtherCalls(response') = {} /\ response' = response
    BY <1>2
  <2>2. m + 1 \in 0..Len(response)
    BY <1>1, <1>2
  <2>3. phase' = "status" => m + 1 < Len(response)
    BY <1>1, <1>2, <1>6
  <2> QED
    BY <1>6, <1>8, <1>10, <2>1, <2>2, <2>3 DEF RoundOK, Retrieving, OtherCalls
<1>12. LastingIsDelivered'
  <2>1. \A i \in 1..(m + 1) : i = m + 1 \/ i \in 1..m
    BY <1>1
  <2> QED
    BY <1>2, <1>4, <1>8, <1>9, <2>1 DEF LastingIsDelivered
<1>13. DOMAIN results' \subseteq Nat /\ \A i \in DOMAIN results' : results'[i] \in Result
  BY <1>1, <1>8, <1>10
<1>14. phase' \in {"status", "send"}
  BY <1>6
<1> QED
  BY <1>11, <1>12, <1>13, <1>14

\* Whichever access to the store a result comes from.
LEMMA ResultInv ==
    ASSUME IndInv, Retrieving, NEW text \in Says, Give(text),
           lasting' \subseteq lasting, lasting' \subseteq Redeemable',
           (text \in {"content", "error"} \/ Calling \notin lasting),
           held' = [k \in Keys |-> held'[k]],
           UNCHANGED <<stream, response, rounds, sent, failed, outVars>>
    PROVE  IndInv'
<1>1. /\ RoundOK' /\ LastingIsDelivered' /\ phase' \in {"status", "send"}
      /\ DOMAIN results' \subseteq Nat
      /\ \A i \in DOMAIN results' : results'[i] \in Result
  BY GiveInv
<1>2. TypeOK'
  BY <1>1 DEF IndInv, TypeOK, Result
<1>3. LastingOK'
  BY <1>1 DEF LastingOK
<1>4. EndOK'
  BY <1>1 DEF IndInv, EndOK, Retrieving
<1>5. TurnsAnsweredInFull'
  BY DEF IndInv, TurnsAnsweredInFull
<1> QED
  BY <1>1, <1>2, <1>3, <1>4, <1>5 DEF IndInv

\* An access that leaves the results for the next one.
LEMMA LookOnInv ==
    ASSUME IndInv, Retrieving,
           phase' = "fetch" \/ (phase' = "miss" /\ Calling \notin lasting),
           lasting' \subseteq lasting, lasting' \subseteq Redeemable',
           held' = [k \in Keys |-> held'[k]],
           UNCHANGED <<stream, response, rounds, results, sent, failed, outVars>>
    PROVE  IndInv'
<1>1. TypeOK'
  BY DEF IndInv, TypeOK
<1>2. RoundOK'
  BY DEF IndInv, RoundOK, Retrieving, OtherCalls
<1>3. LastingOK'
  BY DEF LastingOK, Calling, Turn, Due, CcrCalls
<1>4. EndOK'
  BY DEF IndInv, EndOK, Retrieving
<1>5. TurnsAnsweredInFull' /\ LastingIsDelivered'
  BY DEF IndInv, TurnsAnsweredInFull, LastingIsDelivered
<1> QED
  BY <1>1, <1>2, <1>3, <1>4, <1>5 DEF IndInv

\* The three looks at the store, and one that raises.
LEMMA AccessInv ==
    ASSUME IndInv, AskStatus \/ Fetch \/ ExplainMiss \/ RetrievalRaises
    PROVE  IndInv'
<1> USE DEF Retrieving
<1>1. /\ held = [k \in Keys |-> held[k]] /\ lasting \subseteq Redeemable
      /\ phase = "miss" => Calling \notin lasting
  BY DEF IndInv, TypeOK, LastingOK
<1>2. \A k : StatusOf(k) \in Says
  BY DEF StatusOf, Says
<1>3. \A k \in Redeemable : StatusOf(k) = "available"
  BY DEF StatusOf, Redeemable
<1>4. "content" \in Says /\ "error" \in Says
  BY DEF Says
<1>5. ASSUME CleanIfLapsed(Calling), UNCHANGED now, lasting' = lasting \cap Redeemable'
      PROVE  /\ held' = [k \in Keys |-> held'[k]]
             /\ lasting' \subseteq lasting /\ lasting' \subseteq Redeemable'
  BY <1>1, <1>5, CleanKeeps
<1>6. CASE AskStatus
  <2>1. /\ phase = "status" /\ held' = [k \in Keys |-> held'[k]]
        /\ lasting' \subseteq lasting /\ lasting' \subseteq Redeemable'
        /\ UNCHANGED <<stream, response, rounds, sent, failed, outVars>>
    BY <1>5, <1>6 DEF AskStatus
  <2>2. CASE StatusOf(Calling) = "available"
    BY <1>6, <2>1, <2>2, LookOnInv DEF AskStatus
  <2>3. CASE StatusOf(Calling) # "available"
    <3>1. Give(StatusOf(Calling)) /\ Calling \notin lasting
      BY <1>1, <1>3, <1>6, <2>3 DEF AskStatus
    <3> QED
      BY <1>2, <2>1, <3>1, ResultInv
  <2> QED
    BY <2>2, <2>3
<1>7. CASE Fetch
  <2>1. /\ phase = "fetch" /\ held' = [k \in Keys |-> held'[k]]
        /\ lasting' \subseteq lasting /\ lasting' \subseteq Redeemable'
        /\ UNCHANGED <<stream, response, rounds, sent, failed, outVars>>
    BY <1>5, <1>7 DEF Fetch
  <2>2. CASE Calling \in Redeemable
    <3>1. Give("content")
      BY <1>7, <2>2 DEF Fetch
    <3> QED
      BY <1>4, <2>1, <3>1, ResultInv
  <2>3. CASE Calling \notin Redeemable
    BY <1>1, <1>7, <2>1, <2>3, LookOnInv DEF Fetch
  <2> QED
    BY <2>2, <2>3
<1>8. CASE ExplainMiss
  <2>1. /\ phase = "miss" /\ held' = [k \in Keys |-> held'[k]]
        /\ lasting' \subseteq lasting /\ lasting' \subseteq Redeemable'
        /\ UNCHANGED <<stream, response, rounds, sent, failed, outVars>>
        /\ Give(StatusOf(Calling))
    BY <1>5, <1>8 DEF ExplainMiss
  <2> QED
    BY <1>1, <1>2, <2>1, ResultInv
<1>9. CASE RetrievalRaises
  <2>1. /\ Retrieving /\ Give("error") /\ Redeemable' = Redeemable
        /\ UNCHANGED <<held, lasting, stream, response, rounds, sent, failed, outVars>>
    BY <1>9 DEF RetrievalRaises, Redeemable, Stored, Lapsed
  <2>2. held' = [k \in Keys |-> held'[k]]
    BY <1>1, <2>1
  <2>3. lasting' \subseteq lasting /\ lasting' \subseteq Redeemable'
    BY <1>1, <2>1
  <2> QED
    BY <1>4, <2>1, <2>2, <2>3, ResultInv
<1> QED
  BY <1>6, <1>7, <1>8, <1>9

\* The other requests and the clock.
LEMMA WorldInv == ASSUME IndInv, World PROVE IndInv'
<1>1. /\ UNCHANGED handlerVars /\ lasting' = lasting \cap Redeemable'
      /\ held' = [k \in Keys |-> held'[k]]
  BY PromiseKeepsShape DEF IndInv, TypeOK, World
<1>2. TypeOK'
  BY <1>1 DEF IndInv, TypeOK
<1>3. RoundOK'
  BY <1>1 DEF IndInv, RoundOK, Retrieving, OtherCalls
<1>4. LastingOK'
  BY <1>1 DEF IndInv, LastingOK, Calling, Turn, Due, CcrCalls
<1>5. EndOK'
  BY <1>1 DEF IndInv, EndOK, Answers, Blocked, Residual, CcrCalls, OtherCalls
<1>6. TurnsAnsweredInFull' /\ LastingIsDelivered'
  BY <1>1 DEF IndInv, TurnsAnsweredInFull, LastingIsDelivered
<1> QED
  BY <1>2, <1>3, <1>4, <1>5, <1>6 DEF IndInv

\* A round begins, with nothing but retrievals to answer.
LEMMA BeginRoundInv == ASSUME IndInv, BeginRound PROVE IndInv'
<1>1. /\ phase = "parse" /\ Answers(response) /\ rounds' = rounds + 1 /\ results' = <<>>
      /\ lasting' = Redeemable /\ phase' = "status"
      /\ UNCHANGED <<now, held, stream, response, sent, failed, outVars>>
  BY DEF BeginRound
<1>2. /\ DOMAIN results' = {} /\ results' = [i \in 1..0 |-> results'[i]]
  BY <1>1
<1>3. /\ rounds < MaxRounds /\ OtherCalls(response) = {}
      /\ Len(response) \in Nat /\ 0 < Len(response)
  BY <1>1 DEF Answers, CcrCalls, IndInv, TypeOK
<1>4. Redeemable' = Redeemable
  BY <1>1 DEF Redeemable, Stored, Lapsed
<1>5. TypeOK'
  <2>1. rounds + 1 \in 0..MaxRounds
    BY <1>3, TurnsRoundsAssumption DEF IndInv, TypeOK
  <2>2. Redeemable \subseteq Keys
    BY DEF Redeemable, Stored
  <2> QED
    BY <1>1, <1>2, <2>1, <2>2 DEF IndInv, TypeOK
<1>6. RoundOK'
  <2>1. OtherCalls(response') = {} /\ response' = response
    BY <1>1, <1>3
  <2>2. 0 \in 0..Len(response)
    BY <1>3
  <2> QED
    BY <1>1, <1>2, <1>3, <2>1, <2>2 DEF RoundOK, Retrieving, OtherCalls
<1>7. LastingOK' /\ LastingIsDelivered'
  BY <1>1, <1>2, <1>4 DEF LastingOK, LastingIsDelivered
<1>8. EndOK' /\ TurnsAnsweredInFull'
  BY <1>1 DEF IndInv, EndOK, TurnsAnsweredInFull
<1> QED
  BY <1>5, <1>6, <1>7, <1>8 DEF IndInv

\* The turn goes out with all its results.
LEMMA SendInv == ASSUME IndInv, Send PROVE IndInv'
<1> DEFINE answered == [i \in DOMAIN results |-> results[i].call]
<1>1. /\ phase = "send" /\ sent' = Append(sent, [calls |-> response, answered |-> answered])
      /\ results' = <<>> /\ phase' = "await"
      /\ UNCHANGED <<now, held, stream, response, rounds, failed, lasting, outVars>>
  BY DEF Send
<1>2. answered = response /\ response \in Seq(Keys)
  <2>1. PICK m \in 0..Len(response) :
           results = [i \in 1..m |-> results[i]] /\ m = Len(response)
    BY <1>1 DEF IndInv, RoundOK, Retrieving
  <2>2. response \in Seq(Calls) /\ DOMAIN results = 1..Len(response)
    BY <2>1 DEF IndInv, TypeOK
  <2>3. \A i \in 1..Len(response) : results[i].call = response[i] /\ results[i].call \in Keys
    BY <1>1, <2>2 DEF IndInv, TypeOK, RoundOK
  <2>4. response = [i \in 1..Len(response) |-> response[i]] /\ Len(response) \in Nat
    BY <2>2
  <2>5. answered = response
    BY <2>2, <2>3, <2>4
  <2>6. response \in [1..Len(response) -> Keys]
    BY <2>3, <2>4
  <2> QED
    BY <2>4, <2>5, <2>6, SeqDef
<1> HIDE DEF answered
<1>3. PICK turn \in Filled : turn = [calls |-> response, answered |-> answered]
  BY <1>2 DEF Filled, IndInv, TypeOK
<1>4. sent \in Seq(Filled) /\ \A n \in 1..Len(sent) : sent[n].answered = sent[n].calls
  BY DEF IndInv, TypeOK, TurnsAnsweredInFull, Filled
<1>5. /\ sent' \in Seq(Filled) /\ Len(sent') = Len(sent) + 1
      /\ sent'[Len(sent) + 1] = turn
      /\ \A n \in 1..Len(sent) : sent'[n] = sent[n]
  BY <1>1, <1>3, <1>4
<1>6. TurnsAnsweredInFull'
  <2>1. \A n \in 1..Len(sent') : n = Len(sent) + 1 \/ n \in 1..Len(sent)
    BY <1>4, <1>5
  <2> QED
    BY <1>2, <1>3, <1>4, <1>5, <2>1 DEF TurnsAnsweredInFull
<1>7. DOMAIN results' = {}
  BY <1>1
<1>8. TypeOK'
  BY <1>1, <1>5, <1>7 DEF IndInv, TypeOK, Filled
<1>9. RoundOK' /\ LastingOK' /\ EndOK' /\ LastingIsDelivered'
  BY <1>1, <1>7 DEF IndInv, RoundOK, Retrieving, LastingOK, EndOK, LastingIsDelivered,
                    Redeemable, Stored, Lapsed
<1> QED
  BY <1>6, <1>8, <1>9 DEF IndInv

\* The next response, or none.
LEMMA ContinueInv == ASSUME IndInv, Continue \/ ContinuationFails PROVE IndInv'
<1>1. /\ phase = "await" /\ response' \in Seq(Calls)
      /\ phase' = "parse" \/ (phase' = "hooks" /\ failed')
      /\ failed' \in BOOLEAN
      /\ UNCHANGED <<now, held, stream, rounds, results, sent, lasting, outVars>>
  <2>1. response \in Seq(Calls) /\ failed \in BOOLEAN
    BY DEF IndInv, TypeOK
  <2>2. CASE Continue
    <3>1. /\ response' \in Responses /\ phase = "await" /\ phase' = "parse"
          /\ UNCHANGED <<now, held, stream, rounds, results, sent, failed, lasting, outVars>>
      BY <2>2 DEF Continue
    <3> QED
      BY <2>1, <3>1, ResponsesAreSeqs
  <2>3. CASE ContinuationFails
    BY <2>1, <2>3 DEF ContinuationFails
  <2> QED
    BY <2>2, <2>3
<1>2. TypeOK'
  BY <1>1 DEF IndInv, TypeOK
<1>3. RoundOK' /\ LastingOK' /\ EndOK'
  BY <1>1 DEF IndInv, RoundOK, Retrieving, LastingOK, EndOK, Redeemable, Stored, Lapsed
<1>4. TurnsAnsweredInFull' /\ LastingIsDelivered'
  BY <1>1 DEF IndInv, TurnsAnsweredInFull, LastingIsDelivered
<1> QED
  BY <1>2, <1>3, <1>4 DEF IndInv

\* The loop ends, and the answer goes out, or an exception ends it all.
LEMMA EndInv == ASSUME IndInv, EndLoop \/ Answer \/ Raise PROVE IndInv'
<1>1. UNCHANGED <<now, held, lasting, stream, loopVars, upstream, redriven>>
  BY DEF EndLoop, Answer, Raise
<1>2. phase' \in {"hooks", "done"} /\ status' \in {0, 502} \union Statuses
  BY DEF IndInv, TypeOK, EndLoop, Answer, Raise
<1>3. TypeOK'
  BY <1>1, <1>2 DEF IndInv, TypeOK
<1>4. RoundOK' /\ LastingOK'
  BY <1>1, <1>2 DEF IndInv, RoundOK, Retrieving, LastingOK, Redeemable, Stored, Lapsed
<1>5. EndOK'
  <2>1. Blocked' = Blocked /\ Answers(response)' = Answers(response)
    BY <1>1 DEF Blocked, Residual, Answers, CcrCalls, OtherCalls
  <2>2. CASE EndLoop
    BY <1>1, <2>1, <2>2 DEF IndInv, EndOK, EndLoop, Ends
  <2>3. CASE Answer
    <3>1. status' = 200 => ~Blocked
      BY <2>3 DEF Answer
    <3> QED
      BY <1>1, <2>1, <2>3, <3>1 DEF IndInv, EndOK, Answer
  <2>4. CASE Raise
    BY <2>4 DEF EndOK, Raise
  <2> QED
    BY <2>2, <2>3, <2>4
<1>6. TurnsAnsweredInFull' /\ LastingIsDelivered'
  BY <1>1 DEF IndInv, TurnsAnsweredInFull, LastingIsDelivered
<1> QED
  BY <1>3, <1>4, <1>5, <1>6 DEF IndInv

\* Another response takes the place of the loop's, or none does.
LEMMA ReplaceInv == ASSUME IndInv, RunHooks \/ HandleMemory PROVE IndInv'
<1>1. /\ phase \in {"hooks", "memory"} /\ phase' \in {"memory", "answer"}
      /\ UNCHANGED <<now, held, lasting, stream, rounds, results, sent, failed, status>>
  BY DEF RunHooks, HandleMemory
<1>2. /\ response' \in Seq(Calls) /\ upstream' \in Statuses
      /\ (response' = response /\ redriven' = redriven) \/ redriven' = TRUE
  BY ResponsesAreSeqs DEF IndInv, TypeOK, RunHooks, HandleMemory
<1>3. TypeOK'
  <2>1. redriven' \in BOOLEAN
    BY <1>2 DEF IndInv, TypeOK
  <2> QED
    BY <1>1, <1>2, <2>1 DEF IndInv, TypeOK
<1>4. RoundOK' /\ LastingOK'
  BY <1>1 DEF IndInv, RoundOK, Retrieving, LastingOK, Redeemable, Stored, Lapsed
<1>5. EndOK'
  <2>1. status' = 0
    BY <1>1 DEF IndInv, EndOK
  <2>2. CASE response' = response /\ redriven' = redriven
    BY <1>1, <2>1, <2>2 DEF IndInv, EndOK, Answers, CcrCalls, OtherCalls
  <2>3. CASE redriven' = TRUE
    BY <2>1, <2>3 DEF EndOK
  <2> QED
    BY <1>2, <2>2, <2>3
<1>6. TurnsAnsweredInFull' /\ LastingIsDelivered'
  BY <1>1 DEF IndInv, TurnsAnsweredInFull, LastingIsDelivered
<1> QED
  BY <1>3, <1>4, <1>5, <1>6 DEF IndInv

\* Nothing is answered yet, and nothing known to last.
LEMMA InitInv == Init => IndInv
<1> SUFFICES ASSUME Init PROVE IndInv
  OBVIOUS
<1>1. response \in Seq(Calls)
  BY ResponsesAreSeqs DEF Init
<1>2. results = <<>> /\ DOMAIN results = {} /\ sent = <<>> /\ Len(sent) = 0
  BY DEF Init
<1>3. TypeOK
  <2>1. held = [k \in Keys |-> held[k]]
    BY DEF Init, PromiseInit
  <2>2. sent \in Seq([calls : Seq(Calls), answered : Seq(Keys)])
    BY <1>2
  <2>3. 0 \in 0..MaxRounds
    BY TurnsRoundsAssumption
  <2>4. /\ stream \in BOOLEAN /\ phase = "parse" /\ rounds = 0 /\ failed = FALSE
        /\ redriven = FALSE /\ upstream \in Statuses /\ lasting = {} /\ status = 0
    BY DEF Init, Statuses
  <2> QED
    BY <1>1, <1>2, <2>1, <2>2, <2>3, <2>4 DEF TypeOK
<1>4. RoundOK /\ LastingOK /\ EndOK
  BY DEF Init, RoundOK, Retrieving, LastingOK, EndOK
<1>5. TurnsAnsweredInFull /\ LastingIsDelivered
  BY <1>2 DEF TurnsAnsweredInFull, LastingIsDelivered
<1> QED
  BY <1>3, <1>4, <1>5 DEF IndInv

\* The invariant is inductive.
LEMMA NextInv == IndInv /\ [Next]_vars => IndInv'
<1> SUFFICES ASSUME IndInv, [Next]_vars PROVE IndInv'
  OBVIOUS
<1>1. CASE Handler
  BY <1>1, AccessInv, BeginRoundInv, SendInv, ContinueInv, EndInv, ReplaceInv DEF Handler
<1>2. CASE World
  BY <1>2, WorldInv
<1>3. CASE UNCHANGED vars
  <2>1. TypeOK' /\ RoundOK'
    BY <1>3 DEF IndInv, TypeOK, RoundOK, Retrieving, OtherCalls
  <2>2. LastingOK'
    BY <1>3 DEF IndInv, LastingOK, Calling, Turn, Due, CcrCalls, Redeemable, Stored, Lapsed
  <2>3. EndOK'
    BY <1>3 DEF IndInv, EndOK, Answers, Blocked, Residual, CcrCalls, OtherCalls
  <2>4. TurnsAnsweredInFull' /\ LastingIsDelivered'
    BY <1>3 DEF IndInv, TurnsAnsweredInFull, LastingIsDelivered
  <2> QED
    BY <2>1, <2>2, <2>3, <2>4 DEF IndInv
<1>4. CASE Raise
  BY <1>4, EndInv
<1> QED
  BY <1>1, <1>2, <1>3, <1>4 DEF Next

-----------------------------------------------------------------------------
(* The theorems *)

\* The inductive invariant of handle_response() and the handler around it.
THEOREM TurnsInvariance == Spec => []IndInv
BY InitInv, NextInv, PTL DEF Spec

\* Every assistant turn that goes back to the provider carries a result for
\* each of its calls, whatever the store and the provider do.
THEOREM AnsweredInFull == Spec => []TurnsAnsweredInFull
<1>1. IndInv => TurnsAnsweredInFull
  BY DEF IndInv
<1> QED
  BY <1>1, TurnsInvariance, PTL

\* What stays redeemable for the whole round is delivered, although
\* _execute_retrieval() looks at the store up to three times.
THEOREM LastingDelivered == Spec => []LastingIsDelivered
<1>1. IndInv => LastingIsDelivered
  BY DEF IndInv
<1> QED
  BY <1>1, TurnsInvariance, PTL

\* A retrieval is left to a client that cannot answer it only where the code
\* says why: what ended the loop, or what came after it.
THEOREM Leftovers == Spec => []LeftoversExplained
<1>1. IndInv => LeftoversExplained
  <2>1. SUFFICES ASSUME IndInv, status = 200, Residual(response) = "error"
                 PROVE  ~stream /\ (failed \/ rounds = MaxRounds \/ redriven)
    BY DEF LeftoversExplained
  <2>2. CcrCalls(response) # {} /\ OtherCalls(response) = {}
    BY <2>1 DEF Residual
  <2>3. ~Blocked /\ (failed \/ redriven \/ ~Answers(response))
    BY <2>1 DEF IndInv, EndOK
  <2>4. ~stream
    BY <2>1, <2>3 DEF Blocked, IndInv, TypeOK
  <2>5. failed \/ rounds = MaxRounds \/ redriven
    BY <2>1, <2>2, <2>3, TurnsRoundsAssumption DEF Answers, IndInv, TypeOK
  <2> QED
    BY <2>4, <2>5
<1> QED
  BY <1>1, TurnsInvariance, PTL

\* The handler's accesses keep the store's promise: composed with it, the store
\* is still a RedeemableStore.
THEOREM StoreKeepsPromise == Spec => PromiseSpec
<1>1. Init => PromiseInit
  BY DEF Init
<1>2. ASSUME IndInv, [Next]_vars
      PROVE  [PromiseNext]_promiseVars
  <2>1. held = [k \in Keys |-> held[k]]
    BY <1>2 DEF IndInv, TypeOK
  <2>2. CASE AskStatus \/ Fetch \/ ExplainMiss
    BY <2>1, <2>2, CleanKeeps DEF AskStatus, Fetch, ExplainMiss
  <2>3. CASE World
    BY <2>3 DEF World
  <2>4. CASE UNCHANGED <<now, held>>
    BY <2>4 DEF promiseVars
  <2> QED
    BY <1>2, <2>2, <2>3, <2>4 DEF Next, Handler, BeginRound, RetrievalRaises, Send,
       Continue, ContinuationFails, EndLoop, RunHooks, HandleMemory, Answer, Raise
<1>3. IndInv /\ [Next]_vars => [PromiseNext]_promiseVars
  BY <1>2
<1> QED
  BY <1>1, <1>3, TurnsInvariance, PTL DEF Spec, PromiseSpec
=============================================================================
