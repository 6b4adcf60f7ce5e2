--------------------------- MODULE RetrievalTurns ---------------------------
(***************************************************************************)
(* ccr/response_handler.py, handle_response(), between the provider and    *)
(* the store: one response whose retrieval calls the proxy answers itself, *)
(* by continuing the conversation until the model stops asking.  Around it *)
(* the Anthropic handler: turn hooks and the memory tools may put another  *)
(* response in the place of the loop's before the client gets an answer.   *)
(*                                                                         *)
(* The store is RedeemableStore, the promise CompressionStore is shown to  *)
(* keep: other requests store, expire and evict between any two of its     *)
(* accesses.  The provider answers with any tool calls it likes, with an   *)
(* error body, or not at all.  What is said besides tool calls is left     *)
(* out, and so are the differences between the providers' formats.         *)
(***************************************************************************)
EXTENDS RedeemableStore, Sequences

CONSTANTS
    Malformed,  \* a call named legroom_retrieve whose hash does not parse
    Client,     \* a call of a tool that is the client's
    Memory,     \* a call of a memory tool
    MaxRounds,  \* max_retrieval_rounds
    MaxCalls    \* bound: tool calls in one response

ASSUME TurnsCallsAssumption  ==
    {Malformed, Client, Memory} \cap Keys = {} /\ Cardinality({Malformed, Client, Memory}) = 3
ASSUME TurnsRoundsAssumption == MaxRounds \in Nat \ {0}
ASSUME TurnsBoundsAssumption == MaxCalls \in Nat

Calls     == Keys \union {Malformed, Client, Memory}
Responses == UNION {[1..n -> Calls] : n \in 0..MaxCalls}

\* The provider's statuses: 400 stands for whatever is no 200.
Statuses == {200, 400}

VARIABLES
    stream,    \* the client asked for a stream: the answer is buffered first
    phase,     \* where handle_response(), then the handler, is
    response,  \* current_response: its tool calls
    rounds,    \* rounds
    results,   \* the results of this round so far, by the position of the call
    sent,      \* what the loop's continuations add to the messages, turn by turn
    upstream,  \* the status of the provider's response
    failed,    \* history: a continuation call raised
    redriven,  \* history: a hook or the memory tools replaced the loop's response
    lasting,   \* history: hashes redeemable ever since this round began
    status     \* of the answer; 0 before there is one

loopVars    == <<response, rounds, results, sent, failed>>
outVars     == <<upstream, redriven, status>>
handlerVars == <<stream, phase, loopVars, outVars>>
vars == <<now, held, lasting, handlerVars>>

Init ==
    /\ PromiseInit
    /\ stream \in BOOLEAN
    /\ phase = "parse"
    /\ response \in Responses
    /\ \E i \in 1..Len(response) : response[i] \in Keys \union {Malformed}
    /\ rounds = 0
    /\ results = <<>>
    /\ sent = <<>>
    /\ upstream = 200
    /\ failed = FALSE
    /\ redriven = FALSE
    /\ lasting = {}
    /\ status = 0

-----------------------------------------------------------------------------
(* parse_ccr_tool_calls() *)

\* A call whose hash does not parse goes with those of other tools.
CcrCalls(r)   == {i \in 1..Len(r) : r[i] \in Keys}
OtherCalls(r) == {i \in 1..Len(r) : r[i] \notin Keys}

\* residual_ccr_status()
Residual(r) ==
    IF CcrCalls(r) = {} THEN "resolved"
    ELSE IF OtherCalls(r) # {} THEN "mixed" ELSE "error"

-----------------------------------------------------------------------------
(* The store as the handler finds it *)

Redeemable == {k \in Stored : ~Lapsed(k)}

\* get_entry_status(): also at the last instant of an entry's TTL.
StatusEarly(k) ==  \* mutant: an entry expires when its age reaches the TTL
    IF k \notin Stored THEN "missing"
    ELSE IF now - held[k].created >= held[k].ttl THEN "expired" ELSE "available"
StatusOf(k) ==
    IF k \notin Stored THEN "missing" ELSE IF Lapsed(k) THEN "expired" ELSE "available"

\* An access to an expired entry deletes it.
CleanIfLapsed(k) ==
    held' = IF k \in Stored /\ Lapsed(k) THEN [held EXCEPT ![k] = Absent] ELSE held

\* The other requests and the clock.
World ==
    /\ PromiseNext
    /\ UNCHANGED handlerVars
    /\ lasting' = lasting \cap Redeemable'

-----------------------------------------------------------------------------
(* handle_response() *)

\* mutant: the other calls of the response do not matter
AnswersAnyRetrieval(r) == rounds < MaxRounds /\ CcrCalls(r) # {}
Answers(r) == rounds < MaxRounds /\ CcrCalls(r) # {} /\ OtherCalls(r) = {}

\* mutant: a mixed turn is tried again instead of ending the loop
EndsUnlessMixed(r) == CcrCalls(r) = {} \/ rounds >= MaxRounds
Ends(r) == ~Answers(r)

BeginRound ==
    /\ phase = "parse"
    /\ Answers(response)
    /\ rounds' = rounds + 1
    /\ results' = <<>>
    /\ lasting' = Redeemable
    /\ phase' = "status"
    /\ UNCHANGED <<now, held, stream, response, sent, failed, outVars>>

\* The retrieval that is next in this round.
Due     == CcrCalls(response) \ DOMAIN results
Turn    == CHOOSE i \in Due : \A j \in Due : i <= j
Calling == response[Turn]

\* One more result; after the last one the continuation is made up.
Give(text) ==
    /\ results' = [i \in DOMAIN results \union {Turn} |->
          IF i = Turn THEN [call |-> Calling, says |-> text] ELSE results[i]]
    /\ phase' = IF Due = {Turn} THEN "send" ELSE "status"

\* _execute_retrieval(): first its status ...
AskStatus ==
    /\ phase = "status"
    /\ IF StatusOf(Calling) = "available"
       THEN phase' = "fetch" /\ UNCHANGED results
       ELSE Give(StatusOf(Calling))
    /\ CleanIfLapsed(Calling)
    /\ UNCHANGED <<now, stream, response, rounds, sent, failed, outVars>>
    /\ lasting' = lasting \cap Redeemable'

\* ... then the entry ...
Fetch ==
    /\ phase = "fetch"
    /\ IF Calling \in Redeemable
       THEN Give("content")
       ELSE phase' = "miss" /\ UNCHANGED results
    /\ CleanIfLapsed(Calling)
    /\ UNCHANGED <<now, stream, response, rounds, sent, failed, outVars>>
    /\ lasting' = lasting \cap Redeemable'

\* ... then, if it is not there any more, the status again.
ExplainMiss ==
    /\ phase = "miss"
    /\ Give(StatusOf(Calling))
    /\ CleanIfLapsed(Calling)
    /\ UNCHANGED <<now, stream, response, rounds, sent, failed, outVars>>
    /\ lasting' = lasting \cap Redeemable'

\* An access to the store raises: an error result.
RetrievalRaises ==
    /\ phase \in {"status", "fetch", "miss"}
    /\ Give("error")
    /\ UNCHANGED <<now, held, lasting, stream, response, rounds, sent, failed, outVars>>

\* The assistant's turn as it came, and the results, go to the provider.  What
\* counts of a result from here on is the call it answers.
Send ==
    /\ phase = "send"
    /\ sent' = Append(sent, [calls |-> response,
                             answered |-> [i \in DOMAIN results |-> results[i].call]])
    /\ results' = <<>>
    /\ phase' = "await"
    /\ UNCHANGED <<now, held, lasting, stream, response, rounds, failed, outVars>>

\* Any JSON body is the next response, an error body included: it has no calls.
Continue ==
    /\ phase = "await"
    /\ \E r \in Responses : response' = r
    /\ phase' = "parse"
    /\ UNCHANGED <<now, held, lasting, stream, rounds, results, sent, failed, outVars>>

\* The call raises (a transport error, a timeout, no JSON): the loop ends with
\* the response it had.
ContinuationFails ==
    /\ phase = "await"
    /\ failed' = TRUE
    /\ phase' = "hooks"
    /\ UNCHANGED <<now, held, lasting, stream, response, rounds, results, sent, outVars>>

EndLoop ==
    /\ phase = "parse"
    /\ Ends(response)
    /\ phase' = "hooks"
    /\ UNCHANGED <<now, held, lasting, stream, loopVars, outVars>>

-----------------------------------------------------------------------------
(* The request handler around it *)

\* Turn hooks may drive the model on and return any other response; a hook that
\* raises is skipped.  What they leave is a 200.
RunHooks ==
    /\ phase = "hooks"
    /\ \/ UNCHANGED <<response, redriven>>
       \/ \E r \in Responses : response' = r /\ redriven' = TRUE
    /\ phase' = "memory"
    /\ UNCHANGED <<now, held, lasting, stream, rounds, results, sent, failed, upstream, status>>

\* Calls of memory tools are answered by one more continuation, whose response
\* and status replace what there is.  Nothing changes if memory is off, if the
\* tools give no result, or if any of it raises.
HandleMemory ==
    /\ phase = "memory"
    /\ \/ UNCHANGED <<response, upstream, redriven>>
       \/ /\ \E i \in 1..Len(response) : response[i] = Memory
          /\ upstream' \in Statuses
          /\ \E r \in Responses : response' = r /\ (upstream' # 200 => r = <<>>)
          /\ redriven' = TRUE
    /\ phase' = "answer"
    /\ UNCHANGED <<now, held, lasting, stream, rounds, results, sent, failed, status>>

BlockedAfterFailure == stream /\ failed  \* mutant: the last round is forgotten
\* A buffered stream fails closed on a retrieval nobody can answer.
Blocked == stream /\ Residual(response) = "error"

\* The answer goes out with the provider's status; a buffered stream is blocked,
\* or cannot be turned into events.
Answer ==
    /\ phase = "answer"
    /\ \/ status' = IF upstream = 200 /\ Blocked THEN 502 ELSE upstream
       \/ stream /\ upstream = 200 /\ status' = 502
    /\ phase' = "done"
    /\ UNCHANGED <<now, held, lasting, stream, loopVars, upstream, redriven>>

\* An exception that nothing around it catches, a body that is no object for
\* one, ends in the handler's outer except.
Raise ==
    /\ phase \in {"parse", "send", "hooks", "memory", "answer"}
    /\ status' = 502
    /\ phase' = "done"
    /\ UNCHANGED <<now, held, lasting, stream, loopVars, upstream, redriven>>

Handler ==
    \/ BeginRound \/ AskStatus \/ Fetch \/ ExplainMiss \/ RetrievalRaises
    \/ Send \/ Continue \/ ContinuationFails \/ EndLoop
    \/ RunHooks \/ HandleMemory \/ Answer

Next == Handler \/ Raise \/ World

Spec == Init /\ [][Next]_vars

\* The handler runs on, and a continuation ends by its HTTP timeout at the
\* latest; the clock and the other requests owe it nothing.
FairSpec == Spec /\ WF_vars(Handler)

-----------------------------------------------------------------------------
(* Properties *)

Says == {"content", "missing", "expired", "available", "error"}

\* Every variable stays in its type.
TypeOK ==
    /\ held = [k \in Keys |-> held[k]]
    /\ stream \in BOOLEAN
    /\ phase \in {"parse", "status", "fetch", "miss", "send", "await",
                 "hooks", "memory", "answer", "done"}
    /\ response \in Seq(Calls)
    /\ rounds \in 0..MaxRounds
    /\ DOMAIN results \subseteq Nat
    /\ \A i \in DOMAIN results : results[i] \in [call : Keys, says : Says]
    /\ sent \in Seq([calls : Seq(Calls), answered : Seq(Keys)])
    /\ failed \in BOOLEAN /\ redriven \in BOOLEAN
    /\ upstream \in Statuses
    /\ lasting \subseteq Keys
    /\ status \in {0, 502} \union Statuses

\* Providers refuse a conversation in which a tool call has no result: every
\* assistant turn handle_response() sends back is answered in full, the turns of
\* the earlier rounds included.  The continuation of the memory tools is not the
\* loop's: it carries the memory results alone.
TurnsAnsweredInFull ==
    \A n \in 1..Len(sent) : sent[n].answered = sent[n].calls

\* A hash that could be redeemed from the beginning of the round on is never
\* denied, although its status and its content are read apart.
LastingIsDelivered ==
    \A i \in DOMAIN results :
        results[i].call \in lasting => results[i].says \in {"content", "error"}

\* A lone retrieval that the client cannot answer goes out as a success only on
\* a plain response, and only after a failed continuation, the last round, or a
\* response that came after the loop, from a turn hook or for the memory tools.
LeftoversExplained ==
    (status = 200 /\ Residual(response) = "error") =>
        ~stream /\ (failed \/ rounds = MaxRounds \/ redriven)

\* However often the model asks again, the client gets its answer.
Answered == <>(phase = "done")

-----------------------------------------------------------------------------
(* The inductive invariant *)

Retrieving == phase \in {"status", "fetch", "miss"}

\* In a round, the results so far are those of the calls so far.
RoundOK ==
    (Retrieving \/ phase = "send") =>
        /\ OtherCalls(response) = {}
        /\ \E m \in 0..Len(response) :
              /\ results = [i \in 1..m |-> results[i]]
              /\ IF Retrieving THEN m < Len(response) ELSE m = Len(response)
        /\ \A i \in DOMAIN results : results[i].call = response[i]

\* What can still be delivered; a miss never can.
LastingOK ==
    /\ lasting \subseteq Redeemable
    /\ phase = "miss" => Calling \notin lasting

\* How the loop was left, and what went out.
EndOK ==
    /\ (phase \in {"hooks", "memory", "answer"} \/ status = 200) =>
          failed \/ redriven \/ ~Answers(response)
    /\ phase # "done" => status = 0
    /\ status = 200 => ~Blocked

IndInv ==
    /\ TypeOK /\ RoundOK /\ LastingOK /\ EndOK
    /\ TurnsAnsweredInFull /\ LastingIsDelivered

-----------------------------------------------------------------------------
(* What a comment claims and the code does not do. *)

\* "NO SILENT FALLBACK: ... we re-raise on CCR errors instead of swallowing
\* them": a plain answer after a failed continuation is an error.
ErrorsAreRaised == status = 200 => ~failed
=============================================================================
