-------------------------- MODULE SessionLineages --------------------------
(***************************************************************************)
(* cache/prefix_tracker.py, SessionTrackerStore: which prefix tracker      *)
(* serves a request.  A session id may cover several conversations; the    *)
(* store tells them apart by their histories.                              *)
(*                                                                         *)
(* The proxy's event loop runs resolve_tracker() without a break, so two   *)
(* calls never overlap; but the call looks at the clock twice, and time    *)
(* may cross a boundary in between.  Responses come back later, in any     *)
(* order, and write to the tracker object their request was given, which   *)
(* the store may have dropped meanwhile.                                   *)
(*                                                                         *)
(* A history is a sequence of canonicalised messages; the empty one stands *)
(* for a request without any (no lineage signal).  A tracker is its idle   *)
(* time and the history of the last response it recorded: its frozen       *)
(* prefix is a function of that response.  Prefix freezing is enabled.     *)
(***************************************************************************)
EXTENDS Integers, FiniteSets, SequencesExt

CONSTANTS
    Sessions,  \* session ids
    Requests,  \* requests that can be in flight together
    Messages,  \* canonicalised messages
    Cap,       \* max_lineages_per_session
    TTL,       \* session_ttl_seconds
    Interval,  \* _cleanup_interval
    MaxLength, \* bound: messages in a history
    MaxNumber  \* bound: the lineage counter stops here

ASSUME LineageSetsAssumption   == IsFiniteSet(Sessions) /\ IsFiniteSet(Requests)
ASSUME LineageCapAssumption    == Cap \in Nat \ {0}
ASSUME LineageTimeAssumption   == TTL \in Nat /\ Interval \in Nat /\ Interval > 1
ASSUME LineageBoundsAssumption == MaxLength \in Nat /\ MaxNumber \in Nat

\* Tracker keys: <<s, 0>> is the bare session id, <<s, Overflow>> the tracker
\* the conversations over the cap share.
Overflow == -1
Keys == Sessions \X (Nat \union {Overflow})

Histories == UNION {[1..n -> Messages] : n \in 0..MaxLength}
Tracker   == [idle : 0..TTL + 1, recorded : Seq(Messages)]

\* Not in flight; in flight on a tracker the store has dropped; no call.
Free   == [state |-> "free"]
Orphan == [state |-> "orphan"]
NoCall == [state |-> "none"]

VARIABLES
    sinceSweep, \* time since _last_cleanup, up to Interval
    trackers,   \* _trackers: key -> tracker
    families,   \* _lineages: session -> key -> history of its last request
    counter,    \* the next value of _lineage_counter
    sent,       \* each request: Free, or its history and its tracker
    call,       \* the running resolve_tracker(), between its looks at the clock
    detached    \* history: sessions whose family was pruned away in mid-call

vars == <<sinceSweep, trackers, families, counter, sent, call, detached>>

Put(f, k, v) == [x \in DOMAIN f \union {k} |-> IF x = k THEN v ELSE f[x]]
Without(f, S) == [x \in DOMAIN f \ S |-> f[x]]

Init ==
    /\ sinceSweep = 0
    /\ trackers = <<>>
    /\ families = [s \in Sessions |-> <<>>]
    /\ counter = 1
    /\ sent = [r \in Requests |-> Free]
    /\ call = NoCall
    /\ detached = {}

-----------------------------------------------------------------------------
(* _maybe_cleanup() *)

\* The trackers it drops if called now.
Expired == {k \in DOMAIN trackers : trackers[k].idle > TTL}
Gone    == IF sinceSweep >= Interval THEN Expired ELSE {}

SweptTrackers == Without(trackers, Gone)
SweptUnindexed(s) == families[s]  \* mutant
SweptFamily(s) ==
    IF Gone = {} THEN families[s]
    ELSE Without(families[s], {k \in DOMAIN families[s] : k \notin DOMAIN trackers \ Gone})

\* A request keeps its tracker object, but the store no longer knows it.
SweptSent ==
    [r \in Requests |->
        IF sent[r].state = "kept" /\ sent[r].key \in Gone
        THEN Orphan ELSE sent[r]]

SinceSweep == IF sinceSweep >= Interval THEN 0 ELSE sinceSweep

-----------------------------------------------------------------------------
(* resolve_tracker() *)

\* get_or_create(): the access counts as activity.
GetOrCreate(k) ==
    Put(SweptTrackers, k,
        [idle |-> 0,
         recorded |-> IF k \in DOMAIN SweptTrackers THEN trackers[k].recorded ELSE <<>>])

\* The lineages whose last request the history extends, and the longest.
ExtendsBackwards(chain, h) == IsPrefix(h, chain)  \* mutant
Extends(chain, h) == IsPrefix(chain, h)
Matches(s, h) == {k \in DOMAIN SweptFamily(s) : Extends(SweptFamily(s)[k], h)}
BestAny(s, h) == Matches(s, h)  \* mutant: the first match wins
Best(s, h) ==
    {k \in Matches(s, h) : \A j \in Matches(s, h) :
        Len(SweptFamily(s)[j]) <= Len(SweptFamily(s)[k])}

HasRoomOffByOne(s) == Cardinality(DOMAIN SweptFamily(s)) <= Cap  \* mutant
HasRoom(s) == Cardinality(DOMAIN SweptFamily(s)) < Cap

NextNumberByCount(s) == Cardinality(DOMAIN SweptFamily(s))  \* mutant
NextNumber(s) == counter

\* A new lineage rides the bare session id if it is the only one.
NewKey(s) ==
    IF ~HasRoom(s) THEN <<s, Overflow>>
    ELSE IF DOMAIN SweptFamily(s) = {} THEN <<s, 0>> ELSE <<s, NextNumber(s)>>

\* First look at the clock, sweep, and match.
ResolveMatch(r, s, h) ==
    /\ call = NoCall /\ sent[r] = Free /\ h # <<>>
    /\ counter < MaxNumber
    /\ \E k \in IF Matches(s, h) # {} THEN Best(s, h) ELSE {NewKey(s)} :
          /\ call' = [state |-> "stamp", request |-> r, session |-> s, snap |-> h,
                      key |-> k, ticked |-> FALSE]
          /\ counter' = IF Matches(s, h) = {} /\ k[2] > 0
                        THEN counter + 1 ELSE counter
    /\ trackers' = SweptTrackers
    /\ families' = [x \in Sessions |-> SweptFamily(x)]
    /\ sent' = SweptSent
    /\ sinceSweep' = SinceSweep
    /\ UNCHANGED detached

\* A sweep that drops something also drops the families it empties.
Detaches(s) == Gone # {} /\ DOMAIN SweptFamily(s) = {}

\* Second look, in get_or_create(); the stamp goes to the family read before.
ResolveStamp ==
    /\ call # NoCall
    /\ LET s == call.session
           stamps == call.key # <<s, Overflow>>
       IN  /\ families' =
                [x \in Sessions |->
                   IF x = s /\ stamps /\ ~Detaches(s)
                   THEN Put(SweptFamily(s), call.key, call.snap) ELSE SweptFamily(x)]
           /\ detached' = IF stamps /\ Detaches(s) THEN detached \union {s} ELSE detached
    /\ trackers' = GetOrCreate(call.key)
    /\ sent' = [SweptSent EXCEPT ![call.request] =
                  [state |-> "kept", key |-> call.key, hist |-> call.snap]]
    /\ sinceSweep' = SinceSweep
    /\ call' = NoCall
    /\ UNCHANGED counter

\* No messages: one tracker per session id.
ResolveBare(r, s) ==
    /\ call = NoCall /\ sent[r] = Free
    /\ trackers' = GetOrCreate(<<s, 0>>)
    /\ families' = [x \in Sessions |-> SweptFamily(x)]
    /\ sent' = [SweptSent EXCEPT ![r] = [state |-> "kept", key |-> <<s, 0>>, hist |-> <<>>]]
    /\ sinceSweep' = SinceSweep
    /\ UNCHANGED <<counter, call, detached>>

-----------------------------------------------------------------------------
(* The response *)

\* update_from_response(): the tracker records what this request carried.
Respond(r) ==
    /\ call = NoCall /\ sent[r] # Free
    /\ trackers' =
          IF sent[r].state = "kept"
          THEN [trackers EXCEPT ![sent[r].key] = [idle |-> 0, recorded |-> sent[r].hist]]
          ELSE trackers
    /\ sent' = [sent EXCEPT ![r] = Free]
    /\ UNCHANGED <<sinceSweep, families, counter, call, detached>>

\* The request fails: nothing is recorded.
Fail(r) ==
    /\ call = NoCall /\ sent[r] # Free
    /\ sent' = [sent EXCEPT ![r] = Free]
    /\ UNCHANGED <<sinceSweep, trackers, families, counter, call, detached>>

\* A call is shorter than a unit of time, but may run across its end.
Tick ==
    /\ call # NoCall => ~call.ticked
    /\ sinceSweep' = IF sinceSweep < Interval THEN sinceSweep + 1 ELSE sinceSweep
    /\ trackers' = [k \in DOMAIN trackers |->
          [trackers[k] EXCEPT !.idle = IF @ <= TTL THEN @ + 1 ELSE @]]
    /\ call' = IF call = NoCall THEN call ELSE [call EXCEPT !.ticked = TRUE]
    /\ UNCHANGED <<families, counter, sent, detached>>

Next ==
    \/ Tick
    \/ ResolveStamp
    \/ \E r \in Requests :
          \/ Respond(r) \/ Fail(r)
          \/ \E s \in Sessions :
                ResolveBare(r, s) \/ \E h \in Histories : ResolveMatch(r, s, h)

Spec == Init /\ [][Next]_vars

-----------------------------------------------------------------------------
(* Properties *)

Chains == Seq(Messages)

\* Every variable stays in its type.
TypeOK ==
    /\ sinceSweep \in 0..Interval
    /\ DOMAIN trackers \subseteq Keys
    /\ \A k \in DOMAIN trackers : trackers[k] \in Tracker
    /\ families = [s \in Sessions |-> families[s]]
    /\ \A s \in Sessions :
          /\ DOMAIN families[s] \subseteq {s} \X Nat
          /\ \A k \in DOMAIN families[s] : families[s][k] \in Chains
    /\ counter \in Nat \ {0}
    /\ sent \in [Requests -> {Free, Orphan} \union
          [state : {"kept"}, key : Keys, hist : Chains]]
    /\ call \in {NoCall} \union
          [state : {"stamp"}, request : Requests, session : Sessions, snap : Chains,
           key : Keys, ticked : BOOLEAN]
    /\ detached \subseteq Sessions

\* The lineage index stays in step with the trackers: every indexed lineage has
\* its tracker, so a match never restarts a conversation cold.
IndexInStep == \A s \in Sessions : DOMAIN families[s] \subseteq DOMAIN trackers

\* Two lineages of a session never stand at the same history: which of them a
\* request continues does not depend on their order in the index.
ChainsDistinct ==
    \A s \in Sessions : \A j, k \in DOMAIN families[s] :
        families[s][j] = families[s][k] => j = k

\* The histories that reached tracker k: recorded, or in flight on it.
Reached(k) ==
    {trackers[k].recorded} \union {sent[r].hist : r \in {q \in Requests :
        sent[q].state = "kept" /\ sent[q].key = k}}

\* What a lineage's tracker has recorded, or is yet to record, is a prefix of
\* the lineage's history: in whatever order responses come, a conversation is
\* never frozen to a prefix of another one.  The exception is a session whose
\* family a sweep pruned away between the two looks at the clock.
RecordedWithinChain ==
    \A s \in Sessions \ detached : \A k \in DOMAIN families[s] :
        \A h \in Reached(k) : IsPrefix(h, families[s][k])

\* A family never outgrows the cap.
CapHolds == \A s \in Sessions : Cardinality(DOMAIN families[s]) <= Cap

\* A lineage is only ever continued, by a history that extends it, until its
\* tracker has been idle for the TTL.
LineagesOnlyGrow ==
    [][\A s \in Sessions : \A k \in DOMAIN families[s] :
         \/ trackers[k].idle > TTL
         \/ k \in DOMAIN families'[s] /\ IsPrefix(families[s][k], families'[s][k])]_vars

-----------------------------------------------------------------------------
(* The inductive invariant *)

\* Numbered keys come from the counter, each once.
NumbersUsed ==
    /\ \A k \in DOMAIN trackers : k[2] < counter
    /\ \A r \in Requests : sent[r].state = "kept" => sent[r].key \in DOMAIN trackers

\* A bare tracker outside its family holds no history.
BareIsEmpty ==
    \A s \in Sessions \ detached :
        <<s, 0>> \in DOMAIN trackers \ DOMAIN families[s] =>
            \A h \in Reached(<<s, 0>>) : h = <<>>

\* What the match has settled when the stamp is made.
CallOK ==
    call # NoCall =>
        LET s == call.session
            F == families[s]
        IN  \/ call.key = <<s, Overflow>>
            \/ /\ call.key \in DOMAIN F
               /\ IsPrefix(F[call.key], call.snap)
               /\ \A k \in DOMAIN F : F[k] = call.snap => k = call.key
            \/ /\ call.key \notin DOMAIN F
               /\ call.key = <<s, 0>> \/ call.key \notin DOMAIN trackers
               /\ call.key[1] = s /\ call.key[2] \in 0..counter - 1
               /\ Cardinality(DOMAIN F) < Cap
               /\ \A k \in DOMAIN F : F[k] # call.snap

FamiliesFinite == \A s \in Sessions : IsFiniteSet(DOMAIN families[s])

IndInv ==
    /\ TypeOK /\ IndexInStep /\ ChainsDistinct /\ RecordedWithinChain /\ CapHolds
    /\ NumbersUsed /\ BareIsEmpty /\ CallOK /\ FamiliesFinite

-----------------------------------------------------------------------------
(* What a comment claims and the code does not do. *)

\* "so the family read here stays attached through the stamp at the end": the
\* lineage a request was given is in the index when resolve_tracker() returns.
StampIsRecorded ==
    [][(call # NoCall /\ call' = NoCall /\ call.key # <<call.session, Overflow>>) =>
          call.key \in DOMAIN families'[call.session]]_vars
=============================================================================
