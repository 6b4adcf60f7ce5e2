-------------------------- MODULE PromptReplayProofs --------------------------
(***************************************************************************)
(* Proofs about SessionLineages and about PromptReplay, which extends it,  *)
(* for any sets of sessions, requests, messages and contexts, any cap, any *)
(* times to live and any number of turns.                                  *)
(*                                                                         *)
(* The first part is about SessionLineages alone.  That a lineage's        *)
(* tracker records only prefixes of its history rests on what the match    *)
(* leaves for the stamp (CallOK) and on the bare trackers outside the      *)
(* index having seen no history (BareIsEmpty).  In the second part the     *)
(* records keep in step with the trackers, so what a tracker records of a  *)
(* conversation (RecordedWithinChain) is what the overlay replays.         *)
(***************************************************************************)
EXTENDS PromptReplay, FiniteSetTheorems, SequenceTheorems, TLAPS

USE DEF vars, Chains

-----------------------------------------------------------------------------
(* Prefixes *)

\* A prefix agrees with the sequence as far as it goes.
LEMMA PrefixIs ==
    ASSUME NEW s \in Chains, NEW t \in Chains
    PROVE  IsPrefix(s, t) <=> Len(s) <= Len(t) /\ \A i \in 1..Len(s) : s[i] = t[i]
<1>1. SubSeq(s, 1, Len(s)) = s
  BY SubSeqFull
<1>2. CASE Len(s) <= Len(t)
  <2>1. /\ SubSeq(t, 1, Len(s)) \in Seq(Messages) /\ Len(SubSeq(t, 1, Len(s))) = Len(s)
        /\ \A i \in 1..Len(s) : SubSeq(t, 1, Len(s))[i] = t[i]
    BY <1>2
  <2>2. s = SubSeq(t, 1, Len(s)) <=> \A i \in 1..Len(s) : s[i] = SubSeq(t, 1, Len(s))[i]
    BY <2>1, SeqEqual
  <2> QED
    BY <1>1, <1>2, <2>1, <2>2 DEF IsPrefix
<1> QED
  BY <1>2 DEF IsPrefix

\* The order of prefixes; the empty history is below all.
LEMMA PrefixOrder ==
    /\ <<>> \in Chains
    /\ \A s \in Chains : IsPrefix(s, s) /\ IsPrefix(<<>>, s)
    /\ \A s, t, u \in Chains : IsPrefix(s, t) /\ IsPrefix(t, u) => IsPrefix(s, u)
    /\ \A s, t \in Chains : IsPrefix(s, t) /\ Len(t) <= Len(s) => s = t
<1>1. <<>> \in Chains /\ Len(<<>>) = 0
  OBVIOUS
<1>2. ASSUME NEW s \in Chains
      PROVE  IsPrefix(s, s) /\ IsPrefix(<<>>, s)
  <2>1. Len(s) \in Nat
    OBVIOUS
  <2>2. IsPrefix(s, s)
    BY PrefixIs
  <2>3. IsPrefix(<<>>, s)
    <3>1. PICK e \in Chains : e = <<>>
      BY <1>1
    <3>2. Len(e) = 0
      BY <3>1
    <3>3. /\ Len(e) <= Len(s)
          /\ \A i \in 1..Len(e) : e[i] = s[i]
      BY <2>1, <3>2
    <3>4. IsPrefix(e, s)
      BY <3>3, PrefixIs
    <3> QED
      BY <3>1, <3>4
  <2> QED
    BY <2>2, <2>3
<1>3. ASSUME NEW s \in Chains, NEW t \in Chains, NEW u \in Chains,
             IsPrefix(s, t), IsPrefix(t, u)
      PROVE  IsPrefix(s, u)
  <2>1. /\ Len(s) <= Len(t) /\ \A i \in 1..Len(s) : s[i] = t[i]
        /\ Len(t) <= Len(u) /\ \A i \in 1..Len(t) : t[i] = u[i]
    BY <1>3, PrefixIs
  <2>2. Len(s) <= Len(u) /\ \A i \in 1..Len(s) : s[i] = u[i]
    BY <2>1
  <2> QED
    BY <2>2, PrefixIs
<1>4. ASSUME NEW s \in Chains, NEW t \in Chains, IsPrefix(s, t), Len(t) <= Len(s)
      PROVE  s = t
  <2>1. Len(s) <= Len(t) /\ \A i \in 1..Len(s) : s[i] = t[i]
    BY <1>4, PrefixIs
  <2>2. Len(s) = Len(t)
    BY <1>4, <2>1
  <2> QED
    BY <2>1, <2>2, SeqEqual
<1> QED
  BY <1>1, <1>2, <1>3, <1>4

\* A client's history is a chain.
LEMMA HistoriesAreChains == Histories \subseteq Chains
<1>1. ASSUME NEW n \in 0..MaxLength, NEW h \in [1..n -> Messages]
      PROVE  h \in Chains
  BY LineageBoundsAssumption, SeqDef
<1> QED
  BY <1>1 DEF Histories

-----------------------------------------------------------------------------
(* The cleanup *)

\* What _maybe_cleanup() leaves: the index loses what the trackers lose.
LEMMA Swept ==
    ASSUME IndInv
    PROVE  /\ Gone \subseteq DOMAIN trackers /\ \A k \in Gone : trackers[k].idle > TTL
           /\ DOMAIN SweptTrackers = DOMAIN trackers \ Gone
           /\ \A k \in DOMAIN trackers \ Gone : SweptTrackers[k] = trackers[k]
           /\ \A s \in Sessions :
                 /\ DOMAIN SweptFamily(s) = DOMAIN families[s] \ Gone
                 /\ \A k \in DOMAIN families[s] \ Gone : SweptFamily(s)[k] = families[s][k]
           /\ \A r \in Requests :
                 SweptSent[r] = IF sent[r].state = "kept" /\ sent[r].key \in Gone
                                THEN Orphan ELSE sent[r]
<1>1. Gone \subseteq DOMAIN trackers /\ \A k \in Gone : trackers[k].idle > TTL
  BY DEF Gone, Expired
<1>2. DOMAIN SweptTrackers = DOMAIN trackers \ Gone
      /\ \A k \in DOMAIN trackers \ Gone : SweptTrackers[k] = trackers[k]
  BY DEF SweptTrackers, Without
<1>3. ASSUME NEW s \in Sessions
      PROVE  /\ DOMAIN SweptFamily(s) = DOMAIN families[s] \ Gone
             /\ \A k \in DOMAIN families[s] \ Gone : SweptFamily(s)[k] = families[s][k]
  <2>1. DOMAIN families[s] \subseteq DOMAIN trackers
    BY DEF IndInv, IndexInStep
  <2>2. CASE Gone = {}
    BY <2>2 DEF SweptFamily
  <2>3. CASE Gone # {}
    <3>1. {k \in DOMAIN families[s] : k \notin DOMAIN trackers \ Gone}
             = DOMAIN families[s] \intersect Gone
      BY <2>1
    <3> QED
      BY <2>3, <3>1 DEF SweptFamily, Without
  <2> QED
    BY <2>2, <2>3
<1>4. \A r \in Requests :
         SweptSent[r] = IF sent[r].state = "kept" /\ sent[r].key \in Gone
                        THEN Orphan ELSE sent[r]
  BY DEF SweptSent
<1> QED
  BY <1>1, <1>2, <1>3, <1>4

-----------------------------------------------------------------------------
(* The invariant of an index F over trackers T, with S in flight on them, n *)
(* the counter and d the sessions a sweep detached                         *)

Sents == {Free, Orphan} \union [state : {"kept"}, key : Keys, hist : Chains]
On(S, r, k) == S[r].state = "kept" /\ S[r].key = k

Typed(T, F, S) ==
    /\ DOMAIN T \subseteq Keys
    /\ \A k \in DOMAIN T : T[k] \in Tracker
    /\ F = [s \in Sessions |-> F[s]]
    /\ \A s \in Sessions :
          /\ DOMAIN F[s] \subseteq {s} \X Nat
          /\ \A k \in DOMAIN F[s] : F[s][k] \in Chains
    /\ S \in [Requests -> Sents]

Bounded(F) ==
    \A s \in Sessions : IsFiniteSet(DOMAIN F[s]) /\ Cardinality(DOMAIN F[s]) <= Cap

Indexed(T, F, S, n) ==
    /\ \A s \in Sessions : DOMAIN F[s] \subseteq DOMAIN T
    /\ \A s \in Sessions : \A j, k \in DOMAIN F[s] : F[s][j] = F[s][k] => j = k
    /\ \A k \in DOMAIN T : k[2] < n
    /\ \A r \in Requests : S[r].state = "kept" => S[r].key \in DOMAIN T

Reaches(T, F, S, d) ==
    \A s \in Sessions \ d : \A k \in DOMAIN F[s] :
        /\ IsPrefix(T[k].recorded, F[s][k])
        /\ \A r \in Requests : On(S, r, k) => IsPrefix(S[r].hist, F[s][k])

Bare(T, F, S, d) ==
    \A s \in Sessions \ d :
        <<s, 0>> \in DOMAIN T \ DOMAIN F[s] =>
            /\ T[<<s, 0>>].recorded = <<>>
            /\ \A r \in Requests : On(S, r, <<s, 0>>) => S[r].hist = <<>>

Lineages(T, F, S, n, d) ==
    Typed(T, F, S) /\ Bounded(F) /\ Indexed(T, F, S, n)
        /\ Reaches(T, F, S, d) /\ Bare(T, F, S, d)

Rest ==
    /\ sinceSweep \in 0..Interval
    /\ counter \in Nat \ {0}
    /\ call \in {NoCall} \union
          [state : {"stamp"}, request : Requests, session : Sessions, snap : Chains,
           key : Keys, ticked : BOOLEAN]
    /\ detached \subseteq Sessions
    /\ CallOK

\* The inductive invariant, said of its parts.
LEMMA IndInvIs == IndInv <=> Lineages(trackers, families, sent, counter, detached) /\ Rest
<1>1. TypeOK /\ CallOK <=> Typed(trackers, families, sent) /\ Rest
  BY DEF TypeOK, Typed, Rest, Sents
<1>2. CapHolds /\ FamiliesFinite <=> Bounded(families)
  BY DEF CapHolds, FamiliesFinite, Bounded
<1>3. IndexInStep /\ ChainsDistinct /\ NumbersUsed
         <=> Indexed(trackers, families, sent, counter)
  BY DEF IndexInStep, ChainsDistinct, NumbersUsed, Indexed
<1>4. RecordedWithinChain <=> Reaches(trackers, families, sent, detached)
  BY DEF RecordedWithinChain, Reaches, Reached, On
<1>5. BareIsEmpty <=> Bare(trackers, families, sent, detached)
  BY DEF BareIsEmpty, Bare, Reached, On
<1> QED
  BY <1>1, <1>2, <1>3, <1>4, <1>5 DEF IndInv, Lineages

\* The same of the next state.
LEMMA IndInvIsNext ==
    (IndInv <=> Lineages(trackers, families, sent, counter, detached) /\ Rest)'
BY IndInvIs, PTL

-----------------------------------------------------------------------------
(* What the operations do to an index *)

\* The trackers G dropped with their lineages, and their requests orphaned.
Drops(T, F, S, G, T2, F2, S2) ==
    /\ DOMAIN T2 = DOMAIN T \ G /\ \A k \in DOMAIN T2 : T2[k] = T[k]
    /\ F2 = [s \in Sessions |-> F2[s]]
    /\ \A s \in Sessions : DOMAIN F2[s] = DOMAIN F[s] \ G
    /\ \A s \in Sessions : \A k \in DOMAIN F2[s] : F2[s][k] = F[s][k]
    /\ S2 = [r \in Requests |->
              IF S[r].state = "kept" /\ S[r].key \in G THEN Orphan ELSE S[r]]

\* Dropping preserves the invariant.
LEMMA Dropped ==
    ASSUME NEW T, NEW F, NEW S, NEW n, NEW d, Lineages(T, F, S, n, d),
           NEW G, NEW T2, NEW F2, NEW S2, Drops(T, F, S, G, T2, F2, S2)
    PROVE  Lineages(T2, F2, S2, n, d)
<1> USE DEF Drops
<1>1. /\ S2 \in [Requests -> Sents]
      /\ \A r \in Requests : S2[r].state = "kept" => S2[r] = S[r] /\ S[r].key \notin G
  BY DEF Lineages, Typed, Sents, Orphan
<1>2. Typed(T2, F2, S2)
  BY <1>1 DEF Lineages, Typed
<1>3. Bounded(F2)
  <2>1. ASSUME NEW s \in Sessions
        PROVE  IsFiniteSet(DOMAIN F2[s]) /\ Cardinality(DOMAIN F2[s]) <= Cap
    <3>1. DOMAIN F2[s] \subseteq DOMAIN F[s] /\ IsFiniteSet(DOMAIN F[s])
          /\ Cardinality(DOMAIN F[s]) <= Cap
      BY DEF Lineages, Bounded
    <3>2. IsFiniteSet(DOMAIN F2[s]) /\ Cardinality(DOMAIN F2[s]) <= Cardinality(DOMAIN F[s])
      BY <3>1, FS_Subset
    <3> QED
      BY <3>1, <3>2, FS_CardinalityType, LineageCapAssumption
  <2> QED
    BY <2>1 DEF Bounded
<1>4. Indexed(T2, F2, S2, n)
  BY <1>1 DEF Lineages, Indexed
<1>5. Reaches(T2, F2, S2, d)
  BY <1>1 DEF Lineages, Indexed, Reaches, On
<1>6. Bare(T2, F2, S2, d)
  BY <1>1 DEF Lineages, Bare, On
<1> QED
  BY <1>2, <1>3, <1>4, <1>5, <1>6 DEF Lineages

\* Time moves the idle times only.
LEMMA Aged ==
    ASSUME NEW T, NEW F, NEW S, NEW n, NEW d, Lineages(T, F, S, n, d),
           NEW T2, DOMAIN T2 = DOMAIN T,
           \A k \in DOMAIN T : T2[k] \in Tracker /\ T2[k].recorded = T[k].recorded
    PROVE  Lineages(T2, F, S, n, d)
<1>1. Typed(T2, F, S) /\ Bounded(F) /\ Indexed(T2, F, S, n)
  BY DEF Lineages, Typed, Indexed
<1>2. Reaches(T2, F, S, d)
  BY DEF Lineages, Indexed, Reaches
<1>3. Bare(T2, F, S, d)
  BY DEF Lineages, Bare
<1> QED
  BY <1>1, <1>2, <1>3 DEF Lineages

\* A response: its tracker records what its request carried.
LEMMA Recorded ==
    ASSUME NEW T, NEW F, NEW S, NEW n, NEW d, Lineages(T, F, S, n, d),
           NEW r \in Requests, NEW T2, NEW v, v = [idle |-> 0, recorded |-> S[r].hist],
           T2 = T \/ (S[r].state = "kept" /\ T2 = [T EXCEPT ![S[r].key] = v])
    PROVE  Lineages(T2, F, [S EXCEPT ![r] = Free], n, d)
<1> DEFINE S2 == [S EXCEPT ![r] = Free]
<1>1. /\ S2 \in [Requests -> Sents]
      /\ \A q \in Requests : S2[q].state = "kept" => S2[q] = S[q]
  BY DEF Lineages, Typed, Sents, Free
<1>2. S[r].state = "kept" => S[r].key \in DOMAIN T /\ S[r].hist \in Chains
  BY DEF Lineages, Typed, Indexed, Sents, Free, Orphan
<1>3. /\ DOMAIN T2 = DOMAIN T
      /\ \A k \in DOMAIN T : T2[k] \in Tracker
      /\ \A k \in DOMAIN T : T2[k] = T[k] \/ (On(S, r, k) /\ T2[k].recorded = S[r].hist)
  <2>1. 0 \in 0..TTL + 1
    BY LineageTimeAssumption
  <2>2. \A h \in Chains : [idle |-> 0, recorded |-> h] \in Tracker
    BY <2>1 DEF Tracker
  <2>3. \A k \in DOMAIN T : T[k] \in Tracker
    BY DEF Lineages, Typed
  <2>4. CASE T2 = T
    BY <2>3, <2>4
  <2>5. CASE S[r].state = "kept" /\ T2 = [T EXCEPT ![S[r].key] = v]
    <3>1. DOMAIN T2 = DOMAIN T /\ T2[S[r].key] = v
          /\ \A k \in DOMAIN T : k # S[r].key => T2[k] = T[k]
      BY <1>2, <2>5
    <3> QED
      BY <1>2, <2>2, <2>3, <2>5, <3>1 DEF On
  <2> QED
    BY <2>4, <2>5
<1>4. Typed(T2, F, S2) /\ Bounded(F) /\ Indexed(T2, F, S2, n)
  BY <1>1, <1>3 DEF Lineages, Typed, Indexed
<1>5. Reaches(T2, F, S2, d)
  BY <1>1, <1>3 DEF Lineages, Indexed, Reaches, On
<1>6. Bare(T2, F, S2, d)
  BY <1>1, <1>3 DEF Lineages, Bare, On
<1> QED
  BY <1>4, <1>5, <1>6 DEF Lineages

\* What get_or_create() and the request it is given to do to the trackers.
Given(T, S, T2, S2, r, k, h) ==
    /\ T2 = Put(T, k, [idle |-> 0, recorded |-> IF k \in DOMAIN T THEN T[k].recorded ELSE <<>>])
    /\ S2 = [S EXCEPT ![r] = [state |-> "kept", key |-> k, hist |-> h]]

Gains(T, S, T2, S2, k, h, n) ==
    /\ DOMAIN T2 = DOMAIN T \union {k} /\ DOMAIN T2 \subseteq Keys
    /\ \A j \in DOMAIN T2 : T2[j] \in Tracker /\ j[2] < n
    /\ \A j \in DOMAIN T : T2[j].recorded = T[j].recorded
    /\ k \notin DOMAIN T => T2[k].recorded = <<>>
    /\ S2 \in [Requests -> Sents]
    /\ \A q \in Requests : S2[q].state = "kept" => S2[q].key \in DOMAIN T2
    /\ \A q \in Requests, j \in Keys :
          On(S2, q, j) => (On(S, q, j) /\ S2[q] = S[q]) \/ (j = k /\ S2[q].hist = h)

\* The tracker keeps what it recorded; its reach gains one history.
LEMMA GivenIs ==
    ASSUME NEW T, NEW F, NEW S, NEW n, NEW d, Lineages(T, F, S, n, d),
           NEW r \in Requests, NEW k \in Keys, NEW h \in Chains, NEW T2, NEW S2,
           k[2] < n, Given(T, S, T2, S2, r, k, h)
    PROVE  Gains(T, S, T2, S2, k, h, n)
<1>0. PICK v : v = [idle |-> 0, recorded |-> IF k \in DOMAIN T THEN T[k].recorded ELSE <<>>]
  OBVIOUS
<1>a. T2 = Put(T, k, v)
  BY <1>0 DEF Given
<1>1. /\ DOMAIN T2 = DOMAIN T \union {k}
      /\ T2[k] = v
      /\ \A j \in DOMAIN T \ {k} : T2[j] = T[j]
  BY <1>a DEF Put
<1>b. T2[k].recorded = IF k \in DOMAIN T THEN T[k].recorded ELSE <<>>
  BY <1>0, <1>1
<1>2. T2[k] \in Tracker
  <2>1. 0 \in 0..TTL + 1
    BY LineageTimeAssumption
  <2>2. PICK c : c = IF k \in DOMAIN T THEN T[k].recorded ELSE <<>>
    OBVIOUS
  <2>3. c \in Chains
    BY <2>2, PrefixOrder DEF Lineages, Typed, Tracker
  <2>4. [idle |-> 0, recorded |-> c] \in Tracker
    BY <2>1, <2>3 DEF Tracker
  <2> QED
    BY <1>0, <1>1, <2>2, <2>4
<1>3. /\ DOMAIN T \subseteq Keys
      /\ \A j \in DOMAIN T : T[j] \in Tracker /\ j[2] < n
      /\ S \in [Requests -> Sents]
      /\ \A q \in Requests : S[q].state = "kept" => S[q].key \in DOMAIN T
  BY DEF Lineages, Typed, Indexed
<1>4. /\ S2 \in [Requests -> Sents]
      /\ S2[r] = [state |-> "kept", key |-> k, hist |-> h]
      /\ \A q \in Requests \ {r} : S2[q] = S[q]
  <2>1. [state |-> "kept", key |-> k, hist |-> h] \in Sents
    BY DEF Sents
  <2>2. PICK w : w = [state |-> "kept", key |-> k, hist |-> h]
    OBVIOUS
  <2>3. S2 = [S EXCEPT ![r] = w]
    BY <2>2 DEF Given
  <2> QED
    BY <1>3, <2>1, <2>2, <2>3
<1>5. \A q \in Requests, j \in Keys :
         On(S2, q, j) => (On(S, q, j) /\ S2[q] = S[q]) \/ (j = k /\ S2[q].hist = h)
  <2>1. ASSUME NEW q \in Requests, NEW j \in Keys, On(S2, q, j)
        PROVE  (On(S, q, j) /\ S2[q] = S[q]) \/ (j = k /\ S2[q].hist = h)
    BY <1>4, <2>1 DEF On
  <2> QED
    BY <2>1
<1>6. \A j \in DOMAIN T2 : T2[j] \in Tracker /\ j[2] < n
  BY <1>1, <1>2, <1>3
<1>7. \A q \in Requests : S2[q].state = "kept" => S2[q].key \in DOMAIN T2
  BY <1>1, <1>3, <1>4
<1>8. \A j \in DOMAIN T : T2[j].recorded = T[j].recorded
  BY <1>1, <1>b
<1>9. k \notin DOMAIN T => T2[k].recorded = <<>>
  BY <1>b
<1> QED
  BY <1>1, <1>3, <1>4, <1>5, <1>6, <1>7, <1>8, <1>9 DEF Gains

\* A request is given a tracker without a stamp: it carries no history, or the
\* tracker is no lineage's.
LEMMA GivenUnstamped ==
    ASSUME NEW T, NEW F, NEW S, NEW n, NEW d, Lineages(T, F, S, n, d),
           NEW r \in Requests, NEW k \in Keys, NEW h \in Chains, NEW T2, NEW S2,
           k[2] < n, Given(T, S, T2, S2, r, k, h),
           h = <<>> \/ (\A s \in Sessions \ d : k \notin DOMAIN F[s] /\ k # <<s, 0>>)
    PROVE  Lineages(T2, F, S2, n, d)
<1>0. Gains(T, S, T2, S2, k, h, n)
  BY GivenIs
<1>1. /\ DOMAIN T2 = DOMAIN T \union {k} /\ DOMAIN T2 \subseteq Keys
      /\ \A j \in DOMAIN T2 : T2[j] \in Tracker /\ j[2] < n
      /\ \A j \in DOMAIN T : T2[j].recorded = T[j].recorded
      /\ k \notin DOMAIN T => T2[k].recorded = <<>>
      /\ S2 \in [Requests -> Sents]
      /\ \A q \in Requests : S2[q].state = "kept" => S2[q].key \in DOMAIN T2
      /\ \A q \in Requests, j \in Keys :
            On(S2, q, j) => (On(S, q, j) /\ S2[q] = S[q]) \/ (j = k /\ S2[q].hist = h)
  BY <1>0 DEF Gains
<1>2. /\ \A s \in Sessions : DOMAIN F[s] \subseteq DOMAIN T
      /\ \A s \in Sessions : \A j \in DOMAIN F[s] : F[s][j] \in Chains
      /\ DOMAIN T \subseteq Keys
  BY DEF Lineages, Indexed, Typed
<1>3. Typed(T2, F, S2) /\ Bounded(F)
  BY <1>1 DEF Lineages, Typed
<1>4. Indexed(T2, F, S2, n)
  BY <1>1 DEF Lineages, Indexed
<1>5. Reaches(T2, F, S2, d)
  <2>1. ASSUME NEW s \in Sessions \ d, NEW j \in DOMAIN F[s]
        PROVE  /\ IsPrefix(T2[j].recorded, F[s][j])
               /\ \A q \in Requests : On(S2, q, j) => IsPrefix(S2[q].hist, F[s][j])
    <3>1. /\ IsPrefix(T[j].recorded, F[s][j])
          /\ \A q \in Requests : On(S, q, j) => IsPrefix(S[q].hist, F[s][j])
      BY DEF Lineages, Reaches
    <3>2. IsPrefix(<<>>, F[s][j])
      BY <1>2, PrefixOrder
    <3> QED
      BY <1>1, <1>2, <3>1, <3>2
  <2> QED
    BY <2>1 DEF Reaches
<1>6. Bare(T2, F, S2, d)
  <2>1. ASSUME NEW s \in Sessions \ d, <<s, 0>> \in DOMAIN T2 \ DOMAIN F[s]
        PROVE  /\ T2[<<s, 0>>].recorded = <<>>
               /\ \A q \in Requests : On(S2, q, <<s, 0>>) => S2[q].hist = <<>>
    <3>1. CASE <<s, 0>> \in DOMAIN T
      <4>1. /\ T[<<s, 0>>].recorded = <<>>
            /\ \A q \in Requests : On(S, q, <<s, 0>>) => S[q].hist = <<>>
        BY <2>1, <3>1 DEF Lineages, Bare
      <4> QED
        BY <1>1, <1>2, <3>1, <4>1
    <3>2. CASE <<s, 0>> \notin DOMAIN T
      <4>1. k = <<s, 0>> /\ h = <<>>
        BY <1>1, <2>1, <3>2
      <4>2. \A q \in Requests : ~On(S, q, k)
        BY <3>2, <4>1 DEF Lineages, Indexed, On
      <4> QED
        BY <1>1, <3>2, <4>1, <4>2
    <3> QED
      BY <3>1, <3>2
  <2> QED
    BY <2>1 DEF Bare
<1> QED
  BY <1>3, <1>4, <1>5, <1>6 DEF Lineages

\* A request is given a lineage's tracker and stamps its history to it: it
\* continues the lineage, or opens it on a tracker that no history reached.
LEMMA GivenStamped ==
    ASSUME NEW T, NEW F, NEW S, NEW n, NEW d, Lineages(T, F, S, n, d),
           NEW r \in Requests, NEW k \in Keys, NEW h \in Chains, NEW T2, NEW S2,
           k[2] < n, Given(T, S, T2, S2, r, k, h),
           NEW s \in Sessions, k \in {s} \X Nat,
           \A j \in DOMAIN F[s] : F[s][j] = h => j = k,
           k \in DOMAIN F[s] => IsPrefix(F[s][k], h),
           k \notin DOMAIN F[s] => Cardinality(DOMAIN F[s]) < Cap,
           k \notin DOMAIN F[s] => k = <<s, 0>> \/ k \notin DOMAIN T,
           NEW F2, F2 = [x \in Sessions |-> IF x = s THEN Put(F[s], k, h) ELSE F[x]]
    PROVE  Lineages(T2, F2, S2, n, d)
<1>1. Gains(T, S, T2, S2, k, h, n)
  BY GivenIs
<1>2. /\ DOMAIN T2 = DOMAIN T \union {k} /\ DOMAIN T2 \subseteq Keys
      /\ \A j \in DOMAIN T2 : T2[j] \in Tracker /\ j[2] < n
      /\ \A j \in DOMAIN T : T2[j].recorded = T[j].recorded
      /\ k \notin DOMAIN T => T2[k].recorded = <<>>
      /\ S2 \in [Requests -> Sents]
      /\ \A q \in Requests : S2[q].state = "kept" => S2[q].key \in DOMAIN T2
      /\ \A q \in Requests, j \in Keys :
            On(S2, q, j) => (On(S, q, j) /\ S2[q] = S[q]) \/ (j = k /\ S2[q].hist = h)
  BY <1>1 DEF Gains
<1>3. /\ DOMAIN F2[s] = DOMAIN F[s] \union {k} /\ F2[s][k] = h
      /\ \A j \in DOMAIN F[s] \ {k} : F2[s][j] = F[s][j]
      /\ \A x \in Sessions \ {s} : F2[x] = F[x]
      /\ F2 = [x \in Sessions |-> F2[x]]
  BY DEF Put
<1>4. /\ \A x \in Sessions : DOMAIN F[x] \subseteq DOMAIN T /\ DOMAIN F[x] \subseteq {x} \X Nat
      /\ \A x \in Sessions : \A j \in DOMAIN F[x] : F[x][j] \in Chains
      /\ DOMAIN T \subseteq Keys
  BY DEF Lineages, Indexed, Typed
<1>5. Typed(T2, F2, S2)
  <2>1. ASSUME NEW x \in Sessions
        PROVE  /\ DOMAIN F2[x] \subseteq {x} \X Nat
               /\ \A j \in DOMAIN F2[x] : F2[x][j] \in Chains
    <3>1. CASE x = s
      BY <1>3, <1>4, <3>1
    <3>2. CASE x # s
      BY <1>3, <1>4, <3>2
    <3> QED
      BY <3>1, <3>2
  <2> QED
    BY <1>2, <1>3, <2>1 DEF Typed
<1>6. Bounded(F2)
  <2>1. ASSUME NEW x \in Sessions
        PROVE  IsFiniteSet(DOMAIN F2[x]) /\ Cardinality(DOMAIN F2[x]) <= Cap
    <3>1. IsFiniteSet(DOMAIN F[x]) /\ Cardinality(DOMAIN F[x]) <= Cap
      BY DEF Lineages, Bounded
    <3>2. CASE x = s /\ k \notin DOMAIN F[s]
      <4>1. /\ IsFiniteSet(DOMAIN F[s] \union {k})
            /\ Cardinality(DOMAIN F[s] \union {k}) = Cardinality(DOMAIN F[s]) + 1
        BY <3>1, <3>2, FS_AddElement
      <4>2. Cardinality(DOMAIN F[s]) \in Nat
        BY <3>1, <3>2, FS_CardinalityType
      <4> QED
        BY <1>3, <3>2, <4>1, <4>2, LineageCapAssumption
    <3>3. CASE ~(x = s /\ k \notin DOMAIN F[s])
      <4>1. DOMAIN F2[x] = DOMAIN F[x]
        BY <1>3, <3>3
      <4> QED
        BY <3>1, <4>1
    <3> QED
      BY <3>2, <3>3
  <2> QED
    BY <2>1 DEF Bounded
<1>7. Indexed(T2, F2, S2, n)
  <2>1. ASSUME NEW x \in Sessions
        PROVE  /\ DOMAIN F2[x] \subseteq DOMAIN T2
               /\ \A i, j \in DOMAIN F2[x] : F2[x][i] = F2[x][j] => i = j
    <3>1. \A i, j \in DOMAIN F[x] : F[x][i] = F[x][j] => i = j
      BY DEF Lineages, Indexed
    <3>2. CASE x = s
      BY <1>2, <1>3, <1>4, <3>1, <3>2
    <3>3. CASE x # s
      BY <1>2, <1>3, <1>4, <3>1, <3>3
    <3> QED
      BY <3>2, <3>3
  <2> QED
    BY <1>2, <2>1 DEF Indexed
<1>8. Reaches(T2, F2, S2, d)
  <2>1. ASSUME NEW x \in Sessions \ d, NEW j \in DOMAIN F2[x]
        PROVE  /\ IsPrefix(T2[j].recorded, F2[x][j])
               /\ \A q \in Requests : On(S2, q, j) => IsPrefix(S2[q].hist, F2[x][j])
    <3>1. CASE j \in DOMAIN F[x]
      <4>1. /\ IsPrefix(T[j].recorded, F[x][j])
            /\ \A q \in Requests : On(S, q, j) => IsPrefix(S[q].hist, F[x][j])
        BY <3>1 DEF Lineages, Reaches
      <4>2. CASE j = k
        <5>1. x = s
          BY <1>4, <3>1, <4>2
        <5>2. /\ T2[k].recorded = T[k].recorded /\ T[k].recorded \in Chains
              /\ F2[s][k] = h /\ F[s][k] \in Chains
          BY <1>2, <1>3, <1>4, <3>1, <4>2, <5>1 DEF Lineages, Typed, Tracker
        <5>3. IsPrefix(F[s][k], h) /\ IsPrefix(h, h)
          BY <3>1, <4>2, <5>1, PrefixOrder
        <5>4. IsPrefix(T2[k].recorded, h)
          BY <4>1, <4>2, <5>1, <5>2, <5>3, PrefixOrder
        <5>5. ASSUME NEW q \in Requests, On(S2, q, k)
              PROVE  IsPrefix(S2[q].hist, h)
          <6>1. CASE S2[q].hist = h
            BY <5>3, <6>1
          <6>2. CASE On(S, q, k) /\ S2[q] = S[q]
            <7>1. S[q].hist \in Chains
              <8>1. S[q] \in Sents /\ S[q].state = "kept"
                BY <6>2 DEF Lineages, Typed, On
              <8> QED
                BY <8>1 DEF Sents, Free, Orphan
            <7> QED
              BY <4>1, <4>2, <5>1, <5>2, <5>3, <6>2, <7>1, PrefixOrder
          <6> QED
            BY <1>2, <5>5, <6>1, <6>2
        <5> QED
          BY <4>2, <5>1, <5>2, <5>4, <5>5
      <4>3. CASE j # k
        <5>1. F2[x][j] = F[x][j] /\ j \in DOMAIN T /\ j \in Keys
          BY <1>3, <1>4, <3>1, <4>3
        <5> QED
          BY <1>2, <4>1, <4>3, <5>1
      <4> QED
        BY <4>2, <4>3
    <3>2. CASE j \notin DOMAIN F[x]
      <4>1. x = s /\ j = k /\ F2[s][k] = h
        BY <1>3, <3>2
      <4>2. /\ T2[k].recorded = <<>>
            /\ \A q \in Requests : On(S, q, k) => S[q].hist = <<>>
        <5>1. CASE k \in DOMAIN T
          BY <1>2, <3>2, <4>1, <5>1 DEF Lineages, Bare
        <5>2. CASE k \notin DOMAIN T
          BY <1>2, <5>2 DEF Lineages, Indexed, On
        <5> QED
          BY <5>1, <5>2
      <4>3. IsPrefix(<<>>, h) /\ IsPrefix(h, h)
        BY PrefixOrder
      <4> QED
        BY <1>2, <4>1, <4>2, <4>3
    <3> QED
      BY <3>1, <3>2
  <2> QED
    BY <2>1 DEF Reaches
<1>9. Bare(T2, F2, S2, d)
  <2>1. ASSUME NEW x \in Sessions \ d, <<x, 0>> \in DOMAIN T2 \ DOMAIN F2[x]
        PROVE  /\ T2[<<x, 0>>].recorded = <<>>
               /\ \A q \in Requests : On(S2, q, <<x, 0>>) => S2[q].hist = <<>>
    <3>1. <<x, 0>> # k
      BY <1>3, <2>1
    <3>2. <<x, 0>> \in DOMAIN T \ DOMAIN F[x] /\ <<x, 0>> \in Keys
      BY <1>2, <1>3, <2>1, <3>1
    <3>3. /\ T[<<x, 0>>].recorded = <<>>
          /\ \A q \in Requests : On(S, q, <<x, 0>>) => S[q].hist = <<>>
      BY <3>2 DEF Lineages, Bare
    <3> QED
      BY <1>2, <3>1, <3>2, <3>3
  <2> QED
    BY <2>1 DEF Bare
<1> QED
  BY <1>5, <1>6, <1>7, <1>8, <1>9 DEF Lineages

\* The counter may move on; more sessions may count as detached.
LEMMA Weaker ==
    ASSUME NEW T, NEW F, NEW S, NEW n \in Nat, NEW d, Lineages(T, F, S, n, d),
           NEW m \in Nat, n <= m, NEW e
    PROVE  Lineages(T, F, S, m, d \union e)
<1>1. \A k \in DOMAIN T : k[2] \in Int
  BY DEF Lineages, Typed, Keys, Overflow
<1>2. Indexed(T, F, S, m)
  BY <1>1 DEF Lineages, Indexed
<1>3. Reaches(T, F, S, d \union e) /\ Bare(T, F, S, d \union e)
  BY DEF Lineages, Reaches, Bare
<1> QED
  BY <1>2, <1>3 DEF Lineages

-----------------------------------------------------------------------------
(* The swept state *)

SweptFamilies == [s \in Sessions |-> SweptFamily(s)]

\* A sweep preserves the invariant.
LEMMA SweptHolds ==
    ASSUME IndInv
    PROVE  Lineages(SweptTrackers, SweptFamilies, SweptSent, counter, detached)
<1>1. Lineages(trackers, families, sent, counter, detached)
  BY IndInvIs
<1>2. /\ DOMAIN SweptTrackers = DOMAIN trackers \ Gone
      /\ \A k \in DOMAIN SweptTrackers : SweptTrackers[k] = trackers[k]
  BY Swept
<1>3. /\ SweptFamilies = [s \in Sessions |-> SweptFamilies[s]]
      /\ \A s \in Sessions : SweptFamilies[s] = SweptFamily(s)
  BY DEF SweptFamilies
<1>4. /\ \A s \in Sessions : DOMAIN SweptFamilies[s] = DOMAIN families[s] \ Gone
      /\ \A s \in Sessions : \A k \in DOMAIN SweptFamilies[s] :
            SweptFamilies[s][k] = families[s][k]
  BY <1>3, Swept
<1>5. SweptSent = [r \in Requests |->
         IF sent[r].state = "kept" /\ sent[r].key \in Gone THEN Orphan ELSE sent[r]]
  BY DEF SweptSent
<1>6. Drops(trackers, families, sent, Gone, SweptTrackers, SweptFamilies, SweptSent)
  BY <1>2, <1>3, <1>4, <1>5 DEF Drops
<1> QED
  BY <1>1, <1>6, Dropped

\* get_or_create() and the request that is given its tracker.
LEMMA GetOrCreateGives ==
    ASSUME IndInv, NEW r, NEW k, NEW h
    PROVE  Given(SweptTrackers, SweptSent, GetOrCreate(k),
                 [SweptSent EXCEPT ![r] = [state |-> "kept", key |-> k, hist |-> h]], r, k, h)
<1>1. (IF k \in DOMAIN SweptTrackers THEN trackers[k].recorded ELSE <<>>)
         = IF k \in DOMAIN SweptTrackers THEN SweptTrackers[k].recorded ELSE <<>>
  BY Swept
<1> QED
  BY <1>1 DEF Given, GetOrCreate

-----------------------------------------------------------------------------
(* The steps *)

\* What a match settles for the stamp of history h on key k of session s.
Settled(T, F, n, s, k, h) ==
    \/ k = <<s, Overflow>>
    \/ /\ k \in DOMAIN F
       /\ IsPrefix(F[k], h)
       /\ \A j \in DOMAIN F : F[j] = h => j = k
    \/ /\ k \notin DOMAIN F
       /\ k = <<s, 0>> \/ k \notin DOMAIN T
       /\ k[1] = s /\ k[2] \in 0..n - 1
       /\ Cardinality(DOMAIN F) < Cap
       /\ \A j \in DOMAIN F : F[j] # h

\* CallOK, said with Settled.
LEMMA CallOKIs ==
    CallOK <=> (call # NoCall =>
        Settled(trackers, families[call.session], counter, call.session, call.key, call.snap))
BY DEF CallOK, Settled

\* The empty store satisfies the invariant.
LEMMA InitInv == Init => IndInv
<1> SUFFICES ASSUME Init PROVE IndInv
  OBVIOUS
<1>1. DOMAIN <<>> = {}
  OBVIOUS
<1>2. /\ DOMAIN trackers = {} /\ \A s \in Sessions : DOMAIN families[s] = {}
      /\ families = [s \in Sessions |-> families[s]]
      /\ sent = [r \in Requests |-> Free] /\ counter = 1 /\ call = NoCall
      /\ detached = {} /\ sinceSweep = 0
  BY <1>1 DEF Init
<1>3. IsFiniteSet({}) /\ Cardinality({}) = 0
  BY FS_EmptySet
<1>4. Typed(trackers, families, sent)
  BY <1>2 DEF Typed, Sents
<1>5. Bounded(families)
  <2>1. 0 <= Cap
    BY LineageCapAssumption
  <2>2. \A D : D = {} => IsFiniteSet(D) /\ Cardinality(D) <= Cap
    BY <1>3, <2>1
  <2> QED
    BY <1>2, <2>2 DEF Bounded
<1>6. /\ Indexed(trackers, families, sent, counter)
      /\ Reaches(trackers, families, sent, detached)
      /\ Bare(trackers, families, sent, detached)
  BY <1>2 DEF Indexed, Reaches, Bare, On, Free
<1>7. Rest
  BY <1>2, LineageTimeAssumption, CallOKIs DEF Rest
<1> QED
  BY <1>4, <1>5, <1>6, <1>7, IndInvIs DEF Lineages

\* A unit of time passes, in a call or between calls.
LEMMA TickInv == ASSUME IndInv, Tick PROVE IndInv'
<1>1. Lineages(trackers, families, sent, counter, detached) /\ Rest
  BY IndInvIs
<1>2. /\ DOMAIN trackers' = DOMAIN trackers
      /\ \A k \in DOMAIN trackers :
            trackers'[k] \in Tracker /\ trackers'[k].recorded = trackers[k].recorded
  <2>1. \A k \in DOMAIN trackers : trackers[k] \in Tracker
    BY <1>1 DEF Lineages, Typed
  <2>2. ASSUME NEW t \in Tracker
        PROVE  LET u == [t EXCEPT !.idle = IF @ <= TTL THEN @ + 1 ELSE @]
               IN  u \in Tracker /\ u.recorded = t.recorded
    BY LineageTimeAssumption DEF Tracker
  <2> QED
    BY <2>1, <2>2 DEF Tick
<1>3. Lineages(trackers', families', sent', counter', detached')
  BY <1>1, <1>2, Aged DEF Tick
<1>4. Rest'
  <2>1. sinceSweep' \in 0..Interval
    BY <1>1, LineageTimeAssumption DEF Rest, Tick
  <2>2. CASE call = NoCall
    <3>1. call' = NoCall /\ UNCHANGED <<counter, detached>>
      BY <2>2 DEF Tick
    <3> QED
      BY <1>1, <2>1, <3>1 DEF Rest, CallOK
  <2>3. CASE call # NoCall
    <3>1. /\ call' = [call EXCEPT !.ticked = TRUE]
          /\ UNCHANGED <<counter, families, detached>>
      BY <2>3 DEF Tick
    <3>2. call \in [state : {"stamp"}, request : Requests, session : Sessions,
                    snap : Chains, key : Keys, ticked : BOOLEAN]
      BY <1>1, <2>3 DEF Rest
    <3>3. /\ call' \in [state : {"stamp"}, request : Requests, session : Sessions,
                        snap : Chains, key : Keys, ticked : BOOLEAN]
          /\ call'.session = call.session /\ call'.key = call.key /\ call'.snap = call.snap
      BY <3>1, <3>2
    <3>4. Settled(trackers, families[call.session], counter,
                  call.session, call.key, call.snap)
      BY <1>1, <2>3, CallOKIs DEF Rest
    <3>5. CallOK'
      BY <1>2, <3>1, <3>3, <3>4 DEF CallOK, Settled
    <3> QED
      BY <1>1, <2>1, <3>1, <3>3, <3>5 DEF Rest
  <2> QED
    BY <2>2, <2>3
<1> QED
  BY <1>3, <1>4, IndInvIsNext

\* The parts the running call does not touch.
LEMMA NoCallRest ==
    ASSUME Rest, call' = NoCall, counter' = counter,
           sinceSweep' = sinceSweep \/ sinceSweep' = SinceSweep,
           detached' \subseteq Sessions
    PROVE  Rest'
<1>1. SinceSweep \in 0..Interval
  BY LineageTimeAssumption DEF Rest, SinceSweep
<1> QED
  BY <1>1 DEF Rest, CallOK

\* A match changes nothing but what the sweep takes, and settles the stamp.
LEMMA ResolveMatchInv ==
    ASSUME IndInv, NEW r \in Requests, NEW s \in Sessions, NEW h \in Histories,
           ResolveMatch(r, s, h)
    PROVE  IndInv'
<1>1. /\ Lineages(SweptTrackers, SweptFamilies, SweptSent, counter, detached)
      /\ Rest /\ counter \in Nat \ {0} /\ h \in Chains
  BY IndInvIs, SweptHolds, HistoriesAreChains DEF Rest
<1> DEFINE T == SweptTrackers
           F == SweptFamily(s)
<1>2. PICK k \in IF Matches(s, h) # {} THEN Best(s, h) ELSE {NewKey(s)} :
         /\ call' = [state |-> "stamp", request |-> r, session |-> s, snap |-> h,
                     key |-> k, ticked |-> FALSE]
         /\ counter' = IF Matches(s, h) = {} /\ k[2] > 0 THEN counter + 1 ELSE counter
  BY DEF ResolveMatch
<1>3. /\ trackers' = T /\ families' = SweptFamilies /\ sent' = SweptSent
      /\ sinceSweep' = SinceSweep /\ detached' = detached
  BY DEF ResolveMatch, SweptFamilies
<1>4. /\ DOMAIN F \subseteq DOMAIN T /\ DOMAIN T \subseteq Keys
      /\ DOMAIN F \subseteq {s} \X Nat
      /\ \A j \in DOMAIN F : F[j] \in Chains
      /\ \A i, j \in DOMAIN F : F[i] = F[j] => i = j
      /\ \A j \in DOMAIN T : j[2] < counter
  BY <1>1 DEF Lineages, Typed, Indexed, SweptFamilies
<1>5. counter' \in Nat \ {0} /\ counter <= counter'
  BY <1>1, <1>2
<1>6. k \in Keys /\ Settled(T, F, counter', s, k, h)
  <2>1. CASE Matches(s, h) # {}
    <3>1. /\ k \in DOMAIN F /\ IsPrefix(F[k], h)
          /\ \A j \in DOMAIN F : IsPrefix(F[j], h) => Len(F[j]) <= Len(F[k])
      BY <1>2, <2>1 DEF Best, Matches, Extends
    <3>2. ASSUME NEW j \in DOMAIN F, F[j] = h
          PROVE  j = k
      <4>1. Len(h) <= Len(F[k])
        BY <1>1, <3>1, <3>2, PrefixOrder
      <4>2. F[k] = h
        BY <1>1, <1>4, <3>1, <4>1, PrefixOrder
      <4> QED
        BY <1>4, <3>1, <3>2, <4>2
    <3> QED
      BY <1>4, <3>1, <3>2 DEF Settled
  <2>2. CASE Matches(s, h) = {}
    <3>1. k = NewKey(s)
      BY <1>2, <2>2
    <3>2. \A j \in DOMAIN F : F[j] # h
      BY <1>1, <2>2, PrefixOrder DEF Matches, Extends
    <3>3. CASE ~HasRoom(s)
      BY <3>1, <3>3 DEF NewKey, Settled, Keys
    <3>4. CASE HasRoom(s) /\ DOMAIN F = {}
      <4>1. k = <<s, 0>> /\ Cardinality(DOMAIN F) < Cap
        BY <3>1, <3>4 DEF NewKey, HasRoom
      <4>2. k \notin DOMAIN F
        BY <3>4
      <4>3. k[1] = s /\ k[2] = 0
        BY <4>1
      <4>4. 0 \in 0..counter' - 1
        <5>1. PICK m \in Nat \ {0} : m = counter'
          BY <1>5
        <5>2. 0 \in 0..m - 1
          OBVIOUS
        <5> QED
          BY <5>1, <5>2
      <4> QED
        BY <3>2, <4>1, <4>2, <4>3, <4>4 DEF Settled, Keys
    <3>5. CASE HasRoom(s) /\ DOMAIN F # {}
      <4>1. k = <<s, counter>> /\ Cardinality(DOMAIN F) < Cap
        BY <3>1, <3>5 DEF NewKey, HasRoom, NextNumber
      <4>2. k[1] = s /\ k[2] = counter
        BY <4>1
      <4>3. k \notin DOMAIN T
        BY <1>1, <1>4, <4>2
      <4>4. k[2] \in 0..counter' - 1
        BY <1>1, <1>2, <2>2, <4>2
      <4> QED
        BY <1>1, <1>4, <3>2, <4>1, <4>2, <4>3, <4>4 DEF Settled, Keys
    <3> QED
      BY <3>3, <3>4, <3>5
  <2> QED
    BY <2>1, <2>2
<1>7. Lineages(trackers', families', sent', counter', detached')
  <2>1. Lineages(SweptTrackers, SweptFamilies, SweptSent, counter', detached \union {})
    BY <1>1, <1>5, Weaker
  <2> QED
    BY <1>3, <2>1
<1>8. Rest'
  <2>1. sinceSweep' \in 0..Interval
    BY <1>1, <1>3, LineageTimeAssumption DEF Rest, SinceSweep
  <2>2. /\ call'.session = s /\ call'.key = k /\ call'.snap = h
        /\ call' \in [state : {"stamp"}, request : Requests, session : Sessions,
                      snap : Chains, key : Keys, ticked : BOOLEAN]
    BY <1>1, <1>2, <1>6
  <2>3. families'[s] = F
    BY <1>3 DEF SweptFamilies
  <2>4. CallOK'
    BY <1>3, <1>6, <2>2, <2>3 DEF CallOK, Settled
  <2> QED
    BY <1>1, <1>3, <1>5, <2>1, <2>2, <2>4 DEF Rest
<1> QED
  BY <1>7, <1>8, IndInvIsNext

\* A request without messages is given the bare tracker.
LEMMA ResolveBareInv ==
    ASSUME IndInv, NEW r \in Requests, NEW s \in Sessions, ResolveBare(r, s)
    PROVE  IndInv'
<1>1. /\ Lineages(SweptTrackers, SweptFamilies, SweptSent, counter, detached)
      /\ Rest /\ counter \in Nat \ {0}
  BY IndInvIs, SweptHolds DEF Rest
<1>2. PICK k \in Keys : k = <<s, 0>>
  BY DEF Keys
<1>3. PICK h \in Chains : h = <<>>
  BY PrefixOrder
<1>4. /\ trackers' = GetOrCreate(k) /\ families' = SweptFamilies
      /\ sent' = [SweptSent EXCEPT ![r] = [state |-> "kept", key |-> k, hist |-> h]]
      /\ sinceSweep' = SinceSweep /\ UNCHANGED <<counter, call, detached>>
      /\ call = NoCall
  BY <1>2, <1>3 DEF ResolveBare, SweptFamilies
<1>5. Given(SweptTrackers, SweptSent, trackers', sent', r, k, h)
  BY <1>4, GetOrCreateGives
<1>6. k[2] < counter
  BY <1>1, <1>2
<1>7. Lineages(trackers', SweptFamilies, sent', counter, detached)
  BY <1>1, <1>3, <1>5, <1>6, GivenUnstamped
<1>8. Rest'
  BY <1>1, <1>4, NoCallRest DEF Rest
<1> QED
  BY <1>4, <1>7, <1>8, IndInvIsNext

\* The stamp continues a lineage or opens one; a family the sweep pruned away
\* never sees it, and its session counts as detached from then on.
LEMMA ResolveStampInv == ASSUME IndInv, ResolveStamp PROVE IndInv'
<1>1. /\ Lineages(SweptTrackers, SweptFamilies, SweptSent, counter, detached)
      /\ Rest /\ counter \in Nat \ {0} /\ call # NoCall
  BY IndInvIs, SweptHolds DEF Rest, ResolveStamp
<1>2. call \in [state : {"stamp"}, request : Requests, session : Sessions, snap : Chains,
                key : Keys, ticked : BOOLEAN]
  BY <1>1 DEF Rest
<1>3. PICK r \in Requests, s \in Sessions, h \in Chains, k \in Keys :
         r = call.request /\ s = call.session /\ h = call.snap /\ k = call.key
  BY <1>2
<1>4. Settled(trackers, families[s], counter, s, k, h)
  BY <1>1, <1>3, CallOKIs DEF Rest
<1>5. /\ trackers' = GetOrCreate(k)
      /\ sent' = [SweptSent EXCEPT ![r] = [state |-> "kept", key |-> k, hist |-> h]]
      /\ sinceSweep' = SinceSweep /\ call' = NoCall /\ counter' = counter
  BY <1>3 DEF ResolveStamp
<1>6. Given(SweptTrackers, SweptSent, trackers', sent', r, k, h)
  BY <1>5, GetOrCreateGives
<1>7. /\ families' = [x \in Sessions |->
            IF x = s /\ k # <<s, Overflow>> /\ ~Detaches(s)
            THEN Put(SweptFamily(s), k, h) ELSE SweptFamily(x)]
      /\ detached' = IF k # <<s, Overflow>> /\ Detaches(s)
                     THEN detached \union {s} ELSE detached
  BY <1>3 DEF ResolveStamp
<1>8. /\ DOMAIN SweptTrackers = DOMAIN trackers \ Gone
      /\ DOMAIN SweptFamily(s) = DOMAIN families[s] \ Gone
      /\ \A j \in DOMAIN SweptFamily(s) : SweptFamily(s)[j] = families[s][j]
      /\ \A x \in Sessions : SweptFamilies[x] = SweptFamily(x)
      /\ \A x \in Sessions : DOMAIN SweptFamily(x) \subseteq {x} \X Nat
  BY <1>1, Swept DEF SweptFamilies, Lineages, Typed
<1>9. Lineages(trackers', families', sent', counter, detached')
  <2>1. CASE k = <<s, Overflow>>
    <3>1. families' = SweptFamilies /\ detached' = detached
      BY <1>7, <2>1 DEF SweptFamilies
    <3>2. k[2] < counter
      BY <1>1, <2>1 DEF Overflow
    <3>3. \A x \in Sessions : k \notin DOMAIN SweptFamilies[x] /\ k # <<x, 0>>
      BY <1>8, <2>1 DEF Overflow
    <3> QED
      BY <1>1, <1>6, <3>1, <3>2, <3>3, GivenUnstamped
  <2>2. CASE k # <<s, Overflow>>
    <3>1. k \in {s} \X Nat /\ k[2] < counter
      <4>1. CASE k \in DOMAIN families[s]
        <5>1. Lineages(trackers, families, sent, counter, detached)
          BY IndInvIs
        <5> QED
          BY <4>1, <5>1 DEF Lineages, Typed, Indexed
      <4>2. CASE k \notin DOMAIN families[s]
        <5>1. k[1] = s /\ k[2] \in 0..counter - 1
          BY <1>4, <2>2, <4>2 DEF Settled
        <5> QED
          BY <1>1, <5>1 DEF Keys
      <4> QED
        BY <4>1, <4>2
    <3>2. CASE Detaches(s)
      <4>1. families' = SweptFamilies /\ detached' = detached \union {s}
        BY <1>7, <2>2, <3>2 DEF SweptFamilies
      <4>2. Lineages(SweptTrackers, SweptFamilies, SweptSent, counter, detached \union {s})
        <5>1. counter \in Nat /\ counter <= counter
          BY <1>1
        <5> QED
          BY <1>1, <5>1, Weaker
      <4>3. \A x \in Sessions \ (detached \union {s}) :
               k \notin DOMAIN SweptFamilies[x] /\ k # <<x, 0>>
        BY <1>8, <3>1
      <4> QED
        BY <1>6, <3>1, <4>1, <4>2, <4>3, GivenUnstamped
    <3>3. CASE ~Detaches(s)
      <4>1. /\ families' = [x \in Sessions |->
                   IF x = s THEN Put(SweptFamilies[s], k, h) ELSE SweptFamilies[x]]
            /\ detached' = detached
        BY <1>7, <1>8, <2>2, <3>3
      <4>2. \A j \in DOMAIN SweptFamilies[s] : SweptFamilies[s][j] = h => j = k
        BY <1>4, <1>8, <2>2 DEF Settled
      <4>3. k \in DOMAIN SweptFamilies[s] => IsPrefix(SweptFamilies[s][k], h)
        BY <1>4, <1>8, <2>2 DEF Settled
      <4>4. k \notin DOMAIN SweptFamilies[s] =>
               Cardinality(DOMAIN SweptFamilies[s]) < Cap
               /\ (k = <<s, 0>> \/ k \notin DOMAIN SweptTrackers)
        <5>1. /\ IsFiniteSet(DOMAIN families[s])
              /\ Cardinality(DOMAIN families[s]) <= Cap
              /\ DOMAIN families[s] \subseteq DOMAIN trackers
          BY DEF IndInv, CapHolds, FamiliesFinite, IndexInStep
        <5>2. Cardinality(DOMAIN families[s]) \in Nat
          BY <5>1, FS_CardinalityType
        <5>3. CASE k \in DOMAIN families[s] /\ k \in Gone
          <6>1. /\ IsFiniteSet(DOMAIN families[s] \ {k})
                /\ Cardinality(DOMAIN families[s] \ {k}) = Cardinality(DOMAIN families[s]) - 1
            BY <5>1, <5>3, FS_RemoveElement
          <6>2. DOMAIN SweptFamilies[s] \subseteq DOMAIN families[s] \ {k}
            BY <1>8, <5>3
          <6>3. /\ IsFiniteSet(DOMAIN SweptFamilies[s])
                /\ Cardinality(DOMAIN SweptFamilies[s])
                     <= Cardinality(DOMAIN families[s] \ {k})
            BY <6>1, <6>2, FS_Subset
          <6>4. Cardinality(DOMAIN SweptFamilies[s]) \in Nat
            BY <6>3, FS_CardinalityType
          <6> QED
            BY <1>8, <5>1, <5>2, <5>3, <6>1, <6>3, <6>4, LineageCapAssumption
        <5>4. CASE k \notin DOMAIN families[s]
          <6>1. /\ Cardinality(DOMAIN families[s]) < Cap
                /\ k = <<s, 0>> \/ k \notin DOMAIN trackers
            BY <1>4, <2>2, <5>4 DEF Settled
          <6>2. /\ IsFiniteSet(DOMAIN SweptFamilies[s])
                /\ Cardinality(DOMAIN SweptFamilies[s]) <= Cardinality(DOMAIN families[s])
            BY <1>8, <5>1, FS_Subset
          <6>3. Cardinality(DOMAIN SweptFamilies[s]) \in Nat
            BY <6>2, FS_CardinalityType
          <6> QED
            BY <1>8, <5>2, <6>1, <6>2, <6>3, LineageCapAssumption
        <5> QED
          BY <1>8, <5>3, <5>4
      <4>5. Lineages(trackers', families', sent', counter, detached)
        BY <1>1, <1>6, <3>1, <4>1, <4>2, <4>3, <4>4, GivenStamped
      <4> QED
        BY <4>1, <4>5
    <3> QED
      BY <3>2, <3>3
  <2> QED
    BY <2>1, <2>2
<1>10. Rest'
  <2>1. detached' \subseteq Sessions
    BY <1>1, <1>7 DEF Rest
  <2> QED
    BY <1>1, <1>5, <2>1, NoCallRest
<1> QED
  BY <1>5, <1>9, <1>10, IndInvIsNext

\* A response writes to its tracker what its own request carried.
LEMMA RespondInv == ASSUME IndInv, NEW r \in Requests, Respond(r) PROVE IndInv'
<1>1. Lineages(trackers, families, sent, counter, detached) /\ Rest
  BY IndInvIs
<1>2. PICK v : v = [idle |-> 0, recorded |-> sent[r].hist]
  OBVIOUS
<1>3. /\ \/ trackers' = trackers
         \/ (sent[r].state = "kept" /\ trackers' = [trackers EXCEPT ![sent[r].key] = v])
      /\ sent' = [sent EXCEPT ![r] = Free] /\ call = NoCall
      /\ UNCHANGED <<sinceSweep, families, counter, call, detached>>
  BY <1>2 DEF Respond
<1>4. Lineages(trackers', families, sent', counter, detached)
  BY <1>1, <1>2, <1>3, Recorded
<1>5. Rest'
  BY <1>1, <1>3, NoCallRest DEF Rest
<1> QED
  BY <1>3, <1>4, <1>5, IndInvIsNext

\* A failed request leaves nothing behind.
LEMMA FailInv == ASSUME IndInv, NEW r \in Requests, Fail(r) PROVE IndInv'
<1>1. Lineages(trackers, families, sent, counter, detached) /\ Rest
  BY IndInvIs
<1>2. /\ sent' = [sent EXCEPT ![r] = Free] /\ call = NoCall
      /\ UNCHANGED <<sinceSweep, trackers, families, counter, call, detached>>
  BY DEF Fail
<1>3. PICK v : v = [idle |-> 0, recorded |-> sent[r].hist]
  OBVIOUS
<1>4. Lineages(trackers, families, sent', counter, detached)
  BY <1>1, <1>2, <1>3, Recorded
<1>5. Rest'
  BY <1>1, <1>2, NoCallRest DEF Rest
<1> QED
  BY <1>2, <1>4, <1>5, IndInvIsNext

\* The invariant is inductive.
LEMMA NextInv == ASSUME IndInv, [Next]_vars PROVE IndInv'
<1>1. CASE Tick
  BY <1>1, TickInv
<1>2. CASE ResolveStamp
  BY <1>2, ResolveStampInv
<1>3. ASSUME NEW r \in Requests, Respond(r) PROVE IndInv'
  BY <1>3, RespondInv
<1>4. ASSUME NEW r \in Requests, Fail(r) PROVE IndInv'
  BY <1>4, FailInv
<1>5. ASSUME NEW r \in Requests, NEW s \in Sessions, ResolveBare(r, s) PROVE IndInv'
  BY <1>5, ResolveBareInv
<1>6. ASSUME NEW r \in Requests, NEW s \in Sessions, NEW h \in Histories,
             ResolveMatch(r, s, h)
      PROVE  IndInv'
  BY <1>6, ResolveMatchInv
<1>7. CASE UNCHANGED vars
  <2>1. /\ Lineages(trackers', families', sent', counter', detached')
        /\ Rest'
    BY <1>7, IndInvIs DEF Rest, CallOK
  <2> QED
    BY <2>1, IndInvIsNext
<1> QED
  BY <1>1, <1>2, <1>3, <1>4, <1>5, <1>6, <1>7 DEF Next

-----------------------------------------------------------------------------
(* The theorems *)

\* The store's indexes, counters and histories keep to their invariant,
\* whatever calls, responses and sweeps interleave.
THEOREM LineageInvariance == Spec => []IndInv
<1>1. IndInv /\ [Next]_vars => IndInv'
  BY NextInv
<1> QED
  BY <1>1, InitInv, PTL DEF Spec

\* No conversation is frozen to a prefix of another one (the session lineages
\* of resolve_tracker() and update_from_response()).
THEOREM RecordsStayWithin == Spec => []RecordedWithinChain
<1>1. IndInv => RecordedWithinChain
  BY DEF IndInv
<1> QED
  BY <1>1, LineageInvariance, PTL

\* A conversation is continued by histories that extend it, and by nothing
\* else, until its tracker has been idle for the TTL.
THEOREM LineagesContinue == Spec => LineagesOnlyGrow
<1> DEFINE Grows == \A s \in Sessions : \A k \in DOMAIN families[s] :
                       \/ trackers[k].idle > TTL
                       \/ k \in DOMAIN families'[s] /\ IsPrefix(families[s][k], families'[s][k])
<1>1. ASSUME IndInv, [Next]_vars
      PROVE  Grows
  <2>1. \A s \in Sessions : \A k \in DOMAIN families[s] : families[s][k] \in Chains
    BY <1>1 DEF IndInv, TypeOK
  <2>2. ASSUME families' = families
        PROVE  Grows
    BY <2>1, <2>2, PrefixOrder
  <2>3. ASSUME NEW s \in Sessions, NEW k \in DOMAIN families[s], ~(trackers[k].idle > TTL)
        PROVE  k \in DOMAIN SweptFamily(s) /\ SweptFamily(s)[k] = families[s][k]
    BY <1>1, <2>3, Swept
  <2>4. ASSUME families' = [x \in Sessions |-> SweptFamily(x)]
        PROVE  Grows
    BY <2>1, <2>3, <2>4, PrefixOrder
  <2>5. CASE ResolveStamp
    <3>1. ASSUME NEW s \in Sessions, NEW k \in DOMAIN families[s], ~(trackers[k].idle > TTL)
          PROVE  k \in DOMAIN families'[s] /\ IsPrefix(families[s][k], families'[s][k])
      <4>1. CASE families'[s] = SweptFamily(s)
        BY <2>1, <2>3, <3>1, <4>1, PrefixOrder
      <4>2. CASE /\ s = call.session /\ call.key # <<s, Overflow>>
                 /\ families'[s] = Put(SweptFamily(s), call.key, call.snap)
        <5>1. CASE k # call.key
          BY <2>1, <2>3, <3>1, <4>2, <5>1, PrefixOrder DEF Put
        <5>2. CASE k = call.key
          <6>1. call # NoCall
            BY <2>5 DEF ResolveStamp
          <6>2. IsPrefix(families[s][k], call.snap)
            BY <1>1, <3>1, <4>2, <5>2, <6>1 DEF IndInv, CallOK
          <6> QED
            BY <4>2, <5>2, <6>2 DEF Put
        <5> QED
          BY <5>1, <5>2
      <4> QED
        BY <2>5, <4>1, <4>2 DEF ResolveStamp
    <3> QED
      BY <3>1
  <2>6. CASE Tick
    BY <2>2, <2>6 DEF Tick
  <2>7. ASSUME NEW r \in Requests, Respond(r) \/ Fail(r)
        PROVE  Grows
    BY <2>2, <2>7 DEF Respond, Fail
  <2>8. ASSUME NEW r \in Requests, NEW s \in Sessions,
               ResolveBare(r, s) \/ \E h \in Histories : ResolveMatch(r, s, h)
        PROVE  Grows
    BY <2>4, <2>8 DEF ResolveBare, ResolveMatch
  <2>9. CASE UNCHANGED vars
    BY <2>2, <2>9
  <2> HIDE DEF Grows
  <2> QED
    BY <1>1, <2>5, <2>6, <2>7, <2>8, <2>9 DEF Next
<1>2. IndInv /\ [Next]_vars => [Grows]_vars
  BY <1>1
<1> QED
  BY <1>2, LineageInvariance, PTL DEF Spec, LineagesOnlyGrow

-----------------------------------------------------------------------------
(* PromptReplay *)

USE DEF replayVars, allVars

\* A context with the history it was found for, and a message as it goes out.
Added == [text : Contexts, for : Seq(Messages)]
Parts == [content : Messages \union {"notice"}, form : Forms, added : Seq(Added)]

\* A prompt says what a history says, after a notice if an optional stage put one.
Worded(p, h, changed) ==
    Says(p, h) \/ (changed /\ p # <<>> /\ Head(p) = Notice /\ Says(Tail(p), h))

\* A record, the history of the last response it holds, and its prompt.  Only a
\* record that is in step says anything: no other is replayed.
RecordOK(record, last, shown) ==
    /\ record.orig \in Seq(Messages) /\ record.fwd \in Seq(Parts)
    /\ shown \in Seq(Parts) /\ last \in Seq(Messages)
    /\ InStep(record) =>
          /\ Says(record.fwd, record.orig)
          /\ Len(shown) = Len(last) /\ Len(last) <= Len(record.orig)
          /\ \A i \in 1..Len(last) : last[i] = record.orig[i] /\ shown[i] = record.fwd[i]

PromptsOK ==
    /\ forwarded \subseteq Requests /\ touched \subseteq forwarded
    /\ prompt \in [Requests -> Seq(Parts)]
    /\ \A r \in forwarded :
          sent[r].state = "kept" /\ Worded(prompt[r], sent[r].hist, r \in touched)
    /\ call # NoCall => call.request \notin forwarded

RecordsOK ==
    /\ DOMAIN replay = DOMAIN trackers /\ DOMAIN seen = DOMAIN trackers
    /\ \A k \in DOMAIN trackers : RecordOK(replay[k], trackers[k].recorded, seen[k])

ReplayInv == PromptsOK /\ RecordsOK

-----------------------------------------------------------------------------
(* Parts and prompts *)

\* What a part says of a history it says of any that agrees so far.
LEMMA SaysMoves ==
    ASSUME NEW g \in Seq(Messages), NEW h \in Seq(Messages), NEW i \in 1..Len(g),
           i <= Len(h), \A j \in 1..i : g[j] = h[j], NEW part, SaysAt(part, g, i)
    PROVE  SaysAt(part, h, i)
<1>1. /\ SubSeq(g, 1, i) \in Seq(Messages) /\ Len(SubSeq(g, 1, i)) = i
      /\ SubSeq(h, 1, i) \in Seq(Messages) /\ Len(SubSeq(h, 1, i)) = i
      /\ \A j \in 1..i : SubSeq(g, 1, i)[j] = g[j] /\ SubSeq(h, 1, i)[j] = h[j]
  OBVIOUS
<1>2. SubSeq(g, 1, i) = SubSeq(h, 1, i)
  BY <1>1, SeqEqual
<1>3. g[i] = h[i]
  OBVIOUS
<1> QED
  BY <1>2, <1>3 DEF SaysAt

\* A message in some form, with nothing added to it.
LEMMA BareIs ==
    ASSUME NEW m \in Messages \union {"notice"}, NEW form \in Forms
    PROVE  /\ AsForwarded(m, form) \in Parts
           /\ AsForwarded(m, form).content = m /\ AsForwarded(m, form).added = <<>>
<1>1. <<>> \in Seq(Added)
  OBVIOUS
<1> QED
  BY <1>1 DEF AsForwarded, Parts

\* A prompt of messages in any forms says what the client says.
LEMMA BaresAre ==
    ASSUME NEW h \in Seq(Messages), NEW forms \in [1..Len(h) -> Forms],
           NEW p, p = [i \in 1..Len(h) |-> AsForwarded(h[i], forms[i])]
    PROVE  p \in Seq(Parts) /\ Says(p, h)
<1>1. Len(h) \in Nat
  OBVIOUS
<1>2. ASSUME NEW i \in 1..Len(h)
      PROVE  p[i] \in Parts /\ SaysAt(p[i], h, i)
  <2>1. /\ AsForwarded(h[i], forms[i]) \in Parts
        /\ AsForwarded(h[i], forms[i]).content = h[i]
        /\ AsForwarded(h[i], forms[i]).added = <<>>
    BY BareIs
  <2>2. p[i] = AsForwarded(h[i], forms[i])
    OBVIOUS
  <2>3. Len(p[i].added) = 0
    BY <2>1, <2>2
  <2> QED
    BY <2>1, <2>2, <2>3 DEF SaysAt
<1>3. p \in Seq(Parts) /\ Len(p) = Len(h)
  BY <1>1, <1>2, SeqDef
<1> QED
  BY <1>2, <1>3 DEF Says

\* A prompt of raw messages.
LEMMA AllRawIs ==
    ASSUME NEW h \in Seq(Messages)
    PROVE  AllRaw(h) \in Seq(Parts) /\ Says(AllRaw(h), h)
<1>1. PICK forms \in [1..Len(h) -> Forms] : forms = [i \in 1..Len(h) |-> "raw"]
  BY DEF Forms
<1>2. AllRaw(h) = [i \in 1..Len(h) |-> AsForwarded(h[i], forms[i])]
  BY <1>1 DEF AllRaw
<1> QED
  BY <1>2, BaresAre

-----------------------------------------------------------------------------
(* The overlay *)

\* The interval from one to n has n members.
LEMMA IntervalSize ==
    ASSUME NEW n \in Nat
    PROVE  IsFiniteSet(1..n) /\ Cardinality(1..n) = n
<1>1. IsFiniteSet(1..n) /\ Cardinality(1..n) = IF 1 > n THEN 0 ELSE n - 1 + 1
  BY FS_Interval
<1> QED
  BY <1>1

\* Common() is the length of the longest common prefix.
LEMMA CommonIs ==
    ASSUME NEW old \in Seq(Messages), NEW h \in Seq(Messages)
    PROVE  /\ Common(old, h) \in 0..Len(h) /\ Common(old, h) <= Len(old)
           /\ \A i \in 1..Common(old, h) : old[i] = h[i]
           /\ \A n \in 1..Len(h) :
                 n <= Len(old) /\ (\A i \in 1..n : old[i] = h[i]) => n <= Common(old, h)
<1> DEFINE S == {n \in 1..Len(h) : n <= Len(old) /\ SubSeq(old, 1, n) = SubSeq(h, 1, n)}
<1>1. Common(old, h) = Cardinality(S)
  BY DEF Common
<1>2. ASSUME NEW n \in 1..Len(h)
      PROVE  n \in S <=> n <= Len(old) /\ \A i \in 1..n : old[i] = h[i]
  <2>1. CASE n <= Len(old)
    <3>1. /\ SubSeq(old, 1, n) \in Seq(Messages) /\ Len(SubSeq(old, 1, n)) = n
          /\ SubSeq(h, 1, n) \in Seq(Messages) /\ Len(SubSeq(h, 1, n)) = n
          /\ \A i \in 1..n : SubSeq(old, 1, n)[i] = old[i] /\ SubSeq(h, 1, n)[i] = h[i]
      BY <2>1
    <3>2. SubSeq(old, 1, n) = SubSeq(h, 1, n)
             <=> \A i \in 1..n : SubSeq(old, 1, n)[i] = SubSeq(h, 1, n)[i]
      BY <3>1, SeqEqual
    <3> QED
      BY <2>1, <3>1, <3>2
  <2> QED
    BY <2>1
<1>3. Len(h) \in Nat /\ Len(old) \in Nat /\ S \in SUBSET (1..Len(h))
  OBVIOUS
<1> HIDE DEF S
<1>4. IsFiniteSet(S) /\ Cardinality(S) \in Nat /\ Cardinality(S) <= Len(h)
  <2>1. IsFiniteSet(1..Len(h)) /\ Cardinality(1..Len(h)) = Len(h)
    BY <1>3, IntervalSize
  <2> QED
    BY <1>3, <2>1, FS_Subset, FS_CardinalityType
<1>5. ASSUME NEW n \in S
      PROVE  n <= Cardinality(S)
  <2>1. 1..n \in SUBSET S
    BY <1>2, <1>3, <1>5
  <2>2. n \in Nat /\ Cardinality(1..n) = n
    BY <1>3, <1>5, IntervalSize
  <2> QED
    BY <1>4, <2>1, <2>2, FS_Subset
<1>6. ASSUME NEW i \in 1..Cardinality(S)
      PROVE  i \in S
  <2>1. SUFFICES ASSUME i \notin S PROVE FALSE
    OBVIOUS
  <2>2. S \in SUBSET (1..i - 1)
    <3>1. ASSUME NEW n \in S
          PROVE  n < i
      <4>1. n \in 1..Len(h) /\ n <= Len(old) /\ \A j \in 1..n : old[j] = h[j]
        BY <1>2, <1>3, <3>1
      <4>2. i <= n => i \in S
        BY <1>2, <1>3, <1>4, <4>1
      <4> QED
        BY <1>4, <2>1, <4>1, <4>2
    <3> QED
      BY <1>3, <1>4, <3>1
  <2>3. i - 1 \in Nat /\ IsFiniteSet(1..i - 1) /\ Cardinality(1..i - 1) = i - 1
    BY <1>4, IntervalSize
  <2>4. Cardinality(S) <= i - 1
    <3>1. Cardinality(S) <= Cardinality(1..i - 1)
      BY <2>2, <2>3, FS_Subset
    <3> QED
      BY <2>3, <3>1
  <2> QED
    BY <1>4, <2>4
<1>7. \A i \in 1..Cardinality(S) : i <= Len(old) /\ old[i] = h[i]
  BY <1>2, <1>3, <1>4, <1>6
<1>8. Cardinality(S) <= Len(old)
  BY <1>3, <1>4, <1>7
<1> QED
  BY <1>1, <1>2, <1>4, <1>5, <1>7, <1>8

\* The overlay says what the client's history says, and repeats a record that is
\* in step as far as the record and the history agree.
LEMMA OverlayIs ==
    ASSUME NEW record, record.orig \in Seq(Messages), record.fwd \in Seq(Parts),
           InStep(record) => Says(record.fwd, record.orig),
           NEW h \in Seq(Messages), NEW optimized \in Seq(Parts), Says(optimized, h)
    PROVE  /\ Overlay(optimized, h, record) \in Seq(Parts)
           /\ Says(Overlay(optimized, h, record), h)
           /\ InStep(record) =>
                 \A i \in 1..Common(record.orig, h) :
                    Overlay(optimized, h, record)[i] = record.fwd[i]
<1>1. CASE ~InStep(record)
  BY <1>1 DEF Overlay
<1>2. CASE InStep(record)
  <2> DEFINE c == Common(record.orig, h)
             o == Overlay(optimized, h, record)
  <2>1. /\ c \in 0..Len(h) /\ c <= Len(record.orig)
        /\ \A i \in 1..c : record.orig[i] = h[i]
    BY CommonIs
  <2>2. /\ Len(record.fwd) = Len(record.orig) /\ Len(optimized) = Len(h)
        /\ Len(h) \in Nat /\ Len(record.orig) \in Nat
    BY <1>2 DEF Says
  <2>3. o = [i \in 1..Len(h) |-> IF i <= c THEN record.fwd[i] ELSE optimized[i]]
    BY <1>2 DEF Overlay
  <2> HIDE DEF c, o
  <2>4. ASSUME NEW i \in 1..Len(h)
        PROVE  o[i] \in Parts /\ SaysAt(o[i], h, i)
    <3>1. CASE i <= c
      <4>1. i \in 1..Len(record.orig) /\ \A j \in 1..i : record.orig[j] = h[j]
        BY <2>1, <2>2, <3>1
      <4>2. record.fwd[i] \in Parts /\ SaysAt(record.fwd[i], record.orig, i)
        BY <1>2, <2>2, <4>1 DEF Says
      <4>3. o[i] = record.fwd[i] /\ i <= Len(h)
        BY <2>2, <2>3, <3>1
      <4> QED
        BY <4>1, <4>2, <4>3, SaysMoves
    <3>2. CASE ~(i <= c)
      BY <2>2, <2>3, <3>2 DEF Says
    <3> QED
      BY <3>1, <3>2
  <2>5. o \in Seq(Parts) /\ Len(o) = Len(h)
    BY <2>2, <2>3, <2>4, SeqDef
  <2>6. \A i \in 1..c : o[i] = record.fwd[i]
    BY <2>1, <2>3
  <2> QED
    BY <2>4, <2>5, <2>6 DEF c, o, Says
<1> QED
  BY <1>1, <1>2

-----------------------------------------------------------------------------
(* After the overlay *)

\* A sequence begins the one it is appended to.
LEMMA AppendPrefix ==
    ASSUME NEW S, NEW s \in Seq(S), NEW x \in S
    PROVE  IsPrefix(s, s) /\ IsPrefix(s, Append(s, x))
<1>1. /\ SubSeq(s, 1, Len(s)) = s /\ Len(s) \in Nat
      /\ Append(s, x) \in Seq(S) /\ Len(Append(s, x)) = Len(s) + 1
      /\ \A i \in 1..Len(s) : Append(s, x)[i] = s[i]
  BY SubSeqFull
<1>2. /\ SubSeq(Append(s, x), 1, Len(s)) \in Seq(S)
      /\ Len(SubSeq(Append(s, x), 1, Len(s))) = Len(s)
      /\ \A i \in 1..Len(s) : SubSeq(Append(s, x), 1, Len(s))[i] = Append(s, x)[i]
  BY <1>1
<1>3. SubSeq(Append(s, x), 1, Len(s)) = s
  BY <1>1, <1>2, SeqEqual
<1> QED
  BY <1>1, <1>3 DEF IsPrefix

\* A sequence with an element before it.
LEMMA PutBefore ==
    ASSUME NEW S, NEW x \in S, NEW t \in Seq(S)
    PROVE  /\ <<x>> \o t \in Seq(S) /\ <<x>> \o t # <<>>
           /\ Head(<<x>> \o t) = x /\ Tail(<<x>> \o t) = t
<1> DEFINE q == <<x>> \o t
<1>1. /\ q \in Seq(S) /\ Len(q) = 1 + Len(t)
      /\ \A i \in 1..1 + Len(t) : q[i] = IF i <= 1 THEN x ELSE t[i - 1]
  OBVIOUS
<1>2. Len(t) \in Nat
  OBVIOUS
<1> HIDE DEF q
<1>3. q # <<>> /\ Head(q) = x
  BY <1>1, <1>2
<1>4. /\ Tail(q) \in Seq(S) /\ Len(Tail(q)) = Len(t)
      /\ \A i \in 1..Len(t) : Tail(q)[i] = q[i + 1]
  BY <1>1, <1>2, <1>3
<1>5. \A i \in 1..Len(t) : Tail(q)[i] = t[i]
  BY <1>1, <1>2, <1>4
<1>6. Tail(q) = t
  BY <1>4, <1>5, SeqEqual
<1> QED
  BY <1>1, <1>3, <1>6 DEF q

\* A part with one more context, found for the history the part ends.
LEMMA AddedIs ==
    ASSUME NEW h \in Seq(Messages), NEW part \in Parts, SaysAt(part, h, Len(h)),
           NEW x \in Added, x.for = h, NEW more,
           more = [content |-> part.content, form |-> part.form,
                   added |-> Append(part.added, x)]
    PROVE  /\ more \in Parts /\ SaysAt(more, h, Len(h))
           /\ more.content = part.content /\ more.form = part.form
           /\ IsPrefix(part.added, more.added)
<1>1. part.added \in Seq(Added)
  BY DEF Parts
<1>2. /\ Append(part.added, x) \in Seq(Added)
      /\ Len(Append(part.added, x)) = Len(part.added) + 1 /\ Len(part.added) \in Nat
      /\ \A i \in 1..Len(part.added) : Append(part.added, x)[i] = part.added[i]
      /\ Append(part.added, x)[Len(part.added) + 1] = x
  BY <1>1
<1>3. /\ more.content = part.content /\ more.form = part.form
      /\ more.added = Append(part.added, x) /\ more \in Parts
  <2>1. part.content \in Messages \union {"notice"} /\ part.form \in Forms
    BY DEF Parts
  <2> QED
    BY <1>2, <2>1 DEF Parts
<1>4. SubSeq(h, 1, Len(h)) = h
  BY SubSeqFull
<1>5. ASSUME NEW k \in 1..Len(part.added) + 1
      PROVE  Append(part.added, x)[k].for = h
  <2>1. CASE k \in 1..Len(part.added)
    BY <1>2, <1>4, <2>1 DEF SaysAt
  <2>2. CASE k = Len(part.added) + 1
    BY <1>2, <2>2
  <2> QED
    BY <1>2, <2>1, <2>2
<1>6. SaysAt(more, h, Len(h))
  BY <1>2, <1>3, <1>4, <1>5 DEF SaysAt
<1>7. IsPrefix(part.added, Append(part.added, x))
  BY <1>1, AppendPrefix
<1> QED
  BY <1>3, <1>6, <1>7

\* A context added to a prompt leaves it saying the same, and only adds to its
\* last message.
LEMMA WithContextIs ==
    ASSUME NEW h \in Seq(Messages), NEW p \in Seq(Parts), Says(p, h),
           NEW q \in WithContext(p, h)
    PROVE  /\ q \in Seq(Parts) /\ Says(q, h)
           /\ \A i \in 1..Len(p) : i < Len(p) => q[i] = p[i]
           /\ \A i \in 1..Len(p) :
                 /\ q[i].content = p[i].content /\ q[i].form = p[i].form
                 /\ IsPrefix(p[i].added, q[i].added)
<1>1. Len(p) \in Nat /\ Len(p) = Len(h)
  BY DEF Says
<1>2. \A i \in 1..Len(p) : p[i] \in Parts /\ p[i].added \in Seq(Added)
  <2>1. \A part \in Parts : part.added \in Seq(Added)
    BY DEF Parts
  <2>2. \A i \in 1..Len(p) : p[i] \in Parts
    OBVIOUS
  <2> QED
    BY <2>1, <2>2
<1>3. \A i \in 1..Len(p) : IsPrefix(p[i].added, p[i].added)
  <2>1. ASSUME NEW i \in 1..Len(p)
        PROVE  IsPrefix(p[i].added, p[i].added)
    <3>1. PICK s \in Seq(Added) : s = p[i].added
      BY <1>2
    <3>2. SubSeq(s, 1, Len(s)) = s /\ Len(s) <= Len(s)
      BY SubSeqFull
    <3> QED
      BY <3>1, <3>2 DEF IsPrefix
  <2> QED
    BY <2>1
<1>4. CASE q = p
  BY <1>3, <1>4
<1>5. ASSUME NEW c \in Contexts, q = AddContext(p, h, c)
      PROVE  /\ q \in Seq(Parts) /\ Says(q, h)
             /\ \A i \in 1..Len(p) : i < Len(p) => q[i] = p[i]
             /\ \A i \in 1..Len(p) :
                   /\ q[i].content = p[i].content /\ q[i].form = p[i].form
                   /\ IsPrefix(p[i].added, q[i].added)
  <2>1. q = [i \in 1..Len(p) |->
               IF i = Len(p)
               THEN [p[i] EXCEPT !.added = Append(@, [text |-> c, for |-> h])] ELSE p[i]]
    BY <1>5 DEF AddContext
  <2>2. ASSUME NEW i \in 1..Len(p)
        PROVE  /\ q[i] \in Parts /\ SaysAt(q[i], h, i)
               /\ i < Len(p) => q[i] = p[i]
               /\ q[i].content = p[i].content /\ q[i].form = p[i].form
               /\ IsPrefix(p[i].added, q[i].added)
    <3>1. CASE i = Len(p)
      <4>1. q[i] = [p[i] EXCEPT !.added = Append(@, [text |-> c, for |-> h])]
        BY <2>1, <3>1
      <4>2. SaysAt(p[i], h, Len(h)) /\ p[i] \in Parts
        BY <1>1, <1>2, <3>1 DEF Says
      <4>3. PICK part, more, x : part = p[i] /\ more = q[i] /\ x = [text |-> c, for |-> h]
        OBVIOUS
      <4>4. /\ part \in Parts /\ SaysAt(part, h, Len(h)) /\ x \in Added /\ x.for = h
            /\ more = [content |-> part.content, form |-> part.form,
                       added |-> Append(part.added, x)]
        BY <4>1, <4>2, <4>3 DEF Parts, Added
      <4>5. /\ more \in Parts /\ SaysAt(more, h, Len(h))
            /\ more.content = part.content /\ more.form = part.form
            /\ IsPrefix(part.added, more.added)
        BY <4>4, AddedIs
      <4> QED
        BY <1>1, <3>1, <4>3, <4>5
    <3>2. CASE i # Len(p)
      BY <1>2, <1>3, <2>1, <3>2 DEF Says
    <3> QED
      BY <3>1, <3>2
  <2>3. q \in Seq(Parts) /\ Len(q) = Len(p)
    BY <1>1, <2>1, <2>2, SeqDef
  <2> QED
    BY <1>1, <2>2, <2>3 DEF Says
<1> QED
  BY <1>4, <1>5 DEF WithContext

\* An optional stage may change every form and put the notice first: the rest
\* still says the same.
LEMMA OptionalIs ==
    ASSUME NEW h \in Seq(Messages), NEW p \in Seq(Parts), Says(p, h),
           NEW q \in OptionalStages(p)
    PROVE  q \in Seq(Parts) /\ Worded(q, h, TRUE)
<1>1. Len(p) \in Nat /\ Len(p) = Len(h)
  BY DEF Says
<1>2. ASSUME NEW t \in Reformed(p)
      PROVE  t \in Seq(Parts) /\ Says(t, h)
  <2>1. PICK forms \in [1..Len(p) -> Forms] :
           t = [i \in 1..Len(p) |-> [p[i] EXCEPT !.form = forms[i]]]
    BY <1>2 DEF Reformed
  <2>2. ASSUME NEW i \in 1..Len(p)
        PROVE  t[i] \in Parts /\ SaysAt(t[i], h, i)
    <3>1. p[i] \in Parts /\ SaysAt(p[i], h, i) /\ forms[i] \in Forms
      BY DEF Says
    <3>2. t[i] = [p[i] EXCEPT !.form = forms[i]]
      BY <2>1
    <3>3. t[i] \in Parts /\ t[i].content = p[i].content /\ t[i].added = p[i].added
      BY <3>1, <3>2 DEF Parts
    <3> QED
      BY <3>1, <3>3 DEF SaysAt
  <2>3. t = [i \in 1..Len(p) |-> t[i]]
    BY <2>1
  <2>4. t \in Seq(Parts) /\ Len(t) = Len(p)
    BY <1>1, <2>2, <2>3, SeqDef
  <2> QED
    BY <1>1, <2>2, <2>4 DEF Says
<1>3. CASE q \in Reformed(p)
  BY <1>2, <1>3 DEF Worded
<1>4. ASSUME NEW t \in Reformed(p), q = <<Notice>> \o t
      PROVE  q \in Seq(Parts) /\ Worded(q, h, TRUE)
  <2>1. t \in Seq(Parts) /\ Says(t, h)
    BY <1>2
  <2>2. Notice \in Parts
    BY BareIs DEF Notice, Forms
  <2>3. q \in Seq(Parts) /\ q # <<>> /\ Head(q) = Notice /\ Tail(q) = t
    BY <1>4, <2>1, <2>2, PutBefore
  <2> QED
    BY <2>1, <2>3 DEF Worded
<1> QED
  BY <1>3, <1>4 DEF OptionalStages

-----------------------------------------------------------------------------
(* The prompt of a request *)

\* What the guard lets through says what the client says; it is raw throughout, or
\* repeats the record as far as it goes.
LEMMA GuardedIs ==
    ASSUME NEW record, record.orig \in Seq(Messages), record.fwd \in Seq(Parts),
           InStep(record) => Says(record.fwd, record.orig),
           NEW h \in Seq(Messages), NEW optimized \in Seq(Parts), Says(optimized, h),
           NEW g \in Guarded(optimized, Overlay(optimized, h, record), h)
    PROVE  /\ g \in Seq(Parts) /\ Says(g, h)
           /\ \/ g = AllRaw(h)
              \/ InStep(record) =>
                    \A i \in 1..Common(record.orig, h) : g[i] = record.fwd[i]
<1>1. g = Overlay(optimized, h, record) \/ g = AllRaw(h)
  BY DEF Guarded
<1>2. CASE g = Overlay(optimized, h, record)
  BY <1>2, OverlayIs
<1>3. CASE g = AllRaw(h)
  BY <1>3, AllRawIs
<1> QED
  BY <1>1, <1>2, <1>3

\* A guarded prompt, perhaps with a context more.
Replays(p, h, record) ==
    \E g \in Seq(Parts) :
       /\ Says(g, h) /\ p \in WithContext(g, h)
       /\ \/ g = AllRaw(h)
          \/ InStep(record) => \A i \in 1..Common(record.orig, h) : g[i] = record.fwd[i]

\* The prompt of a request says what its client says, after a notice perhaps; if no
\* optional stage changed it, it replays the record.
LEMMA ForwardIs ==
    ASSUME PromptsOK, NEW r \in Requests, sent[r].hist \in Seq(Messages),
           NEW record, record.orig \in Seq(Messages), record.fwd \in Seq(Parts),
           InStep(record) => Says(record.fwd, record.orig), ForwardOver(r, record)
    PROVE  /\ prompt' \in [Requests -> Seq(Parts)]
           /\ \A q \in Requests \ {r} : prompt'[q] = prompt[q]
           /\ touched' = touched \/ touched' = touched \union {r}
           /\ Worded(prompt'[r], sent[r].hist, r \in touched')
           /\ r \notin touched' => Replays(prompt'[r], sent[r].hist, record)
<1> DEFINE h == sent[r].hist
<1>1. PICK forms \in [1..Len(h) -> Forms] :
         LET optimized == [i \in 1..Len(h) |-> AsForwarded(h[i], forms[i])]
         IN  \E g \in Guarded(optimized, Overlay(optimized, h, record), h) :
             \E p \in WithContext(g, h) :
                \/ prompt' = [prompt EXCEPT ![r] = p] /\ UNCHANGED touched
                \/ /\ turns <= MaxOptional
                   /\ \E q \in OptionalStages(p) : prompt' = [prompt EXCEPT ![r] = q]
                   /\ touched' = touched \union {r}
  BY DEF ForwardOver
<1>2. PICK optimized : optimized = [i \in 1..Len(h) |-> AsForwarded(h[i], forms[i])]
  OBVIOUS
<1>3. PICK g \in Guarded(optimized, Overlay(optimized, h, record), h) :
      \E p \in WithContext(g, h) :
         \/ prompt' = [prompt EXCEPT ![r] = p] /\ UNCHANGED touched
         \/ /\ \E q \in OptionalStages(p) : prompt' = [prompt EXCEPT ![r] = q]
            /\ touched' = touched \union {r}
  BY <1>1, <1>2
<1>4. PICK p \in WithContext(g, h) :
         \/ prompt' = [prompt EXCEPT ![r] = p] /\ UNCHANGED touched
         \/ /\ \E q \in OptionalStages(p) : prompt' = [prompt EXCEPT ![r] = q]
            /\ touched' = touched \union {r}
  BY <1>3
<1>5. h \in Seq(Messages)
  OBVIOUS
<1>6. optimized \in Seq(Parts) /\ Says(optimized, h)
  <2> HIDE DEF h
  <2> QED
    BY <1>2, <1>5, BaresAre
<1> HIDE DEF h
<1>7. /\ g \in Seq(Parts) /\ Says(g, h)
      /\ \/ g = AllRaw(h)
         \/ InStep(record) => \A i \in 1..Common(record.orig, h) : g[i] = record.fwd[i]
  BY <1>3, <1>5, <1>6, GuardedIs
<1>8. p \in Seq(Parts) /\ Says(p, h)
  BY <1>4, <1>5, <1>7, WithContextIs
<1>9. prompt \in [Requests -> Seq(Parts)]
  BY DEF PromptsOK
<1>10. CASE prompt' = [prompt EXCEPT ![r] = p] /\ UNCHANGED touched
  <2>1. prompt'[r] = p /\ Worded(p, h, r \in touched')
    BY <1>8, <1>9, <1>10 DEF Worded
  <2>2. Replays(p, h, record)
    BY <1>4, <1>7 DEF Replays
  <2> QED
    BY <1>8, <1>9, <1>10, <2>1, <2>2 DEF h
<1>11. ASSUME NEW q \in OptionalStages(p), prompt' = [prompt EXCEPT ![r] = q],
              touched' = touched \union {r}
       PROVE  /\ prompt' \in [Requests -> Seq(Parts)]
              /\ \A o \in Requests \ {r} : prompt'[o] = prompt[o]
              /\ Worded(prompt'[r], h, r \in touched') /\ r \in touched'
  <2>1. q \in Seq(Parts) /\ Worded(q, h, TRUE)
    BY <1>5, <1>8, <1>11, OptionalIs
  <2>2. prompt'[r] = q /\ r \in touched'
    BY <1>9, <1>11
  <2>3. Worded(prompt'[r], h, r \in touched')
    BY <2>1, <2>2 DEF Worded
  <2> QED
    BY <1>9, <1>11, <2>1, <2>2, <2>3
<1> QED
  BY <1>4, <1>10, <1>11 DEF h

-----------------------------------------------------------------------------
(* The records keep in step with the trackers *)

\* A request in flight on a kept tracker.
LEMMA KeptIs ==
    ASSUME IndInv, NEW r \in Requests, sent[r].state = "kept"
    PROVE  /\ sent[r].hist \in Seq(Messages) /\ sent[r].key \in DOMAIN trackers
           /\ sent[r] # Free
<1>1. sent[r] \in {Free, Orphan} \union [state : {"kept"}, key : Keys, hist : Chains]
  BY DEF IndInv, TypeOK
<1>2. sent[r] # Free /\ sent[r] # Orphan
  BY DEF Free, Orphan
<1>3. sent[r].hist \in Chains
  BY <1>1, <1>2
<1>4. sent[r].key \in DOMAIN trackers
  BY DEF IndInv, NumbersUsed
<1> QED
  BY <1>2, <1>3, <1>4 DEF Chains

\* A tracker without a record.
LEMMA NoRecordOK == RecordOK(NoRecord, <<>>, <<>>)
BY DEF RecordOK, NoRecord, Says, InStep

\* At the start nothing is recorded and nothing forwarded.
LEMMA ReplayInitInv == ReplayInit => ReplayInv
<1> SUFFICES ASSUME ReplayInit PROVE ReplayInv
  OBVIOUS
<1>1. PromptsOK
  BY DEF ReplayInit, Init, PromptsOK
<1>2. RecordsOK
  BY DEF ReplayInit, Init, RecordsOK
<1> QED
  BY <1>1, <1>2 DEF ReplayInv

\* The next value of PromptsOK.
LEMMA PromptsMeans ==
    PromptsOK' <=>
        /\ forwarded' \subseteq Requests /\ touched' \subseteq forwarded'
        /\ prompt' \in [Requests -> Seq(Parts)]
        /\ \A r \in forwarded' :
              sent'[r].state = "kept" /\ Worded(prompt'[r], sent'[r].hist, r \in touched')
        /\ call' # NoCall => call'.request \notin forwarded'
BY DEF PromptsOK, Worded, Says, SaysAt, Notice, AsForwarded

\* A request goes upstream: its prompt says what its client said.
LEMMA ForwardInv ==
    ASSUME IndInv, ReplayInv, NEW r \in Requests, Forward(r)
    PROVE  ReplayInv'
<1> DEFINE k == sent[r].key
<1>1. /\ call = NoCall /\ sent[r].state = "kept" /\ r \notin forwarded
      /\ ForwardOver(r, replay[k]) /\ forwarded' = forwarded \union {r}
      /\ call' = call /\ sent' = sent /\ trackers' = trackers
      /\ replay' = replay /\ seen' = seen
  BY DEF Forward, vars
<1>2. sent[r].hist \in Seq(Messages) /\ k \in DOMAIN trackers
  BY <1>1, KeptIs
<1>3. RecordOK(replay[k], trackers[k].recorded, seen[k])
  BY <1>2 DEF ReplayInv, RecordsOK
<1>4. PromptsOK
  BY DEF ReplayInv
<1>5. /\ prompt' \in [Requests -> Seq(Parts)]
      /\ \A q \in Requests \ {r} : prompt'[q] = prompt[q]
      /\ touched' = touched \/ touched' = touched \union {r}
      /\ Worded(prompt'[r], sent[r].hist, r \in touched')
  <2>1. PICK record : record = replay[k]
    OBVIOUS
  <2>2. /\ record.orig \in Seq(Messages) /\ record.fwd \in Seq(Parts)
        /\ InStep(record) => Says(record.fwd, record.orig)
    BY <1>3, <2>1 DEF RecordOK
  <2>3. ForwardOver(r, record)
    BY <1>1, <2>1
  <2> QED
    BY <1>2, <1>4, <2>2, <2>3, ForwardIs
<1>6. PromptsOK'
  <2>1. /\ forwarded' \subseteq Requests /\ (call' # NoCall => call'.request \notin forwarded')
        /\ touched' \subseteq forwarded'
    BY <1>1, <1>4, <1>5 DEF PromptsOK
  <2>2. ASSUME NEW q \in forwarded'
        PROVE  sent'[q].state = "kept" /\ Worded(prompt'[q], sent'[q].hist, q \in touched')
    <3>1. CASE q = r
      BY <1>1, <1>5, <3>1
    <3>2. CASE q # r
      <4>1. /\ q \in forwarded /\ prompt'[q] = prompt[q] /\ sent'[q] = sent[q]
            /\ q \in touched' <=> q \in touched
        BY <1>1, <1>4, <1>5, <2>2, <3>2 DEF PromptsOK
      <4> QED
        BY <1>4, <4>1 DEF PromptsOK
    <3> QED
      BY <3>1, <3>2
  <2> QED
    BY <1>5, <2>1, <2>2, PromptsMeans
<1>7. RecordsOK'
  BY <1>1 DEF ReplayInv, RecordsOK
<1> QED
  BY <1>6, <1>7 DEF ReplayInv

\* A prompt with a tail.
LEMMA JoinedParts ==
    ASSUME NEW s \in Seq(Parts), NEW t \in Seq(Parts)
    PROVE  /\ s \o t \in Seq(Parts) /\ Len(s \o t) = Len(s) + Len(t)
           /\ \A i \in 1..Len(s) + Len(t) :
                 (s \o t)[i] = IF i <= Len(s) THEN s[i] ELSE t[i - Len(s)]
BY ConcatProperties

\* A prompt that says less or more than its history is out of step with it.
LEMMA WordedLength ==
    ASSUME NEW h \in Seq(Messages), NEW p \in Seq(Parts), NEW changed, Worded(p, h, changed),
           Len(p) = Len(h)
    PROVE  Says(p, h)
<1>1. SUFFICES ASSUME p # <<>>, Says(Tail(p), h) PROVE FALSE
  BY DEF Worded
<1>2. Len(Tail(p)) = Len(p) - 1 /\ Len(p) \in Nat
  BY <1>1
<1> QED
  BY <1>1, <1>2 DEF Says

\* What a response leaves in a tracker.
LEMMA RecordsIs ==
    ASSUME IndInv, PromptsOK, NEW r \in forwarded, NEW answer \in Answers(sent[r].hist)
    PROVE  RecordOK(Records(r, answer), sent[r].hist, prompt[r])
<1> DEFINE h == sent[r].hist
           p == prompt[r]
           raw == AllRaw(answer)
           record == Records(r, answer)
<1>1. /\ r \in Requests /\ sent[r].state = "kept"
      /\ p \in Seq(Parts) /\ Worded(p, h, r \in touched)
  BY DEF PromptsOK
<1>2. h \in Seq(Messages)
  BY <1>1, KeptIs
<1>3. answer \in Seq(Messages)
  <2>1. CASE answer = <<>>
    BY <2>1
  <2>2. CASE \E m \in Messages : answer = <<m>>
    BY <2>2
  <2> QED
    BY <2>1, <2>2 DEF Answers
<1>4. /\ raw \in Seq(Parts) /\ Len(raw) = Len(answer)
      /\ \A i \in 1..Len(raw) : raw[i].content = answer[i] /\ raw[i].added = <<>>
  <2>1. AllRaw(answer) = [i \in 1..Len(answer) |-> AsForwarded(answer[i], "raw")]
    BY DEF AllRaw
  <2>2. \A i \in 1..Len(answer) : AllRaw(answer)[i].added = <<>>
    BY <2>1 DEF AsForwarded
  <2> QED
    BY <1>3, <2>2, AllRawIs DEF Says, SaysAt
<1>5. record = [orig |-> h \o answer, fwd |-> p \o raw]
  BY DEF Records
<1> HIDE DEF h, p, raw
<1>6. Len(h) \in Nat /\ Len(answer) \in Nat /\ Len(p) \in Nat
  BY <1>1, <1>2, <1>3
<1>7. /\ h \o answer \in Seq(Messages) /\ Len(h \o answer) = Len(h) + Len(answer)
      /\ \A i \in 1..Len(h) + Len(answer) :
            (h \o answer)[i] = IF i <= Len(h) THEN h[i] ELSE answer[i - Len(h)]
  BY <1>2, <1>3, ConcatProperties
<1>8. /\ p \o raw \in Seq(Parts) /\ Len(p \o raw) = Len(p) + Len(answer)
      /\ \A i \in 1..Len(p) + Len(answer) :
            (p \o raw)[i] = IF i <= Len(p) THEN p[i] ELSE raw[i - Len(p)]
  <2>1. /\ p \o raw \in Seq(Parts) /\ Len(p \o raw) = Len(p) + Len(raw)
        /\ \A i \in 1..Len(p) + Len(raw) :
              (p \o raw)[i] = IF i <= Len(p) THEN p[i] ELSE raw[i - Len(p)]
    <3>1. p \in Seq(Parts) /\ raw \in Seq(Parts)
      BY <1>1, <1>4
    <3> QED
      BY <3>1, JoinedParts
  <2> QED
    BY <1>1, <1>4, <2>1
<1>9. record.orig = h \o answer /\ record.fwd = p \o raw
  BY <1>5
<1> HIDE DEF record
<1>10. ASSUME InStep(record)
       PROVE  /\ Says(record.fwd, record.orig)
              /\ Len(p) = Len(h) /\ Len(h) <= Len(record.orig)
              /\ \A i \in 1..Len(h) : h[i] = record.orig[i] /\ p[i] = record.fwd[i]
  <2>1. Len(p) = Len(h)
    BY <1>6, <1>7, <1>8, <1>9, <1>10 DEF InStep
  <2>2. Says(p, h)
    BY <1>1, <1>2, <2>1, WordedLength
  <2>3. ASSUME NEW i \in 1..Len(h) + Len(answer)
        PROVE  SaysAt((p \o raw)[i], h \o answer, i)
    <3>1. CASE i <= Len(h)
      <4>1. /\ i \in 1..Len(h) /\ i <= Len(h \o answer)
            /\ \A j \in 1..i : h[j] = (h \o answer)[j]
        BY <1>6, <1>7, <3>1
      <4>2. SaysAt((p \o raw)[i], h, i)
        BY <1>6, <1>8, <2>1, <2>2, <3>1 DEF Says
      <4> QED
        BY <1>2, <1>7, <4>1, <4>2, SaysMoves
    <3>2. CASE ~(i <= Len(h))
      <4>1. i - Len(h) \in 1..Len(raw)
        BY <1>4, <1>6, <3>2
      <4>2. (p \o raw)[i] = raw[i - Len(h)] /\ (h \o answer)[i] = answer[i - Len(h)]
        BY <1>6, <1>7, <1>8, <2>1, <3>2
      <4>3. Len((p \o raw)[i].added) = 0
        BY <1>4, <4>1, <4>2
      <4> QED
        BY <1>4, <4>1, <4>2, <4>3 DEF SaysAt
    <3> QED
      BY <3>1, <3>2
  <2>4. Says(record.fwd, record.orig)
    BY <1>7, <1>8, <1>9, <2>1, <2>3 DEF Says
  <2>5. \A i \in 1..Len(h) : h[i] = record.orig[i] /\ p[i] = record.fwd[i]
    BY <1>6, <1>7, <1>8, <1>9, <2>1
  <2> QED
    BY <1>6, <1>7, <1>9, <2>1, <2>4, <2>5
<1> QED
  BY <1>1, <1>2, <1>7, <1>8, <1>9, <1>10 DEF RecordOK, h, p, record

\* A response is recorded: prompt and history grow by the same answer.
LEMMA RecordInv ==
    ASSUME IndInv, ReplayInv, NEW r \in Requests, Record(r)
    PROVE  ReplayInv'
<1> DEFINE k == sent[r].key
<1>1. /\ r \in forwarded /\ Respond(r) /\ Forget(r)
      /\ seen' = [seen EXCEPT ![k] = prompt[r]]
  BY DEF Record
<1>2. PICK answer \in Answers(sent[r].hist) : replay' = [replay EXCEPT ![k] = Records(r, answer)]
  BY DEF Record
<1>3. PromptsOK /\ RecordsOK
  BY DEF ReplayInv
<1>4. sent[r].state = "kept"
  BY <1>1, <1>3 DEF PromptsOK
<1>5. k \in DOMAIN trackers
  BY <1>4, KeptIs
<1>6. /\ trackers' = [trackers EXCEPT ![k] = [idle |-> 0, recorded |-> sent[r].hist]]
      /\ sent' = [sent EXCEPT ![r] = Free] /\ call = NoCall /\ call' = call
  BY <1>1, <1>4 DEF Respond
<1>7. PromptsOK'
  <2>1. /\ forwarded' = forwarded \ {r} /\ prompt' = [prompt EXCEPT ![r] = <<>>]
        /\ touched' = touched \ {r}
    BY <1>1 DEF Forget
  <2>2. sent \in [Requests -> {Free, Orphan} \union [state : {"kept"}, key : Keys, hist : Chains]]
    BY DEF IndInv, TypeOK
  <2>3. prompt' \in [Requests -> Seq(Parts)]
    BY <1>3, <2>1 DEF PromptsOK
  <2>4. ASSUME NEW q \in forwarded'
        PROVE  sent'[q].state = "kept" /\ Worded(prompt'[q], sent'[q].hist, q \in touched')
    <3>1. q \in forwarded /\ q \in Requests /\ q # r
      BY <1>3, <2>1, <2>4 DEF PromptsOK
    <3>2. sent'[q] = sent[q] /\ prompt'[q] = prompt[q] /\ (q \in touched' <=> q \in touched)
      BY <1>3, <1>6, <2>1, <2>2, <3>1 DEF PromptsOK
    <3> QED
      BY <1>3, <3>1, <3>2 DEF PromptsOK
  <2>5. /\ forwarded' \subseteq Requests /\ touched' \subseteq forwarded'
        /\ call' # NoCall => call'.request \notin forwarded'
    BY <1>3, <1>6, <2>1 DEF PromptsOK
  <2> QED
    BY <2>3, <2>4, <2>5, PromptsMeans
<1>8. RecordsOK'
  <2>1. RecordOK(Records(r, answer), sent[r].hist, prompt[r])
    BY <1>1, <1>3, RecordsIs
  <2>2. DOMAIN replay' = DOMAIN trackers' /\ DOMAIN seen' = DOMAIN trackers'
        /\ DOMAIN trackers' = DOMAIN trackers
    BY <1>1, <1>2, <1>3, <1>6 DEF RecordsOK
  <2>3. ASSUME NEW j \in DOMAIN trackers
        PROVE  RecordOK(replay'[j], trackers'[j].recorded, seen'[j])
    <3>1. CASE j = k
      BY <1>1, <1>2, <1>3, <1>6, <2>1, <3>1 DEF RecordsOK
    <3>2. CASE j # k
      <4>1. replay'[j] = replay[j] /\ trackers'[j] = trackers[j] /\ seen'[j] = seen[j]
        BY <1>1, <1>2, <1>3, <1>6, <3>2 DEF RecordsOK
      <4> QED
        BY <1>3, <4>1 DEF RecordsOK
    <3> QED
      BY <3>1, <3>2
  <2> QED
    BY <2>2, <2>3 DEF RecordsOK
<1> QED
  BY <1>7, <1>8 DEF ReplayInv

-----------------------------------------------------------------------------
(* The other steps *)

\* A request that fails leaves the records alone.
LEMMA GiveUpInv ==
    ASSUME IndInv, ReplayInv, NEW r \in Requests, GiveUp(r)
    PROVE  ReplayInv'
<1>1. /\ forwarded' = forwarded \ {r} /\ prompt' = [prompt EXCEPT ![r] = <<>>]
      /\ touched' = touched \ {r}
      /\ sent' = [sent EXCEPT ![r] = Free] /\ call = NoCall
      /\ call' = call /\ trackers' = trackers /\ replay' = replay /\ seen' = seen
  BY DEF GiveUp, Fail, Forget
<1>2. PromptsOK /\ RecordsOK
  BY DEF ReplayInv
<1>3. sent \in [Requests -> {Free, Orphan} \union [state : {"kept"}, key : Keys, hist : Chains]]
  BY DEF IndInv, TypeOK
<1>4. PromptsOK'
  <2>1. prompt' \in [Requests -> Seq(Parts)]
    BY <1>1, <1>2 DEF PromptsOK
  <2>2. ASSUME NEW q \in forwarded'
        PROVE  sent'[q].state = "kept" /\ Worded(prompt'[q], sent'[q].hist, q \in touched')
    <3>1. q \in forwarded /\ q \in Requests /\ q # r
      BY <1>1, <1>2, <2>2 DEF PromptsOK
    <3>2. sent'[q] = sent[q] /\ prompt'[q] = prompt[q] /\ (q \in touched' <=> q \in touched)
      BY <1>1, <1>2, <1>3, <3>1 DEF PromptsOK
    <3> QED
      BY <1>2, <3>1, <3>2 DEF PromptsOK
  <2>3. /\ forwarded' \subseteq Requests /\ touched' \subseteq forwarded'
        /\ call' # NoCall => call'.request \notin forwarded'
    BY <1>1, <1>2 DEF PromptsOK
  <2> QED
    BY <2>1, <2>2, <2>3, PromptsMeans
<1>5. RecordsOK'
  BY <1>1, <1>2 DEF RecordsOK
<1> QED
  BY <1>4, <1>5 DEF ReplayInv

\* The clock ages trackers and leaves their records.
LEMMA PassInv ==
    ASSUME IndInv, ReplayInv, Pass
    PROVE  ReplayInv'
<1>1. /\ DOMAIN trackers' = DOMAIN trackers
      /\ \A k \in DOMAIN trackers : trackers'[k].recorded = trackers[k].recorded
  <2>1. \A k \in DOMAIN trackers : trackers[k] \in Tracker
    BY DEF IndInv, TypeOK
  <2>2. ASSUME NEW t \in Tracker
        PROVE  [t EXCEPT !.idle = IF @ <= TTL THEN @ + 1 ELSE @].recorded = t.recorded
    BY DEF Tracker
  <2> QED
    BY <2>1, <2>2 DEF Pass, Tick
<1>2. call' # NoCall => call # NoCall /\ call'.request = call.request
  <2>1. call \in {NoCall} \union
          [state : {"stamp"}, request : Requests, session : Sessions, snap : Chains,
           key : Keys, ticked : BOOLEAN]
    BY DEF IndInv, TypeOK
  <2> QED
    BY <2>1 DEF Pass, Tick
<1>3. UNCHANGED <<sent, forwarded, prompt, touched, replay, seen>>
  BY DEF Pass, Tick
<1>4. PromptsOK'
  BY <1>2, <1>3, PromptsMeans DEF ReplayInv, PromptsOK
<1>5. RecordsOK'
  BY <1>1, <1>3 DEF ReplayInv, RecordsOK
<1> QED
  BY <1>4, <1>5 DEF ReplayInv

\* A record goes with its tracker.
LEMMA FollowInv ==
    ASSUME RecordsOK, RecordsFollow,
           \A k \in DOMAIN trackers' :
              trackers'[k].recorded = IF k \in DOMAIN trackers \ Gone
                                      THEN trackers[k].recorded ELSE <<>>
    PROVE  RecordsOK'
<1>1. /\ replay' = [k \in DOMAIN trackers' |->
                      IF k \in DOMAIN trackers \ Gone THEN replay[k] ELSE NoRecord]
      /\ seen' = [k \in DOMAIN trackers' |->
                      IF k \in DOMAIN trackers \ Gone THEN seen[k] ELSE <<>>]
  BY DEF RecordsFollow, RecordsOK
<1>2. ASSUME NEW k \in DOMAIN trackers'
      PROVE  RecordOK(replay'[k], trackers'[k].recorded, seen'[k])
  <2>1. CASE k \in DOMAIN trackers \ Gone
    <3>1. /\ replay'[k] = replay[k] /\ seen'[k] = seen[k]
          /\ trackers'[k].recorded = trackers[k].recorded
      BY <1>1, <1>2, <2>1
    <3>2. RecordOK(replay[k], trackers[k].recorded, seen[k])
      BY <2>1 DEF RecordsOK
    <3> QED
      BY <3>1, <3>2
  <2>2. CASE k \notin DOMAIN trackers \ Gone
    <3>1. replay'[k] = NoRecord /\ seen'[k] = <<>> /\ trackers'[k].recorded = <<>>
      BY <1>1, <1>2, <2>2
    <3> QED
      BY <3>1, NoRecordOK
  <2> QED
    BY <2>1, <2>2
<1>3. DOMAIN replay' = DOMAIN trackers' /\ DOMAIN seen' = DOMAIN trackers'
  BY <1>1
<1> QED
  BY <1>2, <1>3 DEF RecordsOK

\* A prompt goes with its request's tracker.
LEMMA PromptsFollow ==
    ASSUME PromptsOK,
           forwarded' = {r \in forwarded : sent'[r].state = "kept"},
           prompt' = [r \in Requests |-> IF r \in forwarded' THEN prompt[r] ELSE <<>>],
           touched' = touched \cap forwarded',
           \A r \in forwarded : sent'[r].state = "kept" => sent'[r] = sent[r],
           call' # NoCall => call'.request \notin forwarded
    PROVE  PromptsOK'
<1>1. prompt' \in [Requests -> Seq(Parts)]
  BY DEF PromptsOK
<1>2. ASSUME NEW r \in forwarded'
      PROVE  sent'[r].state = "kept" /\ Worded(prompt'[r], sent'[r].hist, r \in touched')
  <2>1. /\ r \in forwarded /\ r \in Requests /\ sent'[r] = sent[r] /\ prompt'[r] = prompt[r]
        /\ r \in touched' <=> r \in touched
    BY <1>2 DEF PromptsOK
  <2> QED
    BY <2>1 DEF PromptsOK
<1>3. /\ forwarded' \subseteq Requests /\ touched' \subseteq forwarded'
      /\ call' # NoCall => call'.request \notin forwarded'
  BY DEF PromptsOK
<1> QED
  BY <1>1, <1>2, <1>3, PromptsMeans

\* A resolved call, in its two halves.
LEMMA ResolveInv ==
    ASSUME IndInv, ReplayInv, Resolve
    PROVE  ReplayInv'
<1>1. /\ RecordsFollow /\ forwarded' = {r \in forwarded : sent'[r].state = "kept"}
      /\ prompt' = [r \in Requests |-> IF r \in forwarded' THEN prompt[r] ELSE <<>>]
      /\ touched' = touched \cap forwarded'
  BY DEF Resolve
<1>2. PromptsOK /\ RecordsOK
  BY DEF ReplayInv
<1>3. /\ \A r \in Requests : SweptSent[r].state = "kept" => SweptSent[r] = sent[r]
      /\ DOMAIN SweptSent = Requests
  BY DEF SweptSent, Orphan
<1>4. /\ DOMAIN SweptTrackers = DOMAIN trackers \ Gone
      /\ \A k \in DOMAIN trackers \ Gone : SweptTrackers[k] = trackers[k]
  BY Swept
<1>5. ASSUME NEW r \in Requests, NEW s \in Sessions, NEW h \in Histories,
             ResolveMatch(r, s, h)
      PROVE  ReplayInv'
  <2>1. sent[r] = Free /\ trackers' = SweptTrackers /\ sent' = SweptSent
        /\ call'.request = r
    BY <1>5 DEF ResolveMatch
  <2>2. r \notin forwarded
    BY <1>2, <2>1 DEF PromptsOK, Free
  <2>3. PromptsOK'
    <3>1. \A q \in forwarded : sent'[q].state = "kept" => sent'[q] = sent[q]
      BY <1>2, <1>3, <2>1 DEF PromptsOK
    <3> QED
      BY <1>1, <1>2, <2>1, <2>2, <3>1, PromptsFollow
  <2>4. RecordsOK'
    BY <1>1, <1>2, <1>4, <2>1, FollowInv
  <2> QED
    BY <2>3, <2>4 DEF ReplayInv
<1>6. CASE ResolveStamp
  <2>1. PICK k, v : /\ k = call.key
                    /\ v = [idle |-> 0, recorded |-> IF k \in DOMAIN SweptTrackers
                                                     THEN trackers[k].recorded ELSE <<>>]
    OBVIOUS
  <2>2. PICK new : new = [state |-> "kept", key |-> call.key, hist |-> call.snap]
    OBVIOUS
  <2>3. /\ call # NoCall /\ call' = NoCall /\ trackers' = Put(SweptTrackers, k, v)
        /\ sent' = [SweptSent EXCEPT ![call.request] = new]
    BY <1>6, <2>1, <2>2 DEF ResolveStamp, GetOrCreate
  <2>4. PromptsOK'
    <3>1. ASSUME NEW q \in forwarded, sent'[q].state = "kept"
          PROVE  sent'[q] = sent[q]
      <4>1. q \in Requests /\ q # call.request
        BY <1>2, <2>3, <3>1 DEF PromptsOK
      <4>2. sent'[q] = SweptSent[q]
        BY <1>3, <2>3, <4>1
      <4> QED
        BY <1>3, <3>1, <4>1, <4>2
    <3> QED
      BY <1>1, <1>2, <2>3, <3>1, PromptsFollow
  <2>5. RecordsOK'
    <3>1. ASSUME NEW j \in DOMAIN trackers'
          PROVE  trackers'[j].recorded = IF j \in DOMAIN trackers \ Gone
                                         THEN trackers[j].recorded ELSE <<>>
      <4>1. DOMAIN trackers' = DOMAIN SweptTrackers \union {k}
        BY <2>3 DEF Put
      <4>2. CASE j = k
        BY <1>4, <2>1, <2>3, <4>1, <4>2 DEF Put
      <4>3. CASE j # k
        BY <1>4, <2>3, <3>1, <4>1, <4>3 DEF Put
      <4> QED
        BY <4>2, <4>3
    <3> QED
      BY <1>1, <1>2, <3>1, FollowInv
  <2> QED
    BY <2>4, <2>5 DEF ReplayInv
<1> QED
  BY <1>5, <1>6 DEF Resolve

-----------------------------------------------------------------------------
(* The theorems *)

\* What the handler adds to a step of the store leaves the store's step whole.
LEMMA StepOfStore == ReplayNext => [Next]_vars
<1>1. Resolve => Next
  BY DEF Resolve, Next
<1>2. Pass => Next
  BY DEF Pass, Next
<1>3. ASSUME NEW r \in Requests
      PROVE  /\ Forward(r) => UNCHANGED vars
             /\ Record(r) \/ GiveUp(r) => Next
  BY DEF Forward, Record, GiveUp, Next
<1> QED
  BY <1>1, <1>2, <1>3 DEF ReplayNext

\* Every step of the replay keeps its invariant.
LEMMA ReplayNextInv ==
    ASSUME IndInv, ReplayInv, [ReplayNext]_allVars
    PROVE  ReplayInv'
<1>1. CASE UNCHANGED allVars
  <2>1. UNCHANGED <<call, sent, trackers, forwarded, prompt, touched, replay, seen>>
    BY <1>1 DEF vars
  <2>2. PromptsOK'
    BY <2>1, PromptsMeans DEF ReplayInv, PromptsOK
  <2>3. RecordsOK'
    BY <2>1 DEF ReplayInv, RecordsOK
  <2> QED
    BY <2>2, <2>3 DEF ReplayInv
<1>2. CASE Resolve
  BY <1>2, ResolveInv
<1>3. CASE Pass
  BY <1>3, PassInv
<1>4. ASSUME NEW r \in Requests, Forward(r) \/ Record(r) \/ GiveUp(r)
      PROVE  ReplayInv'
  BY <1>4, ForwardInv, RecordInv, GiveUpInv
<1> QED
  BY <1>1, <1>2, <1>3, <1>4 DEF ReplayNext

\* The handler drives the store as the store expects: forwarding is no step of
\* the store's, and every other step is one, so all that is proved of the
\* lineages holds under it.
THEOREM ReplayDrivesLineages == ReplaySpec => Spec
<1>1. ReplayInit => Init
  BY DEF ReplayInit
<1>2. [ReplayNext]_allVars => [Next]_vars
  BY StepOfStore
<1> QED
  BY <1>1, <1>2, PTL DEF ReplaySpec, Spec

\* The records of update_from_response() keep in step with the trackers, and
\* every prompt with its request.
THEOREM ReplayInvariance == ReplaySpec => []ReplayInv
<1>1. ReplaySpec => []IndInv
  BY ReplayDrivesLineages, LineageInvariance, PTL
<1>2. IndInv /\ ReplayInv /\ [ReplayNext]_allVars => ReplayInv'
  BY ReplayNextInv
<1> QED
  BY <1>1, <1>2, ReplayInitInv, PTL DEF ReplaySpec

\* Neither overlay_cached_prefix(), on whichever tracker, nor what the handler adds
\* after it puts words into a client's mouth: a prompt says what its client said,
\* with contexts found for that conversation only.
THEOREM PromptsAreFaithful == ReplaySpec => []FaithfulPrompts
<1>1. ReplayInv => FaithfulPrompts
  BY DEF ReplayInv, PromptsOK, FaithfulPrompts, Worded
<1> QED
  BY <1>1, ReplayInvariance, PTL

\* Two prefixes of one history agree as far as both go.
LEMMA PrefixesAgree ==
    ASSUME NEW s \in Chains, NEW t \in Chains, NEW u \in Chains,
           IsPrefix(s, u), IsPrefix(t, u)
    PROVE  \A i \in 1..Len(s) : i <= Len(t) => s[i] = t[i]
<1>1. \A i \in 1..Len(s) : s[i] = u[i]
  BY PrefixIs
<1>2. \A i \in 1..Len(t) : t[i] = u[i]
  BY PrefixIs
<1>3. Len(s) \in Nat /\ Len(t) \in Nat
  BY DEF Chains
<1> QED
  BY <1>1, <1>2, <1>3

\* A prompt over a record of its own conversation, in step, repeats what was seen.
LEMMA OverlayRepeats ==
    ASSUME NEW record, NEW last, NEW shown, RecordOK(record, last, shown), InStep(record),
           NEW h \in Seq(Messages),
           \A i \in 1..Len(h) : i <= Len(last) => h[i] = last[i],
           NEW g \in Seq(Parts), Len(g) = Len(h),
           \A i \in 1..Common(record.orig, h) : g[i] = record.fwd[i]
    PROVE  \A i \in 1..Len(g) : i <= Len(shown) => g[i] = shown[i]
<1>1. /\ record.orig \in Seq(Messages) /\ shown \in Seq(Parts) /\ last \in Seq(Messages)
      /\ Len(shown) = Len(last) /\ Len(last) <= Len(record.orig)
      /\ \A i \in 1..Len(last) : last[i] = record.orig[i] /\ shown[i] = record.fwd[i]
  BY DEF RecordOK
<1>2. Len(h) \in Nat /\ Len(last) \in Nat /\ Len(record.orig) \in Nat
  BY <1>1
<1>3. /\ Common(record.orig, h) \in 0..Len(h)
      /\ \A n \in 1..Len(h) :
            n <= Len(record.orig) /\ (\A i \in 1..n : record.orig[i] = h[i])
               => n <= Common(record.orig, h)
  BY <1>1, CommonIs
<1>4. ASSUME NEW i \in 1..Len(g), i <= Len(shown)
      PROVE  g[i] = shown[i]
  <2>1. i \in 1..Len(h) /\ i \in 1..Len(last) /\ i <= Len(record.orig)
    BY <1>1, <1>2, <1>4
  <2>2. \A j \in 1..i : record.orig[j] = h[j]
    BY <1>1, <1>2, <2>1
  <2>3. i \in 1..Common(record.orig, h)
    BY <1>3, <2>1, <2>2
  <2> QED
    BY <1>1, <2>1, <2>3
<1> QED
  BY <1>4

\* A prompt with a context more repeats what it repeated without it.
LEMMA StillRepeats ==
    ASSUME NEW h \in Seq(Messages), NEW g \in Seq(Parts), Says(g, h),
           NEW p \in WithContext(g, h), NEW shown,
           \A i \in 1..Len(g) : i <= Len(shown) => g[i] = shown[i]
    PROVE  Repeats(shown, p)
<1>1. /\ Says(p, h) /\ \A i \in 1..Len(g) : i < Len(g) => p[i] = g[i]
      /\ \A i \in 1..Len(g) :
            /\ p[i].content = g[i].content /\ p[i].form = g[i].form
            /\ IsPrefix(g[i].added, p[i].added)
  BY WithContextIs
<1>2. Len(p) = Len(g)
  BY <1>1 DEF Says
<1> QED
  BY <1>1, <1>2 DEF Repeats

\* The provider's prompt cache hits: a turn on its conversation's own tracker
\* repeats what overlay_cached_prefix() found recorded, its last message perhaps
\* with a context more, or the inflation guard sent it out raw.
THEOREM PromptsRepeat == ReplaySpec => PromptRepeatsSeen
<1> DEFINE Hits ==
      \A r \in (forwarded' \ touched') \ forwarded :
         OnLineage(r) /\ InStep(replay[sent[r].key]) =>
            \/ prompt'[r] \in WithContext(AllRaw(sent[r].hist), sent[r].hist)
            \/ Repeats(seen[sent[r].key], prompt'[r])
<1>1. ASSUME IndInv, ReplayInv, [ReplayNext]_allVars
      PROVE  Hits
  <2>1. ASSUME NEW r \in Requests, Forward(r), r \notin touched', OnLineage(r),
               InStep(replay[sent[r].key])
        PROVE  \/ prompt'[r] \in WithContext(AllRaw(sent[r].hist), sent[r].hist)
               \/ Repeats(seen[sent[r].key], prompt'[r])
    <3> DEFINE k == sent[r].key
               h == sent[r].hist
    <3>1. sent[r].state = "kept" /\ ForwardOver(r, replay[k])
      BY <2>1 DEF Forward
    <3>2. h \in Seq(Messages) /\ k \in DOMAIN trackers
      BY <1>1, <2>1, <3>1, KeptIs
    <3>3. RecordOK(replay[k], trackers[k].recorded, seen[k])
      BY <1>1, <3>2 DEF ReplayInv, RecordsOK
    <3>4. PICK s \in Sessions \ detached : k \in DOMAIN families[s]
      BY <2>1 DEF OnLineage
    <3>5. IsPrefix(h, families[s][k]) /\ IsPrefix(trackers[k].recorded, families[s][k])
      BY <1>1, <3>1, <3>4 DEF IndInv, RecordedWithinChain, Reached
    <3>6. families[s][k] \in Chains /\ trackers[k].recorded \in Chains
      BY <1>1, <3>2, <3>4 DEF IndInv, TypeOK, Tracker, Chains
    <3>7. \A i \in 1..Len(h) : i <= Len(trackers[k].recorded) => h[i] = trackers[k].recorded[i]
      BY <3>2, <3>5, <3>6, PrefixesAgree DEF Chains
    <3>8. PICK record, last, shown :
             record = replay[k] /\ last = trackers[k].recorded /\ shown = seen[k]
      OBVIOUS
    <3>9. PICK g \in Seq(Parts) :
             /\ Says(g, h) /\ prompt'[r] \in WithContext(g, h)
             /\ \/ g = AllRaw(h)
                \/ \A i \in 1..Common(record.orig, h) : g[i] = record.fwd[i]
      <4>1. PromptsOK /\ sent[r].hist \in Seq(Messages)
        BY <1>1, <3>2 DEF ReplayInv
      <4>2. /\ record.orig \in Seq(Messages) /\ record.fwd \in Seq(Parts)
            /\ InStep(record) /\ (InStep(record) => Says(record.fwd, record.orig))
            /\ ForwardOver(r, record)
        BY <2>1, <3>1, <3>3, <3>8 DEF RecordOK
      <4>3. Replays(prompt'[r], sent[r].hist, record)
        BY <2>1, <4>1, <4>2, ForwardIs
      <4> QED
        BY <4>2, <4>3 DEF Replays
    <3>10. CASE g = AllRaw(h)
      BY <3>9, <3>10
    <3>11. CASE \A i \in 1..Common(record.orig, h) : g[i] = record.fwd[i]
      <4> HIDE DEF h
      <4>1. /\ RecordOK(record, last, shown) /\ InStep(record) /\ h \in Seq(Messages)
            /\ \A i \in 1..Len(h) : i <= Len(last) => h[i] = last[i]
        BY <2>1, <3>2, <3>3, <3>7, <3>8
      <4>2. Len(g) = Len(h)
        BY <3>9 DEF Says
      <4>3. \A i \in 1..Len(g) : i <= Len(shown) => g[i] = shown[i]
        BY <3>11, <4>1, <4>2, OverlayRepeats
      <4>4. Repeats(shown, prompt'[r])
        BY <3>9, <4>1, <4>3, StillRepeats
      <4> QED
        BY <3>8, <4>4
    <3> QED
      BY <3>9, <3>10, <3>11
  <2>2. ASSUME NEW r \in forwarded' \ forwarded
        PROVE  r \in Requests /\ Forward(r)
    <3>1. forwarded' \subseteq forwarded \/ \E q \in Requests : Forward(q)
      BY <1>1 DEF ReplayNext, Resolve, Pass, Record, GiveUp, Forget
    <3>2. PICK q \in Requests : Forward(q)
      BY <2>2, <3>1
    <3> QED
      BY <2>2, <3>2 DEF Forward
  <2> QED
    BY <2>1, <2>2
<1>2. ReplaySpec => []IndInv
  BY ReplayDrivesLineages, LineageInvariance, PTL
<1> QED
  BY <1>1, <1>2, ReplayInvariance, PTL DEF ReplaySpec, PromptRepeatsSeen
===============================================================================
