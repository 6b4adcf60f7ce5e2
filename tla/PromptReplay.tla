---------------------------- MODULE PromptReplay ----------------------------
(***************************************************************************)
(* What the Anthropic handler forwards, on top of SessionLineages: each    *)
(* message of a request goes out in some form, raw or compressed, the last *)
(* one perhaps with context the proxy found for it, and the provider's     *)
(* prompt cache only hits if the messages it has seen go out again as it   *)
(* saw them.                                                               *)
(*                                                                         *)
(* The compression pipeline, the compression cache and the background      *)
(* compressor may choose any form for any message: they come to different  *)
(* results from turn to turn, time out or are refused.  What keeps a       *)
(* conversation's prefix stable is overlay_cached_prefix(), which replays  *)
(* what the tracker recorded of the last response - if the tracker is the  *)
(* conversation's own.  What comes after it in the handler changes the     *)
(* prompt again, and is recorded with it.                                  *)
(***************************************************************************)
EXTENDS SessionLineages

CONSTANTS
    Contexts,    \* what the memory and the CCR context tracker find for a query
    MaxTurns,    \* bound: requests resolved
    MaxOptional  \* bound: the optional stages stop after this many resolved requests

VARIABLES
    turns,     \* bound: requests resolved so far
    forwarded, \* requests whose prompt has been sent and can be recorded
    prompt,    \* the prompt of each request: optimized_messages as it is sent
    touched,   \* history: forwarded requests whose prompt an optional stage changed
    replay,    \* _last_original_messages and _last_forwarded_messages of each tracker
    seen       \* history: the prompt the provider answered, of each tracker's record

replayVars == <<turns, forwarded, prompt, touched, replay, seen>>
allVars == <<vars, replayVars>>

Forms == {"raw", "cut"}

\* A message as it goes out: whose content it carries, in which form, and the
\* contexts added to it, each with the history it was found for.
AsForwarded(m, form) == [content |-> m, form |-> form, added |-> <<>>]
AllRaw(h) == [i \in 1..Len(h) |-> AsForwarded(h[i], "raw")]

\* The message inject_into_system_message() puts before the others.
Notice == AsForwarded("notice", "raw")

ReplayInit ==
    /\ Init
    /\ turns = 0
    /\ forwarded = {}
    /\ prompt = [r \in Requests |-> <<>>]
    /\ touched = {}
    /\ replay = <<>>
    /\ seen = <<>>

NoRecord == [orig |-> <<>>, fwd |-> <<>>]

\* A tracker that leaves the store takes its record along; a new one has none.
RecordsFollow ==
    LET kept == DOMAIN replay \ Gone
    IN  /\ replay' = [k \in DOMAIN trackers' |->
                        IF k \in kept THEN replay[k] ELSE NoRecord]
        /\ seen' = [k \in DOMAIN trackers' |-> IF k \in kept THEN seen[k] ELSE <<>>]

\* resolve_tracker() and the clock.  A request without messages is refused by
\* the provider and records nothing, so it is left out here.
Resolve ==
    /\ \/ ResolveStamp /\ UNCHANGED turns
       \/ /\ turns < MaxTurns /\ turns' = turns + 1
          /\ \E r \in Requests, s \in Sessions, h \in Histories : ResolveMatch(r, s, h)
    /\ RecordsFollow
    /\ forwarded' = {r \in forwarded : sent'[r].state = "kept"}
    /\ prompt' = [r \in Requests |-> IF r \in forwarded' THEN prompt[r] ELSE <<>>]
    /\ touched' = touched \cap forwarded'

Pass ==
    /\ Tick
    /\ UNCHANGED replayVars

-----------------------------------------------------------------------------
(* overlay_cached_prefix() *)

\* How many leading messages of h are those the tracker recorded.
CommonByLength(old, h) == IF Len(old) <= Len(h) THEN Len(old) ELSE Len(h)  \* mutant
Common(old, h) ==
    Cardinality({n \in 1..Len(h) : n <= Len(old) /\ SubSeq(old, 1, n) = SubSeq(h, 1, n)})

\* The two lists of a record go together message by message.
InStep(record) == Len(record.fwd) = Len(record.orig)

\* The recorded forms of the common messages, this turn's for the others.
Overlay(optimized, h, record) ==
    IF ~InStep(record) THEN optimized
    ELSE [i \in 1..Len(h) |->
            IF i <= Common(record.orig, h) THEN record.fwd[i] ELSE optimized[i]]

\* The inflation guard leaves a prompt alone that the overlay has changed.
Guarded(optimized, overlaid, h) ==
    {overlaid} \union IF overlaid = optimized THEN {AllRaw(h)} ELSE {}

-----------------------------------------------------------------------------
(* After the overlay *)

\* _append_context_to_latest_non_frozen_user_turn(), for the proactive expansion
\* and the memory; what either or both of them add is one context here.  There
\* may be nothing to add, or no text of the user's to add it to.
AddContext(p, h, c) ==
    [i \in 1..Len(p) |->
        IF i = Len(p) THEN [p[i] EXCEPT !.added = Append(@, [text |-> c, for |-> h])] ELSE p[i]]
WithContext(p, h) == {p} \union {AddContext(p, h, c) : c \in Contexts}

\* The stages that are off unless configured - read maturation, the system
\* instructions, pipeline extensions, turn hooks - rewrite messages in place or
\* put one before them.
Reformed(p) ==
    {[i \in 1..Len(p) |-> [p[i] EXCEPT !.form = forms[i]]] : forms \in [1..Len(p) -> Forms]}
OptionalStages(p) == Reformed(p) \union {<<Notice>> \o q : q \in Reformed(p)}

\* The prompt of a request on a tracker with the given record.
ForwardOver(r, record) ==
    \E forms \in [1..Len(sent[r].hist) -> Forms] :
        LET h == sent[r].hist
            optimized == [i \in 1..Len(h) |-> AsForwarded(h[i], forms[i])]
        IN  \E guarded \in Guarded(optimized, Overlay(optimized, h, record), h) :
            \E p \in WithContext(guarded, h) :
                \/ prompt' = [prompt EXCEPT ![r] = p] /\ UNCHANGED touched
                \/ /\ turns <= MaxOptional
                   /\ \E q \in OptionalStages(p) : prompt' = [prompt EXCEPT ![r] = q]
                   /\ touched' = touched \union {r}

\* Compression, overlay and guard, what comes after, and the request goes upstream.
Forward(r) ==
    /\ call = NoCall /\ sent[r].state = "kept" /\ r \notin forwarded
    /\ ForwardOver(r, replay[sent[r].key])
    /\ forwarded' = forwarded \union {r}
    /\ UNCHANGED <<vars, turns, replay, seen>>

-----------------------------------------------------------------------------
(* The response *)

Forget(r) ==
    /\ forwarded' = forwarded \ {r}
    /\ prompt' = [prompt EXCEPT ![r] = <<>>]
    /\ touched' = touched \ {r}

\* The answer the tracker adds to its record, if the response can be read: here
\* also if a later history of MaxLength messages can reach it.
Answers(h) == {<<>>} \union {<<m>> : m \in {n \in Messages : Len(h) < MaxLength}}

\* The tracker records the client's messages and the prompt, both with the answer.
RecordsOriginals(r, answer) ==  \* mutant
    [orig |-> sent[r].hist \o answer, fwd |-> AllRaw(sent[r].hist \o answer)]
Records(r, answer) ==
    [orig |-> sent[r].hist \o answer, fwd |-> prompt[r] \o AllRaw(answer)]

Record(r) ==
    /\ r \in forwarded
    /\ Respond(r)
    /\ \E answer \in Answers(sent[r].hist) :
          replay' = [replay EXCEPT ![sent[r].key] = Records(r, answer)]
    /\ seen' = [seen EXCEPT ![sent[r].key] = prompt[r]]
    /\ UNCHANGED turns
    /\ Forget(r)

\* A request whose tracker was dropped, or that fails, records nothing.
GiveUp(r) == Fail(r) /\ Forget(r) /\ UNCHANGED <<turns, replay, seen>>

ReplayNext ==
    \/ Resolve \/ Pass
    \/ \E r \in Requests : Forward(r) \/ Record(r) \/ GiveUp(r)

ReplaySpec == ReplayInit /\ [][ReplayNext]_allVars

-----------------------------------------------------------------------------
(* Properties *)

\* A part says what the i-th message of a history says, and every context added
\* to it was found for the conversation up to that message.
SaysAt(part, h, i) ==
    /\ part.content = h[i]
    /\ \A k \in 1..Len(part.added) : part.added[k].for = SubSeq(h, 1, i)

\* Prompt p says what history h says.
Says(p, h) == Len(p) = Len(h) /\ \A i \in 1..Len(p) : SaysAt(p[i], h, i)

\* Every prompt says what its client said, message by message, with nothing added
\* that was found for another conversation - also on the overflow tracker, where
\* the record, contexts and all, is another conversation's.
FaithfulPrompts ==
    \A r \in forwarded :
        \/ Says(prompt[r], sent[r].hist)
        \/ r \in touched /\ Head(prompt[r]) = Notice /\ Says(Tail(prompt[r]), sent[r].hist)

\* The requests with messages on the tracker of a lineage of their own.
OnLineage(r) ==
    /\ sent[r].state = "kept" /\ sent[r].hist # <<>>
    /\ \E s \in Sessions \ detached : sent[r].key \in DOMAIN families[s]

\* As far as both go, prompt p repeats the one shown; only its last message may
\* have got another context.
Repeats(shown, p) ==
    \A i \in 1..Len(p) : i <= Len(shown) =>
        IF i < Len(p) THEN p[i] = shown[i]
        ELSE /\ p[i].content = shown[i].content /\ p[i].form = shown[i].form
             /\ IsPrefix(shown[i].added, p[i].added)

\* A turn of a conversation repeats, as the provider has seen it, all it shares
\* with the last turn its tracker recorded, whatever the compressors now make of
\* it and whichever turn answers last: the provider's prompt cache hits.  A turn
\* that is sent again may find another context for its last message, since
\* appending one is not idempotent.  Only the inflation guard breaks the prefix,
\* when the compressors happen to agree with the record and the rest has grown:
\* then everything goes out raw.  Optional stages may change any message, and
\* when they have put one before the others the record is not replayed.
PromptRepeatsSeen ==
    [][\A r \in (forwarded' \ touched') \ forwarded :
         OnLineage(r) /\ InStep(replay[sent[r].key]) =>
            \/ prompt'[r] \in WithContext(AllRaw(sent[r].hist), sent[r].hist)
            \/ Repeats(seen[sent[r].key], prompt'[r])]_allVars
=============================================================================
