--------------------------- MODULE RequestFields ---------------------------
(***************************************************************************)
(* The form fields a call sends: its typed parameters and the caller's     *)
(* extra_parameters (audd_build_recognize_fields, audd_streams_add,        *)
(* audd_streams_set_callback_url), through every attempt of the call.      *)
(*                                                                         *)
(* A typed parameter is its key; what value it has does not matter, only   *)
(* whether the caller set it (given).  extras holds the keys of the        *)
(* complete key/value pairs: a key without a value ends the list.  Which   *)
(* attempts are repeated is the matter of RetryRunner; here any may be.    *)
(***************************************************************************)
EXTENDS CallbackUrl

CONSTANTS
    MaxAttempts,   \* options.max_attempts
    MaxExtras,     \* bound: pairs in extra_parameters
    MaxPieces      \* bound: pieces of a callback URL

ASSUME BoundsAssumption ==
    MaxAttempts \in Nat \ {0} /\ MaxExtras \in Nat /\ MaxPieces \in Nat

Recognitions == {"audd_recognize", "audd_recognize_enterprise"}
Calls == Recognitions \cup {"audd_streams_set_callback_url", "audd_streams_add"}

(* The typed keys in the order they are written.  An enterprise call has   *)
(* no market; url is typed when the source is one.                         *)
TypedKeys(c) ==
    CASE c = "audd_recognize" -> <<"return", "market", "url">>
      [] c = "audd_recognize_enterprise" ->
            <<"skip", "every", "limit", "skip_first_seconds", "use_timecode",
              "accurate_offsets", "return", "url">>
      [] c = "audd_streams_set_callback_url" -> <<"url">>
      [] c = "audd_streams_add" -> <<"url", "radio_id", "callbacks">>

Keys(c) == {TypedKeys(c)[i] : i \in DOMAIN TypedKeys(c)}

(* What the caller may leave out; for set_callback_url, return is not a    *)
(* field but goes into the URL.                                            *)
OptionalKeys(c) ==
    CASE c = "audd_streams_set_callback_url" -> {"return"}
      [] c = "audd_streams_add" -> {"callbacks"}
      [] OTHER -> Keys(c)

RequiredKeys(c) ==
    CASE c = "audd_streams_set_callback_url" -> {"url"}
      [] c = "audd_streams_add" -> {"url", "radio_id"}
      [] OTHER -> {}

(* Extra keys: some collide with typed ones, one never does.               *)
ExtraKeys(c) ==
    CASE c = "audd_recognize" -> {"return", "market", "custom"}
      [] c = "audd_recognize_enterprise" -> {"return", "limit", "custom"}
      [] OTHER -> {"url", "callbacks", "custom"}

VARIABLES
    call,       \* which call it is
    given,      \* typed parameters the caller set
    extras,     \* keys of extra_parameters
    raw_url,    \* the callback URL given to set_callback_url
    final_url,  \* ... and with its return parameter
    params,     \* typed parameters the call is going to send
    fields,     \* the field list: each field's key and where it is from
    pc,
    attempt_n,
    err,        \* what the call returns, "OK" until it has gone wrong
    requests    \* history: the fields of every request made

vars == <<call, given, extras, raw_url, final_url, params, fields, pc,
          attempt_n, err, requests>>

inputs == <<call, given, extras, raw_url>>

Field(c) == [key : Keys(c) \cup ExtraKeys(c), from : {"typed", "extra"}]
Typed(k) == [key |-> k, from |-> "typed"]
Extra(k) == [key |-> k, from |-> "extra"]

TypeOK ==
    /\ call \in Calls
    /\ given \subseteq RequiredKeys(call) \cup OptionalKeys(call)
    /\ extras \in Seq(ExtraKeys(call)) /\ Len(extras) <= MaxExtras
    /\ raw_url \in Seq(Pieces) /\ final_url \in Seq(Pieces)
    /\ params \subseteq given
    /\ fields \in Seq(Field(call))
    /\ pc \in {"start", "list", "attempt", "decide", "returned"}
    /\ attempt_n \in 1 .. MaxAttempts
    /\ err \in {"OK", "INVALID_ARGUMENT", "OUT_OF_MEMORY"}
    /\ requests \in Seq(Seq(Field(call))) /\ Len(requests) <= attempt_n

Init ==
    /\ call \in Calls
    /\ \E set \in SUBSET OptionalKeys(call) : given = RequiredKeys(call) \cup set
    /\ \E n \in 0 .. MaxExtras : extras \in [1 .. n -> ExtraKeys(call)]
    /\ raw_url \in IF call = "audd_streams_set_callback_url"
                   THEN UrlsUpTo(MaxPieces) ELSE {<<>>}
    /\ final_url = <<>>
    /\ params = {}
    /\ fields = <<>>
    /\ pc = "start"
    /\ attempt_n = 1
    /\ err = "OK"
    /\ requests = <<>>

-----------------------------------------------------------------------------
(* Building a field list.                                                  *)

(* The elements of s that are in set, in the order they have in s.         *)
Chosen(s, set) ==
    LET upto[n \in 0 .. Len(s)] ==
            CASE n = 0 -> <<>>
              [] n > 0 /\ s[n] \in set -> Append(upto[n - 1], s[n])
              [] OTHER -> upto[n - 1]
    IN  upto[Len(s)]

(* The typed fields, in order.                                             *)
TypedFields(c, typed) ==
    LET chosen == Chosen(TypedKeys(c), typed)
    IN  [i \in DOMAIN chosen |-> Typed(chosen[i])]

ExtraFields(keys) == [i \in DOMAIN keys |-> Extra(keys[i])]

(* Slots of the list: two for each field and the terminating NULL.         *)
Slots(list) == 2 * Len(list) + 1

audd_recognize_fields_capacity(pairs) == 9 * 2 + Len(pairs) * 2 + 1

(* Extras shadowed by a typed field are skipped; the others are written    *)
(* while two slots and the terminator fit, that is, half the capacity.     *)
KeptExtras(typed, pairs, capacity) ==
    LET unshadowed == Chosen(pairs, {pairs[i] : i \in DOMAIN pairs} \ typed)
        room == (capacity - 1) \div 2
    IN  SubSeq(unshadowed, 1,
               IF Len(unshadowed) < room THEN Len(unshadowed) ELSE room)

(* Mutant: one key is missing from the list of typed keys.                 *)
AllKeysButLimit(typed) == typed \ {"limit"}

(* The keys that shadow extras.                                            *)
collect_typed_keys(typed) == typed

audd_build_recognize_fields(c, typed, pairs, capacity) ==
    ExtraFields(KeptExtras(collect_typed_keys(typed), pairs, capacity))
        \o TypedFields(c, typed)

(* Mutant: no room for the optional callbacks.                             *)
CapacityWithoutCallbacks(c, pairs) ==
    Len(pairs) * 2 + (IF c = "audd_streams_add" THEN 5 ELSE 3)

(* `total` of the two stream calls.                                        *)
StreamCapacity(c, pairs) ==
    Len(pairs) * 2 + (IF c = "audd_streams_add" THEN 7 ELSE 3)

(* All extras first, then the typed fields.                                *)
StreamFields(c, typed, pairs) == ExtraFields(pairs) \o TypedFields(c, typed)

-----------------------------------------------------------------------------
(* The calls.                                                              *)

Fail(e) == err' = e /\ pc' = "returned"

(* join_csv: without memory the request goes on without its metadata.      *)
JoinReturn ==
    /\ pc = "start"
    /\ call \in Recognitions
    /\ params' \in {given, given \ {"return"}}
    /\ pc' = "attempt"
    /\ UNCHANGED <<inputs, final_url, fields, attempt_n, err, requests>>

(* audd_url_append_return; with no metadata the URL is only copied.        *)
AppendReturn ==
    /\ pc = "start"
    /\ call = "audd_streams_set_callback_url"
    /\ \/ /\ "return" \in given /\ HasReturnParam(raw_url)
          /\ Fail("INVALID_ARGUMENT")
          /\ UNCHANGED <<final_url, params>>
       \/ /\ Fail("OUT_OF_MEMORY")
          /\ ~("return" \in given /\ HasReturnParam(raw_url))
          /\ UNCHANGED <<final_url, params>>
       \/ /\ ~("return" \in given /\ HasReturnParam(raw_url))
          /\ final_url' = IF "return" \in given THEN WithReturn(raw_url)
                                                ELSE raw_url
          /\ params' = {"url"}
          /\ pc' = "list"
          /\ UNCHANGED err
    /\ UNCHANGED <<inputs, fields, attempt_n, requests>>

(* audd_streams_add has nothing to prepare.                                *)
AddStream ==
    /\ pc = "start"
    /\ call = "audd_streams_add"
    /\ params' = given
    /\ pc' = "list"
    /\ UNCHANGED <<inputs, final_url, fields, attempt_n, err, requests>>

(* The stream calls allocate and fill their list once, before the loop.    *)
BuildList ==
    /\ pc = "list"
    /\ \/ Fail("OUT_OF_MEMORY") /\ UNCHANGED fields
       \/ /\ fields' = StreamFields(call, params, extras)
          /\ pc' = "attempt"
          /\ UNCHANGED err
    /\ UNCHANGED <<inputs, final_url, params, attempt_n, requests>>

(* streams_attempt posts the list; it may fail to allocate its URL.        *)
streams_attempt ==
    /\ pc = "attempt"
    /\ call \notin Recognitions
    /\ requests' \in {requests, Append(requests, fields)}
    /\ pc' = "decide"
    /\ UNCHANGED <<inputs, final_url, params, fields, attempt_n, err>>

(* Mutant: the metadata is joined anew for every attempt.                  *)
AttemptJoiningAgain ==
    /\ pc = "attempt"
    /\ call \in Recognitions
    /\ params' \in {given, given \ {"return"}}
    /\ fields' = audd_build_recognize_fields(
                     call, params', extras,
                     audd_recognize_fields_capacity(extras))
    /\ requests' = Append(requests, fields')
    /\ pc' = "decide"
    /\ UNCHANGED <<inputs, final_url, attempt_n, err>>

(* recognize_attempt builds a list of its own, if there is memory for it.  *)
recognize_attempt ==
    /\ pc = "attempt"
    /\ call \in Recognitions
    /\ \/ UNCHANGED <<fields, requests>>
       \/ /\ fields' = audd_build_recognize_fields(
                           call, params, extras,
                           audd_recognize_fields_capacity(extras))
          /\ requests' = Append(requests, fields')
    /\ pc' = "decide"
    /\ UNCHANGED <<inputs, final_url, params, attempt_n, err>>

(* Mutant: the limit is not looked at.                                     *)
RetryForever ==
    /\ pc = "decide"
    /\ attempt_n' = attempt_n + 1
    /\ pc' = "attempt"
    /\ UNCHANGED <<inputs, final_url, params, fields, err, requests>>

Retry ==
    /\ pc = "decide"
    /\ attempt_n < MaxAttempts
    /\ attempt_n' = attempt_n + 1
    /\ pc' = "attempt"
    /\ UNCHANGED <<inputs, final_url, params, fields, err, requests>>

Return ==
    /\ pc = "decide"
    /\ pc' = "returned"
    /\ UNCHANGED <<inputs, final_url, params, fields, attempt_n, err, requests>>

Next ==
    \/ JoinReturn \/ AppendReturn \/ AddStream \/ BuildList
    \/ streams_attempt \/ recognize_attempt \/ Retry \/ Return
    \/ pc = "returned" /\ UNCHANGED vars

Spec == Init /\ [][Next]_vars

-----------------------------------------------------------------------------
(* Properties.                                                             *)

Sent == {requests[i] : i \in DOMAIN requests}

Capacity == IF call \in Recognitions THEN audd_recognize_fields_capacity(extras)
                                     ELSE StreamCapacity(call, extras)

(* No field list is written past its end: the typed fields are appended    *)
(* without a look at the capacity, which was computed elsewhere.           *)
FieldsFit == fields # <<>> => Slots(fields) <= Capacity

(* A request has key k once, with the value of the typed parameter.        *)
TypedWins(request, k) ==
    /\ \E i \in DOMAIN request : request[i] = Typed(k)
    /\ Cardinality({i \in DOMAIN request : request[i].key = k}) = 1

(* The indexes of the extras up to the nth that no typed field shadows.    *)
Unshadowed(n) == {i \in 1 .. n : extras[i] \notin params}

(* A recognition sends every typed parameter once, which beats an extra of *)
(* the same key whichever other parameters are set, and the extras that    *)
(* collide with nothing all arrive, in the caller's order, however many    *)
(* they are and wherever colliding ones stand between them.                *)
RecognizeRequestRight ==
    call \in Recognitions =>
        \A r \in Sent :
            /\ \A k \in params : TypedWins(r, k)
            /\ \A i \in Unshadowed(Len(extras)) :
                  r[Cardinality(Unshadowed(i))] = Extra(extras[i])
            /\ {i \in DOMAIN r : r[i].from = "extra"} =
               1 .. Cardinality(Unshadowed(Len(extras)))

(* A retry asks the same question again: all requests of a call have the   *)
(* same fields, although each attempt builds its list anew.                *)
SameRequestEveryAttempt == Cardinality(Sent) <= 1

(* Where the caller asked for metadata, the URL that is registered asks    *)
(* for it once, and a URL is rejected only for asking already.  (A URL     *)
(* with a fragment gets its parameter inside the fragment: left out.)      *)
CallbackUrlAsksOnce ==
    call = "audd_streams_set_callback_url" /\ ~HasFragment(raw_url) =>
        /\ err = "INVALID_ARGUMENT" => ReturnParams(raw_url) # {}
        /\ Sent # {} /\ "return" \in given =>
              Cardinality(ReturnParams(final_url)) = 1
=============================================================================
