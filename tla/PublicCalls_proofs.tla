-------------------------- MODULE PublicCalls_proofs --------------------------
(***************************************************************************)
(* Proofs about PublicCalls, for every number of attempts, every set of    *)
(* statuses and every set of error codes.                                  *)
(*                                                                         *)
(* The properties speak of a call that has returned; the inductive         *)
(* invariant says what must hold before that, so that whichever part of    *)
(* the call comes last leaves the client as promised.                      *)
(***************************************************************************)
EXTENDS PublicCalls, TLAPS

Response == [rc : {0, -1}, status : {0} \cup Statuses, json : Json]
ErrorState == [message : Messages, code : Codes]

(* The answer counts as a success for this call.                           *)
Answered ==
    /\ resp.rc = 0
    /\ \/ call = "audd_advanced_raw_request" /\ resp.json # NoJson
       \/ resp.json.status = "success"
       \/ resp.json.error = kDeprecatedParamsCode
              /\ resp.json.result \in {"object", "array", "string"}

(* Before the decoder no API code is recorded, and a failed attempt has    *)
(* said why; behind it the answer was a success and the error state clear. *)
DuringInv ==
    /\ pc \in {"fields", "attempt", "decode"} /\ touched =>
          last_error.code = 0
    /\ pc = "decode" /\ resp.rc # 0 /\ touched /\ ~starved =>
          last_error.message # ""
    /\ pc = "build" => touched /\ last_error = NoError /\ Answered
    /\ pc # "idle" /\ call \in OutCalls => out = "null"

Promised == ErrorStateIsOwn /\ OkIsAnswered /\ FailureSaysWhy /\ OutIsDefined

IInv == TypeOK /\ DuringInv /\ Promised

-----------------------------------------------------------------------------
USE MaxAttemptsAssumption, StatusesAssumption, CodesAssumption
DEF MaxAttemptsAssumption, StatusesAssumption, CodesAssumption

(* The decoders return an error the SDK knows and a message of its own.    *)
LEMMA SentinelIsError ==
    ASSUME NEW code \in Codes
    PROVE  audd_sentinel_for_code(code) \in Errors
  BY DEF Errors

(* No code of the API stands for success.                                  *)
LEMMA SentinelIsNotOk ==
    ASSUME NEW code \in Nat
    PROVE  audd_sentinel_for_code(code) # "OK"
  BY DEF audd_sentinel_for_code

(* The errors and messages, one by one.                                    *)
LEMMA ErrorsAndMessages ==
    /\ {"OK", "SERVER", "SERIALIZATION", "CUSTOM_CATALOG_ACCESS",
        "CONNECTION", "INVALID_ARGUMENT", "OUT_OF_MEMORY"} \subseteq Errors
    /\ {"", "connection", "argument", "memory", "non-JSON", "unparseable",
        "catalog", "api", "status"} = Messages
  BY DEF Errors, Messages

(* An error state is its two parts.                                        *)
LEMMA IsNoError ==
    ASSUME NEW e \in ErrorState, e.message = "", e.code = 0
    PROVE  e = NoError
  BY DEF ErrorState, NoError

(* The clear error state has no message and no code.                       *)
LEMMA NoErrorHas ==
    NoError \in ErrorState /\ NoError.message = "" /\ NoError.code = 0
  BY DEF ErrorState, NoError, Messages

(* The success of the decoders carries no error.                           *)
LEMMA DecodedIs == Decoded.err = "OK" /\ Decoded.last = NoError
  <1>1. Decoded.err = "OK"
    BY DEF Decoded, Outcome
  <1>2. Decoded.last = NoError
    BY DEF Decoded, Outcome, NoError
  <1> QED
    BY <1>1, <1>2

(* What the decoder of a call says of an answer.                           *)
LEMMA DecoderReturns ==
    ASSUME resp \in Response, resp.rc = 0,
           NEW d, \E memory \in BOOLEAN : d = DecodedResponse(memory)
    PROVE  /\ d.err \in Errors /\ d.last \in ErrorState
           /\ d.err = "OK" => d.last = NoError /\ Answered
           /\ d.err # "OK" => d.last.message # ""
           /\ d.last.code # 0 => /\ resp.json.error = d.last.code
                                 /\ d.err = ErrorFor(d.last.code)
  <1>0. PICK memory \in BOOLEAN : d = DecodedResponse(memory)
    OBVIOUS
  <1> DEFINE j == resp.json
             body == maybe_warn_and_strip(j, memory)
  <1>1. j = NoJson \/ j \in Bodies(Codes)
    BY DEF Response, Json
  <1>2. CASE j = NoJson
    <2>1. d = Unparsed(resp.status)
      <3>1. body.status = "none"
        BY <1>2 DEF maybe_warn_and_strip, NoJson, kDeprecatedParamsCode
      <3> HIDE DEF body
      <3>2. audd_decode_or_raise(resp.status, j,
                call = "audd_custom_catalog_add", memory) = Unparsed(resp.status)
        BY <1>2, <3>1 DEF audd_decode_or_raise, body
      <3> QED
        BY <1>0, <1>2, <3>2 DEF DecodedResponse, audd_decode_top_level
    <2>2. CASE d = Outcome("SERVER", "non-JSON", 0)
      <3>1. /\ d.err = "SERVER" /\ d.last \in ErrorState
            /\ d.last.message = "non-JSON" /\ d.last.code = 0
        BY <2>2 DEF Outcome, ErrorState, Messages
      <3> HIDE DEF body
      <3> QED
        BY <3>1, ErrorsAndMessages
    <2>3. CASE d = Outcome("SERIALIZATION", "unparseable", 0)
      <3>1. /\ d.err = "SERIALIZATION" /\ d.last \in ErrorState
            /\ d.last.message = "unparseable" /\ d.last.code = 0
        BY <2>3 DEF Outcome, ErrorState, Messages
      <3> HIDE DEF body
      <3> QED
        BY <3>1, ErrorsAndMessages
    <2>4. \/ d = Outcome("SERVER", "non-JSON", 0)
          \/ d = Outcome("SERIALIZATION", "unparseable", 0)
      BY <2>1 DEF Unparsed
    <2> HIDE DEF body, j
    <2> QED
      BY <2>2, <2>3, <2>4
  <1>3. CASE j # NoJson /\ call = "audd_advanced_raw_request"
    <2>1. d = Decoded
      BY <1>0, <1>3 DEF DecodedResponse, audd_decode_top_level
    <2>2. Answered
      BY <1>3 DEF Answered
    <2> HIDE DEF body
    <2> QED
      BY <2>1, <2>2, DecodedIs, NoErrorHas, ErrorsAndMessages
  <1>4. CASE j # NoJson /\ call # "audd_advanced_raw_request"
    <2>1. j \in Bodies(Codes)
      BY <1>1, <1>4
    <2>2. /\ body.status \in {"success", "error", "other"}
          /\ body.error \in Codes
          /\ body = j \/ (/\ body.status \in {"success", "other"}
                          /\ j.error = kDeprecatedParamsCode
                          /\ j.result \in {"object", "array", "string"})
      BY <2>1 DEF maybe_warn_and_strip, Bodies, ResultTypes
    <2>3. CASE body.status = "success"
      <3>1. d = Decoded
        BY <1>0, <1>4, <2>3 DEF DecodedResponse, audd_decode_or_raise
      <3>2. Answered
        BY <2>2, <2>3 DEF Answered
      <3> HIDE DEF body
      <3> QED
        BY <3>1, <3>2, DecodedIs, NoErrorHas, ErrorsAndMessages
    <2>4. CASE body.status = "error"
      <3>1. body = j /\ body.error \in Codes
        BY <2>2, <2>4
      <3>2. d = ApiError(j.error, call = "audd_custom_catalog_add")
        BY <1>0, <1>4, <2>4, <3>1 DEF DecodedResponse, audd_decode_or_raise
      <3>3. /\ audd_sentinel_for_code(j.error) \in Errors
            /\ audd_sentinel_for_code(j.error) # "OK"
        BY ZenonT(60), <3>1, SentinelIsError, SentinelIsNotOk
      <3> HIDE DEF body
      <3>4. CASE call = "audd_custom_catalog_add" /\ j.error \in {904, 905}
        <4>1. /\ d.err = "CUSTOM_CATALOG_ACCESS" /\ d.last \in ErrorState
              /\ d.last.message = "catalog" /\ d.last.code = j.error
          BY <3>1, <3>2, <3>4 DEF ApiError, Outcome, ErrorState, Messages
        <4>2. ErrorFor(j.error) = "CUSTOM_CATALOG_ACCESS"
          BY <3>4 DEF ErrorFor
        <4> QED
          BY ZenonT(60), <4>1, <4>2, ErrorsAndMessages
      <3>5. CASE ~(call = "audd_custom_catalog_add" /\ j.error \in {904, 905})
        <4>1. /\ d.err = audd_sentinel_for_code(j.error)
              /\ d.last \in ErrorState
              /\ d.last.message = "api" /\ d.last.code = j.error
          BY <3>1, <3>2, <3>5 DEF ApiError, Outcome, ErrorState, Messages
        <4>2. ErrorFor(j.error) = audd_sentinel_for_code(j.error)
          BY <3>5 DEF ErrorFor
        <4> QED
          BY <3>3, <4>1, <4>2
      <3> QED
        BY ZenonT(60), <3>4, <3>5
    <2>5. CASE body.status = "other"
      <3>1. d = Outcome("SERVER", "status", 0)
        BY ZenonT(60), <1>0, <1>4, <2>5 DEF DecodedResponse, audd_decode_or_raise
      <3>2. /\ d.err = "SERVER" /\ d.last \in ErrorState
            /\ d.last.message = "status" /\ d.last.code = 0
        BY <3>1 DEF Outcome, ErrorState, Messages
      <3> HIDE DEF body
      <3> QED
        BY <3>2, ErrorsAndMessages
    <2> QED
      BY <2>2, <2>3, <2>4, <2>5
  <1> QED
    BY <1>2, <1>3, <1>4

(* What recording an error leaves behind.                                  *)
LEMMA RecordLeaves ==
    ASSUME NEW error \in ErrorState, NEW before, Record(error, before)
    PROVE  /\ last_error' \in ErrorState
           /\ touched' = TRUE
           /\ last_error'.code = error.code
           /\ ~starved' => last_error' = error
           /\ error = NoError => last_error' = NoError
  <1>1. last_error' = error \/ last_error' = [error EXCEPT !.message = ""]
    BY DEF Record
  <1>2. [error EXCEPT !.message = ""] \in ErrorState
    BY DEF ErrorState, Messages
  <1>3. [error EXCEPT !.message = ""].code = error.code
    BY DEF ErrorState
  <1>4. error = NoError => [error EXCEPT !.message = ""] = NoError
    <2>1. [error EXCEPT !.message = ""].message = ""
      BY DEF ErrorState
    <2> QED
      BY ZenonT(60), <1>2, <1>3, <2>1, IsNoError, NoErrorHas
  <1>5. touched' = TRUE /\ (~starved' => last_error' = error)
    BY DEF Record
  <1> QED
    BY ZenonT(60), <1>1, <1>2, <1>3, <1>4, <1>5

(* What a failure inside the SDK leaves behind: a message and no API code. *)
LEMMA FailsLeaves ==
    ASSUME NEW message \in Messages \ {""}, NEW before \in BOOLEAN,
           Fails(message, before)
    PROVE  /\ last_error' \in ErrorState /\ starved' \in BOOLEAN
           /\ touched' = TRUE /\ last_error'.code = 0
           /\ ~starved' => last_error'.message # ""
  <1> DEFINE error == [message |-> message, code |-> 0]
  <1>1. last_error' \in {error, [message |-> "", code |-> 0]}
        /\ starved' \in BOOLEAN
    BY DEF Fails, Record
  <1>2. touched' = TRUE
    BY DEF Fails, Record
  <1>3. ~starved' => last_error' = error
    BY DEF Fails, Record
  <1>4. error \in ErrorState /\ [message |-> "", code |-> 0] \in ErrorState
    BY DEF ErrorState, Messages
  <1>5. /\ error.message # "" /\ error.code = 0
        /\ [message |-> "", code |-> 0].code = 0
    OBVIOUS
  <1> DEFINE nothing == [message |-> "", code |-> 0]
  <1>6. last_error' \in {error, nothing} /\ nothing \in ErrorState
        /\ nothing.code = 0
    BY <1>1, <1>4, <1>5
  <1> HIDE DEF error, nothing
  <1> QED
    BY <1>1, <1>2, <1>3, <1>4, <1>5, <1>6

-----------------------------------------------------------------------------
(* The types, part by part, before and after a step.                       *)
LEMMA Typed ==
    ASSUME call \in Calls, attempt_n \in 1 .. MaxAttempts,
           pc \in {"idle", "fields", "attempt", "decode", "build"},
           resp \in Response, err \in Errors,
           out \in {"caller", "null", "recognition", "list", "string"},
           last_error \in ErrorState,
           touched \in BOOLEAN, starved \in BOOLEAN
    PROVE  TypeOK
  BY DEF TypeOK, Response, ErrorState

(* The same of the state after a step.                                     *)
LEMMA TypedNext ==
    ASSUME call' \in Calls, attempt_n' \in 1 .. MaxAttempts,
           pc' \in {"idle", "fields", "attempt", "decode", "build"},
           resp' \in Response, err' \in Errors,
           out' \in {"caller", "null", "recognition", "list", "string"},
           last_error' \in ErrorState,
           touched' \in BOOLEAN, starved' \in BOOLEAN
    PROVE  TypeOK'
  BY DEF TypeOK, Response, ErrorState

(* A call begins with its first attempt.                                   *)
LEMMA FirstAttempt == 1 \in 1 .. MaxAttempts
  OBVIOUS

(* Initially nothing is promised but the types.                            *)
LEMMA InitIInv == Init => IInv
  <1> SUFFICES ASSUME Init PROVE IInv
    OBVIOUS
  <1>1. TypeOK
    <2>1. call \in Calls
      BY DEF Init, Calls, Recognitions
    <2>2. resp \in Response
      BY DEF Init, NoResponse, Response, Json
    <2>3. last_error \in ErrorState
      BY ZenonT(60), NoErrorHas DEF Init
    <2>4. /\ attempt_n \in 1 .. MaxAttempts
          /\ pc = "idle" /\ err \in Errors /\ out = "caller"
          /\ touched \in BOOLEAN /\ starved \in BOOLEAN
      BY FirstAttempt, ErrorsAndMessages DEF Init
    <2> QED
      BY <2>1, <2>2, <2>3, <2>4, Typed
  <1>2. DuringInv
    BY DEF Init, DuringInv
  <1>3. Promised
    BY DEF Init, Promised, ErrorStateIsOwn, OkIsAnswered, FailureSaysWhy,
           OutIsDefined, Returned
  <1> QED
    BY <1>1, <1>2, <1>3 DEF IInv

(* A call under way owes nothing yet.                                      *)
LEMMA UnderWay ==
    ASSUME pc' # "idle"
    PROVE  Promised'
  BY DEF Promised, ErrorStateIsOwn, OkIsAnswered, FailureSaysWhy,
         OutIsDefined, Returned

(* A call that returns a failure owes an explanation.                      *)
LEMMA FailedWell ==
    ASSUME err' # "OK",
           touched' /\ last_error'.code # 0 =>
               /\ resp'.rc = 0
               /\ resp'.json.error = last_error'.code
               /\ err' = ErrorFor(last_error.code)',
           ~starved' /\ touched' => last_error'.message # "",
           touched' /\ call' \in OutCalls => out' = "null"
    PROVE  Promised'
  BY DEF Promised, ErrorStateIsOwn, OkIsAnswered, FailureSaysWhy,
         OutIsDefined, Returned

(* A call has returned: nothing is under way.                              *)
LEMMA NothingUnderWay ==
    ASSUME pc' = "idle"
    PROVE  DuringInv'
  BY DEF DuringInv

-----------------------------------------------------------------------------
(* Every step keeps the invariant: one step per action.                    *)
LEMMA NextIInv == IInv /\ [Next]_vars => IInv'
  <1> SUFFICES ASSUME IInv, [Next]_vars PROVE IInv'
    OBVIOUS
  <1>0. TypeOK /\ DuringInv /\ Promised
    BY DEF IInv
  <1>t. /\ call \in Calls /\ attempt_n \in 1 .. MaxAttempts
        /\ pc \in {"idle", "fields", "attempt", "decode", "build"}
        /\ resp \in Response /\ err \in Errors
        /\ out \in {"caller", "null", "recognition", "list", "string"}
        /\ last_error \in ErrorState
        /\ touched \in BOOLEAN /\ starved \in BOOLEAN
    BY <1>0 DEF TypeOK, Response, ErrorState
  <1>n. NoResponse \in Response /\ NoResponse.rc = -1
    BY DEF NoResponse, Response, Json
  <1>1. ASSUME NEW c \in Calls, RejectNull(c) PROVE IInv'
    <2>1. /\ pc' = "idle" /\ err' = "INVALID_ARGUMENT" /\ touched' = FALSE
          /\ starved' = FALSE /\ call' = c /\ attempt_n' = 1
          /\ resp' = NoResponse /\ last_error' = last_error
          /\ out' \in {"null", "caller"}
      BY <1>1 DEF RejectNull, Enter
    <2>2. TypeOK'
      BY <1>t, <1>n, <2>1, FirstAttempt, ErrorsAndMessages, TypedNext
    <2>3. Promised'
      BY <2>1, FailedWell
    <2> QED
      BY <2>1, <2>2, <2>3, NothingUnderWay DEF IInv
  <1>2. ASSUME NEW c \in Calls, RejectArgument(c) PROVE IInv'
    <2>1. /\ pc' = "idle" /\ err' = "INVALID_ARGUMENT"
          /\ call' = c /\ attempt_n' = 1 /\ resp' = NoResponse
          /\ out' = IF c \in OutCalls THEN "null" ELSE "caller"
      BY <1>2 DEF RejectArgument, Enter, ClearOut
    <2>2. Fails("argument", FALSE)
      BY <1>2 DEF RejectArgument
    <2>3. /\ last_error' \in ErrorState /\ starved' \in BOOLEAN
          /\ touched' = TRUE /\ last_error'.code = 0
          /\ ~starved' => last_error'.message # ""
      BY <2>2, FailsLeaves, ErrorsAndMessages
    <2>4. TypeOK'
      BY <1>n, <2>1, <2>3, FirstAttempt, ErrorsAndMessages, TypedNext
    <2>5. Promised'
      BY ZenonT(60), <2>1, <2>3, FailedWell
    <2> QED
      BY <2>1, <2>4, <2>5, NothingUnderWay DEF IInv
  <1>3. ASSUME NEW c \in Calls, Begin(c) PROVE IInv'
    <2>1. /\ pc' = "fields" /\ err' = err /\ starved' = FALSE
          /\ call' = c /\ attempt_n' = 1 /\ resp' = NoResponse
          /\ out' = IF c \in OutCalls THEN "null" ELSE "caller"
      BY <1>3 DEF Begin, Enter, ClearOut
    <2>2. /\ last_error' \in ErrorState /\ touched' \in BOOLEAN
          /\ touched' => last_error'.code = 0
      BY ZenonT(60), <1>3, <1>t, NoErrorHas DEF Begin
    <2>3. TypeOK'
      BY <1>t, <1>n, <2>1, <2>2, FirstAttempt, TypedNext
    <2>4. DuringInv'
      BY <2>1, <2>2 DEF DuringInv
    <2> QED
      BY <2>1, <2>3, <2>4, UnderWay DEF IInv
  <1>4. ASSUME BuildFields PROVE IInv'
    <2>1. /\ pc = "fields"
          /\ call' = call /\ attempt_n' = attempt_n /\ resp' = resp
          /\ out' = out /\ last_error' = last_error /\ touched' = touched
      BY <1>4 DEF BuildFields
    <2>2. /\ touched => last_error.code = 0
          /\ call \in OutCalls => out = "null"
      BY <1>0, <2>1 DEF DuringInv
    <2>3. CASE pc' = "attempt" /\ err' = err /\ starved' = starved
      <3>1. TypeOK'
        BY <1>t, <2>1, <2>3, TypedNext
      <3>2. DuringInv'
        BY <2>1, <2>2, <2>3 DEF DuringInv
      <3> QED
        BY <2>3, <3>1, <3>2, UnderWay DEF IInv
    <2>4. CASE pc' = "idle" /\ err' = "OUT_OF_MEMORY" /\ starved' = TRUE
      <3>1. TypeOK'
        BY <1>t, <2>1, <2>4, ErrorsAndMessages, TypedNext
      <3>2. Promised'
        BY <2>1, <2>2, <2>4, FailedWell
      <3> QED
        BY <2>4, <3>1, <3>2, NothingUnderWay DEF IInv
    <2> QED
      BY <1>4, <2>3, <2>4 DEF BuildFields
  <1>5. ASSUME NEW r \in Response, NEW b \in BOOLEAN, AttemptReturns(r, b),
               last_error' \in ErrorState, touched' \in BOOLEAN,
               starved' \in BOOLEAN,
               touched' => last_error'.code = 0,
               r.rc # 0 /\ touched' /\ ~starved' => last_error'.message # ""
        PROVE  IInv'
    <2>1. /\ pc = "attempt" /\ resp' = r /\ call' = call /\ err' = err
          /\ out' = out
          /\ pc' \in {"attempt", "decode"}
      BY <1>5 DEF AttemptReturns
    <2>2. attempt_n' \in 1 .. MaxAttempts
      <3>1. \/ attempt_n' = attempt_n
            \/ attempt_n # MaxAttempts /\ attempt_n' = attempt_n + 1
        BY <1>5 DEF AttemptReturns
      <3> QED
        BY <1>t, <3>1
    <2>3. call \in OutCalls => out = "null"
      BY <1>0, <2>1 DEF DuringInv
    <2>4. TypeOK'
      BY <1>t, <1>5, <2>1, <2>2, TypedNext
    <2>5. DuringInv'
      BY <1>5, <2>1, <2>3 DEF DuringInv
    <2> QED
      BY <2>1, <2>4, <2>5, UnderWay DEF IInv
  <1>6. ASSUME pc = "attempt" PROVE touched => last_error.code = 0
    BY <1>0, <1>6 DEF DuringInv
  <1>7. ASSUME AttemptAnswered PROVE IInv'
    <2>1. PICK s \in Statuses, json \in Json :
             AttemptReturns([rc |-> 0, status |-> s, json |-> json], TRUE)
      BY <1>7 DEF AttemptAnswered
    <2>2. /\ last_error' = last_error /\ touched' = touched
          /\ starved' = starved /\ pc = "attempt"
      BY <1>7, <2>1 DEF AttemptAnswered, AttemptReturns
    <2>3. [rc |-> 0, status |-> s, json |-> json] \in Response
      BY DEF Response
    <2> QED
      BY <1>5, <1>6, <1>t, <2>1, <2>2, <2>3
  <1>8. ASSUME AttemptFails PROVE IInv'
    <2>1. PICK b \in BOOLEAN : AttemptReturns(NoResponse, b)
      BY <1>8 DEF AttemptFails
    <2>2. Fails("connection", starved)
      BY <1>8 DEF AttemptFails
    <2>3. /\ last_error' \in ErrorState /\ starved' \in BOOLEAN
          /\ touched' = TRUE /\ last_error'.code = 0
          /\ ~starved' => last_error'.message # ""
      BY <1>t, <2>2, FailsLeaves, ErrorsAndMessages
    <2> QED
      BY ZenonT(60), <1>5, <1>n, <2>1, <2>3
  <1>9. ASSUME AttemptStarved PROVE IInv'
    <2>1. AttemptReturns(NoResponse, TRUE) /\ pc = "attempt"
      BY <1>9 DEF AttemptStarved, AttemptReturns
    <2>2. CASE call \in Recognitions
      <3>1. Fails("memory", TRUE)
        BY <1>9, <2>2 DEF AttemptStarved
      <3>2. /\ last_error' \in ErrorState /\ starved' \in BOOLEAN
            /\ touched' = TRUE /\ last_error'.code = 0
            /\ ~starved' => last_error'.message # ""
        BY <3>1, FailsLeaves, ErrorsAndMessages
      <3> QED
        BY ZenonT(60), <1>5, <1>n, <2>1, <3>2
    <2>3. CASE call \notin Recognitions
      <3>1. starved' = TRUE /\ last_error' = last_error /\ touched' = touched
        BY <1>9, <2>3 DEF AttemptStarved
      <3> QED
        BY <1>5, <1>6, <1>n, <1>t, <2>1, <3>1
    <2> QED
      BY <2>2, <2>3
  <1>10. ASSUME ReturnConnection PROVE IInv'
    <2>1. /\ pc = "decode" /\ resp.rc # 0 /\ err' = "CONNECTION"
          /\ pc' = "idle" /\ call' = call /\ attempt_n' = attempt_n
          /\ resp' = resp /\ out' = out /\ last_error' = last_error
          /\ touched' = touched /\ starved' = starved
      BY <1>10 DEF ReturnConnection
    <2>2. /\ touched => last_error.code = 0
          /\ touched /\ ~starved => last_error.message # ""
          /\ call \in OutCalls => out = "null"
      BY <1>0, <2>1 DEF DuringInv
    <2>3. TypeOK'
      BY <1>t, <2>1, ErrorsAndMessages, TypedNext
    <2>4. Promised'
      BY <2>1, <2>2, FailedWell
    <2> QED
      BY <2>1, <2>3, <2>4, NothingUnderWay DEF IInv
  <1>11. ASSUME Decode PROVE IInv'
    <2>1. PICK memory \in BOOLEAN :
             /\ err' = DecodedResponse(memory).err
             /\ Record(DecodedResponse(memory).last, starved \/ ~memory)
      BY <1>11 DEF Decode
    <2>2. /\ pc = "decode" /\ resp.rc = 0
          /\ pc' = IF err' = "OK" THEN "build" ELSE "idle"
          /\ call' = call /\ attempt_n' = attempt_n /\ resp' = resp
          /\ out' = out
      BY <1>11 DEF Decode
    <2>d. PICK d : d = DecodedResponse(memory)
      OBVIOUS
    <2>b. PICK before \in BOOLEAN : before = (starved \/ ~memory)
      BY <1>t
    <2>3. err' = d.err /\ Record(d.last, before)
      BY <2>1, <2>b, <2>d
    <2>4. /\ d.err \in Errors /\ d.last \in ErrorState
          /\ d.err = "OK" => d.last = NoError /\ Answered
          /\ d.err # "OK" => d.last.message # ""
          /\ d.last.code # 0 => /\ resp.json.error = d.last.code
                                /\ d.err = ErrorFor(d.last.code)
      <3>1. \E m \in BOOLEAN : d = DecodedResponse(m)
        BY <2>d
      <3> QED
        BY <1>t, <2>2, <3>1, DecoderReturns
    <2>r. starved' \in BOOLEAN
      BY <2>3 DEF Record
    <2>5. /\ last_error' \in ErrorState
          /\ touched' = TRUE
          /\ last_error'.code = d.last.code
          /\ ~starved' => last_error' = d.last
          /\ d.last = NoError => last_error' = NoError
      BY <2>3, <2>4, RecordLeaves
    <2>6. call \in OutCalls => out = "null"
      BY <1>0, <2>2 DEF DuringInv
    <2>7. TypeOK'
      BY <1>t, <2>2, <2>3, <2>4, <2>5, <2>r, TypedNext
    <2>8. CASE err' = "OK"
      <3>1. pc' = "build" /\ last_error' = NoError /\ Answered'
        BY <2>2, <2>3, <2>4, <2>5, <2>8 DEF Answered
      <3>2. DuringInv'
        BY <2>2, <2>5, <2>6, <3>1 DEF DuringInv
      <3> QED
        BY <2>7, <3>1, <3>2, UnderWay DEF IInv
    <2>9. CASE err' # "OK"
      <3>1. pc' = "idle"
        BY <2>2, <2>9
      <3>2. last_error'.code # 0 =>
               /\ resp'.rc = 0 /\ resp'.json.error = last_error'.code
               /\ err' = ErrorFor(last_error.code)'
        <4>1. ErrorFor(last_error.code)' = ErrorFor(d.last.code)
          BY <2>2, <2>5 DEF ErrorFor
        <4> QED
          BY ZenonT(60), <2>2, <2>3, <2>4, <2>5, <4>1
      <3>3. ~starved' => last_error'.message # ""
        BY <2>3, <2>4, <2>5, <2>9
      <3>4. Promised'
        BY <2>2, <2>6, <2>9, <3>2, <3>3, FailedWell
      <3> QED
        BY <2>7, <3>1, <3>4, NothingUnderWay DEF IInv
    <2> QED
      BY <2>8, <2>9
  <1>12. ASSUME pc = "build"
         PROVE  /\ touched /\ last_error = NoError /\ Answered
                /\ call \in OutCalls => out = "null"
    BY <1>0, <1>12 DEF DuringInv
  <1>13. ASSUME Build PROVE IInv'
    <2> DEFINE values == Built(call, resp.json.result) \ {"starved"}
    <2>1. PICK o \in values :
             out' = o /\ starved' = (starved \/ (o = "null" /\ "string" \in values))
      BY <1>13 DEF Build
    <2>2. /\ pc = "build" /\ err' = "OK" /\ pc' = "idle" /\ call' = call
          /\ attempt_n' = attempt_n /\ resp' = resp
          /\ last_error' = last_error /\ touched' = touched
      BY <1>13 DEF Build
    <2>3. /\ o \in {"caller", "null", "recognition", "list", "string"}
          /\ call \in OutCalls => o # "caller"
      BY <2>1 DEF Built, OutCalls, Recognitions, AdvancedCalls
    <2>4. starved' \in BOOLEAN
      BY <1>t, <2>1
    <2>5. TypeOK'
      BY <1>t, <2>1, <2>2, <2>3, <2>4, ErrorsAndMessages, TypedNext
    <2>6. /\ touched /\ last_error = NoError /\ last_error.code = 0 /\ Answered
      BY ZenonT(60), <1>12, <2>2, NoErrorHas
    <2>7. Promised'
      BY <2>1, <2>2, <2>3, <2>6
      DEF Promised, ErrorStateIsOwn, OkIsAnswered, FailureSaysWhy,
          OutIsDefined, Returned, Answered
    <2> QED
      BY <2>2, <2>5, <2>7, NothingUnderWay DEF IInv
  <1>14. ASSUME BuildStarves PROVE IInv'
    <2>1. /\ pc = "build" /\ err' = "OUT_OF_MEMORY" /\ pc' = "idle"
          /\ call' = call /\ attempt_n' = attempt_n /\ resp' = resp
          /\ out' = out
      BY <1>14 DEF BuildStarves
    <2>2. BuildOutOfMemory \in BOOLEAN
      BY DEF BuildOutOfMemory
    <2>3. call \in OutCalls => out = "null"
      BY <1>12, <2>1
    <2>4. /\ last_error' \in ErrorState /\ starved' \in BOOLEAN
          /\ touched' = TRUE /\ last_error'.code = 0
          /\ ~starved' => last_error'.message # ""
      <3>1. CASE call \in Recognitions
        <4>1. Fails("memory", starved \/ BuildOutOfMemory)
          BY <1>14, <3>1 DEF BuildStarves
        <4> QED
          BY <1>t, <2>2, <4>1, FailsLeaves, ErrorsAndMessages
      <3>2. CASE call \notin Recognitions
        <4>1. /\ starved' = (starved \/ BuildOutOfMemory)
              /\ last_error' = last_error /\ touched' = touched
          BY <1>14, <3>2 DEF BuildStarves
        <4>2. BuildOutOfMemory
          BY <1>14, <3>2 DEF BuildStarves, BuildFails, BuildOutOfMemory,
                             Built, Recognitions
        <4> QED
          BY ZenonT(60), <1>12, <1>t, <2>1, <4>1, <4>2, NoErrorHas
      <3> QED
        BY <3>1, <3>2
    <2>5. TypeOK'
      BY <1>t, <2>1, <2>4, ErrorsAndMessages, TypedNext
    <2>6. Promised'
      BY <2>1, <2>3, <2>4, FailedWell
    <2> QED
      BY <2>1, <2>5, <2>6, NothingUnderWay DEF IInv
  <1>15. CASE UNCHANGED vars
    <2>1. /\ call' = call /\ pc' = pc /\ attempt_n' = attempt_n
          /\ resp' = resp /\ err' = err /\ out' = out
          /\ last_error' = last_error /\ touched' = touched
          /\ starved' = starved
      BY <1>15 DEF vars
    <2>2. TypeOK'
      BY <1>t, <2>1, TypedNext
    <2>3. DuringInv'
      BY <1>0, <2>1 DEF DuringInv, Answered
    <2>4. ErrorStateIsOwn'
      BY <1>0, <2>1 DEF Promised, ErrorStateIsOwn, Returned, ErrorFor
    <2>5. OkIsAnswered'
      BY <1>0, <2>1 DEF Promised, OkIsAnswered, Returned
    <2>6. FailureSaysWhy' /\ OutIsDefined'
      BY <1>0, <2>1 DEF Promised, FailureSaysWhy, OutIsDefined, Returned
    <2> QED
      BY <2>2, <2>3, <2>4, <2>5, <2>6 DEF IInv, Promised
  <1> QED
    BY <1>1, <1>2, <1>3, <1>4, <1>7, <1>8, <1>9, <1>10, <1>11, <1>13, <1>14,
       <1>15 DEF Next

(* The invariant holds in every state of every behaviour.                  *)
THEOREM Invariance == Spec => []IInv
  BY InitIInv, NextIInv, PTL DEF Spec

(* The state of the calls stays within its types, the error state within   *)
(* the messages and codes the SDK knows.                                   *)
THEOREM TypeCorrect == Spec => []TypeOK
  BY Invariance, PTL DEF IInv

(* A success leaves no error, and an API code is only ever found next to   *)
(* the return value it stands for.                                         *)
THEOREM ErrorsAreOwn == Spec => []ErrorStateIsOwn
  <1>1. IInv => ErrorStateIsOwn
    BY DEF IInv, Promised
  <1> QED
    BY <1>1, Invariance, PTL

(* AUDD_OK is only returned for an answer that counts as a success.        *)
THEOREM SuccessIsAnswered == Spec => []OkIsAnswered
  <1>1. IInv => OkIsAnswered
    BY DEF IInv, Promised
  <1> QED
    BY <1>1, Invariance, PTL

(* A failure has a message unless memory ran out.                          *)
THEOREM FailureExplained == Spec => []FailureSaysWhy
  <1>1. IInv => FailureSaysWhy
    BY DEF IInv, Promised
  <1> QED
    BY <1>1, Invariance, PTL

(* The out variable is set, and points to something only on success.       *)
THEOREM OutDefined == Spec => []OutIsDefined
  <1>1. IInv => OutIsDefined
    BY DEF IInv, Promised
  <1> QED
    BY <1>1, Invariance, PTL

=============================================================================
