---------------------------- MODULE PublicCalls ----------------------------
(***************************************************************************)
(* The calls an application makes on one client, one after the other, as   *)
(* it sees them: the error returned, the out value, and the last-error     *)
(* state of the client that survives from call to call.                    *)
(*                                                                         *)
(* Every call has the same parts (src/src/audd_recognition.c,              *)
(* audd_streams.c, audd_custom_catalog.c, audd_advanced.c): it checks its  *)
(* arguments, builds its fields, runs the retry loop, decodes the last     *)
(* response, builds its out value.  They differ in which parts touch the   *)
(* error state.  How an attempt talks to the network is in RetryRunner,    *)
(* calls on several threads are in ClientState.  A recognition stands for  *)
(* the call that takes a source and for its _bytes variant.                *)
(***************************************************************************)
EXTENDS RetryPolicy, DecodeResponse

CONSTANTS
    MaxAttempts,   \* options.max_attempts
    Statuses,      \* HTTP statuses of the answers
    Codes          \* error codes in the answers

ASSUME MaxAttemptsAssumption == MaxAttempts \in Nat \ {0}
ASSUME StatusesAssumption == Statuses \subseteq 200 .. 599
ASSUME CodesAssumption == Codes \subseteq Nat /\ 0 \in Codes

Recognitions == {"audd_recognize", "audd_recognize_enterprise"}

StreamCalls ==
    {"audd_streams_set_callback_url", "audd_streams_add",
     "audd_streams_set_url", "audd_streams_delete",
     "audd_streams_get_callback_url", "audd_streams_list"}

AdvancedCalls == {"audd_advanced_find_lyrics", "audd_advanced_raw_request"}

(* The calls with an out parameter.                                        *)
OutCalls == Recognitions \cup AdvancedCalls
                \cup {"audd_streams_get_callback_url", "audd_streams_list"}

Calls == Recognitions \cup StreamCalls \cup AdvancedCalls
             \cup {"audd_custom_catalog_add"}

(* The retry class each call hands to audd_retry_do.                       *)
class(c) ==
    CASE c \in Recognitions \cup AdvancedCalls -> "RECOGNITION"
      [] c \in {"audd_streams_get_callback_url", "audd_streams_list"} -> "READ"
      [] c = "audd_custom_catalog_add" -> "NONE"
      [] OTHER -> "MUTATING"

VARIABLES
    call,         \* the current or latest call
    pc,           \* where it is; "idle" when it has returned
    attempt_n,    \* attempt of the retry loop
    resp,         \* what the latest attempt of this call returned
    err,          \* the error it returned
    out,          \* the caller's out variable: untouched ("caller"), "null",
                  \* or what it points to
    last_error,   \* client->last_error_message and last_error_code
    touched,      \* history: did this call write the error state?
    starved       \* history: did an allocation of this call fail?

vars == <<call, pc, attempt_n, resp, err, out, last_error, touched,
          starved>>

NoResponse == [rc |-> -1, status |-> 0, json |-> NoJson]

Errors ==
    {"OK", "CUSTOM_CATALOG_ACCESS", "SERIALIZATION", "CONNECTION",
     "INVALID_ARGUMENT", "OUT_OF_MEMORY", "SERVER"}
        \cup {audd_sentinel_for_code(c) : c \in Codes}

Messages ==
    {"", "connection", "argument", "memory", "non-JSON", "unparseable",
     "catalog", "api", "status"}

Json == Bodies(Codes) \cup {NoJson}

TypeOK ==
    /\ call \in Calls
    /\ pc \in {"idle", "fields", "attempt", "decode", "build"}
    /\ attempt_n \in 1 .. MaxAttempts
    /\ resp \in [rc : {0, -1}, status : {0} \cup Statuses, json : Json]
    /\ err \in Errors
    /\ out \in {"caller", "null", "recognition", "list", "string"}
    /\ last_error \in [message : Messages, code : Codes]
    /\ touched \in BOOLEAN
    /\ starved \in BOOLEAN

(* A new client: no call yet is as good as one that ended well.            *)
Init ==
    /\ call = "audd_recognize"
    /\ pc = "idle"
    /\ attempt_n = 1
    /\ resp = NoResponse
    /\ err = "OK"
    /\ out = "caller"
    /\ last_error = NoError
    /\ touched = FALSE
    /\ starved = FALSE

-----------------------------------------------------------------------------
(* Entering a call and rejecting its arguments.                            *)

(* audd_client_set_error with a copy of the message, NULL without memory;  *)
(* `before` tells whether the call was out of memory before.               *)
Record(error, before) ==
    /\ touched' = TRUE
    /\ \/ last_error' = error /\ starved' = before
       \/ last_error' = [error EXCEPT !.message = ""] /\ starved' = TRUE

(* Mutant: the code of an earlier failure stays.                           *)
FailsKeepingCode(message, before) ==
    Record([last_error EXCEPT !.message = message], before)

(* A failure inside the SDK has no API code.                               *)
Fails(message, before) == Record([message |-> message, code |-> 0], before)

Enter(c) ==
    /\ pc = "idle"
    /\ call' = c
    /\ attempt_n' = 1
    /\ resp' = NoResponse

(* *out = NULL, first thing.                                               *)
ClearOut(c) == out' = IF c \in OutCalls THEN "null" ELSE "caller"

(* NULL arguments, or a _bytes recognition of no bytes: nothing but the    *)
(* return value.  The recognitions have cleared the out value by then.     *)
RejectNull(c) ==
    /\ Enter(c)
    /\ out' = IF c \in Recognitions THEN "null" ELSE "caller"
    /\ err' = "INVALID_ARGUMENT"
    /\ touched' = FALSE
    /\ starved' = FALSE
    /\ UNCHANGED <<pc, last_error>>

(* No source, a source that is neither a URL nor a file, a callback URL    *)
(* that already has a return parameter: the reason is recorded.            *)
RejectArgument(c) ==
    /\ c \in Recognitions \cup
             {"audd_streams_set_callback_url", "audd_custom_catalog_add"}
    /\ Enter(c)
    /\ ClearOut(c)
    /\ err' = "INVALID_ARGUMENT"
    /\ Fails("argument", FALSE)
    /\ UNCHANGED pc

(* Recognitions clear the error state on entry, the other calls leave it   *)
(* to the decoder.                                                         *)
Begin(c) ==
    /\ Enter(c)
    /\ ClearOut(c)
    /\ pc' = "fields"
    /\ starved' = FALSE
    /\ IF c \in Recognitions
       THEN last_error' = NoError /\ touched' = TRUE
       ELSE touched' = FALSE /\ UNCHANGED last_error
    /\ UNCHANGED err

(* set_callback_url and add allocate their field list before the loop, and *)
(* say nothing when that fails.                                            *)
BuildFields ==
    /\ pc = "fields"
    /\ \/ pc' = "attempt" /\ UNCHANGED <<err, starved>>
       \/ /\ call \in {"audd_streams_set_callback_url", "audd_streams_add"}
          /\ err' = "OUT_OF_MEMORY"
          /\ starved' = TRUE
          /\ pc' = "idle"
    /\ UNCHANGED <<call, attempt_n, resp, out, last_error, touched>>

-----------------------------------------------------------------------------
(* audd_retry_do.                                                          *)

(* Mutant: the loop has no last attempt.                                   *)
AttemptReturnsForever(r, body_uploaded) ==
    /\ pc = "attempt"
    /\ resp' = r
    /\ IF ~should_retry(class(call), r.rc, r.status, body_uploaded)
       THEN pc' = "decode" /\ UNCHANGED attempt_n
       ELSE attempt_n' = attempt_n + 1 /\ UNCHANGED pc
    /\ UNCHANGED <<call, err, out>>

(* The attempt returned r; the loop stops here or goes round.              *)
AttemptReturns(r, body_uploaded) ==
    /\ pc = "attempt"
    /\ resp' = r
    /\ IF \/ attempt_n = MaxAttempts
          \/ ~should_retry(class(call), r.rc, r.status, body_uploaded)
       THEN pc' = "decode" /\ UNCHANGED attempt_n
       ELSE attempt_n' = attempt_n + 1 /\ UNCHANGED pc
    /\ UNCHANGED <<call, err, out>>

AttemptAnswered ==
    /\ \E s \in Statuses, json \in Json :
          AttemptReturns([rc |-> 0, status |-> s, json |-> json], TRUE)
    /\ UNCHANGED <<last_error, touched, starved>>

AttemptFails ==
    /\ \E body_uploaded \in BOOLEAN : AttemptReturns(NoResponse, body_uploaded)
    /\ Fails("connection", starved)

(* No memory for the fields (recognize_attempt, which says so) or for the  *)
(* URL (streams_attempt, adv_attempt, which do not).                       *)
AttemptStarved ==
    /\ call # "audd_custom_catalog_add"
    /\ AttemptReturns(NoResponse, TRUE)
    /\ IF call \in Recognitions
       THEN Fails("memory", TRUE)
       ELSE starved' = TRUE /\ UNCHANGED <<last_error, touched>>

-----------------------------------------------------------------------------
(* After the loop.                                                         *)

ReturnConnection ==
    /\ pc = "decode"
    /\ resp.rc # 0
    /\ err' = "CONNECTION"
    /\ pc' = "idle"
    /\ UNCHANGED <<call, attempt_n, resp, out, last_error, touched, starved>>

(* Each call's decoder.                                                    *)
DecodedResponse(memory) ==
    IF call = "audd_advanced_raw_request"
    THEN audd_decode_top_level(resp.status, resp.json)
    ELSE audd_decode_or_raise(resp.status, resp.json,
                              call = "audd_custom_catalog_add", memory)

(* The decoder clears the error state and then records its verdict.        *)
Decode ==
    /\ pc = "decode"
    /\ resp.rc = 0
    /\ \E memory \in BOOLEAN :
          /\ err' = DecodedResponse(memory).err
          /\ Record(DecodedResponse(memory).last, starved \/ ~memory)
    /\ pc' = IF err' = "OK" THEN "build" ELSE "idle"
    /\ UNCHANGED <<call, attempt_n, resp, out>>

(* The out values a call may end with; "starved" stands for a failed       *)
(* allocation.  audd_recognition_from_json knows objects only, everything  *)
(* else that is not null looks like a failed allocation to its caller; a   *)
(* callback URL that cannot be copied is silently NULL.                    *)
Built(c, result) ==
    CASE c = "audd_recognize" ->
            IF result \in {"absent", "null"} THEN {"null"}
            ELSE IF result = "object" THEN {"recognition", "starved"}
            ELSE {"starved"}
      [] c \in {"audd_recognize_enterprise", "audd_streams_list",
                "audd_advanced_find_lyrics"} -> {"list", "starved"}
      [] c = "audd_streams_get_callback_url" ->
            IF result = "string"
            THEN {"string", "null"} ELSE {"null"}
      [] c = "audd_advanced_raw_request" -> {"string", "starved"}
      [] OTHER -> {"caller"}

BuildFails == "starved" \in Built(call, resp.json.result)

(* The failure was one of memory, not of an unexpected result.             *)
BuildOutOfMemory == Built(call, resp.json.result) # {"starved"}

(* Mutants: the failure is not recorded; the partly built value is handed  *)
(* out although the call fails.                                            *)
BuildStarvesQuietly ==
    /\ pc = "build"
    /\ BuildFails
    /\ err' = "OUT_OF_MEMORY"
    /\ starved' = (starved \/ BuildOutOfMemory)
    /\ pc' = "idle"
    /\ UNCHANGED <<call, attempt_n, resp, out, last_error, touched>>

BuildStarvesHalfway ==
    /\ pc = "build"
    /\ BuildFails
    /\ err' = "OUT_OF_MEMORY"
    /\ out' = "list"
    /\ starved' = (starved \/ BuildOutOfMemory)
    /\ pc' = "idle"
    /\ UNCHANGED <<call, attempt_n, resp, last_error, touched>>

(* Only the recognitions record that building their result failed.         *)
BuildStarves ==
    /\ pc = "build"
    /\ BuildFails
    /\ err' = "OUT_OF_MEMORY"
    /\ IF call \in Recognitions
       THEN Fails("memory", starved \/ BuildOutOfMemory)
       ELSE /\ starved' = (starved \/ BuildOutOfMemory)
            /\ UNCHANGED <<last_error, touched>>
    /\ pc' = "idle"
    /\ UNCHANGED <<call, attempt_n, resp, out>>

Build ==
    /\ pc = "build"
    /\ LET values == Built(call, resp.json.result) \ {"starved"}
       IN  \E o \in values :
              /\ out' = o
              /\ starved' = (starved \/ (o = "null" /\ "string" \in values))
    /\ err' = "OK"
    /\ pc' = "idle"
    /\ UNCHANGED <<call, attempt_n, resp, last_error, touched>>

-----------------------------------------------------------------------------
Next ==
    \/ \E c \in Calls : RejectNull(c) \/ RejectArgument(c) \/ Begin(c)
    \/ BuildFields
    \/ AttemptAnswered \/ AttemptFails \/ AttemptStarved
    \/ ReturnConnection \/ Decode
    \/ Build \/ BuildStarves

Spec == Init /\ [][Next]_vars

-----------------------------------------------------------------------------
(* Properties.                                                             *)

Returned == pc = "idle"

(* What an API code stands for: an account without the custom catalog      *)
(* hears so from the catalog call, and from no other.                      *)
ErrorFor(code) ==
    IF call = "audd_custom_catalog_add" /\ code \in {904, 905}
    THEN "CUSTOM_CATALOG_ACCESS" ELSE audd_sentinel_for_code(code)

(* A call that succeeds leaves no error behind, and one that wrote the     *)
(* error state at all leaves its own error there: an API code only with    *)
(* the return value it stands for, never one of an earlier attempt or an   *)
(* earlier call.                                                           *)
ErrorStateIsOwn ==
    /\ Returned /\ err = "OK" => last_error = NoError
    /\ Returned /\ touched /\ last_error.code # 0 =>
          /\ resp.rc = 0
          /\ resp.json.error = last_error.code
          /\ err = ErrorFor(last_error.code)

(* AUDD_OK means that the last attempt was answered with a success, or     *)
(* with a deprecation warning and a result; raw_request only asks for      *)
(* JSON.                                                                   *)
OkIsAnswered ==
    Returned /\ touched /\ err = "OK" =>
        /\ resp.rc = 0
        /\ \/ call = "audd_advanced_raw_request" /\ resp.json # NoJson
           \/ resp.json.status = "success"
           \/ resp.json.error = kDeprecatedParamsCode
                  /\ resp.json.result \in {"object", "array", "string"}

(* Unless memory ran out during the call, every failure that got past the  *)
(* NULL checks has a message, whichever attempt, response or result made   *)
(* it fail.                                                                *)
FailureSaysWhy ==
    ~starved /\ Returned /\ touched /\ err # "OK" =>
        last_error.message # ""

(* The caller may look at the out variable of a call that got past its     *)
(* NULL checks: a success has set it, and a failure leaves nothing there   *)
(* to free, neither a part of a result nor an earlier attempt's.  (Whether *)
(* a failure may clear it is left open: the code does, audd.h:285 says     *)
(* "unchanged on error".)                                                  *)
OutIsDefined ==
    Returned /\ touched /\ call \in OutCalls =>
        /\ err = "OK" => out # "caller"
        /\ err # "OK" => out \in {"caller", "null"}
=============================================================================
