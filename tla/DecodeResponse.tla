--------------------------- MODULE DecodeResponse ---------------------------
(***************************************************************************)
(* What the SDK makes of an answered request (src/src/audd_json.c) and of  *)
(* the API's error codes (src/src/audd_error.c), as pure operators.        *)
(*                                                                         *)
(* A JSON body is abstracted to the three members these functions look at: *)
(* status, error.error_code (0: no error object, or none in it) and the    *)
(* type of result.  A message is abstracted to what it is about; the empty *)
(* message is client->last_error_message = NULL.                           *)
(***************************************************************************)
EXTENDS Integers

(* resp->json is NULL: empty, truncated or not JSON at all.                *)
NoJson == [status |-> "none", error |-> 0, result |-> "absent"]

ResultTypes == {"absent", "null", "object", "array", "string"}

Bodies(codes) ==
    [status : {"success", "error", "other"}, error : codes,
     result : ResultTypes]

NoError == [message |-> "", code |-> 0]

(* audd_sentinel_for_code.                                                 *)
audd_sentinel_for_code(code) ==
    CASE code \in {900, 901, 903} -> "AUTHENTICATION"
      [] code = 902 -> "QUOTA"
      [] code \in {904, 905} -> "SUBSCRIPTION"
      [] code \in {50, 51, 600, 601, 602, 700, 701, 702, 906} ->
            "INVALID_REQUEST"
      [] code \in {300, 400, 500} -> "INVALID_AUDIO"
      [] code = 610 -> "STREAM_LIMIT"
      [] code = 611 -> "RATE_LIMIT"
      [] code = 907 -> "NOT_RELEASED"
      [] code \in {19, 31337} -> "BLOCKED"
      [] code = 20 -> "NEEDS_UPDATE"
      [] OTHER -> "SERVER"

kDeprecatedParamsCode == 51

(* Mutant: the warning counts as a success even without a result.          *)
StripAnyWarning(body, memory) ==
    IF body.error = kDeprecatedParamsCode
    THEN [body EXCEPT !.status = IF memory THEN "success" ELSE "other",
                      !.error = 0]
    ELSE body

(* Error 51 next to a usable result is a deprecation warning: the error    *)
(* is removed and the status replaced, if there is memory for a new one.   *)
maybe_warn_and_strip(body, memory) ==
    IF /\ body.error = kDeprecatedParamsCode
       /\ body.result \notin {"absent", "null"}
    THEN [body EXCEPT !.status = IF memory THEN "success" ELSE "other",
                      !.error = 0]
    ELSE body

(* An outcome: the error returned, and the error state left behind.        *)
Outcome(err, message, code) ==
    [err |-> err, last |-> [message |-> message, code |-> code]]

Decoded == Outcome("OK", "", 0)

Unparsed(http_status) ==
    IF http_status >= 400
    THEN Outcome("SERVER", "non-JSON", 0)
    ELSE Outcome("SERIALIZATION", "unparseable", 0)

(* status is "error": the API's code decides; in the custom catalog 904    *)
(* and 905 mean that the endpoint is not enabled.                          *)
ApiError(code, custom_catalog_context) ==
    IF custom_catalog_context /\ code \in {904, 905}
    THEN Outcome("CUSTOM_CATALOG_ACCESS", "catalog", code)
    ELSE Outcome(audd_sentinel_for_code(code), "api", code)

audd_decode_or_raise(http_status, json, custom_catalog_context, memory) ==
    LET body == maybe_warn_and_strip(json, memory)
    IN  CASE json = NoJson -> Unparsed(http_status)
          [] body.status = "success" -> Decoded
          [] body.status = "error" ->
                ApiError(body.error, custom_catalog_context)
          [] body.status = "other" -> Outcome("SERVER", "status", 0)

audd_decode_top_level(http_status, json) ==
    IF json = NoJson THEN Unparsed(http_status) ELSE Decoded
=============================================================================
