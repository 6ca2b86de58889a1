---------------------------- MODULE RetryPolicy ----------------------------
(***************************************************************************)
(* The two pure decisions behind every POST of the SDK (src/audd_http.c):  *)
(* did a failed curl_easy_perform hand any of the body to the transport,   *)
(* and may the retry loop go round again?                                  *)
(***************************************************************************)
EXTENDS Integers

(* enum audd_retry_class_t.                                                *)
RetryClasses == {"READ", "RECOGNITION", "MUTATING", "NONE"}

(* The curl codes the classifier knows as "before the transfer starts".    *)
PreUploadCodes ==
    { "UNSUPPORTED_PROTOCOL", "URL_MALFORMAT", "COULDNT_RESOLVE_PROXY",
      "COULDNT_RESOLVE_HOST", "COULDNT_CONNECT", "SSL_CONNECT_ERROR",
      "PEER_FAILED_VERIFICATION", "SSL_CIPHER", "SSL_CACERT_BADFILE",
      "INTERFACE_FAILED" }

(* Mutant: an ambiguous failure without a status line counts as unsent.    *)
PreUploadIgnoringBytes(curl_code, uploaded_body_bytes, http_status) ==
    curl_code \in PreUploadCodes \/ http_status = 0

audd_failure_is_pre_upload(curl_code, uploaded_body_bytes, http_status) ==
    \/ curl_code \in PreUploadCodes
    \/ uploaded_body_bytes = 0 /\ http_status = 0

(* Mutants: any connection error is retried; a metered call is retried by  *)
(* the rule for reads.                                                     *)
RetryAnyConnectionError(class, rc, status, body_uploaded) ==
    IF rc = 0 THEN class \in {"READ", "RECOGNITION"} /\ status >= 500
              ELSE class # "NONE"

RetryMeteredAsRead(class, rc, status, body_uploaded) ==
    IF rc = 0
    THEN /\ class \in {"READ", "RECOGNITION"}
         /\ status \in {408, 429} \/ status >= 500
    ELSE class = "READ" \/ (class # "NONE" /\ ~body_uploaded)

(* rc is 0 when an HTTP response arrived and -1 when none did.             *)
should_retry(class, rc, status, body_uploaded) ==
    IF rc = 0
    THEN \/ class = "READ" /\ (status \in {408, 429} \/ status >= 500)
         \/ class = "RECOGNITION" /\ status >= 500
    ELSE \/ class = "READ"
         \/ class \in {"RECOGNITION", "MUTATING"} /\ ~body_uploaded
=============================================================================
