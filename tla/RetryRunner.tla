---------------------------- MODULE RetryRunner ----------------------------
(***************************************************************************)
(* One POST of the SDK from the caller's audd_http_response_t resp = {0}   *)
(* to its last audd_http_response_free(&resp): audd_retry_do drives        *)
(* audd_http_post, libcurl moves the request, and the server may do the    *)
(* metered work at any time after it has the whole body.                   *)
(*                                                                         *)
(* The loop also gives up when client->closed is set.  audd_client_free is *)
(* the only function that sets it, and it frees the client in the same     *)
(* breath: no call may be running then, so the flag is FALSE here.         *)
(*                                                                         *)
(* Attempts are numbered 1..MaxAttempts (options.max_attempts).  A body of *)
(* BodyBytes bytes stands for any multipart body: it is never empty, the   *)
(* closing boundary is always part of it.  libcurl and the server are      *)
(* external: they are modelled from what audd_http_post asks of them.      *)
(***************************************************************************)
EXTENDS RetryPolicy

CONSTANTS
    MaxAttempts,   \* options.max_attempts
    BodyBytes,     \* length of the request body, in chunks handed to send()
    MaxRedirects,  \* bound on the redirects the servers answer with
    Statuses       \* the HTTP statuses the API answers with

ASSUME MaxAttemptsAssumption == MaxAttempts \in Nat \ {0}
ASSUME BodyBytesAssumption == BodyBytes \in Nat \ {0}
ASSUME MaxRedirectsAssumption == MaxRedirects \in Nat
ASSUME StatusesAssumption == Statuses \subseteq 200 .. 599

Attempts == 1 .. MaxAttempts

(* The callers of audd_retry_do: the attempt function and its retry class. *)
Calls ==
    { [fn |-> "recognize_attempt", class |-> "RECOGNITION"],
      [fn |-> "adv_attempt",       class |-> "RECOGNITION"],
      [fn |-> "streams_attempt",   class |-> "READ"],
      [fn |-> "streams_attempt",   class |-> "MUTATING"],
      [fn |-> "cc_attempt",        class |-> "NONE"] }

NoResponse == [status |-> 0, body |-> 0]

Redirected == 307

VARIABLES
    call,          \* which public call this is
    pc,            \* where the calling thread is
    attempt_n,     \* the loop counter of audd_retry_do
    rc,            \* what attempt() returned
    body_uploaded, \* what attempt() stored through its out-parameter
    resp,          \* the caller's response: status, and whose body it owns
    bodies,        \* attempts whose response body block is allocated
    error_from,    \* attempt that last set client->last_error_message (0: an
                   \* earlier call, or nobody)
    curl,          \* the easy handle: CURLINFO_SIZE_UPLOAD, _RESPONSE_CODE
    hop            \* redirects followed; does this hop's server redirect?

VARIABLES          \* external: what the servers saw, and history
    delivered,     \* attempts whose whole body reached the API server
    worked,        \* attempts for which the API server did the work
    answered       \* attempts the API server answered with a 5xx

loopVars == <<pc, attempt_n, rc, body_uploaded>>
memVars == <<resp, bodies, error_from>>
netVars == <<curl, hop>>
serverVars == <<delivered, worked, answered>>
vars == <<call, loopVars, memVars, netVars, serverVars>>

Transferring == {"connecting", "uploading", "waiting", "receiving"}

class == call.class

TypeOK ==
    /\ call \in Calls
    /\ pc \in Transferring \cup {"check", "decide", "sleep", "done", "released"}
    /\ attempt_n \in Attempts
    /\ rc \in {0, -1}
    /\ body_uploaded \in BOOLEAN
    /\ resp \in [status : {0} \cup Statuses, body : {0} \cup Attempts]
    /\ bodies \subseteq Attempts
    /\ error_from \in {0} \cup Attempts
    /\ curl \in [uploaded : 0 .. BodyBytes,
                 status : {0, Redirected} \cup Statuses]
    /\ hop \in [count : 0 .. MaxRedirects, redirects : BOOLEAN]
    /\ delivered \subseteq Attempts
    /\ worked \subseteq Attempts
    /\ answered \subseteq Attempts

Init ==
    /\ call \in Calls
    /\ pc = "check"
    /\ attempt_n = 1
    /\ rc = 0
    /\ body_uploaded = TRUE
    /\ resp = NoResponse
    /\ bodies = {}
    /\ error_from = 0
    /\ curl = [uploaded |-> 0, status |-> 0]
    /\ hop = [count |-> 0, redirects |-> FALSE]
    /\ delivered = {}
    /\ worked = {}
    /\ answered = {}

-----------------------------------------------------------------------------
(* The loop of audd_retry_do.                                              *)

(* Mutant: resp is cleared without freeing the body it owns.               *)
ForgetResponse ==
    /\ bodies' = bodies
    /\ resp' = NoResponse

(* Frees the response of the previous attempt.                             *)
FreeResponse ==
    /\ bodies' = bodies \ {resp.body}
    /\ resp' = NoResponse

(* The attempt ends before any transfer: out of memory, or curl_easy_init  *)
(* failed.  body_was_uploaded keeps the value audd_retry_do gave it.  The  *)
(* failure is recorded with audd_client_set_error, except by               *)
(* streams_attempt and adv_attempt when they cannot build the URL.         *)
SetupFails ==
    /\ pc = "check"
    /\ FreeResponse
    /\ body_uploaded' = TRUE
    /\ rc' = -1
    /\ \/ error_from' = attempt_n
       \/ /\ call.fn \in {"streams_attempt", "adv_attempt"}
          /\ UNCHANGED error_from
    /\ pc' = "decide"
    /\ UNCHANGED <<call, attempt_n, netVars, serverVars>>

(* The attempt reaches curl_easy_perform with a fresh handle.              *)
StartTransfer ==
    /\ pc = "check"
    /\ FreeResponse
    /\ body_uploaded' = TRUE
    /\ curl' = [uploaded |-> 0, status |-> 0]
    /\ \E r \in BOOLEAN :
          /\ r => MaxRedirects > 0
          /\ hop' = [count |-> 0, redirects |-> r]
    /\ pc' = "connecting"
    /\ UNCHANGED <<call, attempt_n, rc, error_from, serverVars>>

(* Mutant: no last attempt.                                                *)
ReturnsWithoutLimit == ~should_retry(class, rc, resp.status, body_uploaded)

(* The last attempt's outcome is returned as it is; an earlier one only    *)
(* when should_retry says no.                                              *)
RetryReturns ==
    \/ attempt_n = MaxAttempts
    \/ ~should_retry(class, rc, resp.status, body_uploaded)

Return ==
    /\ pc = "decide"
    /\ RetryReturns
    /\ pc' = "done"
    /\ UNCHANGED <<call, attempt_n, rc, body_uploaded, memVars, netVars,
                   serverVars>>

Retry ==
    /\ pc = "decide"
    /\ ~RetryReturns
    /\ pc' = "sleep"
    /\ UNCHANGED <<call, attempt_n, rc, body_uploaded, memVars, netVars,
                   serverVars>>

(* Mutant: the loop forgets to count.                                      *)
WakeUpWithoutCounting ==
    /\ pc = "sleep"
    /\ pc' = "check"
    /\ UNCHANGED <<call, attempt_n, rc, body_uploaded, memVars, netVars,
                   serverVars>>

(* nanosleep returns; the loop counter goes up.                            *)
WakeUp ==
    /\ pc = "sleep"
    /\ pc' = "check"
    /\ attempt_n' = attempt_n + 1
    /\ UNCHANGED <<call, rc, body_uploaded, memVars, netVars,
                   serverVars>>

(* Every caller of audd_retry_do ends with audd_http_response_free, on its *)
(* error paths and after decoding.                                         *)
CallerReleases ==
    /\ pc = "done"
    /\ FreeResponse
    /\ pc' = "released"
    /\ UNCHANGED <<call, attempt_n, rc, body_uploaded, error_from,
                   netVars, serverVars>>

-----------------------------------------------------------------------------
(* curl_easy_perform, one action per thing libcurl can see happen.         *)

Connect ==
    /\ pc = "connecting"
    /\ pc' = "uploading"
    /\ UNCHANGED <<call, attempt_n, rc, body_uploaded, memVars, netVars,
                   serverVars>>

(* One chunk of the body is handed to the transport.  The API server can   *)
(* start the work once it has the whole body.                              *)
SendChunk ==
    /\ pc = "uploading"
    /\ curl.uploaded < BodyBytes
    /\ curl' = [curl EXCEPT !.uploaded = @ + 1]
    /\ LET complete == curl.uploaded + 1 = BodyBytes
       IN  /\ pc' = IF complete THEN "waiting" ELSE "uploading"
           /\ delivered' = IF complete /\ ~hop.redirects
                           THEN delivered \cup {attempt_n} ELSE delivered
    /\ UNCHANGED <<call, attempt_n, rc, body_uploaded, memVars, hop,
                   worked, answered>>

(* The front server answers 307 and libcurl follows (FOLLOWLOCATION): a    *)
(* new connection, the status of the redirect stays in the handle, the     *)
(* upload counter may or may not have been reset.                          *)
FollowRedirect ==
    /\ pc \in {"uploading", "waiting"}
    /\ hop.redirects
    /\ \E u \in {0, curl.uploaded} :
          curl' = [uploaded |-> u, status |-> Redirected]
    /\ \E r \in BOOLEAN :
          /\ r => hop.count + 1 < MaxRedirects
          /\ hop' = [count |-> hop.count + 1, redirects |-> r]
    /\ pc' = "connecting"
    /\ UNCHANGED <<call, attempt_n, rc, body_uploaded, memVars,
                   serverVars>>

(* The status line of the API server arrives; an error may come before the *)
(* body is complete.                                                       *)
ReceiveStatus ==
    /\ pc \in {"uploading", "waiting"}
    /\ ~hop.redirects
    /\ \E s \in Statuses :
          /\ pc = "uploading" => s >= 400
          /\ curl' = [curl EXCEPT !.status = s]
    /\ pc' = "receiving"
    /\ UNCHANGED <<call, attempt_n, rc, body_uploaded, memVars, hop, serverVars>>

(* write_cb appends the first bytes of the response body.                  *)
ReceiveBody ==
    /\ pc = "receiving"
    /\ attempt_n \notin bodies
    /\ bodies' = bodies \cup {attempt_n}
    /\ UNCHANGED <<call, loopVars, resp, error_from, netVars,
                   serverVars>>

(* CURLE_OK: audd_http_post fills resp, which owns the body from now on.   *)
TransferOk ==
    /\ pc = "receiving"
    /\ rc' = 0
    /\ resp' = [status |-> curl.status,
                body |-> IF attempt_n \in bodies THEN attempt_n ELSE 0]
    /\ answered' = IF curl.status >= 500
                   THEN answered \cup {attempt_n} ELSE answered
    /\ pc' = "decide"
    /\ UNCHANGED <<call, attempt_n, body_uploaded, bodies, error_from,
                   netVars, delivered, worked>>

(* The codes each phase of a transfer can fail with: CURLOPT_TIMEOUT runs  *)
(* through all of them, WRITE_ERROR is write_cb out of memory.             *)
CodesOf(phase) ==
    {"OPERATION_TIMEDOUT"} \cup
    CASE phase = "connecting" -> PreUploadCodes
      [] phase = "uploading"  -> {"SEND_ERROR", "RECV_ERROR", "READ_ERROR"}
      [] phase = "waiting"    -> {"RECV_ERROR", "GOT_NOTHING"}
      [] OTHER                -> {"RECV_ERROR", "WRITE_ERROR", "PARTIAL_FILE"}

(* Mutant: the failure is classified and freed, but reported as a success. *)
TransferFailsQuietly ==
    /\ pc \in Transferring
    /\ body_uploaded' = TRUE
    /\ rc' = 0
    /\ error_from' = attempt_n
    /\ bodies' = bodies \ {attempt_n}
    /\ pc' = "decide"
    /\ UNCHANGED <<call, attempt_n, resp, netVars, serverVars>>

(* Anything but CURLE_OK: classify, record the error, free the body.       *)
TransferFails ==
    /\ pc \in Transferring
    /\ \E code \in CodesOf(pc) :
          body_uploaded' = ~audd_failure_is_pre_upload(code, curl.uploaded,
                                                       curl.status)
    /\ rc' = -1
    /\ error_from' = attempt_n
    /\ bodies' = bodies \ {attempt_n}
    /\ pc' = "decide"
    /\ UNCHANGED <<call, attempt_n, resp, netVars, serverVars>>

-----------------------------------------------------------------------------
(* The server works when it pleases, even long after the client gave up.   *)
ServerWorks ==
    /\ \E a \in delivered \ worked : worked' = worked \cup {a}
    /\ UNCHANGED <<call, loopVars, memVars, netVars, delivered,
                   answered>>

Transfer ==
    \/ Connect \/ SendChunk \/ FollowRedirect \/ ReceiveStatus
    \/ ReceiveBody \/ TransferOk \/ TransferFails

Thread ==
    \/ SetupFails \/ StartTransfer
    \/ Return \/ Retry \/ WakeUp \/ CallerReleases
    \/ Transfer

(* The call is over and the server has nothing left to do.                 *)
Finished ==
    /\ pc = "released"
    /\ delivered = worked
    /\ UNCHANGED vars

Next == Thread \/ ServerWorks \/ Finished

Spec == Init /\ [][Next]_vars

(* The thread runs, and CURLOPT_TIMEOUT ends every transfer.  Nothing      *)
(* obliges the server to work.                                             *)
FairSpec == Spec /\ WF_vars(Thread)

-----------------------------------------------------------------------------
(* Properties.                                                             *)

(* A state-changing call (streams set/add/delete) and a metered upload     *)
(* (custom catalog) make the server work at most once, whatever the        *)
(* network does to the requests and however late the server works.         *)
WorkedAtMostOnce ==
    class \in {"MUTATING", "NONE"} => \A a, b \in worked : a = b

(* A recognition is metered: the server works on it a second time only     *)
(* after it answered the earlier request itself, with a 5xx.  Work whose   *)
(* answer was lost is never asked for again (should_retry).                *)
MeteredAgainOnlyAfter5xx ==
    class = "RECOGNITION" =>
        \A a, b \in worked : a = b \/ a \in answered \/ b \in answered

(* However its attempts fail or time out, no call makes the server repeat  *)
(* work that must not be, or is paid for.                                  *)
WorkNotRepeated == WorkedAtMostOnce /\ MeteredAgainOnlyAfter5xx

(* A failure classified as "before the upload" is one the API server has   *)
(* not got the whole body of, whatever libcurl's upload counter, response  *)
(* code and error code say after redirects and lost connections: trying    *)
(* again cannot repeat work.                                               *)
PreUploadNotDelivered ==
    pc \in {"decide", "sleep"} /\ rc = -1 /\ ~body_uploaded
        => attempt_n \notin delivered

(* No response body is lost or freed twice: outside a transfer the only    *)
(* block allocated is the one resp owns, and none is left when the call    *)
(* has returned.  audd_http_post clears resp without freeing it, so this   *)
(* rests on audd_retry_do freeing the previous attempt's response.         *)
BodiesOwned ==
    /\ pc \notin Transferring => bodies = {resp.body} \ {0}
    /\ pc = "released" => bodies = {}

(* The response handed back is the last attempt's, never an earlier one's; *)
(* a success never carries a failed attempt's status.                      *)
ResponseOfLastAttempt ==
    pc = "done" /\ rc = 0 => /\ resp.body \in {0, attempt_n}
                             /\ resp.status = curl.status
                             /\ resp.status \in Statuses

(* Every call returns to its caller and frees its response, for every      *)
(* retry class and every sequence of failures.                             *)
EveryCallReturns == <>(pc = "released")

-----------------------------------------------------------------------------
(* What the retry layer promises, without transfers or loops.              *)
Promise == INSTANCE Submission WITH finished <- pc \in {"done", "released"}
PromiseKept == Promise!Spec
=============================================================================
