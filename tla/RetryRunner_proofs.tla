------------------------- MODULE RetryRunner_proofs -------------------------
(***************************************************************************)
(* Proofs about RetryRunner, for every number of attempts, body length,    *)
(* number of redirects and set of statuses.                                *)
(*                                                                         *)
(* The inductive invariant says, of each attempt, when its body can have   *)
(* reached the API server.  The heart of it is PastIsSettled: an attempt   *)
(* the loop has gone past either never delivered its body, or is a read,   *)
(* or was answered with a 5xx.  Everything else is there to carry that     *)
(* fact through the transfer that libcurl makes in between.                *)
(***************************************************************************)
EXTENDS RetryRunner, TLAPS

(* The attempts the loop has decided to follow with another one.           *)
Past(a) == a < attempt_n \/ (a = attempt_n /\ pc = "sleep")

LoopInv ==
    /\ pc = "sleep" => attempt_n < MaxAttempts
    /\ hop.redirects => hop.count < MaxRedirects
    /\ pc = "receiving" => curl.status \in Statuses

DeliveryInv ==
    /\ worked \subseteq delivered
    /\ \A a \in delivered : a <= attempt_n
    /\ attempt_n \in delivered =>
          /\ pc \notin {"check", "connecting", "uploading"}
          /\ pc \in {"waiting", "receiving"}
                => ~hop.redirects /\ curl.uploaded = BodyBytes
          /\ pc \in {"decide", "sleep"} => rc = 0 \/ body_uploaded
    /\ pc = "decide" /\ rc = 0 /\ resp.status >= 500 => attempt_n \in answered

PastIsSettled ==
    \A a \in delivered : Past(a) =>
        \/ class = "READ"
        \/ class = "RECOGNITION" /\ a \in answered

MemoryInv ==
    /\ pc \in Transferring => bodies \subseteq {attempt_n} /\ resp = NoResponse
    /\ pc \notin Transferring => bodies = {resp.body} \ {0}
    /\ pc = "released" => resp = NoResponse
    /\ pc \in {"decide", "done"} /\ rc = 0 =>
          /\ resp.body \in {0, attempt_n}
          /\ resp.status = curl.status /\ resp.status \in Statuses

IInv ==
    TypeOK /\ LoopInv /\ DeliveryInv /\ PastIsSettled /\ MemoryInv

-----------------------------------------------------------------------------
USE MaxAttemptsAssumption, BodyBytesAssumption, MaxRedirectsAssumption,
    StatusesAssumption
DEF MaxAttemptsAssumption, BodyBytesAssumption, MaxRedirectsAssumption,
    StatusesAssumption, Attempts, class

(* The initial states satisfy the inductive invariant.                     *)
LEMMA InitIInv == Init => IInv
  <1> SUFFICES ASSUME Init PROVE IInv
    OBVIOUS
  <1> USE DEF Init
  <1>1. TypeOK
    <2>1. hop \in [count : 0 .. MaxRedirects, redirects : BOOLEAN]
      BY 0 \in 0 .. MaxRedirects
    <2>2. curl \in [uploaded : 0 .. BodyBytes,
                   status : {0, Redirected} \cup Statuses]
      BY 0 \in 0 .. BodyBytes
    <2>3. body_uploaded \in BOOLEAN
      OBVIOUS
    <2> QED
      BY <2>1, <2>2, <2>3 DEF TypeOK, NoResponse, Transferring
  <1>2. LoopInv
    BY DEF LoopInv
  <1>3. DeliveryInv
    BY DEF DeliveryInv
  <1>4. PastIsSettled
    BY DEF PastIsSettled
  <1>5. MemoryInv
    BY DEF MemoryInv, Transferring, NoResponse
  <1> QED
    BY <1>1, <1>2, <1>3, <1>4, <1>5 DEF IInv

(* Every step preserves it: one step per action, one per conjunct.         *)
LEMMA NextIInv == IInv /\ [Next]_vars => IInv'
  <1> SUFFICES ASSUME IInv, [Next]_vars PROVE IInv'
    OBVIOUS
  <1> USE DEF IInv, vars, loopVars, memVars, netVars, serverVars, Transferring
  <1>1. CASE SetupFails
    <2> USE <1>1 DEF SetupFails, FreeResponse
    <2>1. TypeOK'
      BY ZenonT(60) DEF TypeOK, LoopInv, NoResponse, Redirected, Calls
    <2>2. LoopInv'
      BY DEF TypeOK, LoopInv
    <2>3. DeliveryInv'
      BY DEF TypeOK, DeliveryInv, NoResponse
    <2>4. PastIsSettled'
      BY DEF TypeOK, PastIsSettled, Past, DeliveryInv
    <2>5. MemoryInv'
      BY DEF TypeOK, MemoryInv, NoResponse
    <2> QED
      BY <2>1, <2>2, <2>3, <2>4, <2>5 DEF IInv
  <1>2. CASE StartTransfer
    <2> USE <1>2 DEF StartTransfer, FreeResponse
    <2>1. TypeOK'
      <3>1. hop' \in [count : 0 .. MaxRedirects, redirects : BOOLEAN]
        BY 0 \in 0 .. MaxRedirects
      <3>2. curl' \in [uploaded : 0 .. BodyBytes,
                      status : {0, Redirected} \cup Statuses]
        BY 0 \in 0 .. BodyBytes
      <3> QED
        BY <3>1, <3>2 DEF TypeOK, NoResponse
    <2>2. LoopInv'
      BY DEF TypeOK, LoopInv
    <2>3. DeliveryInv'
      BY DEF TypeOK, DeliveryInv, NoResponse
    <2>4. PastIsSettled'
      BY DEF TypeOK, PastIsSettled, Past, DeliveryInv
    <2>5. MemoryInv'
      BY DEF TypeOK, MemoryInv, NoResponse
    <2> QED
      BY <2>1, <2>2, <2>3, <2>4, <2>5 DEF IInv
  <1>3. CASE Return
    <2> USE <1>3 DEF Return, RetryReturns
    <2>1. TypeOK'
      BY DEF TypeOK, LoopInv, NoResponse, Redirected, Calls
    <2>2. LoopInv'
      BY DEF TypeOK, LoopInv
    <2>3. DeliveryInv'
      BY DEF TypeOK, DeliveryInv, NoResponse
    <2>4. PastIsSettled'
      BY DEF TypeOK, PastIsSettled, Past, DeliveryInv
    <2>5. MemoryInv'
      BY DEF TypeOK, MemoryInv, NoResponse
    <2> QED
      BY <2>1, <2>2, <2>3, <2>4, <2>5 DEF IInv
  <1>4. CASE Retry
    <2> USE <1>4 DEF Retry, RetryReturns, should_retry
    <2>1. TypeOK'
      BY DEF TypeOK, LoopInv, NoResponse, Redirected, Calls
    <2>2. LoopInv'
      BY DEF TypeOK, LoopInv
    <2>3. DeliveryInv'
      BY DEF TypeOK, DeliveryInv, NoResponse
    <2>4. PastIsSettled'
      BY DEF TypeOK, PastIsSettled, Past, DeliveryInv
    <2>5. MemoryInv'
      BY DEF TypeOK, MemoryInv, NoResponse
    <2> QED
      BY <2>1, <2>2, <2>3, <2>4, <2>5 DEF IInv
  <1>5. CASE WakeUp
    <2> USE <1>5 DEF WakeUp
    <2>1. TypeOK'
      BY DEF TypeOK, LoopInv, NoResponse, Redirected, Calls
    <2>2. LoopInv'
      BY DEF TypeOK, LoopInv
    <2>3. DeliveryInv'
      BY DEF TypeOK, DeliveryInv, NoResponse
    <2>4. PastIsSettled'
      BY DEF TypeOK, PastIsSettled, Past, DeliveryInv
    <2>5. MemoryInv'
      BY DEF TypeOK, MemoryInv, NoResponse
    <2> QED
      BY <2>1, <2>2, <2>3, <2>4, <2>5 DEF IInv
  <1>6. CASE CallerReleases
    <2> USE <1>6 DEF CallerReleases, FreeResponse
    <2>1. TypeOK'
      BY ZenonT(60) DEF TypeOK, LoopInv, NoResponse, Redirected, Calls
    <2>2. LoopInv'
      BY DEF TypeOK, LoopInv
    <2>3. DeliveryInv'
      BY DEF TypeOK, DeliveryInv, NoResponse
    <2>4. PastIsSettled'
      BY DEF TypeOK, PastIsSettled, Past, DeliveryInv
    <2>5. MemoryInv'
      BY DEF TypeOK, MemoryInv, NoResponse
    <2> QED
      BY <2>1, <2>2, <2>3, <2>4, <2>5 DEF IInv
  <1>7. CASE Connect
    <2> USE <1>7 DEF Connect
    <2>1. TypeOK'
      BY DEF TypeOK, LoopInv, NoResponse, Redirected, Calls
    <2>2. LoopInv'
      BY DEF TypeOK, LoopInv
    <2>3. DeliveryInv'
      BY DEF TypeOK, DeliveryInv, NoResponse
    <2>4. PastIsSettled'
      BY DEF TypeOK, PastIsSettled, Past, DeliveryInv
    <2>5. MemoryInv'
      BY DEF TypeOK, MemoryInv, NoResponse
    <2> QED
      BY <2>1, <2>2, <2>3, <2>4, <2>5 DEF IInv
  <1>8. CASE SendChunk
    <2> USE <1>8 DEF SendChunk
    <2>1. TypeOK'
      BY DEF TypeOK, LoopInv, NoResponse, Redirected, Calls
    <2>2. LoopInv'
      BY DEF TypeOK, LoopInv
    <2>3. DeliveryInv'
      BY DEF TypeOK, DeliveryInv, NoResponse
    <2>4. PastIsSettled'
      BY DEF TypeOK, PastIsSettled, Past, DeliveryInv
    <2>5. MemoryInv'
      BY DEF TypeOK, MemoryInv, NoResponse
    <2> QED
      BY <2>1, <2>2, <2>3, <2>4, <2>5 DEF IInv
  <1>9. CASE FollowRedirect
    <2> USE <1>9 DEF FollowRedirect
    <2>1. TypeOK'
      BY DEF TypeOK, LoopInv, NoResponse, Redirected, Calls
    <2>2. LoopInv'
      BY DEF TypeOK, LoopInv
    <2>3. DeliveryInv'
      BY DEF TypeOK, DeliveryInv, NoResponse
    <2>4. PastIsSettled'
      BY DEF TypeOK, PastIsSettled, Past, DeliveryInv
    <2>5. MemoryInv'
      BY DEF TypeOK, MemoryInv, NoResponse
    <2> QED
      BY <2>1, <2>2, <2>3, <2>4, <2>5 DEF IInv
  <1>10. CASE ReceiveStatus
    <2> USE <1>10 DEF ReceiveStatus
    <2>1. TypeOK'
      BY DEF TypeOK, LoopInv, NoResponse, Redirected, Calls
    <2>2. LoopInv'
      BY DEF TypeOK, LoopInv
    <2>3. DeliveryInv'
      BY DEF TypeOK, DeliveryInv, NoResponse
    <2>4. PastIsSettled'
      BY DEF TypeOK, PastIsSettled, Past, DeliveryInv
    <2>5. MemoryInv'
      BY DEF TypeOK, MemoryInv, NoResponse
    <2> QED
      BY <2>1, <2>2, <2>3, <2>4, <2>5 DEF IInv
  <1>11. CASE ReceiveBody
    <2> USE <1>11 DEF ReceiveBody
    <2>1. TypeOK'
      BY DEF TypeOK, LoopInv, NoResponse, Redirected, Calls
    <2>2. LoopInv'
      BY DEF TypeOK, LoopInv
    <2>3. DeliveryInv'
      BY DEF TypeOK, DeliveryInv, NoResponse
    <2>4. PastIsSettled'
      BY DEF TypeOK, PastIsSettled, Past, DeliveryInv
    <2>5. MemoryInv'
      BY DEF TypeOK, MemoryInv, NoResponse
    <2> QED
      BY <2>1, <2>2, <2>3, <2>4, <2>5 DEF IInv
  <1>12. CASE TransferOk
    <2> USE <1>12 DEF TransferOk
    <2>1. TypeOK'
      BY DEF TypeOK, LoopInv, NoResponse, Redirected, Calls
    <2>2. LoopInv'
      BY DEF TypeOK, LoopInv
    <2>3. DeliveryInv'
      BY DEF TypeOK, DeliveryInv, NoResponse
    <2>4. PastIsSettled'
      BY DEF TypeOK, PastIsSettled, Past, DeliveryInv
    <2>5. MemoryInv'
      <3>1. bodies \subseteq {attempt_n} /\ attempt_n # 0
        BY DEF TypeOK, MemoryInv
      <3>2. resp'.body = IF attempt_n \in bodies THEN attempt_n ELSE 0
        OBVIOUS
      <3>3. bodies' = {resp'.body} \ {0}
        BY <3>1, <3>2
      <3> QED
        BY <3>2, <3>3 DEF MemoryInv, LoopInv
    <2> QED
      BY <2>1, <2>2, <2>3, <2>4, <2>5 DEF IInv
  <1>13. CASE TransferFails
    <2> USE <1>13 DEF TransferFails, CodesOf, PreUploadCodes, audd_failure_is_pre_upload
    <2>1. TypeOK'
      BY DEF TypeOK, LoopInv, NoResponse, Redirected, Calls
    <2>2. LoopInv'
      BY DEF TypeOK, LoopInv
    <2>3. DeliveryInv'
      <3>1. attempt_n \in delivered => body_uploaded'
        <4> SUFFICES ASSUME attempt_n \in delivered PROVE body_uploaded'
          OBVIOUS
        <4>1. pc \in {"waiting", "receiving"} /\ curl.uploaded # 0
          BY DEF TypeOK, DeliveryInv
        <4>2. CodesOf(pc) \cap PreUploadCodes = {}
          BY <4>1
        <4> QED
          BY <4>1, <4>2
      <3> QED
        BY <3>1 DEF TypeOK, DeliveryInv
    <2>4. PastIsSettled'
      BY DEF TypeOK, PastIsSettled, Past, DeliveryInv
    <2>5. MemoryInv'
      BY DEF TypeOK, MemoryInv, NoResponse
    <2> QED
      BY <2>1, <2>2, <2>3, <2>4, <2>5 DEF IInv
  <1>14. CASE ServerWorks
    <2> USE <1>14 DEF ServerWorks
    <2>1. TypeOK'
      BY DEF TypeOK, LoopInv, NoResponse, Redirected, Calls
    <2>2. LoopInv'
      BY DEF TypeOK, LoopInv
    <2>3. DeliveryInv'
      BY DEF TypeOK, DeliveryInv, NoResponse
    <2>4. PastIsSettled'
      BY ZenonT(60) DEF TypeOK, PastIsSettled, Past, DeliveryInv
    <2>5. MemoryInv'
      BY DEF TypeOK, MemoryInv, NoResponse
    <2> QED
      BY <2>1, <2>2, <2>3, <2>4, <2>5 DEF IInv
  <1>15. CASE Finished \/ UNCHANGED vars
    <2>0. UNCHANGED <<call, pc, attempt_n, rc, body_uploaded, resp,
                      bodies, error_from, curl, hop, delivered, worked,
                      answered>>
      BY <1>15 DEF Finished
    <2> HIDE DEF vars, loopVars, memVars, netVars, serverVars
    <2> USE <2>0
    <2>1. TypeOK'
      BY DEF TypeOK
    <2>2. LoopInv'
      BY DEF LoopInv
    <2>3. DeliveryInv'
      BY DEF DeliveryInv
    <2>4. PastIsSettled'
      BY DEF PastIsSettled, Past
    <2>5. MemoryInv'
      BY DEF MemoryInv
    <2> QED
      BY <2>1, <2>2, <2>3, <2>4, <2>5 DEF IInv
  <1> QED
    BY <1>1, <1>2, <1>3, <1>4, <1>5, <1>6, <1>7, <1>8,
       <1>9, <1>10, <1>11, <1>12, <1>13, <1>14, <1>15
    DEF Next, Thread, Transfer

(* The invariant holds in every reachable state.                           *)
THEOREM Invariance == Spec => []IInv
  BY InitIInv, NextIInv, PTL DEF Spec

(* Type correctness of the retry loop, the transfer and the server.        *)
THEOREM TypeCorrect == Spec => []TypeOK
  <1>1. IInv => TypeOK
    BY DEF IInv
  <1> QED
    BY <1>1, Invariance, PTL

(* Only the attempt the loop is at can have undecided work: an earlier     *)
(* attempt whose body was delivered was answered, or is a read.            *)
LEMMA UnsettledIsCurrent ==
    ASSUME IInv, NEW a \in worked, class # "READ",
           ~(class = "RECOGNITION" /\ a \in answered)
    PROVE  a = attempt_n
  <1>1. a \in delivered /\ a <= attempt_n
    BY DEF IInv, DeliveryInv
  <1>2. ~Past(a)
    BY <1>1 DEF IInv, PastIsSettled
  <1>3. a \in Int /\ attempt_n \in Int
    BY <1>1 DEF IInv, TypeOK
  <1> QED
    BY <1>1, <1>2, <1>3 DEF Past

(* A mutating call or a metered upload makes the server work at most once, *)
(* for every number of attempts the options ask for.                       *)
THEOREM AtMostOnce == Spec => []WorkedAtMostOnce
  <1>1. IInv => WorkedAtMostOnce
    BY UnsettledIsCurrent DEF WorkedAtMostOnce
  <1> QED
    BY <1>1, Invariance, PTL

(* A recognition is worked on again only after a 5xx answer.               *)
THEOREM MeteredOnce == Spec => []MeteredAgainOnlyAfter5xx
  <1>1. IInv => MeteredAgainOnlyAfter5xx
    BY UnsettledIsCurrent DEF MeteredAgainOnlyAfter5xx
  <1> QED
    BY <1>1, Invariance, PTL

(* Neither mutating nor metered work is repeated without cause.            *)
THEOREM NotRepeated == Spec => []WorkNotRepeated
  <1>1. WorkedAtMostOnce /\ MeteredAgainOnlyAfter5xx => WorkNotRepeated
    BY DEF WorkNotRepeated
  <1> QED
    BY <1>1, AtMostOnce, MeteredOnce, PTL

(* No response body leaks or is freed twice.                               *)
THEOREM Owned == Spec => []BodiesOwned
  <1>1. IInv => BodiesOwned
    BY DEF IInv, MemoryInv, BodiesOwned, Transferring, NoResponse
  <1> QED
    BY <1>1, Invariance, PTL

(* A failure classified as "before the upload" is safe to retry, for every *)
(* chain of redirects.                                                     *)
THEOREM PreUploadIsSafe == Spec => []PreUploadNotDelivered
  <1>1. IInv => PreUploadNotDelivered
    BY DEF IInv, TypeOK, DeliveryInv, PreUploadNotDelivered
  <1> QED
    BY <1>1, Invariance, PTL

(* A successful attempt's response is the one handed back.                 *)
THEOREM OwnResponse == Spec => []ResponseOfLastAttempt
  <1>1. IInv => ResponseOfLastAttempt
    BY DEF IInv, MemoryInv, ResponseOfLastAttempt
  <1> QED
    BY <1>1, Invariance, PTL

-----------------------------------------------------------------------------
(* The retry loop, with its transfers, implements Submission.              *)

(* A server step of the detailed model is allowed by the promise.          *)
LEMMA WorkIsPromised ==
    ASSUME IInv, NEW a \in delivered \ worked
    PROVE  Promise!MayWork(a)
  <1>1. CASE class = "READ"
    BY <1>1 DEF Promise!MayWork
  <1>2. ASSUME class # "READ", NEW b \in worked,
               ~(class = "RECOGNITION" /\ (a \in answered \/ b \in answered))
        PROVE  FALSE
    <2>1. b = attempt_n
      BY <1>2, UnsettledIsCurrent
    <2>2. a \in delivered /\ a <= attempt_n /\ a # b
      BY DEF IInv, DeliveryInv
    <2>3. a \in Int /\ attempt_n \in Int
      BY <2>2 DEF IInv, TypeOK
    <2>4. Past(a)
      BY <2>1, <2>2, <2>3 DEF Past
    <2> QED
      BY <1>2, <2>2, <2>4 DEF IInv, PastIsSettled
  <1>3. class \in {"READ", "RECOGNITION", "MUTATING", "NONE"}
    BY DEF IInv, TypeOK, Calls
  <1>4. CASE class = "RECOGNITION"
    BY <1>2, <1>4 DEF Promise!MayWork
  <1>5. CASE class \in {"MUTATING", "NONE"}
    <2>1. worked = {}
      BY <1>2, <1>5
    <2> QED
      BY <1>5, <2>1 DEF Promise!MayWork
  <1> QED
    BY <1>1, <1>3, <1>4, <1>5

(* Every step of the loop is a step of the promise or changes nothing it   *)
(* talks about.                                                            *)
LEMMA StepIsPromised == IInv /\ [Next]_vars => [Promise!Next]_(Promise!vars)
  <1> SUFFICES ASSUME IInv, [Next]_vars
               PROVE  Promise!Next \/ UNCHANGED Promise!vars
    OBVIOUS
  <1> DEFINE finished == pc \in {"done", "released"}
  <1> USE DEF loopVars, memVars, netVars, serverVars,
              Promise!vars, Transferring
  <1>1. CASE Return
    BY <1>1 DEF Return, Promise!Next, Promise!Finish
  <1>2. CASE TransferOk
    <2>1. attempt_n \in Attempts /\ ~finished
      BY <1>2 DEF TransferOk, IInv, TypeOK
    <2>2. CASE curl.status >= 500
      <3>1. Promise!Answer5xx(attempt_n)
        BY <1>2, <2>1, <2>2 DEF TransferOk, Promise!Answer5xx
      <3> QED
        BY <2>1, <3>1 DEF Promise!Next
    <2>3. CASE ~(curl.status >= 500)
      BY <1>2, <2>3 DEF TransferOk
    <2> QED
      BY <2>2, <2>3
  <1>3. CASE ServerWorks
    <2>1. PICK a \in delivered \ worked : worked' = worked \cup {a}
      BY <1>3 DEF ServerWorks
    <2>2. a \in Attempts
      BY DEF IInv, TypeOK
    <2>3. Promise!Work(a)
      BY <1>3, <2>1, WorkIsPromised DEF ServerWorks, Promise!Work
    <2> QED
      BY <2>2, <2>3 DEF Promise!Next
  <1>4. CASE \/ SetupFails \/ StartTransfer \/ Retry \/ WakeUp
             \/ CallerReleases
    BY <1>4 DEF SetupFails, StartTransfer, Retry, WakeUp,
                CallerReleases
  <1>5. CASE \/ Connect \/ SendChunk \/ FollowRedirect \/ ReceiveStatus
             \/ ReceiveBody \/ TransferFails
    BY <1>5 DEF Connect, SendChunk, FollowRedirect, ReceiveStatus,
                ReceiveBody, TransferFails
  <1>6. CASE Finished \/ UNCHANGED vars
    BY <1>6 DEF Finished, vars
  <1> QED
    BY <1>1, <1>2, <1>3, <1>4, <1>5, <1>6
    DEF Next, Thread, Transfer

(* The retry layer keeps its promise: it implements Submission.            *)
THEOREM KeepsPromise == Spec => PromiseKept
  <1>1. Init => Promise!Init
    BY DEF Init, Promise!Init
  <1> QED
    BY <1>1, Invariance, StepIsPromised, PTL
    DEF Spec, PromiseKept, Promise!Spec
=============================================================================
