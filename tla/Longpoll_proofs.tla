--------------------------- MODULE Longpoll_proofs ---------------------------
(***************************************************************************)
(* Proofs about Longpoll, for every number of failures, every backoff and  *)
(* every bound on the log.                                                 *)
(*                                                                         *)
(* The heart of the inductive invariant is CursorInv, which ties the       *)
(* cursor to what the callbacks have seen: nothing beyond the cursor has   *)
(* been dispatched, except an event that may come again and is the very    *)
(* next one.  EventInv says the same of the event in hand.                 *)
(***************************************************************************)
EXTENDS Longpoll, Iteration, TLAPS

Dispatched(e) == \E i \in 1 .. Len(dispatched) : dispatched[i] = e

LogInv ==
    /\ Len(log) >= 1
    /\ since_time <= Len(log) /\ event.at <= Len(log) /\ poll_from <= Len(log)
    /\ \A i \in 1 .. Len(dispatched) : dispatched[i] <= Len(log)
    /\ pc = "polling" => poll_from >= 1

CursorInv ==
    /\ start = 0 => since_time = 0
    /\ start > 0 /\ since_time = 0 =>
          /\ pc = "dispatch" /\ event.json /\ event.at = start + 1
          /\ log[event.at].stamp # "none"
    /\ since_time > 0 =>
          \A i \in 1 .. Len(dispatched) :
             \/ dispatched[i] <= since_time
             \/ dispatched[i] = since_time + 1 /\ MayRepeat(dispatched[i])
    /\ since_time = 0 /\ pc = "polling" =>
          \A i \in 1 .. Len(dispatched) : dispatched[i] <= poll_from

EventInv ==
    pc = "dispatch" =>
       /\ event.at >= 2
       /\ since_time > 0 => event.at = since_time + 1
       /\ since_time = 0 =>
             \A i \in 1 .. Len(dispatched) : dispatched[i] < event.at
       /\ since_time = 0 /\ event.json /\ log[event.at].stamp # "none"
             => start + 1 = event.at
       /\ event.parsed => log[event.at].shape = "known"
       /\ ~event.json => event.at \in starved
       /\ \/ event.parsed
          \/ log[event.at].shape = "unknown" \/ event.at \in starved

(* What came through the cursor so far.                                    *)
FeedInv == DispatchedInOrderOnce /\ NoEventSkipped

(* The result is decided when the loop is left, not before.                *)
EndInv ==
    /\ pc \notin {"exit", "returned"} =>
          /\ result_err = "OK" /\ "terminal" \notin on_errors
          /\ consecutive_failures <= kMaxConsecutiveFailures
    /\ pc = "exit" => result_err \in {"OK", "SERVER", "CONNECTION"}
    /\ pc \in {"preflight", "alloc"} =>
          out_handle = "callers" /\ handle = "none"
    /\ pc = "returned" => out_handle # "handle" /\ handle # "live"
    /\ pc \in {"exit", "returned"} =>
          /\ result_err = "OK" => closed
          /\ result_err = "SERVER" =>
                ended_by[1] = 0 /\ ended_by[2] \in 400 .. 499 \ {408, 429}
          /\ result_err = "CONNECTION" <=>
                consecutive_failures = kMaxConsecutiveFailures + 1
          /\ result_err \in {"SERVER", "CONNECTION", "PREFLIGHT"} <=>
                "terminal" \in on_errors

(* Once closed, only the poll in flight or just answered may still bring   *)
(* an event that is dispatched.                                            *)
ClosingInv ==
    closed => /\ Len(dispatched) <= at_close + 1
              /\ pc \notin {"top", "exit", "returned"}
                    => Len(dispatched) <= at_close

IInv == TypeOK /\ LogInv /\ CursorInv /\ EventInv /\ FeedInv /\ EndInv
            /\ ClosingInv

-----------------------------------------------------------------------------
USE BackoffAssumption, FailuresAssumption, BoundsAssumption
DEF BackoffAssumption, FailuresAssumption, BoundsAssumption

(* The initial states satisfy the inductive invariant.                     *)
LEMMA InitIInv == Init => IInv
  <1> SUFFICES ASSUME Init PROVE IInv
    OBVIOUS
  <1> USE DEF Init
  <1>1. log \in Seq(Events) /\ Len(log) = 1 /\ dispatched \in Seq(1 .. MaxEvents)
    BY DEF Events
  <1>2. ended_by \in Answers
    BY DEF Answers
  <1>3. TypeOK
    <2>1. event \in [at : 0 .. MaxEvents, json : BOOLEAN, parsed : BOOLEAN]
      BY 0 \in 0 .. MaxEvents DEF NoEvent
    <2>2. start \in 0 .. MaxEvents /\ at_close \in Nat
      OBVIOUS
    <2>3. backoff_ms \in kBackoffStartMs .. kBackoffMaxMs
      OBVIOUS
    <2>4. since_time \in 0 .. MaxEvents /\ poll_from \in 0 .. MaxEvents
      OBVIOUS
    <2>5. consecutive_failures \in 0 .. kMaxConsecutiveFailures + 1
      OBVIOUS
    <2>6. starved \subseteq 1 .. MaxEvents /\ result_err \in Results
      BY DEF Results
    <2>7. log \in Seq(Events) /\ Len(log) <= MaxEvents
      BY <1>1
    <2> QED
      BY <1>1, <1>2, <2>1, <2>2, <2>3, <2>4, <2>5, <2>6, <2>7 DEF TypeOK
  <1>4. LogInv /\ CursorInv /\ EventInv
    BY <1>1 DEF LogInv, CursorInv, EventInv, NoEvent
  <1>5. FeedInv
    BY <1>1 DEF FeedInv, DispatchedInOrderOnce, NoEventSkipped, MayRepeat
  <1>6. EndInv /\ ClosingInv
    BY DEF EndInv, ClosingInv
  <1> QED
    BY <1>3, <1>4, <1>5, <1>6 DEF IInv

(* Where the cursor goes after an event: to the event, before it, or       *)
(* nowhere; the event may come again unless the cursor went to it.         *)
LEMMA CursorMoves ==
    ASSUME IInv, pc = "dispatch"
    PROVE  \/ /\ NextCursor = event.at
              /\ event.json /\ log[event.at].stamp # "none"
           \/ /\ NextCursor = event.at - 1 /\ MayRepeat(event.at)
              /\ event.json /\ log[event.at].stamp # "none"
           \/ /\ NextCursor = since_time /\ MayRepeat(event.at)
              /\ ~event.json \/ log[event.at].stamp = "none"
  <1>1. event.at \in 1 .. Len(log) /\ event.json \in BOOLEAN
    BY DEF IInv, TypeOK, LogInv, EventInv
  <1>2. log[event.at] \in Events
    BY <1>1 DEF IInv, TypeOK
  <1>3. log[event.at].stamp \in {"whole", "fraction", "none"}
    BY <1>2 DEF Events
  <1>4. ~event.json => event.at \in starved
    BY DEF IInv, EventInv
  <1>5. CASE ~event.json \/ log[event.at].stamp = "none"
    BY <1>4, <1>5 DEF NextCursor, MayRepeat
  <1>6. CASE event.json /\ log[event.at].stamp = "fraction"
    BY <1>6 DEF NextCursor, MayRepeat
  <1>7. CASE event.json /\ log[event.at].stamp = "whole"
    BY <1>7 DEF NextCursor
  <1> QED
    BY <1>1, <1>3, <1>5, <1>6, <1>7

(* Every step preserves it: one step per action, one per conjunct.         *)
LEMMA NextIInv == IInv /\ [Next]_vars => IInv'
  <1> SUFFICES ASSUME IInv, [Next]_vars PROVE IInv'
    OBVIOUS
  <1> USE DEF IInv, vars, runVars, handleVars, serverVars
  <1>1. CASE Preflight
    <2> USE <1>1 DEF Preflight
    <2>1. TypeOK'
      <3>1. result_err' \in Results /\ on_errors' \subseteq {"notice", "terminal"}
        BY DEF TypeOK, Results
      <3>2. pc' \in {"alloc", "returned"}
        OBVIOUS
      <3> QED
        BY <3>1, <3>2 DEF TypeOK
    <2>2. LogInv'
      BY DEF TypeOK, LogInv
    <2>3. CursorInv'
      BY DEF TypeOK, LogInv, CursorInv, EventInv, MayRepeat
    <2>4. EventInv'
      BY DEF TypeOK, LogInv, CursorInv, EventInv, MayRepeat
    <2>5. FeedInv'
      BY DEF TypeOK, LogInv, CursorInv, EventInv, FeedInv, DispatchedInOrderOnce, NoEventSkipped, MayRepeat
    <2>6. EndInv'
      BY DEF TypeOK, EndInv
    <2>7. ClosingInv'
      BY DEF TypeOK, ClosingInv
    <2> QED
      BY <2>1, <2>2, <2>3, <2>4, <2>5, <2>6, <2>7
  <1>2. CASE AllocHandle
    <2> USE <1>2 DEF AllocHandle
    <2>1. TypeOK'
      <3>1. result_err' \in Results /\ handle' \in {"none", "live"}
        BY DEF TypeOK, EndInv, Results
      <3>2. pc' \in {"alloc_url", "returned"} /\ out_handle' \in {"callers", "handle", "null"}
        BY DEF TypeOK
      <3> QED
        BY <3>1, <3>2 DEF TypeOK
    <2>2. LogInv'
      BY DEF TypeOK, LogInv
    <2>3. CursorInv'
      BY DEF TypeOK, LogInv, CursorInv, EventInv, MayRepeat
    <2>4. EventInv'
      BY DEF TypeOK, LogInv, CursorInv, EventInv, MayRepeat
    <2>5. FeedInv'
      BY DEF TypeOK, LogInv, CursorInv, EventInv, FeedInv, DispatchedInOrderOnce, NoEventSkipped, MayRepeat
    <2>6. EndInv'
      BY DEF TypeOK, EndInv
    <2>7. ClosingInv'
      BY DEF TypeOK, ClosingInv
    <2> QED
      BY <2>1, <2>2, <2>3, <2>4, <2>5, <2>6, <2>7
  <1>3. CASE AllocUrl
    <2> USE <1>3 DEF AllocUrl
    <2>1. TypeOK'
      <3>1. result_err' \in Results /\ handle' \in {"none", "live", "freed"}
        BY DEF TypeOK, Results
      <3>2. pc' \in {"top", "returned"} /\ out_handle' \in {"callers", "handle", "null"}
        BY DEF TypeOK
      <3> QED
        BY <3>1, <3>2 DEF TypeOK
    <2>2. LogInv'
      BY DEF TypeOK, LogInv
    <2>3. CursorInv'
      BY DEF TypeOK, LogInv, CursorInv, EventInv, MayRepeat
    <2>4. EventInv'
      BY DEF TypeOK, LogInv, CursorInv, EventInv, MayRepeat
    <2>5. FeedInv'
      BY DEF TypeOK, LogInv, CursorInv, EventInv, FeedInv, DispatchedInOrderOnce, NoEventSkipped, MayRepeat
    <2>6. EndInv'
      BY DEF TypeOK, EndInv
    <2>7. ClosingInv'
      BY DEF TypeOK, ClosingInv
    <2> QED
      BY <2>1, <2>2, <2>3, <2>4, <2>5, <2>6, <2>7
  <1>4. CASE LoopTop
    <2> USE <1>4 DEF LoopTop
    <2>1. TypeOK'
      BY DEF TypeOK, LogInv, EndInv, Results, NoEvent
    <2>2. LogInv'
      BY DEF TypeOK, LogInv
    <2>3. CursorInv'
      BY DEF TypeOK, LogInv, CursorInv, EventInv, MayRepeat
    <2>4. EventInv'
      BY DEF TypeOK, LogInv, CursorInv, EventInv, MayRepeat
    <2>5. FeedInv'
      BY DEF TypeOK, LogInv, CursorInv, EventInv, FeedInv, DispatchedInOrderOnce, NoEventSkipped, MayRepeat
    <2>6. EndInv'
      BY DEF TypeOK, EndInv
    <2>7. ClosingInv'
      BY DEF TypeOK, ClosingInv
    <2> QED
      BY <2>1, <2>2, <2>3, <2>4, <2>5, <2>6, <2>7
  <1>5. CASE PollTerminal
    <2> USE <1>5 DEF PollTerminal, Answers, NoAnswer, Verdict, audd_longpoll_classify_http
    <2>1. TypeOK'
      BY DEF TypeOK, LogInv, EndInv, Results, NoEvent
    <2>2. LogInv'
      BY DEF TypeOK, LogInv
    <2>3. CursorInv'
      BY DEF TypeOK, LogInv, CursorInv, EventInv, MayRepeat
    <2>4. EventInv'
      BY DEF TypeOK, LogInv, CursorInv, EventInv, MayRepeat
    <2>5. FeedInv'
      BY DEF TypeOK, LogInv, CursorInv, EventInv, FeedInv, DispatchedInOrderOnce, NoEventSkipped, MayRepeat
    <2>6. EndInv'
      <3>1. ended_by'[1] = 0 /\ ended_by'[2] \in 400 .. 499 \ {408, 429}
        OBVIOUS
      <3> QED
        BY <3>1 DEF TypeOK, EndInv
    <2>7. ClosingInv'
      BY DEF TypeOK, ClosingInv
    <2> QED
      BY <2>1, <2>2, <2>3, <2>4, <2>5, <2>6, <2>7
  <1>6. CASE PollFails
    <2> USE <1>6 DEF PollFails, Answers, Verdict
    <2>1. TypeOK'
      <3>1. ended_by' \in Answers
        BY DEF TypeOK
      <3>2. result_err' \in Results
        BY DEF TypeOK, Results
      <3>4. on_errors' \subseteq {"notice", "terminal"}
        <4>1. on_errors \subseteq {"notice", "terminal"}
          BY DEF TypeOK
        <4>2. \/ on_errors' = on_errors \cup {"terminal"}
              \/ on_errors' = on_errors \cup {"notice"}
          OBVIOUS
        <4>3. CASE on_errors' = on_errors \cup {"terminal"}
          BY <4>1, <4>3
        <4>4. CASE on_errors' = on_errors \cup {"notice"}
          BY <4>1, <4>4
        <4> QED
          BY <4>2, <4>3, <4>4
      <3>5. pc' \in {"exit", "notice"}
        OBVIOUS
      <3>3. consecutive_failures' \in 0 .. kMaxConsecutiveFailures + 1
        BY DEF TypeOK, EndInv
      <3> QED
        BY <3>1, <3>2, <3>3, <3>4, <3>5 DEF TypeOK
    <2>2. LogInv'
      BY DEF TypeOK, LogInv
    <2>3. CursorInv'
      BY DEF TypeOK, LogInv, CursorInv, EventInv, MayRepeat
    <2>4. EventInv'
      BY DEF TypeOK, LogInv, CursorInv, EventInv, MayRepeat
    <2>5. FeedInv'
      BY DEF TypeOK, LogInv, CursorInv, EventInv, FeedInv, DispatchedInOrderOnce, NoEventSkipped, MayRepeat
    <2>6. EndInv'
      BY DEF TypeOK, EndInv
    <2>7. ClosingInv'
      BY DEF TypeOK, ClosingInv
    <2> QED
      BY <2>1, <2>2, <2>3, <2>4, <2>5, <2>6, <2>7
  <1>7. CASE PollKeepalive
    <2> USE <1>7 DEF PollKeepalive, ResetFailures, Pending, NextEvent
    <2>1. TypeOK'
      BY DEF TypeOK, LogInv, EndInv, Results, NoEvent
    <2>2. LogInv'
      BY DEF TypeOK, LogInv
    <2>3. CursorInv'
      BY DEF TypeOK, LogInv, CursorInv, EventInv, MayRepeat
    <2>4. EventInv'
      BY DEF TypeOK, LogInv, CursorInv, EventInv, MayRepeat
    <2>5. FeedInv'
      BY DEF TypeOK, LogInv, CursorInv, EventInv, FeedInv, DispatchedInOrderOnce, NoEventSkipped, MayRepeat
    <2>6. EndInv'
      BY DEF TypeOK, EndInv
    <2>7. ClosingInv'
      BY DEF TypeOK, ClosingInv
    <2> QED
      BY <2>1, <2>2, <2>3, <2>4, <2>5, <2>6, <2>7
  <1>8. CASE PollApiError
    <2> USE <1>8 DEF PollApiError, ResetFailures
    <2>1. TypeOK'
      BY DEF TypeOK, LogInv, EndInv, Results, NoEvent
    <2>2. LogInv'
      BY DEF TypeOK, LogInv
    <2>3. CursorInv'
      BY DEF TypeOK, LogInv, CursorInv, EventInv, MayRepeat
    <2>4. EventInv'
      BY DEF TypeOK, LogInv, CursorInv, EventInv, MayRepeat
    <2>5. FeedInv'
      BY DEF TypeOK, LogInv, CursorInv, EventInv, FeedInv, DispatchedInOrderOnce, NoEventSkipped, MayRepeat
    <2>6. EndInv'
      BY DEF TypeOK, EndInv
    <2>7. ClosingInv'
      BY DEF TypeOK, ClosingInv
    <2> QED
      BY <2>1, <2>2, <2>3, <2>4, <2>5, <2>6, <2>7
  <1>9. CASE PollEvent
    <2> USE <1>9 DEF PollEvent, ResetFailures, Pending, NextEvent
    <2>1. TypeOK'
      BY DEF TypeOK, LogInv, EndInv, Results, NoEvent
    <2>2. LogInv'
      BY DEF TypeOK, LogInv
    <2>3. CursorInv'
      BY DEF TypeOK, LogInv, CursorInv, EventInv, MayRepeat
    <2>4. EventInv'
      <3> PICK json \in BOOLEAN, memory \in BOOLEAN :
             /\ event' = [at |-> NextEvent, json |-> json,
                          parsed |-> memory /\ log[NextEvent].shape = "known"]
             /\ starved' = IF json /\ memory THEN starved
                                             ELSE starved \cup {NextEvent}
        OBVIOUS
      <3>0. log[NextEvent].shape \in {"known", "unknown"}
        <4>1. NextEvent \in 1 .. Len(log)
          BY DEF TypeOK, LogInv
        <4>2. log[NextEvent] \in Events
          BY <4>1 DEF TypeOK
        <4> QED
          BY <4>2 DEF Events
      <3>1. /\ event'.at = NextEvent /\ event'.json = json
            /\ event'.parsed = (memory /\ log[NextEvent].shape = "known")
        OBVIOUS
      <3>2. /\ event'.parsed => log[NextEvent].shape = "known"
            /\ ~event'.json => NextEvent \in starved'
            /\ \/ event'.parsed \/ log[NextEvent].shape = "unknown"
               \/ NextEvent \in starved'
        BY <3>0, <3>1
      <3>3. since_time = 0 =>
               /\ \A i \in 1 .. Len(dispatched) : dispatched[i] < NextEvent
               /\ event'.json /\ log[NextEvent].stamp # "none"
                     => start' + 1 = NextEvent
        BY DEF TypeOK, LogInv, CursorInv
      <3> QED
        BY <3>1, <3>2, <3>3 DEF TypeOK, LogInv, EventInv
    <2>5. FeedInv'
      <3>1. starved \subseteq starved'
        OBVIOUS
      <3>2. DispatchedInOrderOnce'
        BY <3>1 DEF FeedInv, DispatchedInOrderOnce, MayRepeat
      <3>3. start' = start \/ since_time = 0
        BY DEF TypeOK, CursorInv
      <3>4. NoEventSkipped'
        BY <3>1, <3>3 DEF TypeOK, FeedInv, NoEventSkipped
      <3> QED
        BY <3>2, <3>4 DEF FeedInv
    <2>6. EndInv'
      BY DEF TypeOK, EndInv
    <2>7. ClosingInv'
      BY DEF TypeOK, ClosingInv
    <2> QED
      BY <2>1, <2>2, <2>3, <2>4, <2>5, <2>6, <2>7
  <1>10. CASE NoticeReturns
    <2> USE <1>10 DEF NoticeReturns
    <2>1. TypeOK'
      BY DEF TypeOK, LogInv, EndInv, Results, NoEvent
    <2>2. LogInv'
      BY DEF TypeOK, LogInv
    <2>3. CursorInv'
      BY DEF TypeOK, LogInv, CursorInv, EventInv, MayRepeat
    <2>4. EventInv'
      BY DEF TypeOK, LogInv, CursorInv, EventInv, MayRepeat
    <2>5. FeedInv'
      BY DEF TypeOK, LogInv, CursorInv, EventInv, FeedInv, DispatchedInOrderOnce, NoEventSkipped, MayRepeat
    <2>6. EndInv'
      BY DEF TypeOK, EndInv
    <2>7. ClosingInv'
      BY DEF TypeOK, ClosingInv
    <2> QED
      BY <2>1, <2>2, <2>3, <2>4, <2>5, <2>6, <2>7
  <1>11. CASE WakeUp
    <2> USE <1>11 DEF WakeUp, NextBackoff
    <2>1. TypeOK'
      <3>1. backoff_ms' \in kBackoffStartMs .. kBackoffMaxMs
        BY DEF TypeOK
      <3> QED
        BY <3>1 DEF TypeOK
    <2>2. LogInv'
      BY DEF TypeOK, LogInv
    <2>3. CursorInv'
      BY DEF TypeOK, LogInv, CursorInv, EventInv, MayRepeat
    <2>4. EventInv'
      BY DEF TypeOK, LogInv, CursorInv, EventInv, MayRepeat
    <2>5. FeedInv'
      BY DEF TypeOK, LogInv, CursorInv, EventInv, FeedInv, DispatchedInOrderOnce, NoEventSkipped, MayRepeat
    <2>6. EndInv'
      BY DEF TypeOK, EndInv
    <2>7. ClosingInv'
      BY DEF TypeOK, ClosingInv
    <2> QED
      BY <2>1, <2>2, <2>3, <2>4, <2>5, <2>6, <2>7
  <1>12. CASE Dispatch
    <2> USE <1>12 DEF Dispatch, Handed, NoEvent
    <2>a. event.at \in 1 .. MaxEvents /\ event.at >= 2
      BY DEF TypeOK, EventInv
    <2>m. \/ /\ since_time' = event.at
             /\ event.json /\ log[event.at].stamp # "none"
          \/ /\ since_time' = event.at - 1 /\ MayRepeat(event.at)
             /\ event.json /\ log[event.at].stamp # "none"
          \/ /\ since_time' = since_time /\ MayRepeat(event.at)
             /\ ~event.json \/ log[event.at].stamp = "none"
      BY CursorMoves
    <2>1. TypeOK'
      <3>1. dispatched' \in Seq(1 .. MaxEvents)
        <4>1. dispatched \in Seq(1 .. MaxEvents)
          BY DEF TypeOK
        <4>2. Append(dispatched, event.at) \in Seq(1 .. MaxEvents)
          BY <2>a, <4>1
        <4> QED
          BY <4>1, <4>2
      <3>2. since_time' \in 0 .. MaxEvents
        BY <2>a, <2>m DEF TypeOK
      <3>3. event' \in [at : 0 .. MaxEvents, json : BOOLEAN, parsed : BOOLEAN]
        OBVIOUS
      <3> QED
        BY <3>1, <3>2, <3>3 DEF TypeOK
    <2>b. \A i \in 1 .. Len(dispatched) :
             i \in 1 .. Len(dispatched') /\ dispatched'[i] = dispatched[i]
      BY <2>a DEF TypeOK
    <2>c. \A i \in 1 .. Len(dispatched') :
             \/ i \in 1 .. Len(dispatched) /\ dispatched'[i] = dispatched[i]
             \/ event.parsed /\ i = Len(dispatched) + 1
                /\ dispatched'[i] = event.at
      BY <2>a DEF TypeOK
    <2>d. event.parsed => \E i \in 1 .. Len(dispatched') : dispatched'[i] = event.at
      BY <2>a DEF TypeOK
    <2>e. Len(dispatched') <= Len(dispatched) + 1
      BY <2>a DEF TypeOK
    <2> HIDE DEF Handed
    <2>f. \A e : MayRepeat(e)' = MayRepeat(e)
      BY DEF MayRepeat
    <2>g. \A i \in 1 .. Len(dispatched) :
             \/ dispatched[i] < event.at
             \/ dispatched[i] = event.at /\ MayRepeat(event.at)
      <3>1. CASE since_time = 0
        BY <2>a, <3>1 DEF TypeOK, EventInv
      <3>2. CASE since_time > 0
        <4>1. event.at = since_time + 1
          BY <3>2 DEF EventInv
        <4> QED
          BY <3>2, <4>1 DEF TypeOK, CursorInv
      <3> QED
        BY <3>1, <3>2 DEF TypeOK
    <2>h. \A i \in 1 .. Len(dispatched') :
             \/ dispatched'[i] < event.at
             \/ dispatched'[i] = event.at /\ MayRepeat(event.at)
             \/ dispatched'[i] = event.at /\ i = Len(dispatched) + 1
      BY <2>a, <2>c, <2>g
    <2>i. \A i \in 1 .. Len(dispatched') : dispatched'[i] \in 1 .. MaxEvents
      BY <2>1 DEF TypeOK
    <2>2. LogInv'
      <3>1. since_time' <= Len(log) /\ event.at <= Len(log)
        BY <2>a, <2>m DEF TypeOK, LogInv
      <3> QED
        BY <2>c, <3>1 DEF TypeOK, LogInv
    <2>3. CursorInv'
      <3>1. CASE since_time' = event.at
        <4>1. since_time' > 0 /\ start > 0
          BY <2>a, <2>m, <3>1 DEF TypeOK, CursorInv, EventInv
        <4>2. \A i \in 1 .. Len(dispatched') : dispatched'[i] <= since_time'
          BY <2>a, <2>h, <2>i, <3>1
        <4> QED
          BY <4>1, <4>2 DEF CursorInv
      <3>2. CASE since_time' = event.at - 1 /\ MayRepeat(event.at)
        <4>1. since_time' > 0 /\ start > 0
          BY <2>a, <2>m, <3>2 DEF TypeOK, CursorInv, EventInv
        <4>2. \A i \in 1 .. Len(dispatched') :
                 \/ dispatched'[i] <= since_time'
                 \/ /\ dispatched'[i] = since_time' + 1
                    /\ MayRepeat(dispatched'[i])
          BY <2>a, <2>h, <2>i, <3>2
        <4> QED
          BY <2>f, <4>1, <4>2 DEF CursorInv
      <3>3. CASE /\ since_time' = since_time /\ MayRepeat(event.at)
                 /\ ~event.json \/ log[event.at].stamp = "none"
        <4>1. ~(start > 0 /\ since_time = 0)
          BY <3>3 DEF CursorInv
        <4>2. ASSUME since_time' > 0, NEW i \in 1 .. Len(dispatched')
              PROVE  \/ dispatched'[i] <= since_time'
                     \/ /\ dispatched'[i] = since_time' + 1
                        /\ MayRepeat(dispatched'[i])
          <5>1. event.at = since_time' + 1
            BY <3>3, <4>2 DEF EventInv
          <5> QED
            BY <2>a, <2>h, <2>i, <3>3, <5>1 DEF TypeOK
        <4>3. start' = 0 => since_time' = 0
          BY <3>3 DEF CursorInv
        <4> QED
          BY <2>f, <3>3, <4>1, <4>2, <4>3 DEF TypeOK, CursorInv
      <3> QED
        BY <2>m, <3>1, <3>2, <3>3
    <2>4. EventInv'
      BY DEF TypeOK, LogInv, CursorInv, EventInv, MayRepeat
    <2>5. FeedInv'
      <3>2. DispatchedInOrderOnce'
        <4> SUFFICES ASSUME NEW i \in 1 .. Len(dispatched'),
                            NEW j \in 1 .. Len(dispatched'), i < j
                     PROVE  \/ dispatched'[i] < dispatched'[j]
                            \/ /\ dispatched'[i] = dispatched'[j]
                               /\ MayRepeat(dispatched'[i])
          BY <2>f DEF DispatchedInOrderOnce
        <4>1. Len(dispatched) \in Nat /\ Len(dispatched') \in Nat
          BY <2>1 DEF TypeOK
        <4>2. CASE j = Len(dispatched) + 1
          <5>1. i \in 1 .. Len(dispatched) /\ dispatched'[i] = dispatched[i]
            BY <2>b, <4>1, <4>2
          <5>2. dispatched'[j] = event.at
            BY <2>c, <4>1, <4>2
          <5> QED
            BY <2>g, <5>1, <5>2
        <4>3. CASE j # Len(dispatched) + 1
          <5>1. /\ j \in 1 .. Len(dispatched) /\ i \in 1 .. Len(dispatched)
                /\ dispatched'[i] = dispatched[i]
                /\ dispatched'[j] = dispatched[j]
            BY <2>b, <2>e, <4>1, <4>3
          <5> QED
            BY <5>1 DEF FeedInv, DispatchedInOrderOnce
        <4> QED
          BY <4>2, <4>3
      <3>3. ASSUME start > 0, NEW e \in start + 1 .. since_time'
            PROVE  log[e].shape = "unknown" \/ e \in starved \/ Dispatched(e)'
        <4>1. CASE e = event.at
          BY <4>1, <2>d DEF EventInv, Dispatched
        <4>2. CASE e # event.at
          <5>1. e \in start + 1 .. since_time
            <6>1. event.at = since_time + 1 \/ since_time = 0
              BY DEF TypeOK, EventInv
            <6>2. since_time = 0 /\ since_time' # since_time
                     => start + 1 = event.at
              BY <2>m DEF EventInv
            <6>3. start \in Nat /\ since_time \in Nat /\ since_time' \in Nat
              BY <2>1 DEF TypeOK
            <6> QED
              BY <2>a, <2>m, <3>3, <4>2, <6>1, <6>2, <6>3
          <5>2. log[e].shape = "unknown" \/ e \in starved \/ Dispatched(e)
            BY <5>1, <3>3 DEF FeedInv, NoEventSkipped, Dispatched
          <5> QED
            BY <5>2, <2>b DEF Dispatched
        <4> QED
          BY <4>1, <4>2
      <3>4. NoEventSkipped'
        BY <3>3 DEF NoEventSkipped, Dispatched
      <3> QED
        BY <3>2, <3>4 DEF FeedInv
    <2>6. EndInv'
      BY DEF TypeOK, EndInv
    <2>7. ClosingInv'
      BY <2>e DEF TypeOK, ClosingInv
    <2> QED
      BY <2>1, <2>2, <2>3, <2>4, <2>5, <2>6, <2>7
  <1>13. CASE Cleanup
    <2> USE <1>13 DEF Cleanup
    <2>1. TypeOK'
      <3>1. handle' \in {"none", "live", "freed"} /\ out_handle' \in {"callers", "handle", "null"}
        OBVIOUS
      <3> QED
        BY <3>1 DEF TypeOK
    <2>2. LogInv'
      BY DEF TypeOK, LogInv
    <2>3. CursorInv'
      BY DEF TypeOK, LogInv, CursorInv, EventInv, MayRepeat
    <2>4. EventInv'
      BY DEF TypeOK, LogInv, CursorInv, EventInv, MayRepeat
    <2>5. FeedInv'
      BY DEF TypeOK, LogInv, CursorInv, EventInv, FeedInv, DispatchedInOrderOnce, NoEventSkipped, MayRepeat
    <2>6. EndInv'
      BY DEF TypeOK, EndInv
    <2>7. ClosingInv'
      BY DEF TypeOK, ClosingInv
    <2> QED
      BY <2>1, <2>2, <2>3, <2>4, <2>5, <2>6, <2>7
  <1>14. CASE CallClose
    <2> USE <1>14 DEF CallClose
    <2>1. TypeOK'
      BY DEF TypeOK, LogInv, EndInv, Results, NoEvent
    <2>2. LogInv'
      BY DEF TypeOK, LogInv
    <2>3. CursorInv'
      BY DEF TypeOK, LogInv, CursorInv, EventInv, MayRepeat
    <2>4. EventInv'
      BY DEF TypeOK, LogInv, CursorInv, EventInv, MayRepeat
    <2>5. FeedInv'
      BY DEF TypeOK, LogInv, CursorInv, EventInv, FeedInv, DispatchedInOrderOnce, NoEventSkipped, MayRepeat
    <2>6. EndInv'
      BY DEF TypeOK, EndInv
    <2>7. ClosingInv'
      BY DEF TypeOK, ClosingInv
    <2> QED
      BY <2>1, <2>2, <2>3, <2>4, <2>5, <2>6, <2>7
  <1>15. CASE audd_longpoll_close
    <2> USE <1>15 DEF audd_longpoll_close
    <2>1. TypeOK'
      <3>1. closed' \in BOOLEAN
        BY DEF TypeOK
      <3>2. Len(dispatched) \in Nat
        BY DEF TypeOK
      <3>3. at_close' \in Nat
        BY <3>2 DEF TypeOK
      <3> QED
        BY <3>1, <3>3 DEF TypeOK
    <2>2. LogInv'
      BY DEF TypeOK, LogInv
    <2>3. CursorInv'
      BY DEF TypeOK, LogInv, CursorInv, EventInv, MayRepeat
    <2>4. EventInv'
      BY DEF TypeOK, LogInv, CursorInv, EventInv, MayRepeat
    <2>5. FeedInv'
      BY DEF TypeOK, LogInv, CursorInv, EventInv, FeedInv, DispatchedInOrderOnce, NoEventSkipped, MayRepeat
    <2>6. EndInv'
      BY DEF TypeOK, EndInv
    <2>7. ClosingInv'
      <3>1. CASE handle = "live"
        BY <3>1 DEF TypeOK, ClosingInv
      <3>2. CASE handle # "live"
        BY <3>2 DEF TypeOK, ClosingInv
      <3> QED
        BY <3>1, <3>2
    <2> QED
      BY <2>1, <2>2, <2>3, <2>4, <2>5, <2>6, <2>7
  <1>16. CASE EventHappens
    <2> USE <1>16 DEF EventHappens
    <2>1. TypeOK'
      <3>1. log' \in Seq(Events) /\ Len(log') <= MaxEvents
        BY DEF TypeOK
      <3> QED
        BY <3>1 DEF TypeOK
    <2>2. LogInv'
      BY DEF TypeOK, LogInv
    <2>3. CursorInv'
      BY DEF TypeOK, LogInv, CursorInv, EventInv, MayRepeat
    <2>4. EventInv'
      BY DEF TypeOK, LogInv, CursorInv, EventInv, MayRepeat
    <2>5. FeedInv'
      <3>1. \A e \in 1 .. Len(log) : log'[e] = log[e]
        BY DEF TypeOK
      <3>2. Len(dispatched) \in Nat
            /\ \A i \in 1 .. Len(dispatched) : dispatched[i] \in 1 .. Len(log)
        BY DEF TypeOK, LogInv
      <3>3. \A e \in 1 .. Len(log) : MayRepeat(e) => MayRepeat(e)'
        BY <3>1 DEF MayRepeat
      <3>4. DispatchedInOrderOnce'
        BY <3>2, <3>3 DEF FeedInv, DispatchedInOrderOnce
      <3>5. \A e \in start + 1 .. since_time : e \in 1 .. Len(log)
        BY DEF TypeOK, LogInv
      <3>6. NoEventSkipped'
        BY <3>1, <3>5 DEF FeedInv, NoEventSkipped
      <3> QED
        BY <3>4, <3>6 DEF FeedInv
    <2>6. EndInv'
      BY DEF TypeOK, EndInv
    <2>7. ClosingInv'
      BY DEF TypeOK, ClosingInv
    <2> QED
      BY <2>1, <2>2, <2>3, <2>4, <2>5, <2>6, <2>7
  <1>17. CASE UNCHANGED vars
    BY <1>17 DEF TypeOK, LogInv, CursorInv, EventInv, FeedInv,
         DispatchedInOrderOnce, NoEventSkipped, MayRepeat, EndInv, ClosingInv
  <1> QED
    BY <1>1, <1>2, <1>3, <1>4, <1>5, <1>6, <1>7, <1>8, <1>9, <1>10, <1>11, <1>12, <1>13, <1>14, <1>15, <1>16, <1>17
       DEF Next, Run, Poll

(* The invariant holds in every behaviour.                                 *)
THEOREM Invariance == Spec => []IInv
  BY InitIInv, NextIInv, PTL DEF Spec

(* Type correctness of the run, the handle and the server's log.           *)
THEOREM TypeCorrect == Spec => []TypeOK
  <1>1. IInv => TypeOK
    BY DEF IInv
  <1> QED
    BY Invariance, <1>1, PTL

(* The callbacks see the events in the order of the log, and one of them   *)
(* twice only when memory ran out for it or its body does not give its     *)
(* time as a whole number.                                                 *)
THEOREM InOrderOnce == Spec => []DispatchedInOrderOnce
  <1>1. IInv => DispatchedInOrderOnce
    BY DEF IInv, FeedInv
  <1> QED
    BY Invariance, <1>1, PTL

(* The cursor passes no event that the callbacks should have seen.         *)
THEOREM NothingSkipped == Spec => []NoEventSkipped
  <1>1. IInv => NoEventSkipped
    BY DEF IInv, FeedInv
  <1> QED
    BY Invariance, <1>1, PTL

(* The return value, the handle and the calls of on_error agree on why the *)
(* run ended.                                                              *)
THEOREM EndExplained == Spec => []ResultExplainsEnd
  <1>1. IInv => ResultExplainsEnd
    BY DEF IInv, EndInv, ResultExplainsEnd
  <1> QED
    BY Invariance, <1>1, PTL

(* After a close at most the event of the poll in flight or just answered  *)
(* is dispatched.                                                          *)
THEOREM CloseStops == Spec => []CloseStopsDispatch
  <1>1. IInv => CloseStopsDispatch
    BY DEF IInv, ClosingInv, CloseStopsDispatch
  <1> QED
    BY Invariance, <1>1, PTL

-----------------------------------------------------------------------------
(* The backoff.                                                            *)

(* BackoffOf, which refers to itself, has the values its definition says. *)
LEMMA BackoffOfIs ==
    /\ BackoffOf[1] = kBackoffStartMs
    /\ \A n \in 1 .. kMaxConsecutiveFailures :
          BackoffOf[n + 1] = NextBackoff(BackoffOf[n])
  <1> DEFINE N == kMaxConsecutiveFailures
             WaitOf(f, i) == IF i = 1 THEN kBackoffStartMs
                             ELSE NextBackoff(f[i - 1])
             Fits(f) == f = [i \in 1 .. N + 1 |-> WaitOf(f, i)]
             step == [x \in (1 .. N) \X Nat |-> NextBackoff(x[2])]
  <1>1. \E f : Fits(f)
    <2>1. step \in [(1 .. N) \X Nat -> Nat]
      BY DEF NextBackoff
    <2>2. \A i \in 1 .. N, v \in Nat : step[<<i, v>>] = NextBackoff(v)
      OBVIOUS
    <2> HIDE DEF step
    <2>3. PICK f \in [0 .. N -> Nat] :
             /\ f[0] = kBackoffStartMs
             /\ \A i \in 1 .. N : f[i] = step[<<i, f[i - 1]>>]
      <3>1. kBackoffStartMs \in Nat /\ N \in Nat
        OBVIOUS
      <3> HIDE DEF N
      <3>2. Iterable(N, Nat, kBackoffStartMs, step)
        BY ONLY <2>1, <3>1, Iterates
      <3> QED
        BY <3>2 DEF Iterable
    <2> DEFINE g == [i \in 1 .. N + 1 |-> f[i - 1]]
    <2>4. ASSUME NEW i \in 1 .. N + 1 PROVE g[i] = WaitOf(g, i)
      <3>1. CASE i = 1
        BY <2>3, <3>1
      <3>2. CASE i \in 2 .. N + 1
        <4>1. f[i - 1] = NextBackoff(f[i - 2])
          <5>1. i - 1 \in 1 .. N /\ (i - 1) - 1 = i - 2 /\ i - 2 \in 0 .. N
            BY <3>2
          <5>2. f[i - 2] \in Nat /\ f[i - 1] = step[<<i - 1, f[i - 2]>>]
            BY <2>3, <5>1
          <5> QED
            BY <2>2, <5>1, <5>2
        <4>2. g[i] = f[i - 1] /\ g[i - 1] = f[i - 2]
          BY <3>2
        <4> HIDE DEF g
        <4> QED
          BY <3>2, <4>1, <4>2
      <3> QED
        BY <3>1, <3>2
    <2>5. g = [i \in 1 .. N + 1 |-> WaitOf(g, i)]
      BY <2>4
    <2> HIDE DEF g
    <2> QED
      BY <2>5
  <1>2. BackoffOf = CHOOSE f : Fits(f)
    BY DEF BackoffOf, NextBackoff
  <1>3. Fits(BackoffOf)
    BY <1>1, <1>2
  <1> QED
    BY <1>3

(* The streak and its wait while the run polls; a poll that is not         *)
(* answered is what it waits for.                                          *)
StreakInv ==
    /\ pc \in {"preflight", "alloc", "alloc_url", "dispatch"} =>
          consecutive_failures = 0 /\ backoff_ms = kBackoffStartMs
    /\ pc \in {"notice", "sleep"} => consecutive_failures >= 1
    /\ BackoffFitsStreak

(* Failures and backoff go together in every step.                         *)
LEMMA StreakKept == IInv /\ StreakInv /\ [Next]_vars => StreakInv'
  <1> SUFFICES ASSUME IInv, StreakInv, [Next]_vars PROVE StreakInv'
    OBVIOUS
  <1>1. /\ consecutive_failures \in 0 .. kMaxConsecutiveFailures + 1
        /\ pc \in {"top", "polling", "notice", "sleep"} =>
              consecutive_failures <= kMaxConsecutiveFailures
    BY DEF IInv, TypeOK, EndInv
  <1> USE BackoffOfIs DEF StreakInv, BackoffFitsStreak
  <1>2. CASE Preflight \/ AllocHandle \/ AllocUrl
    BY <1>2 DEF Preflight, AllocHandle, AllocUrl
  <1>3. CASE LoopTop
    BY <1>3 DEF LoopTop, runVars
  <1>4. CASE PollTerminal
    BY <1>4 DEF PollTerminal
  <1>5. CASE PollFails
    BY <1>1, <1>5 DEF PollFails
  <1>6. CASE PollKeepalive \/ PollApiError
    BY <1>6 DEF PollKeepalive, PollApiError, ResetFailures
  <1>7. CASE PollEvent
    BY <1>7 DEF PollEvent, ResetFailures
  <1>8. CASE NoticeReturns
    BY <1>1, <1>8 DEF NoticeReturns, runVars
  <1>9. CASE WakeUp
    BY <1>1, <1>9 DEF WakeUp
  <1>10. CASE Dispatch
    BY <1>10 DEF Dispatch
  <1>11. CASE Cleanup
    BY <1>11 DEF Cleanup
  <1>12. CASE CallClose \/ audd_longpoll_close \/ EventHappens
              \/ UNCHANGED vars
    BY <1>12 DEF CallClose, audd_longpoll_close, EventHappens, runVars, vars
  <1> QED
    BY <1>2, <1>3, <1>4, <1>5, <1>6, <1>7, <1>8, <1>9, <1>10, <1>11, <1>12
       DEF Next, Run, Poll

(* The wait before a reconnect is what the length of the streak says, for  *)
(* any number of failures and any first and longest wait.                  *)
THEOREM BackoffIsRight == Spec => []BackoffFitsStreak
  <1>1. Init => StreakInv
    BY BackoffOfIs DEF Init, StreakInv, BackoffFitsStreak
  <1>2. StreakInv => BackoffFitsStreak
    BY DEF StreakInv
  <1> QED
    BY <1>1, <1>2, Invariance, StreakKept, PTL DEF Spec

-----------------------------------------------------------------------------
(* The refinement.                                                         *)

(* What a poll finds, and what is dispatched, is what the feed has due.    *)
LEMMA PendingIsDue ==
    ASSUME IInv, pc = "polling", Pending
    PROVE  Feed!Due(NextEvent)
  BY DEF IInv, TypeOK, LogInv, CursorInv, Pending, NextEvent, Feed!Due

(* The event in hand is the one the feed has due.                            *)
LEMMA EventIsDue ==
    ASSUME IInv, pc = "dispatch"
    PROVE  Feed!Due(event.at)
  BY DEF IInv, TypeOK, LogInv, EventInv, Feed!Due

(* Every step is a step of the feed or leaves it alone.                    *)
LEMMA StepIsFed == IInv /\ [Next]_vars => [Feed!Next]_(Feed!vars)
  <1> SUFFICES ASSUME IInv, [Next]_vars
               PROVE  Feed!Next \/ UNCHANGED Feed!vars
    OBVIOUS
  <1> USE DEF vars, runVars, handleVars, serverVars, Feed!vars
  <1>1. CASE \/ LoopTop \/ PollTerminal \/ PollFails \/ PollApiError
             \/ NoticeReturns \/ WakeUp
    <2>1. UNCHANGED <<log, since_time, dispatched, starved>>
      BY <1>1 DEF LoopTop, PollTerminal, PollFails, PollApiError,
                  NoticeReturns, WakeUp
    <2>2. pc # "returned" /\ pc' # "returned"
      BY <1>1 DEF LoopTop, PollTerminal, PollFails, PollApiError,
                  NoticeReturns, WakeUp
    <2> QED
      BY <2>1, <2>2
  <1>2. CASE Preflight \/ AllocHandle \/ AllocUrl \/ Cleanup
    <2>1. UNCHANGED <<log, since_time, dispatched, starved>>
      BY <1>2 DEF Preflight, AllocHandle, AllocUrl, Cleanup
    <2>2. pc # "returned"
      BY <1>2 DEF Preflight, AllocHandle, AllocUrl, Cleanup
    <2>3. CASE pc' = "returned"
      BY <2>1, <2>3 DEF Feed!Next, Feed!End
    <2>4. CASE pc' # "returned"
      BY <2>1, <2>2, <2>4
    <2> QED
      BY <2>3, <2>4
  <1>3. CASE PollKeepalive
    <2>1. UNCHANGED <<log, dispatched, starved>>
          /\ pc # "returned" /\ pc' # "returned"
      BY <1>3 DEF PollKeepalive
    <2>2. CASE since_time' = since_time
      BY <2>1, <2>2
    <2>3. CASE since_time' # since_time
      <3>1. since_time' = Len(log) /\ ~Pending
        BY <1>3, <2>3 DEF PollKeepalive
      <3>2. since_time = 0
        BY <2>3, <3>1 DEF IInv, TypeOK, LogInv, Pending, NextEvent
      <3> QED
        BY <2>1, <3>1, <3>2 DEF Feed!Next, Feed!Begin
    <2> QED
      BY <2>2, <2>3
  <1>4. CASE PollEvent
    <2>1. UNCHANGED <<log, since_time, dispatched>> /\ Pending
          /\ pc = "polling" /\ pc' = "dispatch"
      BY <1>4 DEF PollEvent
    <2>2. starved' = starved \/ starved' = starved \cup {NextEvent}
      BY <1>4 DEF PollEvent
    <2>3. Feed!Due(NextEvent)
      BY <2>1, PendingIsDue
    <2>4. CASE starved' = starved
      BY <2>1, <2>4
    <2>5. CASE starved' = starved \cup {NextEvent}
      <3>1. Feed!Starve(NextEvent)
        BY <2>1, <2>3, <2>5 DEF Feed!Starve
      <3>2. NextEvent \in 1 .. Len(log)
        BY <2>3 DEF Feed!Due
      <3> QED
        BY <3>1, <3>2 DEF Feed!Next
    <2> QED
      BY <2>2, <2>4, <2>5
  <1>5. CASE Dispatch
    <2>1. /\ UNCHANGED <<log, starved>>
          /\ pc = "dispatch" /\ pc' = "top"
          /\ dispatched' = Handed /\ since_time' = NextCursor
      BY <1>5 DEF Dispatch
    <2>2. Feed!Due(event.at) /\ event.at \in 1 .. Len(log)
      BY <2>1, EventIsDue DEF Feed!Due
    <2>d. Feed!Deal(event.at)
      BY <2>1, CursorMoves DEF Feed!Deal, Feed!MayRepeat, MayRepeat
    <2>3. CASE event.parsed
      <3>1. dispatched' = Append(dispatched, event.at)
            /\ log[event.at].shape = "known"
        BY <2>1, <2>3 DEF IInv, EventInv, Handed
      <3>2. Feed!Deliver(event.at)
        BY <2>1, <2>2, <2>d, <3>1 DEF Feed!Deliver
      <3> QED
        BY <2>2, <3>2 DEF Feed!Next
    <2>4. CASE ~event.parsed
      <3>1. /\ dispatched' = dispatched
            /\ log[event.at].shape = "unknown" \/ event.at \in starved
        BY <2>1, <2>4 DEF IInv, EventInv, Handed
      <3>2. Feed!PassOver(event.at)
        BY <2>1, <2>2, <2>d, <3>1 DEF Feed!PassOver
      <3> QED
        BY <2>2, <3>2 DEF Feed!Next
    <2> QED
      BY <2>3, <2>4
  <1>6. CASE CallClose \/ audd_longpoll_close \/ UNCHANGED vars
    BY <1>6 DEF CallClose, audd_longpoll_close
  <1>7. CASE EventHappens
    BY <1>7 DEF EventHappens, Feed!Next, Feed!Publish
  <1> QED
    BY <1>1, <1>2, <1>3, <1>4, <1>5, <1>6, <1>7 DEF Next, Run, Poll

(* Longpoll implements the abstract Subscription.                          *)
THEOREM ServesFeed == Spec => FeedServed
  <1>1. Init => Feed!Init
    BY DEF Init, Feed!Init, Events
  <1> QED
    BY <1>1, Invariance, StepIsFed, PTL DEF Spec, FeedServed, Feed!Spec

=============================================================================
