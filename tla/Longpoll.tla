------------------------------ MODULE Longpoll ------------------------------
(***************************************************************************)
(* audd_longpoll_run (src/src/audd_longpoll.c): one subscription, the      *)
(* server it polls, and a thread that closes it.                           *)
(*                                                                         *)
(* The server keeps a log of events, and time is the place in the log.  A  *)
(* poll with since_time > 0 is answered with the next event after it, a    *)
(* poll without one ("start from now") with the next event after the poll  *)
(* arrived; a poll that finds nothing ends in a keepalive.  An event's     *)
(* body may give its time as a whole number, as a fraction, or not at all. *)
(* The server and libcurl are external.  client->closed is left out: only  *)
(* audd_client_free sets it, which must not overlap a running call.        *)
(***************************************************************************)
EXTENDS Integers, Sequences, FiniteSets

CONSTANTS
    kMaxConsecutiveFailures,
    kBackoffStartMs,
    kBackoffMaxMs,
    MaxEvents,    \* bound: events in the log
    MaxStarved,   \* bound: events whose handling runs out of memory
    MaxRepeats    \* bound: answers with an event that was dispatched before

ASSUME BackoffAssumption ==
    /\ kBackoffStartMs \in Nat \ {0}
    /\ kBackoffMaxMs \in Nat
    /\ kBackoffStartMs <= kBackoffMaxMs
ASSUME FailuresAssumption == kMaxConsecutiveFailures \in Nat \ {0}
ASSUME BoundsAssumption ==
    MaxEvents \in Nat \ {0} /\ MaxStarved \in Nat /\ MaxRepeats \in Nat

(* What the server logs: an event audd_parse_callback knows (a match or a  *)
(* notification) or anything else; and what the body's "timestamp" is: the *)
(* event's time, half a unit before it, or no number.                      *)
Events == [shape : {"known", "unknown"},
           stamp : {"whole", "fraction", "none"}]

VARIABLES
    pc,                    \* where audd_longpoll_run is
    since_time,            \* the cursor; 0 is "from now"
    consecutive_failures,
    backoff_ms,
    event,                 \* the event in resp, with what became of it
    result_err,            \* what the run returns
    handle,                \* the handle: "none", "live" or "freed"
    closed,                \* handle->closed
    out_handle,            \* *out_handle: as the "callers" left it, the
                           \* "handle", or "null"
    closer                 \* another thread calling audd_longpoll_close

VARIABLES                  \* external and history
    log,                   \* the events of the category
    poll_from,             \* length of the log when the poll arrived
    api_error,             \* an API error body has been received
    dispatched,            \* events handed to on_match or on_notification
    on_errors,             \* kinds of on_error calls made so far
    ended_by,              \* the answer that ended the run
    starved,               \* events whose handling ran out of memory
    start,                 \* where the first cursor began; 0: no cursor yet
    at_close               \* events dispatched when closed was set

runVars == <<since_time, consecutive_failures, backoff_ms, event, result_err>>
handleVars == <<handle, closed, out_handle>>
serverVars == <<log, poll_from, api_error>>
vars == <<pc, runVars, handleVars, closer, serverVars, dispatched, on_errors,
          ended_by, starved, start, at_close>>

NoEvent == [at |-> 0, json |-> TRUE, parsed |-> TRUE]

Results == {"OK", "SERVER", "CONNECTION", "OUT_OF_MEMORY", "PREFLIGHT"}

(* audd_longpoll_classify_http: rc is what audd_http_get returned.         *)
audd_longpoll_classify_http(rc, status) ==
    IF rc # 0 \/ status \in {408, 429} \/ status >= 500 THEN "RETRY"
    ELSE IF status >= 400 THEN "TERMINAL" ELSE "OK"

(* How a poll can come back, as far as its body does not matter.           *)
NoAnswer == <<-1, 0>>
Answers == {NoAnswer} \cup {<<0, s>> : s \in {200, 401, 408, 429, 503}}

Verdict(a) == audd_longpoll_classify_http(a[1], a[2])

TypeOK ==
    /\ pc \in {"preflight", "alloc", "alloc_url", "top", "polling", "notice",
               "sleep", "dispatch", "exit", "returned"}
    /\ since_time \in 0 .. MaxEvents
    /\ consecutive_failures \in 0 .. kMaxConsecutiveFailures + 1
    /\ backoff_ms \in kBackoffStartMs .. kBackoffMaxMs
    /\ event \in [at : 0 .. MaxEvents, json : BOOLEAN, parsed : BOOLEAN]
    /\ result_err \in Results
    /\ handle \in {"none", "live", "freed"}
    /\ closed \in BOOLEAN
    /\ out_handle \in {"callers", "handle", "null"}
    /\ closer \in {"idle", "closing", "done", "dangling"}
    /\ log \in Seq(Events) /\ Len(log) <= MaxEvents
    /\ poll_from \in 0 .. MaxEvents
    /\ api_error \in BOOLEAN
    /\ dispatched \in Seq(1 .. MaxEvents)
    /\ on_errors \subseteq {"notice", "terminal"}
    /\ ended_by \in Answers
    /\ starved \subseteq 1 .. MaxEvents
    /\ start \in 0 .. MaxEvents
    /\ at_close \in Nat

(* One event is already in the past; the caller resumes after it, or from  *)
(* now; the preflight may be skipped (skip_callback_check).                *)
Init ==
    /\ pc \in {"preflight", "alloc"}
    /\ since_time \in {0, 1}
    /\ consecutive_failures = 0
    /\ backoff_ms = kBackoffStartMs
    /\ event = NoEvent
    /\ result_err = "OK"
    /\ handle = "none"
    /\ closed = FALSE
    /\ out_handle = "callers"
    /\ closer = "idle"
    /\ log = <<[shape |-> "known", stamp |-> "whole"]>>
    /\ poll_from = 0
    /\ api_error = FALSE
    /\ dispatched = <<>>
    /\ on_errors = {}
    /\ ended_by = <<0, 200>>
    /\ starved = {}
    /\ start = since_time
    /\ at_close = 0

-----------------------------------------------------------------------------
(* Before the loop.                                                        *)

(* preflight_callback_url: success, or on_error and out; *out_handle stays *)
(* as it is.                                                               *)
Preflight ==
    /\ pc = "preflight"
    /\ \/ pc' = "alloc" /\ UNCHANGED <<result_err, on_errors>>
       \/ /\ pc' = "returned"
          /\ result_err' = "PREFLIGHT"
          /\ on_errors' = on_errors \cup {"terminal"}
    /\ UNCHANGED <<since_time, consecutive_failures, backoff_ms, event,
                   handleVars, closer, serverVars, dispatched,
                   start, at_close, ended_by, starved>>

(* The handle is allocated and published before the first poll; without    *)
(* memory *out_handle stays as it is.                                      *)
AllocHandle ==
    /\ pc = "alloc"
    /\ \/ /\ handle' = "live"
          /\ out_handle' = "handle"
          /\ pc' = "alloc_url"
          /\ UNCHANGED result_err
       \/ /\ result_err' = "OUT_OF_MEMORY"
          /\ pc' = "returned"
          /\ UNCHANGED <<handle, out_handle>>
    /\ UNCHANGED <<since_time, consecutive_failures, backoff_ms, event, closed,
                   closer, serverVars, dispatched, on_errors,
                   start, at_close, ended_by, starved>>

(* The URL; without memory the handle is taken back.                       *)
AllocUrl ==
    /\ pc = "alloc_url"
    /\ \/ pc' = "top" /\ UNCHANGED <<handle, out_handle, result_err>>
       \/ /\ handle' = "freed"
          /\ out_handle' = "null"
          /\ result_err' = "OUT_OF_MEMORY"
          /\ pc' = "returned"
    /\ UNCHANGED <<since_time, consecutive_failures, backoff_ms, event, closed,
                   closer, serverVars, dispatched, on_errors,
                   start, at_close, ended_by, starved>>

-----------------------------------------------------------------------------
(* The loop.                                                               *)

(* Mutant: the loop does not look at handle->closed.                       *)
LoopForever ==
    /\ pc = "top"
    /\ pc' = "polling"
    /\ poll_from' = Len(log)
    /\ UNCHANGED <<runVars, handleVars, closer, log, api_error, dispatched,
                   on_errors, start, at_close, ended_by, starved>>

(* while (!handle->closed && ...): leave, or send the next poll.           *)
LoopTop ==
    /\ pc = "top"
    /\ pc' = IF closed THEN "exit" ELSE "polling"
    /\ poll_from' = Len(log)
    /\ UNCHANGED <<runVars, handleVars, closer, log, api_error,
                   dispatched, on_errors, start, at_close, ended_by, starved>>

(* The poll is answered with an HTTP error other than 408, 429 and 5xx:    *)
(* AUDD_LONGPOLL_TERMINAL.                                                 *)
PollTerminal ==
    /\ pc = "polling"
    /\ \E a \in Answers : Verdict(a) = "TERMINAL" /\ ended_by' = a
    /\ result_err' = "SERVER"
    /\ on_errors' = on_errors \cup {"terminal"}
    /\ pc' = "exit"
    /\ UNCHANGED <<since_time, consecutive_failures, backoff_ms, event,
                   handleVars, closer, serverVars, dispatched,
                   start, at_close, starved>>

(* Mutant: giving up leaves result_err at AUDD_OK.                         *)
PollGivesUpQuietly ==
    /\ pc = "polling"
    /\ consecutive_failures' = consecutive_failures + 1
    /\ on_errors' = on_errors \cup {"notice"}
    /\ pc' = IF consecutive_failures' > kMaxConsecutiveFailures
             THEN "exit" ELSE "notice"
    /\ UNCHANGED <<since_time, backoff_ms, event, result_err, handleVars,
                   closer, serverVars, dispatched, ended_by, start,
                   at_close, starved>>

(* No answer, or 408, 429, 5xx: AUDD_LONGPOLL_RETRY.  One failure too many *)
(* in a row ends the run, otherwise on_error gets a notice.                *)
PollFails ==
    /\ pc = "polling"
    /\ \E a \in Answers :
          /\ Verdict(a) = "RETRY"
          /\ ended_by' = IF consecutive_failures = kMaxConsecutiveFailures
                         THEN a ELSE ended_by
    /\ consecutive_failures' = consecutive_failures + 1
    /\ IF consecutive_failures' > kMaxConsecutiveFailures
       THEN /\ pc' = "exit"
            /\ result_err' = "CONNECTION"
            /\ on_errors' = on_errors \cup {"terminal"}
       ELSE /\ pc' = "notice"
            /\ on_errors' = on_errors \cup {"notice"}
            /\ UNCHANGED result_err
    /\ UNCHANGED <<since_time, backoff_ms, event, handleVars, closer,
                   serverVars, dispatched, start, at_close, starved>>

(* on_error has returned; a close that came meanwhile is seen at once.     *)
NoticeReturns ==
    /\ pc = "notice"
    /\ pc' = IF closed THEN "exit" ELSE "sleep"
    /\ UNCHANGED <<runVars, handleVars, closer, serverVars, dispatched,
                   on_errors, start, at_close, ended_by, starved>>

(* Mutant: the doubling is not capped.                                     *)
DoubledBackoff(ms) == ms * 2

NextBackoff(ms) == IF ms < kBackoffMaxMs \div 2 THEN ms * 2 ELSE kBackoffMaxMs

WakeUp ==
    /\ pc = "sleep"
    /\ backoff_ms' = NextBackoff(backoff_ms)
    /\ pc' = "top"
    /\ UNCHANGED <<since_time, consecutive_failures, event, result_err,
                   handleVars, closer, serverVars, dispatched, on_errors,
                   start, at_close, ended_by, starved>>

(* Mutant: the streak ends but the backoff stays.                          *)
ResetStreakOnly ==
    /\ consecutive_failures' = 0
    /\ UNCHANGED backoff_ms

(* A usable answer ends the streak of failures.                            *)
ResetFailures ==
    /\ consecutive_failures' = 0
    /\ backoff_ms' = kBackoffStartMs

(* The next event for this poll is in the log.                             *)
NextEvent == IF since_time > 0 THEN since_time + 1 ELSE poll_from + 1
Pending == NextEvent <= Len(log)

(* Nothing happened while the server held the poll: an empty body, or a    *)
(* keepalive whose timestamp is the new cursor.                            *)
PollKeepalive ==
    /\ pc = "polling"
    /\ ~Pending
    /\ ResetFailures
    /\ \/ UNCHANGED <<since_time, start>>
       \/ /\ since_time' = Len(log)
          /\ start' = IF start = 0 THEN Len(log) ELSE start
    /\ pc' = "top"
    /\ UNCHANGED <<event, result_err, handleVars, closer, log, poll_from,
                   api_error, dispatched, on_errors, at_close, ended_by,
                   starved>>

(* HTTP 200 with {"status": "error", ...}: audd_parse_callback does not    *)
(* know the body, the cursor stays, polling goes on.                       *)
PollApiError ==
    /\ pc = "polling"
    /\ api_error' = TRUE
    /\ ResetFailures
    /\ pc' = "top"
    /\ UNCHANGED <<since_time, event, result_err, handleVars, closer, log,
                   poll_from, dispatched, on_errors,
                   start, at_close, ended_by, starved>>

(* What MaxRepeats bounds: dispatches of an event already dispatched.      *)
Repeats == Len(dispatched)
           - Cardinality({dispatched[i] : i \in 1 .. Len(dispatched)})

(* The body of an event: cJSON keeps it for the cursor (json) and          *)
(* audd_parse_callback makes an event of it (parsed); either can run out   *)
(* of memory, and nothing parses an unknown shape.                         *)
PollEvent ==
    /\ pc = "polling"
    /\ Pending
    /\ Repeats < MaxRepeats
       \/ \A i \in 1 .. Len(dispatched) : dispatched[i] # NextEvent
    /\ ResetFailures
    /\ \E json, memory \in BOOLEAN :
          /\ (json /\ memory) \/ Cardinality(starved) < MaxStarved
          /\ event' = [at |-> NextEvent, json |-> json,
                       parsed |-> memory /\ log[NextEvent].shape = "known"]
          /\ starved' = IF json /\ memory THEN starved
                                          ELSE starved \cup {NextEvent}
    /\ start' = IF start = 0 /\ event'.json /\ log[NextEvent].stamp # "none"
                THEN NextEvent - 1 ELSE start
    /\ pc' = "dispatch"
    /\ UNCHANGED <<since_time, result_err, handleVars, closer, serverVars,
                   dispatched, on_errors, at_close, ended_by>>

(* Mutants: the cursor stays behind, or goes on to the newest event.       *)
CursorStays == since_time
CursorAtNewest == Len(log)

(* The cursor for the next poll: the timestamp of the body, cut to a whole *)
(* number, if the body could be kept and its timestamp is a number.        *)
NextCursor ==
    CASE ~event.json \/ log[event.at].stamp = "none" -> since_time
      [] event.json /\ log[event.at].stamp = "fraction" -> event.at - 1
      [] event.json /\ log[event.at].stamp = "whole" -> event.at

(* Mutant: a closed run drops the event it has.                            *)
HandedUnlessClosed ==
    IF event.parsed /\ ~closed THEN Append(dispatched, event.at)
                               ELSE dispatched

(* What was not parsed is skipped, the rest is handed to its callback.     *)
Handed == IF event.parsed THEN Append(dispatched, event.at) ELSE dispatched

Dispatch ==
    /\ pc = "dispatch"
    /\ dispatched' = Handed
    /\ since_time' = NextCursor
    /\ event' = NoEvent
    /\ pc' = "top"
    /\ UNCHANGED <<consecutive_failures, backoff_ms, result_err, handleVars,
                   closer, serverVars, on_errors, start, at_close, ended_by,
                   starved>>

(* After the loop: the handle is freed, then *out_handle cleared.          *)
Cleanup ==
    /\ pc = "exit"
    /\ handle' = "freed"
    /\ out_handle' = "null"
    /\ pc' = "returned"
    /\ UNCHANGED <<runVars, closed, closer, serverVars, dispatched, on_errors,
                   start, at_close, ended_by, starved>>

-----------------------------------------------------------------------------
(* The other thread.  It has taken the handle the run published, and calls *)
(* before the run has returned ...                                         *)
CallClose ==
    /\ closer = "idle"
    /\ out_handle = "handle"
    /\ closer' = "closing"
    /\ UNCHANGED <<pc, runVars, handleVars, serverVars, dispatched, on_errors,
                   start, at_close, ended_by, starved>>

(* ... and audd_longpoll_close writes through it, even when the run has    *)
(* freed it in between.                                                    *)
audd_longpoll_close ==
    /\ closer = "closing"
    /\ IF handle = "live"
       THEN closer' = "done" /\ closed' = TRUE /\ at_close' = Len(dispatched)
       ELSE closer' = "dangling" /\ UNCHANGED <<closed, at_close>>
    /\ UNCHANGED <<pc, runVars, handle, out_handle, serverVars, dispatched,
                   on_errors, start, ended_by, starved>>

(* The server logs an event.                                               *)
EventHappens ==
    /\ Len(log) < MaxEvents
    /\ pc # "returned"
    /\ \E e \in Events : log' = Append(log, e)
    /\ UNCHANGED <<pc, runVars, handleVars, closer, poll_from, api_error,
                   dispatched, on_errors, start, at_close, ended_by, starved>>

-----------------------------------------------------------------------------
Poll ==
    \/ PollTerminal \/ PollFails \/ PollKeepalive \/ PollApiError \/ PollEvent

Run ==
    \/ Preflight \/ AllocHandle \/ AllocUrl
    \/ LoopTop \/ Poll \/ NoticeReturns \/ WakeUp \/ Dispatch \/ Cleanup

Next ==
    \/ Run
    \/ CallClose \/ audd_longpoll_close
    \/ EventHappens
    \/ pc = "returned" /\ UNCHANGED vars

Spec == Init /\ [][Next]_vars

(* The subscription's thread runs; every poll is answered or times out     *)
(* (CURLOPT_TIMEOUT is poll_timeout), the callbacks return, and a call of  *)
(* audd_longpoll_close, once made, writes its flag.                        *)
FairSpec == Spec /\ WF_vars(Run) /\ WF_vars(audd_longpoll_close)

(* And a server that is polled again and again with an event pending       *)
(* delivers it in the end.                                                 *)
FairServerSpec == FairSpec /\ SF_vars(PollEvent)

-----------------------------------------------------------------------------
(* Properties.                                                             *)

(* Events the cursor may not get past: memory ran out, or the body does    *)
(* not say as a whole number when the event was.                           *)
MayRepeat(e) == e \in starved \/ log[e].stamp # "whole"

(* on_match and on_notification see the events in the order the server     *)
(* logged them across failed polls and reconnects, and none of them twice  *)
(* unless memory ran out when the event arrived or its body had no whole   *)
(* timestamp for the cursor.                                               *)
DispatchedInOrderOnce ==
    \A i, j \in 1 .. Len(dispatched) :
        i < j => \/ dispatched[i] < dispatched[j]
                 \/ dispatched[i] = dispatched[j] /\ MayRepeat(dispatched[i])

(* The cursor never passes an event the callbacks should have seen: from   *)
(* where the first cursor began, all recognisable events up to since_time  *)
(* have been dispatched, or there was no memory to parse them.             *)
NoEventSkipped ==
    start > 0 =>
        \A e \in start + 1 .. since_time :
            \/ log[e].shape = "unknown" \/ e \in starved
            \/ \E i \in 1 .. Len(dispatched) : dispatched[i] = e

(* Each reconnect of a streak waits twice as long as the one before, up to *)
(* the cap, and a streak after a usable answer starts over: the wait is a  *)
(* function of the failures in the streak alone.                           *)
BackoffOf[n \in 1 .. kMaxConsecutiveFailures + 1] ==
    IF n = 1 THEN kBackoffStartMs
    ELSE IF BackoffOf[n - 1] < kBackoffMaxMs \div 2 THEN BackoffOf[n - 1] * 2
    ELSE kBackoffMaxMs

BackoffFitsStreak ==
    CASE pc \in {"notice", "sleep"} ->
            backoff_ms = BackoffOf[consecutive_failures]
      [] pc \in {"top", "polling"} ->
            backoff_ms = BackoffOf[consecutive_failures + 1]
      [] OTHER -> TRUE

(* The return value tells why the run ended: AUDD_OK only after a close,   *)
(* AUDD_ERR_SERVER only after an answer that asking again cannot mend, and *)
(* AUDD_ERR_CONNECTION never before a full streak of failures (audd.h,     *)
(* lines 672 and 676, would not have it at all); on_error has heard of     *)
(* every end that is neither a close nor out of memory; and however the    *)
(* run ends, no handle stays allocated, nor does *out_handle point to one  *)
(* that was freed.                                                         *)
ResultExplainsEnd ==
    pc = "returned" =>
        /\ handle # "live" /\ out_handle # "handle"
        /\ result_err = "OK" => closed
        /\ result_err = "SERVER" =>
              ended_by[1] = 0 /\ ended_by[2] \in 400 .. 499 \ {408, 429}
        /\ result_err = "CONNECTION" =>
              consecutive_failures = kMaxConsecutiveFailures + 1
        /\ result_err \in {"SERVER", "CONNECTION", "PREFLIGHT"} <=>
              "terminal" \in on_errors

(* After audd_longpoll_close has written its flag, at most one more event  *)
(* reaches a callback: that of the poll in flight or just answered, since  *)
(* the run looks at the flag only before a poll and after a failed one.    *)
CloseStopsDispatch == closed => Len(dispatched) <= at_close + 1

(* A closed subscription returns, whatever the network does.               *)
CloseEndsRun == closed ~> pc = "returned"

(* An event after the start of the subscription reaches its callback, or   *)
(* the run ends, or memory ran out for it, or the cursor is held up at an  *)
(* event before it: failed polls only delay it.                            *)
EventsArrive ==
    \A e \in 1 .. MaxEvents :
        (start > 0 /\ start < e /\ e <= Len(log) /\ log[e].shape = "known")
            ~> \/ pc = "returned" \/ e \in starved
               \/ \E s \in start + 1 .. Len(log) : s < e /\ MayRepeat(s)
               \/ \E i \in 1 .. Len(dispatched) : dispatched[i] = e

(* The run implements Subscription: whatever polls fail, and whenever the  *)
(* server speaks, the application sees the feed.                           *)
Feed == INSTANCE Subscription
            WITH delivered <- dispatched, seen <- since_time,
                 ended <- pc = "returned"

FeedServed == Feed!Spec

-----------------------------------------------------------------------------
(* What include/audd.h says and the code does not do.                      *)

(* "Only authentication/API errors and audd_longpoll_close are terminal":  *)
(* an API error is.                                                        *)
ApiErrorIsTerminal == api_error => pc # "polling"

(* "fired once per recognition event": an event whose body has no whole    *)
(* number as its timestamp is served and fired again.                      *)
FiredOncePerEvent ==
    \A i, j \in 1 .. Len(dispatched) : i # j => dispatched[i] # dispatched[j]

(* "It's safe to close from any thread": a close that was called while the *)
(* run was active can write to the handle after the run has freed it.      *)
CloseIsSafe == closer # "dangling"
=============================================================================
