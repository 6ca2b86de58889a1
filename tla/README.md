# Verification of audd-c

TLA+ models, TLC runs and TLAPS proofs for the AudD SDK for C (`src/`).
Paths below are relative to the repository, `src/src/` being its library
directory.

## 1. Inventory

| Component | State it keeps | Operations | What must be right |
|---|---|---|---|
| HTTP transport and retry runner (`audd_http.c`) | loop counter, the response of the current attempt, the curl handle | `audd_http_post`, `audd_http_get`, `audd_retry_do`, `should_retry`, `audd_failure_is_pre_upload` | metered or mutating work is never repeated by a retry; the response of the last attempt is returned; every body is freed once |
| Client object (`audd_client.c`, `audd_error.c`) | `api_token`, `last_error_message`, `last_error_code`, `last_request_id` under one mutex; options fixed at creation | new, free, set/copy token, set/clear error, set request id, getters | one owner per string under every interleaving and every failed allocation; token snapshot; message and code stay a pair |
| Decoding (`audd_json.c`, `audd_error.c`) | none | `maybe_warn_and_strip`, `audd_decode_or_raise`, `audd_decode_top_level`, sentinel table, coercing getters | error codes map to the documented category; the deprecation warning passes only with a result |
| Recognition (`audd_recognition.c`) | the result object; lazy caches in it | recognize, `_bytes`, enterprise variants; request fields; parsers; extras | typed parameters win over extras; the field list fits; error state and out value after every path |
| Streams (`audd_streams.c`) | none | set/get callback URL, add, set URL, delete, list, derive category | retry class per call; error state; out value |
| Custom catalog, advanced (`audd_custom_catalog.c`, `audd_advanced.c`) | none | add, add_bytes; find_lyrics, raw_request | the upload is attempted once; 904/905 are explained |
| Longpoll (`audd_longpoll.c`) | cursor, failure streak, backoff, handle | run, run_by_radio_id, close | every event in order, none passed over, again only where the cursor cannot move; backoff; termination; handle lifetime |
| Callback parser (`audd_callback.c`) | none | parse, free | all or nothing under failing allocations |
| Enterprise results (`audd_enterprise.c`) | the result list | flatten chunks, offsets, lazy strings | offsets; bounds of the flattened list |
| URL helpers, allocator, MD5 (`audd_url.c`, `audd_alloc.c`, `audd_md5.c`) | the allocator hooks | classify, encode, append; malloc/realloc emulation; digest | realloc semantics; duplicate `return` parameter |
| Vendored cJSON, tests, examples | | | not part of the library's own logic |

How they interact: a public call checks its arguments, builds a field list and
calls `audd_retry_do` with an attempt function and a retry class; the attempt
calls `audd_http_post`, which snapshots the token from the client, lets libcurl
run and fills the caller's `audd_http_response_t`; the call decodes the response
into the client's error state and builds its out value. `audd_longpoll_run`
calls `audd_streams_get_callback_url` once and then `audd_http_get` in a loop,
hands events to the application's callbacks, and shares its handle with any
thread that closes it. All threads share the client.

Hard behaviour: a timeout after the server already has the body; retries of
metered work; strings freed outside the lock; a borrowed message handed to a
callback; a close that races the end of a run; memory that fails in the middle
of a call; an error state that outlives the call that wrote it; results whose
strings are copied, cached and freed in lists kept by hand; a buffer that grows
under two kinds of allocator. Each is listed with its line under `hazards` in
`PROJECT.json`.

## 2. Modules

| Module | Models | Reads as |
|---|---|---|
| `RetryPolicy` | `should_retry`, `audd_failure_is_pre_upload` | pure operators |
| `RetryRunner` | `audd_retry_do` + `audd_http_post` + libcurl + server | state machine, one action per step of the loop and per thing libcurl sees |
| `Submission` | how often one call may make the server work, by retry class | abstract specification of `RetryRunner` |
| `RetryRunner_proofs` | | theorems about `RetryRunner` |
| `ResponseBuffer` | one transfer's memory: `buf_append`, `header_cb`, `audd_realloc` and its emulation, every exit | state machine, one action per callback of libcurl and per step of the growth |
| `ResponseBuffer_proofs` | | theorems about `ResponseBuffer` |
| `ClientState` | `struct audd_client` between threads, with its heap | state machine, one action per statement that another thread can observe |
| `MCClientState` | | instance of `ClientState` for TLC, with the symmetry the claim run uses |
| `ClientState_proofs` | | theorems about `ClientState` |
| `Longpoll` | `audd_longpoll_run`, `audd_longpoll_close`, the server's log | state machine, one action per answer to a poll |
| `Subscription` | what a subscriber is promised: the log's events, in order, none left out, none again but where the cursor cannot move | abstract specification of `Longpoll` |
| `Longpoll_proofs` | | theorems about `Longpoll` |
| `DecodeResponse` | the decoders and the sentinel table | pure operators |
| `CallbackUrl` | `audd_url_append_return` | pure operators, with what a server reads from a URL as the reference |
| `RequestFields` | the field lists of recognition and stream calls, through all attempts | state machine over `CallbackUrl`, one action per call or attempt step |
| `RequestFields_proofs` | | theorems about `RequestFields` and `CallbackUrl` |
| `PublicCalls` | every call that posts a request, one after the other, on one client | state machine composed of `RetryPolicy` and `DecodeResponse` |
| `PublicCalls_proofs` | | theorems about `PublicCalls` |
| `ChunkOffset` | `audd_offset_to_seconds`, the coercions of `audd_json_get_string` and `_int` | pure operators, with the documented offset format as the reference |
| `Results` | how results and callbacks are built, asked through their getters and freed | state machine over `ChunkOffset`: parse, getter calls, free |
| `MCResults` | | instance of `Results` for TLC: three numbers an offset may hold |
| `Results_proofs` | | theorems about `Results` |
| `Iteration` | | lemmas the proofs about scans, lists and backoffs share |

### RetryRunner

`pc` follows the calling thread: `check` (top of the loop), the four phases of a
transfer, `decide` (after `attempt()`), `sleep`, `done` (back in the public call)
and `released` (after its `audd_http_response_free`). `resp`, `rc`,
`body_uploaded` and `attempt_n` are the variables of `audd_retry_do`; `bodies`
is the set of body blocks on the heap, named by the attempt that made them;
`curl` holds what `CURLINFO_SIZE_UPLOAD_T` and `CURLINFO_RESPONSE_CODE` would
say. `delivered`, `worked` and `answered` are what really happened on
the other side: the server may work at any time after it has the whole body,
also after the client gave up. `CodesOf` lists the curl codes a phase can end
with, a timeout among them in every phase.

A public call is one of `Calls`: the five pairs of attempt function and retry
class that occur. A body has `BodyBytes` chunks and is never empty, because a
multipart body always has its closing boundary. A redirect (at most
`MaxRedirects`) can come from any server on the way; the API server answers the
last hop. `client->closed` stays FALSE: its only writer, `audd_client_free`, frees
the client in the same breath (`audd_client.c:105-115`), so no call may be running
then, and the loop's look at it has no part in the model.

### ClientState

One record per thread says where in an `audd_client_*` function it is and which
blocks it holds: `new` (duplicated, not yet stored), `old` (taken out, not yet
freed), `ptr` (borrowed). A block is owned by a field of the client or by one of
these. Every allocation may fail. Allocations reuse freed blocks, so a stale
pointer may see another string. Messages are identified with the code they were
set with, which is what `ErrorPairConsistent` compares. The poller is a thread
inside `audd_longpoll_run`: it records an error, then reads the message through
the accessor and hands it to `on_error`; before that, its preflight looks at
`last_error_code` without the lock.

### Longpoll

Time is the place in the server's log. A poll with `since_time > 0` gets the next
event after it; one without gets the next event after the poll arrived. What is
logged is an event that `audd_parse_callback` knows (a match or a notification,
which the run treats alike) or anything else (`shape`), and the top-level
`timestamp` of its body is the event's time, half a unit before it, or no number
(`stamp`): the run only takes its cursor from a number there and cuts it to a
whole one (`NextCursor`, `audd_longpoll.c:226`, `:242`). An event that leaves the
cursor before itself is served again, and every dispatch of an event already
dispatched counts against `MaxRepeats`. The timestamp of a keepalive is taken to
be a whole number, and every timestamp to be in the range of `long`. `event.json`
and `event.parsed` are the two parses of a body, which may each run out of memory;
`starved` (history) remembers for which events that happened, and `MaxStarved`
bounds how many. An answer is a pair of return code and status, sorted by
`audd_longpoll_classify_http`. `start` (history) is where the cursor begins: the
caller's `since_time`, or the first event or keepalive that gave the run a cursor.
`*out_handle` is what the caller left there, the handle, or NULL: it is only
written once the handle exists. A close may find that handle freed (`closer =
"dangling"`). `Subscription` sees of all this the log, what the caller was given,
and from where on it is owed events.

### PublicCalls and DecodeResponse

A JSON body is its status, error code and type of result; a message is what it
is about. Between `Begin` and the return, a call goes through `fields`,
`attempt` (with the loop of `audd_retry_do`), `decode` and `build`. `resp`
remembers the last attempt of the latest call, so that the error state after the
call can be compared with what caused it. `touched` (history) says whether the
call wrote the error state: calls rejected for NULL arguments, and some that run
out of memory, do not. Any allocation may fail, the copy of a message too; `starved`
(history) says that one did during this call.

### ResponseBuffer

Bytes of a body are numbered in the order libcurl delivers them, so the content
of a block says which bytes survived a growth. `size_t` has `SizeLimit` values and
wraps; no block is larger than `PTRDIFF_MAX`. The growth is three actions
(`write_cb`, `DoubleCap`, `Reallocate`) and `CopyChunk` the copy. The allocator is
a choice made at the start: libc or a caller's `realloc_fn`, which may or may not
free for size 0 (`ZeroFrees`), or a `malloc_fn` alone, where `audd_realloc` is
emulated with a header in front of the block (`headed`). `id_of` and `id_hops`
(history) tell from which header block the kept `X-Request-Id` comes.

### Results and ChunkOffset

A heap block is named by the structure and member that point to it, so a string
that one function copies and another forgets to free is still in `heap` after
`Free`. `failed` is the set of blocks that cannot be had, chosen at the start.
`room` is what was allocated for the list that `items` fills: for an enterprise
result, the songs of all chunks, objects or not. The wire says whether a
recognition's `result` is an object, null or anything else, which array entries
are objects, what a chunk's offset is, and which URLs are there (text, empty or
absent). `cache` and `aux` are what getters keep: an answer in the result object,
a printed field as a hidden child of `raw_obj`. `failed` speaks of the parsers and
of the URL getters, which keep what they found, a NULL too; an extra that could
not be printed is printed anew at the next call, so `AskExtra` may run out of
memory in one call and not in another. `answers` (history) collects what was
answered, with a mark for those. `audd_json_get_int` casts 64 bits to an `int` of
`2 * IntLimit` values; an offset is a sequence of tokens as `strtod` reads them.
The reference for offsets (`Readings`) does not scan: it says at which places of
the text the numbers, the colons and the blanks of a time must stand.

### RequestFields and CallbackUrl

A field is its key and whether it comes from a typed parameter or from the
caller's `extra_parameters`; values do not matter. `given` is what the caller
set, `params` what the call is going to send (less `return` when `join_csv` has
no memory; only `url` for `set_callback_url`), `fields` the list that was built
last, `requests` (history) what every attempt posted. The extra keys are a few
that collide and one that does not. Which attempts are repeated is left open:
`RetryRunner` models that.

A URL is a sequence of pieces: the characters the scan looks for, the word
`return`, and other words; two adjacent words are one longer word. The scan is
modelled by the places its pointer reaches. The reference (`ReturnParams`) reads
the same URL the way a server would: a fragment starts at the first `#`, a query
at the first `?` before it.

## 3. Runs

Passing runs, with their bounds:

| Run | Bounds | Shows |
|---|---|---|
| `RetryRunner` | 3 attempts, 2 chunks, 1 redirect per attempt, 5 statuses | `WorkNotRepeated`, `PreUploadNotDelivered`, `BodiesOwned`, `ResponseOfLastAttempt`; `EveryCallReturns` under `FairSpec`; `RetryRunner` implements `Submission` (`PromiseKept`) |
| `ResponseBuffer` | a `size_t` of 7 bits (`SizeLimit` 128), first capacity 4, chunks of 0, 1, 5 and 14 bytes, 34 bytes in all, 3 header blocks, 6 heap blocks | `BodyIntact`, `BlocksOwned`, `RequestIdOfResponse` |
| `ClientState` | 1 rotator, 1 requester, 1 poller, 3 blocks, no symmetry (liveness) | `HeapOwned`, `SnapshotSafe`, `ErrorPairConsistent`; `CallsReturn` under `FairSpec` |
| `Longpoll` | 8 failures, backoff 500 to 30000 ms (the code's constants), 3 events, 1 of them starved, 1 repeat | `NoEventSkipped`, `BackoffFitsStreak`, `ResultExplainsEnd`, `CloseStopsDispatch`; `CloseEndsRun` and `EventsArrive` under `FairServerSpec`; `Longpoll` implements `Subscription` (`FeedServed`) |
| `RequestFields` | 2 attempts, 3 extras, URLs of 3 pieces | `FieldsFit`, `RecognizeRequestRight`, `SameRequestEveryAttempt`, `CallbackUrlAsksOnce` |
| `PublicCalls` | 2 attempts, 4 codes, 3 statuses | `ErrorStateIsOwn`, `OkIsAnswered`, `FailureSaysWhy`, `OutIsDefined` |
| `Results` | 3 entries per array, 6 tokens per offset, 12-bit `int`, 2 getter calls, at most 1 failed allocation | `ResultOwned`, `OutcomeHonest`, `ListsInPlace`, `AnswersTrue` |

Why the bounds are enough: three attempts give a first, a middle and a last
one, and two chunks a partly sent body; the theorems of section 4 remove these
bounds and the one on redirects. A new client takes one block for its user
agent; the other two let two threads race over one field, one holding the old
string while the other brings a new one, and let a freed block be handed out
again at once; section 4 proves the safety part for any number of both. Four
codes cover a plain success, the deprecation warning, a code with a category of
its own and one that the catalog treats specially; no other code takes another
path in the decoder. In `Longpoll` the failure bound is the code's, so every step
of the backoff schedule is reached; one event is in the log before the run
starts, so three leave two that may arrive in any order with polls, failures and
the close. Without `MaxStarved` and `MaxRepeats` an event that is dispatched while
its cursor cannot be kept, or whose body gives none, would be dispatched for ever;
one repeat is enough to see what the second dispatch does to the cursor, the order
and a close, and the proofs know neither bound. Three extras put a colliding one
before, between and after others, under every choice of typed parameters; three
pieces are the shortest URL with a `return` that is not its first parameter
(`?&return`), and the scan treats every further parameter alike.

In `ResponseBuffer` a capacity of 4 doubles to 32 at most, the last power of two
under the `PTRDIFF_MAX` of 7 bits; chunks of 5 and 14 bytes need one and two
doublings from an empty buffer, chunks of 1 fill a block to its last byte, 0
writes the NUL alone, and a body of 34 bytes is too large for any block, so the
refused growth at the limit is reached. Chunks stay under a quarter of `size_t`
(`SizesAssumption`), as libcurl's do. In `Results` six tokens write an offset with
a component too many (`7:7:7:`), three entries put an entry that is no object
before, between and after others, and two getter calls ask one getter twice or two
that share state. A second failed allocation meets no other branch: every branch
looks at one block. Getters are asked of small wires only, because what a getter
reads does not depend on the arrays.

Every property of a passing run is violated by the change of the code listed
with it under `mutants` (the definitions marked "Mutant" in the modules).

Runs that state what a doc or comment says and the code does not do
(`findings` has the quotes):

| Run | What TLC shows |
|---|---|
| `ClientNoticeClaim` | another thread's request frees the message while `on_error` reads it |
| `LongpollApiErrorClaim` | an API error with HTTP 200 is not terminal |
| `LongpollOnceClaim` | an event without a numeric top-level `timestamp` is dispatched again and again |
| `LongpollCloseClaim` | `audd_longpoll_close` writes to a handle that the run has freed |
| `AllocatorClaim` | with a `realloc_fn` that does not free for size 0, every response body leaks |

Seen in the models, without a run of their own:

- A streams or advanced call that cannot allocate its URL fails without a
  message of its own (`SetupFails`); a request goes out without a token when the
  snapshot cannot be allocated (`DupToken`); a recognition goes out without its
  metadata when they cannot be joined (`JoinReturn`).
- The longpoll preflight reads `last_error_code` without the lock, and may see
  another request's code (`PreflightReadsCode`, `audd_longpoll.c:93`).
- Transient failures end the run after `kMaxConsecutiveFailures` in a row
  (`PollFails`, `audd_longpoll.c:185`), against `include/audd.h:672` ("transient
  failures ... do not end the subscription") and `:676`. `ResultExplainsEnd` says
  that this takes the full streak, not that it is right.
- When the preflight fails or the handle cannot be allocated, `*out_handle` stays
  what the caller left there (`Preflight`, `AllocHandle`,
  `audd_longpoll.c:128-135`).
- A stream call sends a colliding extra beside the typed field
  (`audd_streams.c:105`), against `include/audd.h:492-493` and `:518-519`; what
  `RecognizeRequestRight` says of recognitions is not so of them.
- A chunk offset with a fourth component ("1:2:3:4", "1:2:3:") is taken for its
  first three (`audd_enterprise.c:79`, which means to reject it); `ListsInPlace`
  leaves such offsets out.
- `audd_recognize` sets `*out_result` to NULL and leaves it so when it fails
  (`audd_recognition.c:938`), where `include/audd.h:285` says "unchanged on error";
  `OutIsDefined` allows either.
- An event is passed over, or dispatched again, for lack of memory (`starved`).
- A recognition result that is no object is reported as out of memory
  (`Recognized` in `Results`, `BuildStarves` in `PublicCalls`,
  `audd_recognition.c:272`, `:922`); `OutcomeHonest` names the case. A call
  rejected for NULL leaves an earlier call's API code (`audd_recognition.c:949`,
  `include/audd.h:241`).
- After a redirect, a failure classified as "the request body was never sent"
  (`audd_http.c:119`) may follow a body sent to the redirecting server, though
  never one delivered to the API server (`PreUploadNotDelivered`).
- The `return` parameter of a callback URL with a fragment lands in the fragment
  (`audd_url.c:143`).
- A URL getter that ran out of memory keeps NULL for ever (an extra is tried
  again); a streaming URL whose copy
  fails falls back to the redirect; an empty `external_urls.spotify` hides the
  `uri` (`audd_recognition.c:457`, `include/audd.h:343-344`). Extras whose names
  agree in their first 115 characters answer for one another
  (`audd_recognition.c:394-399`).
- The request id of an earlier header block stays when the final response has none
  (`header_cb`, `audd_http.c:61`), where `include/audd.h:245-246` says "of the most
  recent response" and "" if none: `RequestIdOfResponse` leaves the case out. It
  also stays without memory for the copy of a later one.
- A callback whose JSON tree cannot be allocated is reported as invalid JSON
  (`audd_callback.c:105-108`).
- A 64-bit number on the wire is cut to an `int` (`audd_json_get_int`).

The header contradicts itself or the code in two more places, which no model
is needed to see: `on_error` is "fired exactly once at termination"
(`include/audd.h:633`), but also called as a notice, as lines 672 to 675 say;
line 199 names `audd_client_close`, which does not exist.

Fairness. `RetryRunner!FairSpec`: the calling thread runs, and `CURLOPT_TIMEOUT`
(set in `apply_common_opts`) ends every transfer; nothing is assumed of the
server. `ClientState!FairSpec`: a thread that is in a call
continues, and gets the mutex if it is free again and again (strong fairness of
`Lock`; POSIX leaves this to the implementation). `Longpoll!FairSpec`: the
subscription's thread runs, polls time out, callbacks return, a close in progress
writes its flag. `Longpoll!FairServerSpec` adds, for `EventsArrive` only, that a
server polled again and again with an event pending answers with it in the end.

## 4. Proofs

The theorems hold for every value of the constants that the named assumptions of
the modules allow. None of the properties is inductive alone; each proof module
defines an inductive invariant `IInv` as a conjunction of named parts, proves
`InitIInv` and `NextIInv` (one step per action) and gets `Invariance` and the
theorems below from them.

**`RetryRunner_proofs`**, for any `MaxAttempts`, `BodyBytes`, `MaxRedirects` and
`Statuses`: `TypeCorrect`, `NotRepeated` (with its two halves `AtMostOnce` and
`MeteredOnce`), `PreUploadIsSafe`, `Owned`, `OwnResponse`, and
`KeepsPromise`: `RetryRunner` implements `Submission`. That the server works at
most once depends on what the client knows when it decides to retry, so the
invariant ties the two sides together:

- `LoopInv`: what the loop variables and the handle say at each `pc`;
- `DeliveryInv`: the server can have the current attempt's body only if all of
  it went out in this hop, that is, only while `curl.uploaded = BodyBytes` or a
  status line has been seen; so `body_uploaded = 0` implies that the body was
  not delivered, even when redirects reset the counter;
- `PastIsSettled`: an earlier attempt of a non-read call that was delivered was
  answered with a 5xx (recognition), or there is none (mutating, uploads);
- `MemoryInv`: which attempt owns which block at each `pc`, and whose response
  `resp` is.

`KeepsPromise` uses `UnsettledIsCurrent` (at most the current attempt is delivered
without a 5xx) to show that each `ServerWorks` step is allowed by `MayWork`;
every other step stutters, answers with a 5xx or finishes.

**`ClientState_proofs`**, for any sets of threads, blocks, tokens and codes:
`TypeCorrect`, `Owned` (`HeapOwned`), `SnapshotIsSafe`, `PairConsistent`. A block
changes hands in four ways: kept, taken from the heap, swapped with a field,
given back; the lemmas `Kept`, `Took`, `Swapped` and `Gave` say what each does
to ownership, and every action is one of them. `LockInv` says that a thread
at a step under the lock holds it; `RegInv` (`Sound` of every thread) which
registers are in use at each `pc`; `LifeInv` that no thread is in a call, and
which fields are still empty, while the client is built or freed;
`SnapshotInv` that the pointer being copied is still the field's;
`MessageInHand` and `MessageWritten` which error the two halves of
`audd_client_set_error` belong to while they are apart.

**`Longpoll_proofs`**, for any failure limit, backoff, length of the log and
number of starved events and repeats: `TypeCorrect`, `InOrderOnce`
(`DispatchedInOrderOnce`: in order, and again only an event that cannot have moved
the cursor), `NothingSkipped`, `EndExplained`, `CloseStops`, `BackoffIsRight`, and
`ServesFeed`: `Longpoll` implements `Subscription`. `CursorInv` ties the cursor to
what was dispatched, `EventInv` the event in hand to the cursor and the log; with
them `FeedInv` (the first two of these properties together) is inductive.
`CursorMoves` says what an event does to the cursor, whatever its timestamp is: it
goes to the event, to the place before it, or nowhere. `EndInv` ties each way of
ending to its result, `ClosingInv` what may still be dispatched to the place of
the run when the close was written. The refinement needs that an answered poll
holds exactly the event the feed has due (`PendingIsDue`, `EventIsDue`).
`BackoffIsRight` (`BackoffFitsStreak`) follows from `StreakInv`: at each `pc`,
streak and backoff go together.

**`PublicCalls_proofs`**, for any number of attempts, statuses and codes:
`TypeCorrect`, `ErrorsAreOwn`, `SuccessIsAnswered`, `FailureExplained`,
`OutDefined`. The properties speak of calls that have returned; `DuringInv` says
what must hold on the way so that any step may be the last: no API code is
recorded before the decoder has spoken, a failed attempt has left its message,
behind the decoder the answer was a success and the error state is clear.
`DecoderReturns` sums up the decoders: the error, message and code they leave
agree, and success leaves none.

**`RequestFields_proofs`**, for any number of attempts and extras and URLs of any
length: `TypeCorrect`, `ListsFit` (`FieldsFit`), `RequestIsRight`
(`RecognizeRequestRight`), `AsksTheSame` (`SameRequestEveryAttempt`) and `AsksOnce`
(`CallbackUrlAsksOnce`). `ListInv` says that a list is always what the call builds
from its parameters, so the next two are lemmas about the pure builders:
`BuiltFits` (no list outgrows the capacity computed for it) and `BuiltIsRight`.
They rest on `ChosenIsRight`: a filtered list has each element that is chosen in
the place that counting the chosen ones before it gives, and nothing else; and on
`NoExtraIsCut`: with the capacity the code computes, the `break` that would drop
an extra is never taken. `AsksTheSame` rests on `QuestionInv`: once its attempts
have begun, nothing a call asks for changes, and all it has sent is that
`Question`. `AsksOnce` rests on two lemmas about the scan: `ScanIsRight` (the code
finds a `return` parameter exactly when a server would, in a URL without a
fragment) and `AppendedIsRight` (what is appended is then the only one). Both need
the place `strchr` stops at, `FirstMarkIs`.

**`ResponseBuffer_proofs`**, for any first capacity, chunk sizes, number of header
blocks and allocators: `TypeCorrect`, `BodyIsIntact`, `RequestIdIsRight`, and
`BlocksAreOwned` for allocators that free for size 0 (for the others it is false:
`AllocatorClaim`). `PhaseInv` says what is allocated at each `pc`, `OwnInv` that
these blocks are distinct and all of the heap, `HeadedInv` which of them carry the
emulation's header, `BodyInv` that the buffer holds the bytes received, in order,
with their NUL, and `AppendInv` what a pending growth still has to reach. That
the doubling never wraps is a bound, not a step: a chunk is at most a quarter of
`size_t` and a block at most half of it, so the capacity asked for is found before
the doubling can pass `SIZE_MAX`. `IdInv` ties the kept request id to the last
header block that had one.

**`Results_proofs`**, for wires of any length and shape, offsets of any length and
any set of failed allocations among those the model lets fail (the run takes
small wires and one failure):
`TypeCorrect`, `ResultIsOwned`, `OutcomeIsHonest`, `ListsAreInPlace`,
`AnswersAreTrue`. `Sound` says what a call that builds a result may return, and
is proved for each of the parsers (`BuiltIsSound`); from then on `UseInv` knows
the heap exactly: what was built, one block for each URL a getter kept, one for
each extra it printed. So a free function is right if it knows these three,
which the lemmas `Freed...` show structure by structure. `CacheInv`, `UrlsInv`,
`AuxInv` and `AnswersInv` relate what a getter keeps, what it answered and what the
metadata call for. `ObjectsAre` and `MatchesAre` are about the two nested loops
that flatten an enterprise answer: every object once, in order, never more than
the first pass counted. That a match starts where its own chunk says
(`StartIs`) rests on the scan of the offset's text, whose rest is always a suffix
of the text: `TimesAreRead` (a text written as documented gives its seconds) and
`OnlyTimesAreRead` (any other with at most three components gives "unknown").

The definitions these proofs are about are recursive functions of numbers.
`Iteration` has what they need instead of induction over data, from the
well-ordering of the numbers: a set of numbers that has 0, and with each the next,
has them all (`AllOfThem`); and a step that stays among some values has a
function that iterates it (`Iterates`), so that a recursive definition has the
values it says.

Only model-checked are the liveness properties `EveryCallReturns`, `CallsReturn`,
`CloseEndsRun` and `EventsArrive`: the prover has no reasoning about fairness or
ENABLED. The properties of the claim runs are false of the code, and so have no
theorem.

## 5. Not modelled

- `audd_http_get` has no module of its own: it is the answer of a poll in
  `Longpoll`, and its memory is that of `ResponseBuffer`. How long a backoff
  sleep lasts is left out; `1 << (attempt_n - 1)` (`audd_http.c:427`) is undefined
  for more than 32 attempts.
- Character-level code: URL classification and encoding (an encoded value is one
  word in `CallbackUrl`), multipart layout, JSON text, MD5 and the radio category
  made from it. Nothing checked here depends on it.
- `audd_longpoll_run_by_radio_id` beyond the run it ends in.
- The extras of provider blocks (`audd_apple_music_extra` and its like), which
  print a member on each call, `audd_recognition_is_public_match`, the getters
  that only return a member, and `audd_json_get_double` and `_bool`.
- `client->closed` in `Longpoll` and `RetryRunner`: only `audd_client_free` writes
  it, which must not overlap a call.
- `audd_set_allocator`, which must precede every other call, and `audd_str_t`,
  `audd_aprintf` and `audd_strndup`, which allocate one block for their caller.
- cJSON and libcurl are external; each is modelled by what the code asks of it.

## 6. Plan

Done: the retry runner, the shared client, the subscription and the public calls
with their proofs, the two abstract specifications with their refinements, the
response buffer with the allocator, the results and the offsets, the request
fields; every safety property of a passing run, and both refinements, are theorems.

Next, in this order:

1. `ErrorRegister`: an abstract atomic register for message and code, and
   `ClientState` shown to implement it.
2. The provider extras, which print through the coercions of `audd_json.c` and
   so depend on which getter was asked before.
3. A composition of `RetryRunner` and `ClientState`: the token snapshot of each
   attempt under a rotation between attempts.

Theorem worth proving next: that `ClientState` implements the register.
