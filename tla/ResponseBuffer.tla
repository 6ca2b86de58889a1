--------------------------- MODULE ResponseBuffer ---------------------------
(***************************************************************************)
(* How one transfer fills its audd_http_response_t: the body grows through *)
(* buf_append and audd_realloc (src/src/audd_http.c, src/src/audd_alloc.c),*)
(* header_cb keeps the request id, and every path gives back what it took. *)
(*                                                                         *)
(* Bytes of the body are numbered in the order libcurl hands them over, so *)
(* the content of a block says which bytes it has kept.  Arithmetic of     *)
(* size_t is modulo SizeLimit, SIZE_MAX + 1; as with any malloc, no block  *)
(* is larger than PTRDIFF_MAX.                                             *)
(* Any allocation may fail.  libcurl and the allocator are external.       *)
(***************************************************************************)
EXTENDS Integers, Sequences, FiniteSets, FiniteSetsExt

CONSTANTS
    Blocks,       \* heap blocks
    NULL,
    SizeLimit,    \* SIZE_MAX + 1
    InitialCap,   \* 4096 in the code
    ChunkSizes,   \* what write_cb may be called with
    MaxBody,      \* bound: bytes of a body
    MaxHops,      \* bound: header blocks (1xx, redirects, the final one)
    Reallocators, \* subset of {"realloc", "emulated"}: realloc_fn or libc, or
                  \* a custom allocator with malloc_fn alone
    ZeroFrees     \* subset of BOOLEAN: does realloc(p, 0) free p?

LargestBlock == SizeLimit \div 2 - 1

ASSUME BlocksAssumption == NULL \notin Blocks /\ Cardinality(Blocks) >= 6
ASSUME AllocatorsAssumption ==
    Reallocators \subseteq {"realloc", "emulated"} /\ ZeroFrees \subseteq BOOLEAN
ASSUME SizesAssumption ==
    /\ SizeLimit \in Nat \ {0} /\ SizeLimit % 4 = 0
    /\ InitialCap \in 1 .. LargestBlock
    /\ ChunkSizes \subseteq 0 .. SizeLimit \div 4
    /\ MaxBody \in Nat /\ MaxHops \in Nat \ {0}

VARIABLES
    how,          \* the allocator: [realloc, zero_frees]
    pc,
    heap,         \* what malloc has given out: block -> [headed, bytes]
    scratch,      \* full_url
    buf,          \* buf_t: data, len, cap
    append,       \* the pending buf_append: n, newcap
    request_id,
    resp,         \* [body, body_len, request_id, json]
    hop,          \* header blocks so far
    received,     \* history: bytes accepted by write_cb
    id_hops,      \* history: header blocks that had an X-Request-Id
    id_of,        \* history: the header block request_id comes from, 0: none
    starved       \* history: copying an X-Request-Id failed

vars == <<how, pc, heap, scratch, buf, append, request_id, resp, hop,
          received, id_hops, id_of, starved>>

(* A byte of a block: number of the body byte, the final NUL, or whatever  *)
(* was there.                                                              *)
Nul == 0
Junk == -1

NoBuffer == [data |-> NULL, len |-> 0, cap |-> 0]
NoResponse == [body |-> NULL, body_len |-> 0, request_id |-> NULL,
               json |-> NULL]
NoAppend == [n |-> 0, newcap |-> 1]

TypeOK ==
    /\ how \in [realloc : Reallocators, zero_frees : ZeroFrees]
    /\ pc \in {"start", "prepare", "transfer", "grow", "copy", "abort",
               "parse", "done", "failed", "released"}
    /\ DOMAIN heap \subseteq Blocks
    /\ \A b \in DOMAIN heap : Len(heap[b].bytes) \in 0 .. LargestBlock
    /\ {scratch, request_id} \subseteq Blocks \cup {NULL}
    /\ buf \in [data : Blocks \cup {NULL}, len : 0 .. MaxBody,
                cap : 0 .. LargestBlock]
    /\ append \in [n : ChunkSizes \cup {0}, newcap : 1 .. SizeLimit - 1]
    /\ resp \in [body : Blocks \cup {NULL}, body_len : 0 .. MaxBody,
                 request_id : Blocks \cup {NULL}, json : Blocks \cup {NULL}]
    /\ hop \in 1 .. MaxHops
    /\ id_of \in 0 .. MaxHops
    /\ starved \in BOOLEAN

Init ==
    /\ how \in [realloc : Reallocators, zero_frees : ZeroFrees]
    /\ pc = "start"
    /\ heap = [b \in {} |-> 0]
    /\ scratch = NULL
    /\ buf = NoBuffer
    /\ append = NoAppend
    /\ request_id = NULL
    /\ resp = NoResponse
    /\ hop = 1
    /\ received = 0
    /\ id_hops = {}
    /\ id_of = 0
    /\ starved = FALSE

-----------------------------------------------------------------------------
(* The allocator, as functions from heap to heap.  Which free block is     *)
(* handed out makes no difference here.                                    *)

Unused(h) == CHOOSE b \in Blocks : b \notin DOMAIN h

With(h, b, block) ==
    [x \in DOMAIN h \cup {b} |-> IF x = b THEN block ELSE h[x]]

Without(h, bs) == [x \in DOMAIN h \ bs |-> h[x]]

(* A string of audd_malloc; nothing looks at its content.                  *)
Text == [headed |-> FALSE, bytes |-> <<Nul>>]

(* audd_free: a block with a header cannot be freed through the pointer    *)
(* behind the header.                                                      *)
audd_free(h, p) ==
    IF p # NULL /\ ~h[p].headed THEN Without(h, {p}) ELSE h

(* Mutant: the size of the old block is taken for the size of its header.  *)
KeptOfHeaderOnly(old, size) == Min({1, Len(old), size})

(* How much of the old content audd_emu_realloc copies.                    *)
Kept(old, size) == Min({Len(old), size})

Resized(h, p, size) ==
    LET old == IF p = NULL THEN <<>> ELSE h[p].bytes
    IN  [headed |-> how.realloc = "emulated",
         bytes  |-> [i \in 1 .. size |->
                        IF i <= Kept(old, size) THEN old[i] ELSE Junk]]

(* audd_realloc with a size above 0, when it succeeds: the new content is  *)
(* in block b, the old block is gone.                                      *)
audd_realloc(h, p, size, b) ==
    With(Without(h, {p}), b, Resized(h, p, size))

(* audd_realloc_free: audd_realloc(p, 0).  The emulation frees the block;  *)
(* what a realloc_fn does is "implementation-defined" (audd.h).            *)
audd_realloc_free(h, p) ==
    IF how.realloc = "emulated" \/ how.zero_frees THEN Without(h, {p}) ELSE h

-----------------------------------------------------------------------------
(* audd_http_get and audd_http_post before the transfer: the URL with its  *)
(* query, or the token snapshot, lives in one block.                       *)
AllocScratch ==
    /\ pc = "start"
    /\ \/ /\ scratch' = Unused(heap)
          /\ heap' = With(heap, scratch', Text)
          /\ pc' = "prepare"
       \/ pc' = "failed" /\ UNCHANGED <<scratch, heap>>
       \/ pc' = "prepare" /\ UNCHANGED <<scratch, heap>>
    /\ UNCHANGED <<how, buf, append, request_id, resp, hop, received, id_hops,
                   id_of, starved>>

(* An escape or the curl handle could not be had: the block is given back. *)
PrepareFails ==
    /\ pc = "prepare"
    /\ heap' = audd_free(heap, scratch)
    /\ scratch' = NULL
    /\ pc' = "failed"
    /\ UNCHANGED <<how, buf, append, request_id, resp, hop, received, id_hops,
                   id_of, starved>>

Prepared ==
    /\ pc = "prepare"
    /\ pc' = "transfer"
    /\ UNCHANGED <<how, heap, scratch, buf, append, request_id, resp, hop,
                   received, id_hops, id_of, starved>>

-----------------------------------------------------------------------------
(* The transfer.                                                           *)

(* Mutant: only the first X-Request-Id is kept.                            *)
KeepFirstId ==
    /\ pc = "transfer" /\ received = 0 /\ hop \notin id_hops
    /\ id_hops' = id_hops \cup {hop}
    /\ IF request_id = NULL
       THEN /\ request_id' = Unused(heap)
            /\ heap' = With(heap, request_id', Text)
            /\ id_of' = hop
       ELSE UNCHANGED <<request_id, heap, id_of>>
    /\ UNCHANGED <<how, pc, scratch, buf, append, resp, hop, received, starved>>

(* A header line "X-Request-Id: ...": the copy replaces the id of an       *)
(* earlier header block; without memory that one stays.                    *)
header_cb ==
    /\ pc = "transfer" /\ received = 0 /\ hop \notin id_hops
    /\ id_hops' = id_hops \cup {hop}
    /\ \/ LET rid == Unused(heap)
          IN  /\ heap' = audd_free(With(heap, rid, Text), request_id)
              /\ request_id' = rid
              /\ id_of' = hop
              /\ UNCHANGED starved
       \/ starved' = TRUE /\ UNCHANGED <<heap, request_id, id_of>>
    /\ UNCHANGED <<how, pc, scratch, buf, append, resp, hop, received>>

(* A redirect is followed, or a 1xx answer precedes the real one.          *)
NextHop ==
    /\ pc = "transfer" /\ received = 0 /\ buf = NoBuffer
    /\ hop < MaxHops
    /\ hop' = hop + 1
    /\ UNCHANGED <<how, pc, heap, scratch, buf, append, request_id, resp,
                   received, id_hops, id_of, starved>>

Needed(n) == (buf.len + n + 1) % SizeLimit

(* Mutant: an empty buffer starts to double at its capacity, 0.            *)
CapToDouble == buf.cap

FirstNewcap == IF buf.cap = 0 THEN InitialCap ELSE buf.cap

(* write_cb calls buf_append with a chunk.                                 *)
write_cb ==
    /\ pc = "transfer"
    /\ \E n \in ChunkSizes :
          /\ received + n <= MaxBody
          /\ IF Needed(n) > buf.cap
             THEN pc' = "grow" /\ append' = [n |-> n, newcap |-> FirstNewcap]
             ELSE pc' = "copy" /\ append' = [NoAppend EXCEPT !.n = n]
    /\ UNCHANGED <<how, heap, scratch, buf, request_id, resp, hop, received,
                   id_hops, id_of, starved>>

(* while (newcap < needed) newcap *= 2.                                    *)
DoubleCap ==
    /\ pc = "grow"
    /\ append.newcap < Needed(append.n)
    /\ append' = [append EXCEPT !.newcap = (2 * @) % SizeLimit]
    /\ UNCHANGED <<how, pc, heap, scratch, buf, request_id, resp, hop,
                   received, id_hops, id_of, starved>>

(* The block is resized.  If that fails write_cb returns 0, which libcurl  *)
(* takes for an error unless the chunk was empty.                          *)
Reallocate ==
    /\ pc = "grow"
    /\ append.newcap >= Needed(append.n)
    /\ \/ LET b == Unused(heap)
          IN  /\ append.newcap <= LargestBlock
              /\ heap' = audd_realloc(heap, buf.data, append.newcap, b)
              /\ buf' = [buf EXCEPT !.data = b, !.cap = append.newcap]
              /\ pc' = "copy"
              /\ UNCHANGED append
       \/ /\ pc' = IF append.n = 0 THEN "transfer" ELSE "abort"
          /\ append' = NoAppend
          /\ UNCHANGED <<heap, buf>>
    /\ UNCHANGED <<how, scratch, request_id, resp, hop, received, id_hops,
                   id_of, starved>>

(* memcpy behind the bytes there are, then the NUL.                        *)
Written(bytes, from, n) ==
    [i \in DOMAIN bytes |->
        IF i \in from + 1 .. from + n THEN received + (i - from)
        ELSE IF i = from + n + 1 THEN Nul ELSE bytes[i]]

CopyChunk ==
    /\ pc = "copy"
    /\ heap' = [heap EXCEPT ![buf.data].bytes = Written(@, buf.len, append.n)]
    /\ buf' = [buf EXCEPT !.len = @ + append.n]
    /\ received' = received + append.n
    /\ append' = NoAppend
    /\ pc' = "transfer"
    /\ UNCHANGED <<how, scratch, request_id, resp, hop, id_hops, id_of,
                   starved>>

-----------------------------------------------------------------------------
(* After curl_easy_perform.                                                *)

(* Mutant: the body is freed as if audd_malloc had allocated it.           *)
PerformFailsPlainFree ==
    /\ pc \in {"transfer", "abort"}
    /\ heap' = audd_free(audd_free(audd_free(heap, buf.data), request_id),
                         scratch)
    /\ buf' = NoBuffer /\ request_id' = NULL /\ scratch' = NULL
    /\ pc' = "failed"
    /\ UNCHANGED <<how, append, resp, hop, received, id_hops, id_of, starved>>

(* Anything but CURLE_OK, in any state of the transfer.                    *)
PerformFails ==
    /\ pc \in {"transfer", "abort"}
    /\ heap' = audd_free(audd_free(audd_realloc_free(heap, buf.data),
                                   request_id), scratch)
    /\ buf' = NoBuffer /\ request_id' = NULL /\ scratch' = NULL
    /\ pc' = "failed"
    /\ UNCHANGED <<how, append, resp, hop, received, id_hops, id_of, starved>>

(* CURLE_OK: resp takes over the body and the id.                          *)
PerformOk ==
    /\ pc = "transfer"
    /\ resp' = [body |-> buf.data, body_len |-> buf.len,
                request_id |-> request_id, json |-> NULL]
    /\ buf' = NoBuffer /\ request_id' = NULL
    /\ pc' = "parse"
    /\ UNCHANGED <<how, heap, scratch, append, hop, received, id_hops, id_of,
                   starved>>

(* try_parse_json, which may fail or have nothing to parse; then the URL   *)
(* goes.                                                                   *)
try_parse_json ==
    /\ pc = "parse"
    /\ \E j \in {NULL, Unused(heap)} :
          /\ j # NULL => resp.body # NULL /\ resp.body_len > 0
          /\ heap' = audd_free(IF j = NULL THEN heap ELSE With(heap, j, Text),
                               scratch)
          /\ resp' = [resp EXCEPT !.json = j]
    /\ scratch' = NULL
    /\ pc' = "done"
    /\ UNCHANGED <<how, buf, append, request_id, hop, received, id_hops, id_of,
                   starved>>

(* Whether the call succeeded or not its caller releases the response.     *)
audd_http_response_free ==
    /\ pc \in {"done", "failed"}
    /\ heap' = audd_free(audd_free(audd_realloc_free(heap, resp.body),
                                   resp.request_id), resp.json)
    /\ resp' = NoResponse
    /\ pc' = "released"
    /\ UNCHANGED <<how, scratch, buf, append, request_id, hop, received,
                   id_hops, id_of, starved>>

-----------------------------------------------------------------------------
Next ==
    \/ AllocScratch \/ PrepareFails \/ Prepared
    \/ header_cb \/ NextHop
    \/ write_cb \/ DoubleCap \/ Reallocate \/ CopyChunk
    \/ PerformFails \/ PerformOk \/ try_parse_json
    \/ audd_http_response_free
    \/ pc = "released" /\ UNCHANGED vars

Spec == Init /\ [][Next]_vars

-----------------------------------------------------------------------------
(* Properties.                                                             *)

(* Block b holds exactly the first n bytes libcurl delivered, in their     *)
(* order and with a NUL behind them, within its bounds.                    *)
Holds(b, n) ==
    /\ n < Len(heap[b].bytes)
    /\ \A i \in 1 .. n : heap[b].bytes[i] = i
    /\ heap[b].bytes[n + 1] = Nul

(* However the chunks are cut, and whichever allocations failed on the     *)
(* way, the body is what was delivered: growing loses and repeats nothing, *)
(* a failed growth leaves the old content, a write never passes the block. *)
BodyIntact ==
    /\ buf.data # NULL /\ pc # "copy" =>
          /\ buf.len = received /\ Holds(buf.data, buf.len)
          /\ buf.cap = Len(heap[buf.data].bytes)
    /\ pc = "copy" => buf.len + append.n < Len(heap[buf.data].bytes)
    /\ pc \in {"parse", "done"} =>
          /\ resp.body_len = received
          /\ resp.body # NULL => Holds(resp.body, resp.body_len)

(* Every block has one owner at every step, and none is left when the      *)
(* caller has released the response, on every failing path and for both    *)
(* kinds of allocator: what audd_realloc grew is freed through it.         *)
Owners ==
    <<scratch, buf.data, request_id, resp.body, resp.request_id, resp.json>>

BlocksOwned ==
    /\ \A b \in DOMAIN heap : \E i \in DOMAIN Owners : Owners[i] = b
    /\ \A i, j \in DOMAIN Owners :
          Owners[i] # NULL =>
              /\ Owners[i] \in DOMAIN heap
              /\ Owners[i] = Owners[j] => i = j
    /\ pc \in {"failed", "released"} => DOMAIN heap = {}

(* After redirects the id is the final header block's if that one had an   *)
(* id, whatever blocks came before, and there is none if no block had one, *)
(* as long as there was memory for the copies.  (When only an earlier      *)
(* block had one, the code keeps it, against audd.h:245; nothing is said   *)
(* of that case.)                                                          *)
RequestIdOfResponse ==
    pc \in {"parse", "done"} /\ ~starved =>
        /\ hop \in id_hops => id_of = hop /\ resp.request_id # NULL
        /\ id_hops = {} => resp.request_id = NULL

-----------------------------------------------------------------------------
(* What comments say and the code does not do, or leaves to the allocator. *)

(* audd_realloc_free is to "free a buffer obtained from audd_realloc":     *)
(* nothing is left once the response is released.                          *)
ReleasedIsFreed == pc = "released" => DOMAIN heap = {}
=============================================================================
