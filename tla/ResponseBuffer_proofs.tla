------------------------ MODULE ResponseBuffer_proofs ------------------------
(***************************************************************************)
(* Proofs about ResponseBuffer, for any first capacity, any sizes of       *)
(* chunks up to a quarter of the address space, bodies of any length, any  *)
(* number of header blocks and both kinds of allocator.                    *)
(***************************************************************************)
EXTENDS ResponseBuffer, FiniteSetTheorems, TLAPS

HeapBlock ==
    [headed : BOOLEAN,
     bytes  : {s \in Seq(Int) : Len(s) \in 0 .. LargestBlock}]

IsHeap(h) == DOMAIN h \subseteq Blocks /\ h \in [DOMAIN h -> HeapBlock]

Before == {"start", "prepare"}
Transferring == {"transfer", "grow", "copy", "abort"}
Answered == {"parse", "done"}
Over == {"failed", "released"}

(* The body and the request id, wherever they are kept at this step.       *)
Body == IF pc \in Answered THEN resp.body ELSE buf.data
BodyLen == IF pc \in Answered THEN resp.body_len ELSE buf.len
Id == IF pc \in Answered THEN resp.request_id ELSE request_id

Live == {scratch, Body, Id, resp.json} \ {NULL}

-----------------------------------------------------------------------------
(* The invariant.                                                          *)

TypeInv ==
    /\ TypeOK
    /\ IsHeap(heap)
    /\ received \in 0 .. MaxBody
    /\ id_hops \subseteq 1 .. hop

(* Who may hold something at each step.                                    *)
PhaseInv ==
    /\ pc \notin Answered => resp = NoResponse
    /\ pc \notin Transferring => buf = NoBuffer /\ request_id = NULL
    /\ pc \in Before => received = 0 /\ id_hops = {} /\ id_of = 0 /\ ~starved
    /\ pc \notin {"prepare", "parse"} \cup Transferring => scratch = NULL
    /\ pc = "parse" => resp.json = NULL

(* Pointers that are not NULL point to different blocks; until the call    *)
(* has gone wrong or the response is released there are no other blocks,   *)
(* and then none at all if what audd_realloc_free is given is freed.       *)
OwnInv ==
    /\ Live \subseteq DOMAIN heap
    /\ scratch # NULL => scratch \notin {Body, Id, resp.json}
    /\ Body # NULL => Body \notin {Id, resp.json}
    /\ Id # NULL => Id # resp.json
    /\ pc \notin Over => DOMAIN heap \subseteq Live
    /\ pc \in Over /\ FALSE \notin ZeroFrees => DOMAIN heap = {}

(* The body alone comes from audd_realloc.                                 *)
HeadedInv ==
    /\ \A p \in {scratch, Id, resp.json} : p # NULL => ~heap[p].headed
    /\ Body # NULL => (heap[Body].headed <=> how.realloc = "emulated")

(* What the body holds.                                                    *)
BodyInv ==
    pc \notin Over =>
        /\ BodyLen = received
        /\ Body = NULL => received = 0
        /\ buf.data = NULL => buf.cap = 0
        /\ Body # NULL =>
              /\ BodyLen < Len(heap[Body].bytes)
              /\ \A i \in 1 .. BodyLen : heap[Body].bytes[i] = i
              /\ pc # "copy" => heap[Body].bytes[BodyLen + 1] = Nul
              /\ pc \in Transferring => buf.cap = Len(heap[Body].bytes)

(* A pending append: the doubling stays within size_t, and a copy within   *)
(* the block.                                                              *)
AppendInv ==
    /\ pc \in {"grow", "copy"} => received + append.n <= MaxBody
    /\ pc = "grow" =>
          /\ buf.cap <= append.newcap
          /\ append.newcap < Needed(append.n) => append.newcap <= LargestBlock
    /\ pc = "copy" => buf.data # NULL /\ buf.len + append.n < buf.cap

(* The id is of the latest header block that had one, unless it could not  *)
(* be copied.                                                              *)
IdInv ==
    pc \notin Over /\ ~starved =>
        /\ id_of = Max(id_hops \cup {0})
        /\ (Id # NULL) = (id_hops # {})

IInv ==
    TypeInv /\ PhaseInv /\ OwnInv /\ HeadedInv /\ BodyInv /\ AppendInv /\ IdInv

-----------------------------------------------------------------------------
(* Sizes.                                                                  *)

(* The largest block is one byte under half of size_t.                     *)
LEMMA Quarter ==
    /\ SizeLimit \in Nat \ {0} /\ SizeLimit \div 4 \in Nat \ {0}
    /\ SizeLimit = 4 * (SizeLimit \div 4)
    /\ LargestBlock = 2 * (SizeLimit \div 4) - 1
  BY SizesAssumption DEF LargestBlock

(* Sums that fit are not reduced.                                          *)
LEMMA NoWrap ==
    ASSUME NEW x \in 0 .. SizeLimit - 1
    PROVE  x % SizeLimit = x
  BY Quarter

(* What a chunk and its NUL make of a buffer that is not full is below     *)
(* size_t.                                                                 *)
LEMMA ChunkFits ==
    ASSUME NEW len \in Nat, NEW cap \in 0 .. LargestBlock, len = 0 \/ len < cap,
           NEW n \in 0 .. SizeLimit \div 4
    PROVE  len + n + 1 \in 0 .. SizeLimit - 1
  <1> DEFINE q == SizeLimit \div 4
  <1>1. q \in Nat \ {0} /\ SizeLimit = 4 * q /\ LargestBlock = 2 * q - 1
    BY Quarter
  <1> HIDE DEF q
  <1>2. n \in 0 .. q
    BY DEF q
  <1>3. len <= 2 * q - 2
    BY <1>1
  <1> QED
    BY <1>1, <1>2, <1>3

(* The smaller of two numbers.                                             *)
LEMMA MinOfTwo ==
    ASSUME NEW a \in Int, NEW b \in Int
    PROVE  Min({a, b}) = IF a <= b THEN a ELSE b
  BY DEF Min

(* A member that none exceeds is the maximum.                              *)
LEMMA MaxIs ==
    ASSUME NEW T, T \subseteq Int, NEW m \in T, \A x \in T : x <= m
    PROVE  Max(T) = m
  <1>1. \E x \in T : \A y \in T : x >= y
    OBVIOUS
  <1>2. Max(T) \in T /\ \A y \in T : Max(T) >= y
    BY <1>1 DEF Max
  <1>3. Max(T) \in Int /\ m \in Int /\ Max(T) >= m /\ Max(T) <= m
    BY <1>2
  <1> QED
    BY <1>3

-----------------------------------------------------------------------------
(* The allocator: what each operation does to a heap.                      *)

(* A duplicated string is a block without a header.                        *)
LEMMA TextIsBlock == Text \in HeapBlock /\ ~Text.headed
  <1>1. <<Nul>> \in Seq(Int) /\ Len(<<Nul>>) = 1
    BY DEF Nul
  <1> QED
    BY <1>1, Quarter DEF Text, HeapBlock

(* While at most three blocks are in use there is one more.                *)
LEMMA UnusedIs ==
    ASSUME NEW h, NEW a, NEW b, NEW c, DOMAIN h \subseteq {a, b, c}
    PROVE  Unused(h) \in Blocks \ DOMAIN h /\ Unused(h) # NULL
  <1>1. IsFiniteSet({a, b, c}) /\ Cardinality({a, b, c}) <= 3
    <2>1. IsFiniteSet({a}) /\ Cardinality({a}) = 1
      BY FS_Singleton
    <2>2. /\ IsFiniteSet({a} \cup {b})
          /\ Cardinality({a} \cup {b}) \in 0 .. 2
      BY <2>1, FS_AddElement
    <2>3. /\ IsFiniteSet(({a} \cup {b}) \cup {c})
          /\ Cardinality(({a} \cup {b}) \cup {c}) <= 3
      BY <2>2, FS_AddElement
    <2>4. {a, b, c} = ({a} \cup {b}) \cup {c}
      OBVIOUS
    <2> QED
      BY <2>3, <2>4
  <1>2. \E x \in Blocks : x \notin DOMAIN h
    <2> SUFFICES ASSUME Blocks \subseteq DOMAIN h PROVE FALSE
      OBVIOUS
    <2>1. Cardinality(Blocks) <= Cardinality({a, b, c})
      BY <1>1, FS_Subset
    <2>2. Cardinality(Blocks) \in Nat
      BY <1>1, FS_Subset, FS_CardinalityType
    <2> QED
      BY <1>1, <2>1, <2>2, BlocksAssumption, FS_CardinalityType
  <1> QED
    BY <1>2, BlocksAssumption DEF Unused

(* A block added to a heap, or put in the place of one.                    *)
LEMMA WithIs ==
    ASSUME NEW h, IsHeap(h), NEW b \in Blocks, NEW block \in HeapBlock
    PROVE  /\ IsHeap(With(h, b, block))
           /\ DOMAIN With(h, b, block) = DOMAIN h \cup {b}
           /\ With(h, b, block)[b] = block
           /\ \A x \in DOMAIN h \ {b} : With(h, b, block)[x] = h[x]
  BY DEF With, IsHeap

(* Blocks taken out of a heap.                                             *)
LEMMA WithoutIs ==
    ASSUME NEW h, IsHeap(h), NEW bs
    PROVE  /\ IsHeap(Without(h, bs))
           /\ DOMAIN Without(h, bs) = DOMAIN h \ bs
           /\ \A x \in DOMAIN h \ bs : Without(h, bs)[x] = h[x]
  BY DEF Without, IsHeap

(* A new string of audd_malloc.                                            *)
LEMMA WithTextIs ==
    ASSUME NEW h, IsHeap(h), NEW b \in Blocks
    PROVE  /\ IsHeap(With(h, b, Text))
           /\ DOMAIN With(h, b, Text) = DOMAIN h \cup {b}
           /\ ~With(h, b, Text)[b].headed
           /\ \A x \in DOMAIN h \ {b} : With(h, b, Text)[x] = h[x]
  <1>1. Text \in HeapBlock
    BY TextIsBlock
  <1>2. /\ IsHeap(With(h, b, Text))
        /\ DOMAIN With(h, b, Text) = DOMAIN h \cup {b}
        /\ With(h, b, Text)[b] = Text
        /\ \A x \in DOMAIN h \ {b} : With(h, b, Text)[x] = h[x]
    BY <1>1, WithIs
  <1>3. ~With(h, b, Text)[b].headed
    BY <1>2, TextIsBlock
  <1> QED
    BY <1>2, <1>3

(* audd_free frees what it is given, NULL included, if that has no header. *)
LEMMA FreeIs ==
    ASSUME NEW h, IsHeap(h), NEW p, p # NULL => ~h[p].headed
    PROVE  /\ IsHeap(audd_free(h, p))
           /\ DOMAIN audd_free(h, p) = DOMAIN h \ {p}
           /\ \A x \in DOMAIN h \ {p} : audd_free(h, p)[x] = h[x]
  <1>1. CASE p = NULL
    <2>1. DOMAIN h \ {p} = DOMAIN h
      BY <1>1, BlocksAssumption DEF IsHeap
    <2> QED
      BY <1>1, <2>1 DEF audd_free
  <1>2. CASE p # NULL
    <2>1. audd_free(h, p) = Without(h, {p})
      BY <1>2 DEF audd_free
    <2> QED
      BY <2>1, WithoutIs
  <1> QED
    BY <1>1, <1>2

(* audd_realloc_free frees it too, unless realloc(p, 0) does not.          *)
LEMMA ReallocFreeIs ==
    ASSUME NEW h, IsHeap(h), NEW p,
           how \in [realloc : Reallocators, zero_frees : ZeroFrees]
    PROVE  LET g == audd_realloc_free(h, p) IN
           /\ IsHeap(g)
           /\ DOMAIN g \subseteq DOMAIN h /\ DOMAIN h \ {p} \subseteq DOMAIN g
           /\ FALSE \notin ZeroFrees => DOMAIN g = DOMAIN h \ {p}
           /\ \A x \in DOMAIN h \ {p} : g[x] = h[x]
  <1> DEFINE g == audd_realloc_free(h, p)
  <1>1. g = h \/ g = Without(h, {p})
    BY DEF audd_realloc_free
  <1>2. ASSUME FALSE \notin ZeroFrees PROVE g = Without(h, {p})
    <2>1. how.zero_frees \in ZeroFrees
      OBVIOUS
    <2>2. how.zero_frees = TRUE
      BY <1>2, <2>1, AllocatorsAssumption
    <2> QED
      BY <2>2 DEF audd_realloc_free
  <1>3. /\ IsHeap(Without(h, {p}))
        /\ DOMAIN Without(h, {p}) = DOMAIN h \ {p}
        /\ \A x \in DOMAIN h \ {p} : Without(h, {p})[x] = h[x]
    BY WithoutIs
  <1> QED
    BY <1>1, <1>2, <1>3

(* audd_realloc moves the block: what the new one holds ...                *)
LEMMA ResizedIs ==
    ASSUME NEW h, IsHeap(h), NEW p, p \in DOMAIN h \cup {NULL},
           NEW size, size \in 1 .. LargestBlock
    PROVE  /\ Resized(h, p, size) \in HeapBlock
           /\ Len(Resized(h, p, size).bytes) = size
           /\ p # NULL => \A i \in 1 .. Len(h[p].bytes) :
                 i <= size => Resized(h, p, size).bytes[i] = h[p].bytes[i]
  <1> DEFINE old == IF p = NULL THEN <<>> ELSE h[p].bytes
             block == Resized(h, p, size)
  <1>1. old \in Seq(Int) /\ Len(old) \in Nat
    BY DEF IsHeap, HeapBlock
  <1>2. Kept(old, size) = IF Len(old) <= size THEN Len(old) ELSE size
    BY <1>1, MinOfTwo DEF Kept
  <1>3. /\ block.bytes = [i \in 1 .. size |->
                             IF i <= Kept(old, size) THEN old[i] ELSE Junk]
        /\ block.headed = (how.realloc = "emulated")
        /\ block = [headed |-> block.headed, bytes |-> block.bytes]
    BY DEF Resized
  <1>4. block.bytes \in Seq(Int) /\ Len(block.bytes) = size
    <2>1. \A i \in 1 .. size : block.bytes[i] \in Int
      BY <1>1, <1>2, <1>3 DEF Junk
    <2> QED
      BY <1>3, <2>1
  <1>5. block \in HeapBlock
    <2>1. block.headed \in BOOLEAN
      BY <1>3
    <2>2. block.bytes \in {s \in Seq(Int) : Len(s) \in 0 .. LargestBlock}
      BY <1>4, Quarter
    <2> QED
      BY <1>3, <2>1, <2>2 DEF HeapBlock
  <1>6. ASSUME p # NULL, NEW i \in 1 .. Len(h[p].bytes), i <= size
        PROVE  block.bytes[i] = h[p].bytes[i]
    BY <1>1, <1>2, <1>3, <1>6
  <1> QED
    BY <1>4, <1>5, <1>6

(* ... and which kind of block it is.                                      *)
LEMMA ReallocHeaded ==
    ASSUME NEW h, NEW p, NEW size, NEW b
    PROVE  audd_realloc(h, p, size, b)[b].headed <=> how.realloc = "emulated"
  BY DEF audd_realloc, With, Without, Resized

-----------------------------------------------------------------------------
(* The initial states.                                                     *)

(* Every transfer starts in the invariant.                                 *)
LEMMA InitIInv == Init => IInv
  <1> SUFFICES ASSUME Init PROVE IInv
    OBVIOUS
  <1>1. DOMAIN heap = {}
    BY DEF Init
  <1>2. Max({} \cup {0}) = 0
    BY MaxIs
  <1>3. TypeInv
    <2>1. IsHeap(heap)
      BY <1>1 DEF Init, IsHeap
    <2>2. /\ LargestBlock \in Nat /\ 1 \in 1 .. SizeLimit - 1
          /\ MaxBody \in Nat /\ 1 \in 1 .. MaxHops
      BY Quarter, SizesAssumption
    <2>3. /\ how \in [realloc : Reallocators, zero_frees : ZeroFrees]
          /\ buf \in [data : Blocks \cup {NULL}, len : 0 .. MaxBody,
                      cap : 0 .. LargestBlock]
          /\ append \in [n : ChunkSizes \cup {0}, newcap : 1 .. SizeLimit - 1]
          /\ resp \in [body : Blocks \cup {NULL}, body_len : 0 .. MaxBody,
                       request_id : Blocks \cup {NULL},
                       json : Blocks \cup {NULL}]
      BY <2>2 DEF Init, NoBuffer, NoAppend, NoResponse
    <2>4. /\ pc = "start" /\ scratch = NULL /\ request_id = NULL
          /\ hop = 1 /\ id_of = 0 /\ received = 0 /\ id_hops = {}
      BY DEF Init
    <2>5. starved \in BOOLEAN
      BY DEF Init
    <2>6. hop \in 1 .. MaxHops /\ id_of \in 0 .. MaxHops
      BY <2>2, <2>4, SizesAssumption
    <2>7. TypeOK
      BY <1>1, <2>3, <2>4, <2>5, <2>6 DEF TypeOK
    <2> QED
      BY <2>1, <2>2, <2>4, <2>7 DEF TypeInv
  <1>4. PhaseInv /\ AppendInv
    BY DEF Init, PhaseInv, AppendInv, Before, Answered, Transferring
  <1>5. OwnInv /\ HeadedInv
    BY <1>1 DEF Init, OwnInv, HeadedInv, Live, Body, Id, NoBuffer, NoResponse,
                Answered, Over
  <1>6. BodyInv
    BY DEF Init, BodyInv, BodyLen, Body, NoBuffer, Answered
  <1>7. IdInv
    BY <1>2 DEF Init, IdInv, Id, Answered
  <1> QED
    BY <1>3, <1>4, <1>5, <1>6, <1>7 DEF IInv

-----------------------------------------------------------------------------
(* The steps.                                                              *)

(* Each action keeps it, here the strings allocated before the transfer.   *)
LEMMA AllocScratchIInv == IInv /\ AllocScratch => IInv'
  <1> SUFFICES ASSUME IInv, AllocScratch PROVE IInv'
    OBVIOUS
  <1> USE DEF IInv
  <1>1. /\ pc = "start" /\ scratch = NULL /\ buf = NoBuffer
        /\ request_id = NULL /\ resp = NoResponse /\ DOMAIN heap = {}
    BY DEF AllocScratch, PhaseInv, OwnInv, Live, Body, Id, NoBuffer,
           NoResponse, Answered, Transferring, Before, Over
  <1>2. Unused(heap) \in Blocks
    <2>1. DOMAIN heap \subseteq {NULL, NULL, NULL}
      BY <1>1
    <2> QED
      BY <2>1, UnusedIs
  <1>3. /\ pc' \in {"prepare", "failed"}
        /\ \/ /\ scratch' \in Blocks /\ DOMAIN heap' = {scratch'}
              /\ ~heap'[scratch'].headed /\ IsHeap(heap')
              /\ pc' = "prepare"
           \/ scratch' = NULL /\ heap' = heap
    <2>1. IsHeap(heap)
      BY DEF TypeInv
    <2>2. \/ scratch' = Unused(heap) /\ heap' = With(heap, scratch', Text)
             /\ pc' = "prepare"
          \/ scratch' = scratch /\ heap' = heap
      BY DEF AllocScratch
    <2>3. pc' \in {"prepare", "failed"}
      BY DEF AllocScratch
    <2>4. ASSUME scratch' = Unused(heap), heap' = With(heap, scratch', Text)
          PROVE  /\ scratch' \in Blocks /\ DOMAIN heap' = {scratch'}
                 /\ ~heap'[scratch'].headed /\ IsHeap(heap')
      BY <1>1, <1>2, <2>1, <2>4, WithTextIs
    <2> QED
      BY <1>1, <2>2, <2>3, <2>4
  <1>4. UNCHANGED <<how, buf, append, request_id, resp, hop, received,
                    id_hops, id_of, starved>>
    BY DEF AllocScratch
  <1>5. TypeInv'
    BY <1>1, <1>3, <1>4, TextIsBlock DEF TypeInv, TypeOK, IsHeap, HeapBlock
  <1>6. PhaseInv'
    BY <1>1, <1>3, <1>4 DEF PhaseInv, Answered, Transferring, Before
  <1>7. OwnInv' /\ HeadedInv'
    BY <1>1, <1>3, <1>4, BlocksAssumption
       DEF OwnInv, HeadedInv, Live, Body, Id, NoBuffer, NoResponse, Answered,
           Over
  <1>8. BodyInv' /\ AppendInv' /\ IdInv'
    BY <1>1, <1>3, <1>4
       DEF BodyInv, AppendInv, IdInv, BodyLen, Body, Id, NoBuffer, NoResponse,
           Answered, Over
  <1> QED
    BY <1>5, <1>6, <1>7, <1>8

(* A transfer that cannot be set up frees its strings.                     *)
LEMMA PrepareFailsIInv == IInv /\ PrepareFails => IInv'
  <1> SUFFICES ASSUME IInv, PrepareFails PROVE IInv'
    OBVIOUS
  <1> USE DEF IInv
  <1>1. /\ pc = "prepare" /\ buf = NoBuffer /\ request_id = NULL
        /\ resp = NoResponse /\ DOMAIN heap \subseteq {scratch}
        /\ scratch # NULL => ~heap[scratch].headed
    BY DEF PrepareFails, PhaseInv, OwnInv, HeadedInv, Live, Body, Id,
           NoBuffer, NoResponse, Answered, Transferring, Over
  <1>2. IsHeap(heap') /\ DOMAIN heap' = {}
    BY <1>1, FreeIs DEF PrepareFails, TypeInv
  <1>3. /\ pc' = "failed" /\ scratch' = NULL
        /\ UNCHANGED <<how, buf, append, request_id, resp, hop, received,
                       id_hops, id_of, starved>>
    BY DEF PrepareFails
  <1>4. TypeInv'
    BY <1>2, <1>3 DEF TypeInv, TypeOK
  <1>5. PhaseInv'
    BY <1>1, <1>3 DEF PhaseInv, Answered, Transferring, Before
  <1>6. OwnInv' /\ HeadedInv'
    BY <1>1, <1>2, <1>3
       DEF OwnInv, HeadedInv, Live, Body, Id, NoBuffer, NoResponse, Answered,
           Over
  <1>7. BodyInv' /\ AppendInv' /\ IdInv'
    BY <1>1, <1>3 DEF BodyInv, AppendInv, IdInv, Over
  <1> QED
    BY <1>4, <1>5, <1>6, <1>7

(* Prepared and NextHop change neither the heap nor a pointer.             *)
LEMMA PreparedIInv == IInv /\ (Prepared \/ NextHop) => IInv'
  <1> SUFFICES ASSUME IInv, Prepared \/ NextHop PROVE IInv'
    OBVIOUS
  <1> USE DEF IInv
  <1>1. /\ pc \in {"prepare", "transfer"} /\ pc' = "transfer"
        /\ hop' \in hop .. MaxHops
        /\ UNCHANGED <<how, heap, scratch, buf, append, request_id, resp,
                       received, id_hops, id_of, starved>>
    BY SizesAssumption DEF Prepared, NextHop, TypeInv, TypeOK
  <1>2. TypeInv'
    BY <1>1 DEF TypeInv, TypeOK
  <1>3. PhaseInv' /\ AppendInv'
    BY <1>1 DEF PhaseInv, AppendInv, Answered, Transferring, Before
  <1>4. UNCHANGED <<Body, BodyLen, Id, Live>>
    BY <1>1 DEF Body, BodyLen, Id, Live, Answered
  <1>5. OwnInv' /\ HeadedInv' /\ IdInv'
    BY <1>1, <1>4 DEF OwnInv, HeadedInv, IdInv, Over
  <1>6. BodyInv'
    <2>1. pc = "prepare" => Body = NULL
      BY DEF PhaseInv, Body, NoBuffer, Answered, Transferring
    <2> QED
      BY <1>1, <1>4, <2>1 DEF BodyInv, Over, Transferring
  <1> QED
    BY <1>2, <1>3, <1>5, <1>6

(* What is in the buffer, what it can hold and what is to be added.        *)
LEMMA SizesAre ==
    ASSUME TypeInv
    PROVE  /\ buf.len \in Nat /\ buf.cap \in 0 .. LargestBlock
           /\ append.n \in 0 .. SizeLimit \div 4
           /\ append.newcap \in 1 .. SizeLimit - 1
  <1>1. /\ buf \in [data : Blocks \cup {NULL}, len : 0 .. MaxBody,
                    cap : 0 .. LargestBlock]
        /\ append \in [n : ChunkSizes \cup {0}, newcap : 1 .. SizeLimit - 1]
    BY DEF TypeInv, TypeOK
  <1>2. ChunkSizes \cup {0} \subseteq 0 .. SizeLimit \div 4
    BY Quarter, SizesAssumption
  <1>3. append.n \in ChunkSizes \cup {0}
    BY <1>1
  <1> QED
    BY <1>1, <1>2, <1>3

(* What the heap holds during a transfer.                                  *)
LEMMA TransferIs ==
    ASSUME IInv, pc \in Transferring
    PROVE  /\ IsHeap(heap) /\ resp = NoResponse
           /\ Body = buf.data /\ BodyLen = buf.len /\ Id = request_id
           /\ DOMAIN heap = {scratch, buf.data, request_id} \ {NULL}
           /\ NULL \notin DOMAIN heap
           /\ scratch # NULL => scratch \notin {buf.data, request_id}
           /\ buf.data # NULL => buf.data # request_id
           /\ \A p \in {scratch, request_id} : p # NULL => ~heap[p].headed
           /\ buf.data # NULL =>
                 (heap[buf.data].headed <=> how.realloc = "emulated")
  <1>1. pc \notin Answered /\ pc \notin Over
    BY DEF Transferring, Answered, Over
  <1>2. /\ resp = NoResponse /\ Body = buf.data /\ BodyLen = buf.len
        /\ Id = request_id /\ resp.json = NULL
    BY <1>1 DEF IInv, PhaseInv, Body, BodyLen, Id, NoResponse
  <1>3. IsHeap(heap) /\ NULL \notin DOMAIN heap
    BY BlocksAssumption DEF IInv, TypeInv, IsHeap
  <1>4. OwnInv /\ HeadedInv
    BY DEF IInv
  <1>5. DOMAIN heap = {scratch, buf.data, request_id} \ {NULL}
    BY <1>1, <1>2, <1>4 DEF OwnInv, Live
  <1>6. /\ scratch # NULL => scratch \notin {buf.data, request_id}
        /\ buf.data # NULL => buf.data # request_id
    BY <1>2, <1>4 DEF OwnInv
  <1>7. /\ \A p \in {scratch, request_id} : p # NULL => ~heap[p].headed
        /\ buf.data # NULL =>
              (heap[buf.data].headed <=> how.realloc = "emulated")
    BY <1>2, <1>4 DEF HeadedInv
  <1> QED
    BY <1>2, <1>3, <1>5, <1>6, <1>7

(* A header block brings a new request id, or ends a hop.                  *)
LEMMA header_cbIInv == IInv /\ header_cb => IInv'
  <1> SUFFICES ASSUME IInv, header_cb PROVE IInv'
    OBVIOUS
  <1>1. /\ pc = "transfer" /\ pc' = pc /\ hop \notin id_hops
        /\ id_hops' = id_hops \cup {hop}
        /\ UNCHANGED <<how, scratch, buf, append, resp, hop, received>>
    BY DEF header_cb
  <1>2. /\ IsHeap(heap) /\ resp = NoResponse
        /\ DOMAIN heap = {scratch, buf.data, request_id} \ {NULL}
        /\ NULL \notin DOMAIN heap
        /\ scratch # NULL => scratch \notin {buf.data, request_id}
        /\ buf.data # NULL => buf.data # request_id
        /\ \A p \in {scratch, request_id} : p # NULL => ~heap[p].headed
        /\ buf.data # NULL =>
              (heap[buf.data].headed <=> how.realloc = "emulated")
    BY <1>1, TransferIs DEF Transferring
  <1>3. TypeInv /\ PhaseInv /\ BodyInv /\ AppendInv /\ IdInv
    BY DEF IInv
  <1>4. /\ Body' = buf.data /\ BodyLen' = buf.len /\ Id' = request_id'
        /\ Body = buf.data /\ BodyLen = buf.len /\ Id = request_id
        /\ resp'.json = NULL
    BY <1>1, <1>2 DEF Body, BodyLen, Id, Answered, NoResponse
  (* Which block the copy gets, if it gets one.                            *)
  <1>5. \/ /\ request_id' \in Blocks \ DOMAIN heap /\ request_id' # NULL
           /\ IsHeap(heap')
           /\ DOMAIN heap' = {scratch, buf.data, request_id'} \ {NULL}
           /\ ~heap'[request_id'].headed
           /\ \A x \in {scratch, buf.data} \ {NULL} : heap'[x] = heap[x]
           /\ id_of' = hop /\ starved' = starved
        \/ /\ UNCHANGED <<heap, request_id, id_of>>
           /\ starved' = TRUE
    <2>1. CASE UNCHANGED <<heap, request_id, id_of>> /\ starved' = TRUE
      BY <2>1
    <2>2. CASE /\ heap' = audd_free(With(heap, Unused(heap), Text), request_id)
               /\ request_id' = Unused(heap) /\ id_of' = hop
               /\ UNCHANGED starved
      <3> DEFINE rid == Unused(heap)
                 h == With(heap, rid, Text)
      <3>1. rid \in Blocks \ DOMAIN heap /\ rid # NULL
        <4>1. DOMAIN heap \subseteq {scratch, buf.data, request_id}
          BY <1>2
        <4> QED
          BY <4>1, UnusedIs
      <3> HIDE DEF rid
      <3>2. /\ IsHeap(h) /\ DOMAIN h = DOMAIN heap \cup {rid}
            /\ ~h[rid].headed
            /\ \A x \in DOMAIN heap \ {rid} : h[x] = heap[x]
        BY <1>2, <3>1, WithTextIs
      <3> HIDE DEF h
      <3>3. request_id # NULL => ~h[request_id].headed
        BY <1>2, <3>1, <3>2
      <3>4. heap' = audd_free(h, request_id) /\ request_id' = rid
        BY <2>2 DEF rid, h
      <3>5. /\ IsHeap(heap') /\ DOMAIN heap' = DOMAIN h \ {request_id}
            /\ \A x \in DOMAIN h \ {request_id} : heap'[x] = h[x]
        BY <3>2, <3>3, <3>4, FreeIs
      <3>6. DOMAIN heap' = {scratch, buf.data, rid} \ {NULL}
        BY <1>2, <3>1, <3>2, <3>5
      <3>7. ~heap'[rid].headed
        BY <1>2, <3>1, <3>2, <3>5
      <3>8. \A x \in {scratch, buf.data} \ {NULL} : heap'[x] = heap[x]
        BY <1>2, <3>1, <3>2, <3>5
      <3> QED
        BY <2>2, <3>1, <3>4, <3>5, <3>6, <3>7, <3>8
    <2> QED
      BY <2>1, <2>2 DEF header_cb
  <1>6. TypeInv'
    <2>1. IsHeap(heap') /\ request_id' \in Blocks \cup {NULL}
      BY <1>2, <1>3, <1>5 DEF TypeInv, TypeOK
    <2>2. id_of' \in 0 .. MaxHops /\ starved' \in BOOLEAN
      <3>1. {hop, id_of} \subseteq 0 .. MaxHops /\ starved \in BOOLEAN
        BY <1>3 DEF TypeInv, TypeOK
      <3> QED
        BY <1>5, <3>1
    <2>3. id_hops' \subseteq 1 .. hop
      BY <1>1, <1>3 DEF TypeInv, TypeOK
    <2> QED
      BY <1>1, <1>3, <2>1, <2>2, <2>3 DEF TypeInv, TypeOK, IsHeap, HeapBlock
  <1>7. PhaseInv' /\ AppendInv'
    BY <1>1, <1>3 DEF PhaseInv, AppendInv, Transferring, Before
  <1>8. OwnInv'
    BY <1>1, <1>2, <1>4, <1>5 DEF OwnInv, Live, Over
  <1>9. HeadedInv'
    BY <1>1, <1>2, <1>4, <1>5 DEF HeadedInv
  <1>10. BodyInv'
    BY <1>1, <1>3, <1>4, <1>5 DEF BodyInv, Over
  <1>11. IdInv'
    <2> SUFFICES ASSUME ~starved'
                 PROVE  id_of' = Max(id_hops' \cup {0}) /\ request_id' # NULL
      BY <1>1, <1>4 DEF IdInv
    <2>1. id_of' = hop /\ request_id' # NULL
      BY <1>5
    <2>2. hop \in Nat /\ id_hops \subseteq 1 .. hop
      BY <1>3 DEF TypeInv, TypeOK
    <2> DEFINE T == id_hops' \cup {0}
    <2>3. T \subseteq Int /\ hop \in T /\ \A x \in T : x <= hop
      BY <1>1, <2>2
    <2> HIDE DEF T
    <2>4. Max(T) = hop
      BY <2>3, MaxIs
    <2> QED
      BY <2>1, <2>4 DEF T
  <1> QED
    BY <1>6, <1>7, <1>8, <1>9, <1>10, <1>11 DEF IInv

(* A chunk that fits the capacity goes on to the copy, one that does not   *)
(* to the growth.                                                          *)
LEMMA write_cbIInv == IInv /\ write_cb => IInv'
  <1> SUFFICES ASSUME IInv, write_cb PROVE IInv'
    OBVIOUS
  <1> USE DEF IInv
  <1>1. /\ pc = "transfer" /\ pc' \in {"grow", "copy"}
        /\ UNCHANGED <<how, heap, scratch, buf, request_id, resp, hop,
                       received, id_hops, id_of, starved>>
    BY DEF write_cb
  <1>2. UNCHANGED <<Body, BodyLen, Id, Live>>
    BY <1>1 DEF Body, BodyLen, Id, Live, Answered
  <1>3. PICK n \in ChunkSizes :
           /\ received + n <= MaxBody
           /\ \/ /\ Needed(n) > buf.cap /\ pc' = "grow"
                 /\ append' = [n |-> n, newcap |-> FirstNewcap]
              \/ /\ ~(Needed(n) > buf.cap) /\ pc' = "copy"
                 /\ append' = [n |-> n, newcap |-> 1]
    BY DEF write_cb, NoAppend
  <1>4. /\ n \in Nat /\ n <= SizeLimit \div 4
        /\ buf.len \in Nat /\ buf.cap \in 0 .. LargestBlock
        /\ FirstNewcap \in 1 .. LargestBlock /\ buf.cap <= FirstNewcap
    <2>1. n \in 0 .. SizeLimit \div 4
      BY SizesAssumption
    <2>2. buf.len \in Nat /\ buf.cap \in 0 .. LargestBlock
      BY DEF TypeInv, TypeOK
    <2> QED
      BY <2>1, <2>2, Quarter, SizesAssumption DEF FirstNewcap
  <1>5. /\ buf.len = received
        /\ buf.data = NULL => buf.cap = 0 /\ buf.len = 0
        /\ buf.data # NULL => buf.len < buf.cap
    BY <1>1, TransferIs DEF BodyInv, Over, Transferring
  <1>6. Needed(n) = buf.len + n + 1
    <2>1. buf.len + n + 1 \in 0 .. SizeLimit - 1
      BY <1>4, <1>5, Quarter
    <2> QED
      BY <2>1, NoWrap DEF Needed
  <1>7. TypeInv'
    <2>1. append' \in [n : ChunkSizes \cup {0}, newcap : 1 .. SizeLimit - 1]
      <3>1. {1, FirstNewcap} \subseteq 1 .. SizeLimit - 1
        BY <1>4, Quarter
      <3> QED
        BY <1>3, <3>1
    <2> QED
      BY <1>1, <2>1 DEF TypeInv, TypeOK
  <1>8. PhaseInv'
    BY <1>1 DEF PhaseInv, Answered, Transferring, Before
  <1>9. OwnInv' /\ HeadedInv' /\ IdInv'
    BY <1>1, <1>2 DEF OwnInv, HeadedInv, IdInv, Over
  <1>10. BodyInv'
    BY <1>1, <1>2 DEF BodyInv, Over, Transferring
  <1>11. AppendInv'
    BY <1>1, <1>3, <1>4, <1>5, <1>6 DEF AppendInv
  <1> QED
    BY <1>7, <1>8, <1>9, <1>10, <1>11

(* Doubling leads to a capacity that is a number and no wrapped one.       *)
LEMMA DoubleCapIInv == IInv /\ DoubleCap => IInv'
  <1> SUFFICES ASSUME IInv, DoubleCap PROVE IInv'
    OBVIOUS
  <1> USE DEF IInv
  <1>1. /\ pc = "grow" /\ append.newcap < Needed(append.n)
        /\ append' = [append EXCEPT !.newcap = (2 * @) % SizeLimit]
        /\ UNCHANGED <<how, pc, heap, scratch, buf, request_id, resp, hop,
                       received, id_hops, id_of, starved>>
    BY DEF DoubleCap
  <1>2. UNCHANGED <<Body, BodyLen, Id, Live>>
    BY <1>1 DEF Body, BodyLen, Id, Live
  <1> DEFINE n == append.n
             newcap == append.newcap
  <1>3. /\ append \in [n : ChunkSizes \cup {0}, newcap : 1 .. SizeLimit - 1]
        /\ n \in 0 .. SizeLimit \div 4
        /\ buf.len \in Nat /\ buf.cap \in 0 .. LargestBlock
    BY SizesAre DEF TypeInv, TypeOK
  <1>4. /\ buf.len + 1 <= buf.cap \/ (buf.len = 0 /\ buf.cap = 0)
    <2>1. /\ buf.data = NULL => buf.cap = 0 /\ buf.len = 0
          /\ buf.data # NULL => buf.len < buf.cap
      BY <1>1, TransferIs DEF BodyInv, Over, Transferring
    <2> QED
      BY <1>3, <2>1
  <1>5. newcap \in 1 .. LargestBlock /\ buf.cap <= newcap
    BY <1>1, <1>3 DEF AppendInv
  <1>6. append'.n = n /\ append'.newcap = 2 * newcap
    <2>1. (2 * newcap) % SizeLimit = 2 * newcap
      BY <1>5, Quarter, NoWrap
    <2> QED
      BY <1>1, <1>3, <2>1
  <1>7. Needed(n)' = buf.len + n + 1
    <2>1. buf.len + n + 1 \in 0 .. SizeLimit - 1
      BY <1>3, <1>4, ChunkFits
    <2> QED
      BY <1>1, <1>6, <2>1, NoWrap DEF Needed
  <1>8. TypeInv'
    <2>1. append' \in [n : ChunkSizes \cup {0}, newcap : 1 .. SizeLimit - 1]
      <3>1. 2 * newcap \in 1 .. SizeLimit - 1
        BY <1>5, Quarter
      <3>2. append' = [append EXCEPT !.newcap = 2 * newcap]
        BY <1>1, <1>3, <1>6
      <3> QED
        BY <1>3, <3>1, <3>2
    <2> QED
      BY <1>1, <2>1 DEF TypeInv, TypeOK
  <1>9. AppendInv'
    <2>1. received + n <= MaxBody
      BY <1>1 DEF AppendInv
    <2>2. /\ buf.cap <= 2 * newcap
          /\ 2 * newcap < buf.len + n + 1 => 2 * newcap <= LargestBlock
      BY <1>3, <1>4, <1>5, Quarter
    <2>3. Needed(append.n)' = Needed(n)'
      BY <1>6 DEF Needed
    <2> QED
      BY <1>1, <1>6, <1>7, <2>1, <2>2, <2>3 DEF AppendInv
  <1>10. PhaseInv' /\ BodyInv'
    BY <1>1, <1>2 DEF PhaseInv, BodyInv
  <1>11. OwnInv' /\ HeadedInv' /\ IdInv'
    BY <1>1, <1>2 DEF OwnInv, HeadedInv, IdInv
  <1> QED
    BY <1>8, <1>9, <1>10, <1>11

(* The block that grew is in use in place of the old one, or the old one   *)
(* stays.                                                                  *)
LEMMA ReallocateIInv == IInv /\ Reallocate => IInv'
  <1> SUFFICES ASSUME IInv, Reallocate PROVE IInv'
    OBVIOUS
  <1>1. /\ pc = "grow" /\ append.newcap >= Needed(append.n)
        /\ UNCHANGED <<how, scratch, request_id, resp, hop, received, id_hops,
                       id_of, starved>>
    BY DEF Reallocate
  <1>2. /\ IsHeap(heap) /\ resp = NoResponse
        /\ DOMAIN heap = {scratch, buf.data, request_id} \ {NULL}
        /\ NULL \notin DOMAIN heap
        /\ scratch # NULL => scratch \notin {buf.data, request_id}
        /\ buf.data # NULL => buf.data # request_id
        /\ \A p \in {scratch, request_id} : p # NULL => ~heap[p].headed
        /\ buf.data # NULL =>
              (heap[buf.data].headed <=> how.realloc = "emulated")
        /\ Body = buf.data /\ BodyLen = buf.len /\ Id = request_id
    BY <1>1, TransferIs DEF Transferring
  <1>3. TypeInv /\ PhaseInv /\ BodyInv /\ AppendInv /\ IdInv /\ OwnInv
        /\ HeadedInv
    BY DEF IInv
  <1>4. CASE /\ pc' = IF append.n = 0 THEN "transfer" ELSE "abort"
             /\ append' = NoAppend
             /\ UNCHANGED <<heap, buf>>
    <2>1. pc' \in {"transfer", "abort"}
      BY <1>4
    <2>2. UNCHANGED <<Body, BodyLen, Id, Live>>
      BY <1>1, <1>4, <2>1 DEF Body, BodyLen, Id, Live, Answered
    <2>3. TypeInv'
      <3>1. NoAppend \in [n : ChunkSizes \cup {0}, newcap : 1 .. SizeLimit - 1]
        BY Quarter DEF NoAppend
      <3> QED
        BY <1>1, <1>3, <1>4, <2>1, <3>1 DEF TypeInv, TypeOK
    <2>4. PhaseInv' /\ BodyInv' /\ AppendInv'
      BY <1>1, <1>3, <1>4, <2>1, <2>2
         DEF PhaseInv, BodyInv, AppendInv, Over, Answered, Transferring, Before
    <2>5. OwnInv' /\ HeadedInv' /\ IdInv'
      BY <1>1, <1>3, <1>4, <2>1, <2>2 DEF OwnInv, HeadedInv, IdInv, Over
    <2> QED
      BY <2>3, <2>4, <2>5 DEF IInv
  <1>5. CASE /\ append.newcap <= LargestBlock
             /\ heap' = audd_realloc(heap, buf.data, append.newcap,
                                     Unused(heap))
             /\ buf' = [buf EXCEPT !.data = Unused(heap),
                                   !.cap = append.newcap]
             /\ pc' = "copy"
             /\ UNCHANGED append
    <2> DEFINE b == Unused(heap)
               size == append.newcap
    <2>1. b \in Blocks \ DOMAIN heap /\ b # NULL
      <3>1. DOMAIN heap \subseteq {scratch, buf.data, request_id}
        BY <1>2
      <3> QED
        BY <3>1, UnusedIs
    <2>2. size \in 1 .. LargestBlock
      BY <1>3, <1>5, SizesAre, Quarter
    <2>3. /\ buf'.data = b /\ buf'.len = buf.len /\ buf'.cap = size
          /\ buf' \in [data : Blocks \cup {NULL}, len : 0 .. MaxBody,
                       cap : 0 .. LargestBlock]
      <3>1. buf \in [data : Blocks \cup {NULL}, len : 0 .. MaxBody,
                     cap : 0 .. LargestBlock]
        BY <1>3 DEF TypeInv, TypeOK
      <3>2. size \in 0 .. LargestBlock
        BY <2>2
      <3> HIDE DEF b, size
      <3>3. buf' = [buf EXCEPT !.data = b, !.cap = size]
        BY <1>5 DEF b, size
      <3> QED
        BY <2>1, <3>1, <3>2, <3>3
    <2>4. heap' = audd_realloc(heap, buf.data, size, b)
      BY <1>5
    <2> HIDE DEF b, size
    <2>5. buf.data \in DOMAIN heap \cup {NULL}
      BY <1>2
    <2>6. /\ IsHeap(heap')
          /\ DOMAIN heap' = (DOMAIN heap \ {buf.data}) \cup {b}
          /\ \A x \in DOMAIN heap \ {buf.data} : heap'[x] = heap[x]
          /\ heap'[b].headed <=> how.realloc = "emulated"
          /\ Len(heap'[b].bytes) = size
          /\ buf.data # NULL =>
                \A i \in 1 .. Len(heap[buf.data].bytes) :
                   i <= size => heap'[b].bytes[i] = heap[buf.data].bytes[i]
      <3>1. IsHeap(heap)
        BY <1>2
      <3> QED
        <4>1. heap'[b].headed <=> how.realloc = "emulated"
          BY <2>4, ReallocHeaded
        <4>2. /\ IsHeap(heap')
              /\ DOMAIN heap' = (DOMAIN heap \ {buf.data}) \cup {b}
              /\ \A x \in DOMAIN heap \ {buf.data} : heap'[x] = heap[x]
              /\ heap'[b] = Resized(heap, buf.data, size)
          <5> DEFINE rest == Without(heap, {buf.data})
                     block == Resized(heap, buf.data, size)
          <5>1. block \in HeapBlock
            BY <2>2, <2>5, <3>1, ResizedIs
          <5>2. /\ IsHeap(rest) /\ DOMAIN rest = DOMAIN heap \ {buf.data}
                /\ \A x \in DOMAIN heap \ {buf.data} : rest[x] = heap[x]
            BY <3>1, WithoutIs
          <5>3. heap' = With(rest, b, block)
            BY <2>4 DEF audd_realloc
          <5> HIDE DEF rest, block
          <5>4. b \in Blocks
            BY <2>1
          <5>5. IsHeap(rest)
            BY <5>2
          <5> DEFINE h == With(rest, b, block)
          <5>6. /\ IsHeap(h) /\ DOMAIN h = DOMAIN rest \cup {b}
                /\ h[b] = block
                /\ \A x \in DOMAIN rest \ {b} : h[x] = rest[x]
            BY ONLY <5>1, <5>4, <5>5, WithIs
          <5>7. heap' = h
            BY <5>3
          <5> HIDE DEF h
          <5> QED
            BY <2>1, <5>2, <5>6, <5>7 DEF block
        <4>3. ASSUME buf.data # NULL,
                     NEW i \in 1 .. Len(heap[buf.data].bytes), i <= size
              PROVE  heap'[b].bytes[i] = heap[buf.data].bytes[i]
          BY <2>2, <2>5, <3>1, <4>2, <4>3, ResizedIs
        <4>4. Len(heap'[b].bytes) = size
          BY <2>2, <2>5, <3>1, <4>2, ResizedIs
        <4> QED
          BY <4>1, <4>2, <4>3, <4>4
    <2>7. DOMAIN heap' = {scratch, b, request_id} \ {NULL}
      BY <1>2, <2>1, <2>6
    <2>8. \A x \in {scratch, request_id} \ {NULL} : heap'[x] = heap[x]
      BY <1>2, <2>6
    <2>9. /\ Body' = b /\ BodyLen' = buf.len /\ Id' = request_id
          /\ resp'.json = NULL
      BY <1>1, <1>2, <1>5, <2>3 DEF Body, BodyLen, Id, Answered, NoResponse
    <2>10. TypeInv'
      BY <1>1, <1>3, <1>5, <2>3, <2>6 DEF TypeInv, TypeOK, IsHeap, HeapBlock
    <2>11. PhaseInv'
      BY <1>1, <1>3, <1>5
         DEF PhaseInv, Answered, Transferring, Before
    <2>12. OwnInv'
      BY <1>1, <1>2, <1>5, <2>1, <2>7, <2>9 DEF OwnInv, Live, Over
    <2>13. HeadedInv'
      BY <1>1, <1>2, <2>6, <2>8, <2>9 DEF HeadedInv
    <2>14. /\ buf.len = received /\ buf.len + append.n + 1 <= size
           /\ buf.len \in Nat /\ append.n \in Nat
           /\ buf.data = NULL => received = 0
           /\ buf.data # NULL =>
                 /\ buf.len < Len(heap[buf.data].bytes)
                 /\ \A i \in 1 .. buf.len : heap[buf.data].bytes[i] = i
      <3>1. /\ buf.len = received
            /\ buf.data = NULL => buf.cap = 0 /\ buf.len = 0
            /\ buf.data # NULL =>
                 /\ buf.len < Len(heap[buf.data].bytes)
                 /\ buf.len < buf.cap
                 /\ \A i \in 1 .. buf.len : heap[buf.data].bytes[i] = i
        BY <1>1, <1>2, <1>3 DEF BodyInv, Over, Transferring
      <3>2. /\ append.n \in 0 .. SizeLimit \div 4
            /\ buf.len \in Nat /\ buf.cap \in 0 .. LargestBlock
        BY <1>3, SizesAre
      <3>3. Needed(append.n) = buf.len + append.n + 1
        <4>1. buf.len = 0 \/ buf.len < buf.cap
          BY <3>1
        <4>2. buf.len + append.n + 1 \in 0 .. SizeLimit - 1
          BY <3>2, <4>1, ChunkFits
        <4> QED
          BY <4>2, NoWrap DEF Needed
      <3> QED
        BY <1>1, <2>2, <3>1, <3>2, <3>3 DEF size
    <2>15. BodyInv'
      <3>1. \A i \in 1 .. buf.len : heap'[b].bytes[i] = i
        BY <2>2, <2>6, <2>14
      <3> QED
        BY <1>1, <1>5, <2>1, <2>2, <2>3, <2>6, <2>9, <2>14, <3>1
           DEF BodyInv, Over, Transferring
    <2>16. AppendInv'
      BY <1>1, <1>3, <1>5, <2>1, <2>2, <2>3, <2>14 DEF AppendInv, size
    <2>17. IdInv'
      BY <1>1, <1>2, <1>3, <1>5, <2>9 DEF IdInv, Over
    <2> QED
      BY <2>10, <2>11, <2>12, <2>13, <2>15, <2>16, <2>17 DEF IInv
  <1> QED
    BY <1>4, <1>5 DEF Reallocate
(* The bytes of the chunk follow those that are there.                     *)
LEMMA CopyChunkIInv == IInv /\ CopyChunk => IInv'
  <1> SUFFICES ASSUME IInv, CopyChunk PROVE IInv'
    OBVIOUS
  <1> DEFINE b == buf.data
             old == heap[b].bytes
             n == append.n
             new == Written(old, buf.len, n)
  <1>1. /\ pc = "copy" /\ pc' = "transfer"
        /\ heap' = [heap EXCEPT ![b].bytes = new]
        /\ buf' = [buf EXCEPT !.len = @ + n]
        /\ received' = received + n /\ append' = NoAppend
        /\ UNCHANGED <<how, scratch, request_id, resp, hop, id_hops, id_of,
                       starved>>
    BY DEF CopyChunk
  <1>2. TypeInv /\ PhaseInv /\ OwnInv /\ HeadedInv /\ BodyInv /\ AppendInv
        /\ IdInv
    BY DEF IInv
  <1>3. /\ IsHeap(heap) /\ resp = NoResponse
        /\ DOMAIN heap = {scratch, b, request_id} \ {NULL}
        /\ Body = b /\ BodyLen = buf.len /\ Id = request_id
    BY <1>1, TransferIs DEF Transferring
  <1>4. /\ b # NULL /\ b \in DOMAIN heap
        /\ buf.len = received /\ buf.cap = Len(old)
        /\ buf.len + n < Len(old) /\ received + n <= MaxBody
        /\ \A i \in 1 .. buf.len : old[i] = i
    BY <1>1, <1>2, <1>3 DEF BodyInv, AppendInv, Over, Transferring
  <1>5. buf.len \in Nat /\ n \in Nat
    BY <1>2, SizesAre
  <1>6. heap[b] \in HeapBlock
    BY <1>3, <1>4 DEF IsHeap
  <1>7. old \in Seq(Int) /\ Len(old) \in 0 .. LargestBlock
    BY <1>6 DEF HeapBlock
  <1>8. /\ new \in Seq(Int) /\ Len(new) = Len(old)
        /\ \A i \in 1 .. buf.len + n : new[i] = i
        /\ new[buf.len + n + 1] = Nul
    <2>1. new = [i \in 1 .. Len(old) |->
                   IF i \in buf.len + 1 .. buf.len + n
                   THEN received + (i - buf.len)
                   ELSE IF i = buf.len + n + 1 THEN Nul ELSE old[i]]
      BY <1>7 DEF Written
    <2> HIDE DEF new
    <2>2. \A i \in 1 .. Len(old) : new[i] \in Int
      <3>1. \A i \in 1 .. Len(old) : old[i] \in Int
        BY <1>7
      <3>2. received \in Int /\ Nul \in Int
        BY <1>4, <1>5 DEF Nul
      <3> QED
        BY <1>5, <2>1, <3>1, <3>2
    <2>3. new \in Seq(Int) /\ Len(new) = Len(old)
      <3>1. new \in [1 .. Len(old) -> Int]
        BY ONLY <2>1, <2>2
      <3>2. new \in Seq(Int)
        BY ONLY <3>1, <1>7
      <3>3. Len(new) = Len(old)
        BY ONLY <3>1, <3>2, <1>7
      <3> QED
        BY <3>2, <3>3
    <2>4. \A i \in 1 .. buf.len + n : new[i] = i
      BY <1>4, <1>5, <1>7, <2>1
    <2>5. new[buf.len + n + 1] = Nul
      BY <1>4, <1>5, <1>7, <2>1
    <2> QED
      BY <2>3, <2>4, <2>5
  <1> HIDE DEF new
  <1>9. /\ DOMAIN heap' = DOMAIN heap
        /\ heap'[b] = [heap[b] EXCEPT !.bytes = new]
        /\ \A x \in DOMAIN heap \ {b} : heap'[x] = heap[x]
    BY <1>1, <1>3, <1>4 DEF IsHeap
  <1>10. heap'[b].bytes = new /\ heap'[b] \in HeapBlock
    BY <1>6, <1>7, <1>8, <1>9 DEF HeapBlock
  <1>11. \A x \in DOMAIN heap : heap'[x].headed = heap[x].headed
    <2>1. heap'[b].headed = heap[b].headed
      BY <1>6, <1>9 DEF HeapBlock
    <2> QED
      BY <1>9, <2>1
  <1>12. IsHeap(heap')
    <2>1. \A x \in DOMAIN heap : heap'[x] \in HeapBlock
      BY <1>3, <1>9, <1>10 DEF IsHeap
    <2>2. heap' \in [DOMAIN heap -> HeapBlock]
      BY <1>1, <1>3, <2>1 DEF IsHeap
    <2> QED
      BY <1>3, <1>9, <2>2 DEF IsHeap
  <1>13. /\ buf'.data = b /\ buf'.len = buf.len + n /\ buf'.cap = buf.cap
         /\ buf' \in [data : Blocks \cup {NULL}, len : 0 .. MaxBody,
                      cap : 0 .. LargestBlock]
    <2>1. buf \in [data : Blocks \cup {NULL}, len : 0 .. MaxBody,
                   cap : 0 .. LargestBlock]
      BY <1>2 DEF TypeInv, TypeOK
    <2>2. buf.len + n \in 0 .. MaxBody
      BY <1>4, <1>5, SizesAssumption
    <2> QED
      BY <1>1, <2>1, <2>2
  <1>14. /\ Body' = b /\ BodyLen' = buf.len + n /\ Id' = request_id
         /\ resp'.json = NULL /\ Live' = Live
    BY <1>1, <1>3, <1>13
       DEF Body, BodyLen, Id, Live, Answered, NoResponse
  <1>15. TypeInv'
    <2>1. NoAppend \in [n : ChunkSizes \cup {0}, newcap : 1 .. SizeLimit - 1]
      BY Quarter DEF NoAppend
    <2>2. received' \in 0 .. MaxBody
      BY <1>1, <1>4, <1>5, SizesAssumption
    <2> QED
      BY <1>1, <1>2, <1>12, <1>13, <2>1, <2>2
         DEF TypeInv, TypeOK, IsHeap, HeapBlock
  <1>16. PhaseInv' /\ AppendInv'
    BY <1>1, <1>2 DEF PhaseInv, AppendInv, Answered, Transferring, Before
  <1>17. OwnInv'
    BY <1>1, <1>2, <1>3, <1>9, <1>14 DEF OwnInv, Over
  <1>18. HeadedInv'
    <2>1. \A p \in {scratch, request_id} : p # NULL => ~heap'[p].headed
      BY <1>1, <1>3, <1>11, TransferIs DEF Transferring
    <2>2. heap'[b].headed <=> how.realloc = "emulated"
      BY <1>1, <1>4, <1>11, TransferIs DEF Transferring
    <2> QED
      BY <1>1, <1>14, <2>1, <2>2 DEF HeadedInv
  <1>19. BodyInv'
    BY <1>1, <1>4, <1>5, <1>7, <1>8, <1>10, <1>13, <1>14
       DEF BodyInv, Over, Transferring
  <1>20. IdInv'
    BY <1>1, <1>2, <1>3, <1>14 DEF IdInv, Over
  <1> QED
    BY <1>15, <1>16, <1>17, <1>18, <1>19, <1>20 DEF IInv

(* A transfer that failed frees its body.                                  *)
LEMMA PerformFailsIInv == IInv /\ PerformFails => IInv'
  <1> SUFFICES ASSUME IInv, PerformFails PROVE IInv'
    OBVIOUS
  <1>1. /\ pc \in {"transfer", "abort"} /\ pc' = "failed"
        /\ buf' = NoBuffer /\ request_id' = NULL /\ scratch' = NULL
        /\ UNCHANGED <<how, append, resp, hop, received, id_hops, id_of,
                       starved>>
    BY DEF PerformFails
  <1>2. TypeInv /\ PhaseInv
    BY DEF IInv
  <1>3. /\ IsHeap(heap) /\ resp = NoResponse
        /\ DOMAIN heap = {scratch, buf.data, request_id} \ {NULL}
        /\ NULL \notin DOMAIN heap
        /\ scratch # NULL => scratch \notin {buf.data, request_id}
        /\ buf.data # NULL => buf.data # request_id
        /\ \A p \in {scratch, request_id} : p # NULL => ~heap[p].headed
    BY <1>1, TransferIs DEF Transferring
  <1> DEFINE h1 == audd_realloc_free(heap, buf.data)
             h2 == audd_free(h1, request_id)
  <1>4. how \in [realloc : Reallocators, zero_frees : ZeroFrees]
    BY <1>2 DEF TypeInv, TypeOK
  <1>5. /\ IsHeap(h1) /\ DOMAIN h1 \subseteq DOMAIN heap
        /\ DOMAIN heap \ {buf.data} \subseteq DOMAIN h1
        /\ FALSE \notin ZeroFrees => DOMAIN h1 = DOMAIN heap \ {buf.data}
        /\ \A x \in DOMAIN heap \ {buf.data} : h1[x] = heap[x]
    <2>1. IsHeap(heap)
      BY <1>3
    <2> QED
      BY ONLY <1>4, <2>1, ReallocFreeIs
  <1>6. heap' = audd_free(h2, scratch)
    BY DEF PerformFails
  <1> HIDE DEF h1
  <1>7. request_id # NULL => ~h1[request_id].headed
    BY <1>3, <1>5
  <1>8. /\ IsHeap(h2) /\ DOMAIN h2 = DOMAIN h1 \ {request_id}
        /\ \A x \in DOMAIN h1 \ {request_id} : h2[x] = h1[x]
    BY <1>5, <1>7, FreeIs
  <1> HIDE DEF h2
  <1>9. scratch # NULL => ~h2[scratch].headed
    <2> SUFFICES ASSUME scratch # NULL PROVE ~h2[scratch].headed
      OBVIOUS
    <2>1. scratch \in DOMAIN heap \ {buf.data, request_id}
      BY <1>3
    <2>2. h1[scratch] = heap[scratch]
      BY <1>5, <2>1
    <2>3. h2[scratch] = h1[scratch]
      BY <1>5, <1>8, <2>1
    <2> QED
      BY <1>3, <2>2, <2>3
  <1>10. IsHeap(heap') /\ DOMAIN heap' = DOMAIN h2 \ {scratch}
    BY <1>6, <1>8, <1>9, FreeIs
  <1>11. FALSE \notin ZeroFrees => DOMAIN heap' = {}
    BY <1>3, <1>5, <1>8, <1>10
  <1>12. TypeInv'
    <2>1. NoBuffer \in [data : Blocks \cup {NULL}, len : 0 .. MaxBody,
                        cap : 0 .. LargestBlock]
      BY Quarter, SizesAssumption DEF NoBuffer
    <2> QED
      BY <1>1, <1>2, <1>10, <2>1 DEF TypeInv, TypeOK, IsHeap, HeapBlock
  <1>13. PhaseInv'
    BY <1>1, <1>3 DEF PhaseInv, Answered, Transferring, Before
  <1>14. OwnInv' /\ HeadedInv'
    BY <1>1, <1>3, <1>11
       DEF OwnInv, HeadedInv, Live, Body, Id, NoBuffer, NoResponse, Answered,
           Over
  <1>15. BodyInv' /\ AppendInv' /\ IdInv'
    BY <1>1 DEF BodyInv, AppendInv, IdInv, Over
  <1> QED
    BY <1>12, <1>13, <1>14, <1>15 DEF IInv

(* A transfer that succeeded hands its buffer to the response.             *)
LEMMA PerformOkIInv == IInv /\ PerformOk => IInv'
  <1> SUFFICES ASSUME IInv, PerformOk PROVE IInv'
    OBVIOUS
  <1>1. /\ pc = "transfer" /\ pc' = "parse"
        /\ resp' = [body |-> buf.data, body_len |-> buf.len,
                    request_id |-> request_id, json |-> NULL]
        /\ buf' = NoBuffer /\ request_id' = NULL
        /\ UNCHANGED <<how, heap, scratch, append, hop, received, id_hops,
                       id_of, starved>>
    BY DEF PerformOk
  <1>2. TypeInv /\ PhaseInv /\ OwnInv /\ HeadedInv /\ BodyInv /\ IdInv
    BY DEF IInv
  <1>3. /\ Body = buf.data /\ BodyLen = buf.len /\ Id = request_id
        /\ resp.json = NULL
    BY <1>1, TransferIs DEF Transferring, NoResponse
  <1>4. /\ Body' = Body /\ BodyLen' = BodyLen /\ Id' = Id
        /\ resp'.json = resp.json
    BY <1>1, <1>3 DEF Body, BodyLen, Id, Answered
  <1>5. TypeInv'
    <2>1. NoBuffer \in [data : Blocks \cup {NULL}, len : 0 .. MaxBody,
                        cap : 0 .. LargestBlock]
      BY Quarter, SizesAssumption DEF NoBuffer
    <2>2. /\ buf \in [data : Blocks \cup {NULL}, len : 0 .. MaxBody,
                      cap : 0 .. LargestBlock]
          /\ request_id \in Blocks \cup {NULL}
      BY <1>2 DEF TypeInv, TypeOK
    <2>3. resp' \in [body : Blocks \cup {NULL}, body_len : 0 .. MaxBody,
                     request_id : Blocks \cup {NULL}, json : Blocks \cup {NULL}]
      BY <1>1, <2>2
    <2> QED
      BY <1>1, <1>2, <2>1, <2>3 DEF TypeInv, TypeOK
  <1>6. PhaseInv' /\ AppendInv'
    BY <1>1 DEF PhaseInv, AppendInv, Answered, Transferring, Before
  <1>7. OwnInv' /\ HeadedInv' /\ IdInv'
    <2>1. Live' = Live
      BY <1>1, <1>4 DEF Live
    <2> QED
      BY <1>1, <1>2, <1>4, <2>1 DEF OwnInv, HeadedInv, IdInv, Over
  <1>8. BodyInv'
    <2>1. buf'.data = NULL /\ buf'.cap = 0
      BY <1>1 DEF NoBuffer
    <2> QED
      BY <1>1, <1>2, <1>4, <2>1 DEF BodyInv, Over, Transferring
  <1> QED
    BY <1>5, <1>6, <1>7, <1>8 DEF IInv

(* The parsed tree is one more block of the response.                      *)
LEMMA try_parse_jsonIInv == IInv /\ try_parse_json => IInv'
  <1> SUFFICES ASSUME IInv, try_parse_json PROVE IInv'
    OBVIOUS
  <1>1. PICK j \in {NULL, Unused(heap)} :
           /\ heap' = audd_free(IF j = NULL THEN heap ELSE With(heap, j, Text),
                                scratch)
           /\ resp' = [resp EXCEPT !.json = j]
    BY DEF try_parse_json
  <1>2. /\ pc = "parse" /\ pc' = "done" /\ scratch' = NULL
        /\ UNCHANGED <<how, buf, append, request_id, hop, received, id_hops,
                       id_of, starved>>
    BY DEF try_parse_json
  <1>3. TypeInv /\ PhaseInv /\ OwnInv /\ HeadedInv /\ BodyInv /\ IdInv
    BY DEF IInv
  <1> DEFINE body == resp.body
             rid == resp.request_id
  <1>4. /\ Body = body /\ BodyLen = resp.body_len /\ Id = rid
        /\ resp.json = NULL /\ IsHeap(heap)
        /\ buf = NoBuffer /\ request_id = NULL
    BY <1>2, <1>3
       DEF Body, BodyLen, Id, Answered, Transferring, PhaseInv, TypeInv
  <1>5. /\ DOMAIN heap = {scratch, body, rid} \ {NULL}
        /\ NULL \notin DOMAIN heap
        /\ scratch # NULL => scratch \notin {body, rid}
        /\ body # NULL => body # rid
    BY <1>2, <1>3, <1>4, BlocksAssumption
       DEF OwnInv, Live, Over, IsHeap
  <1>6. /\ \A p \in {scratch, rid} : p # NULL => ~heap[p].headed
        /\ body # NULL => (heap[body].headed <=> how.realloc = "emulated")
    BY <1>3, <1>4 DEF HeadedInv
  <1>7. j # NULL => j \in Blocks \ DOMAIN heap
    <2>1. DOMAIN heap \subseteq {scratch, body, rid}
      BY <1>5
    <2>2. Unused(heap) \in Blocks \ DOMAIN heap
      BY <2>1, UnusedIs
    <2> QED
      BY <1>1, <2>2
  <1> DEFINE h == IF j = NULL THEN heap ELSE With(heap, j, Text)
  <1>8. /\ IsHeap(h) /\ DOMAIN h = DOMAIN heap \cup ({j} \ {NULL})
        /\ j # NULL => ~h[j].headed
        /\ \A x \in DOMAIN heap : h[x] = heap[x]
    <2>1. CASE j = NULL
      BY <1>4, <2>1
    <2>2. CASE j # NULL
      <3>1. j \in Blocks
        BY <1>7, <2>2
      <3>2. IsHeap(heap)
        BY <1>4
      <3> DEFINE g == With(heap, j, Text)
      <3>3. /\ IsHeap(g) /\ DOMAIN g = DOMAIN heap \cup {j} /\ ~g[j].headed
            /\ \A x \in DOMAIN heap \ {j} : g[x] = heap[x]
        BY ONLY <3>1, <3>2, WithTextIs
      <3>4. h = g
        BY <2>2
      <3> HIDE DEF h, g
      <3>5. ~h[j].headed
        BY <3>3, <3>4
      <3> QED
        BY <1>7, <2>2, <3>3, <3>4, <3>5
    <2> QED
      BY <2>1, <2>2
  <1>9. heap' = audd_free(h, scratch)
    BY <1>1
  <1> HIDE DEF h
  <1>10. scratch # NULL => ~h[scratch].headed
    BY <1>5, <1>6, <1>8
  <1>11. /\ IsHeap(heap') /\ DOMAIN heap' = DOMAIN h \ {scratch}
         /\ \A x \in DOMAIN h \ {scratch} : heap'[x] = h[x]
    BY <1>8, <1>9, <1>10, FreeIs
  <1>12. /\ DOMAIN heap' = {body, rid, j} \ {NULL}
         /\ \A x \in {body, rid} \ {NULL} : heap'[x] = heap[x]
         /\ j # NULL => j \notin {scratch, body, rid}
    BY <1>5, <1>7, <1>8, <1>11
  <1>13. j # NULL => ~heap'[j].headed
    <2> SUFFICES ASSUME j # NULL PROVE ~heap'[j].headed
      OBVIOUS
    <2>1. heap'[j] = h[j]
      BY <1>8, <1>11, <1>12
    <2> QED
      BY <1>8, <2>1
  <1>14. /\ resp' \in [body : Blocks \cup {NULL}, body_len : 0 .. MaxBody,
                       request_id : Blocks \cup {NULL},
                       json : Blocks \cup {NULL}]
         /\ resp'.body = body /\ resp'.body_len = resp.body_len
         /\ resp'.request_id = rid /\ resp'.json = j
    <2>1. resp \in [body : Blocks \cup {NULL}, body_len : 0 .. MaxBody,
                    request_id : Blocks \cup {NULL}, json : Blocks \cup {NULL}]
      BY <1>3 DEF TypeInv, TypeOK
    <2>2. j \in Blocks \cup {NULL}
      BY <1>7
    <2> QED
      BY <1>1, <2>1, <2>2
  <1>15. /\ Body' = body /\ BodyLen' = BodyLen /\ Id' = rid
    BY <1>2, <1>4, <1>14 DEF Body, BodyLen, Id, Answered
  <1>16. TypeInv'
    BY <1>2, <1>3, <1>11, <1>14 DEF TypeInv, TypeOK, IsHeap, HeapBlock
  <1>17. PhaseInv' /\ AppendInv'
    BY <1>2, <1>3 DEF PhaseInv, AppendInv, Answered, Transferring, Before
  <1>18. OwnInv'
    BY <1>2, <1>5, <1>12, <1>14, <1>15 DEF OwnInv, Live, Over
  <1>19. HeadedInv'
    <2>1. \A p \in {rid, j} : p # NULL => ~heap'[p].headed
      BY <1>6, <1>12, <1>13
    <2>2. body # NULL => (heap'[body].headed <=> how.realloc = "emulated")
      BY <1>6, <1>12
    <2> QED
      BY <1>2, <1>14, <1>15, <2>1, <2>2 DEF HeadedInv
  <1>20. BodyInv'
    BY <1>2, <1>3, <1>4, <1>12, <1>15 DEF BodyInv, Over, Transferring
  <1>21. IdInv'
    BY <1>2, <1>3, <1>4, <1>15 DEF IdInv, Over
  <1> QED
    BY <1>16, <1>17, <1>18, <1>19, <1>20, <1>21 DEF IInv

(* The caller frees what the response owns.                                *)
LEMMA audd_http_response_freeIInv ==
    IInv /\ audd_http_response_free => IInv'
  <1> SUFFICES ASSUME IInv, audd_http_response_free PROVE IInv'
    OBVIOUS
  <1> DEFINE body == resp.body
             rid == resp.request_id
             json == resp.json
             h1 == audd_realloc_free(heap, body)
             h2 == audd_free(h1, rid)
  <1>1. /\ pc \in {"done", "failed"} /\ pc' = "released"
        /\ resp' = NoResponse
        /\ heap' = audd_free(h2, json)
        /\ UNCHANGED <<how, scratch, buf, append, request_id, hop, received,
                       id_hops, id_of, starved>>
    BY DEF audd_http_response_free
  <1>2. TypeInv /\ PhaseInv /\ OwnInv /\ HeadedInv
    BY DEF IInv
  <1>3. buf = NoBuffer /\ request_id = NULL /\ scratch = NULL
    BY <1>1, <1>2 DEF PhaseInv, Transferring
  <1>4. Body = body /\ Id = rid
    <2>1. CASE pc = "done"
      BY <2>1 DEF Body, Id, Answered
    <2>2. CASE pc = "failed"
      BY <1>2, <1>3, <2>2
         DEF PhaseInv, Body, Id, Answered, NoResponse, NoBuffer
    <2> QED
      BY <1>1, <2>1, <2>2
  <1>5. /\ IsHeap(heap) /\ NULL \notin DOMAIN heap
        /\ pc # "failed" => DOMAIN heap = {body, rid, json} \ {NULL}
        /\ pc = "failed" =>
              /\ body = NULL /\ rid = NULL /\ json = NULL
              /\ FALSE \notin ZeroFrees => DOMAIN heap = {}
        /\ rid # NULL => rid \in DOMAIN heap /\ rid \notin {body, json}
        /\ json # NULL => json \in DOMAIN heap /\ json # body
        /\ \A p \in {rid, json} : p # NULL => ~heap[p].headed
    <2>1. IsHeap(heap) /\ NULL \notin DOMAIN heap
      BY <1>2, BlocksAssumption DEF TypeInv, IsHeap
    <2>2. pc # "failed" => DOMAIN heap = {body, rid, json} \ {NULL}
      BY <1>1, <1>2, <1>3, <1>4 DEF OwnInv, Live, Over
    <2>3. pc = "failed" =>
              /\ body = NULL /\ rid = NULL /\ json = NULL
              /\ FALSE \notin ZeroFrees => DOMAIN heap = {}
      <3>1. ASSUME pc = "failed" PROVE resp = NoResponse
        BY <1>2, <3>1 DEF PhaseInv, Answered
      <3>2. pc = "failed" /\ FALSE \notin ZeroFrees => DOMAIN heap = {}
        BY <1>2 DEF OwnInv, Over
      <3>3. resp = NoResponse => body = NULL /\ rid = NULL /\ json = NULL
        BY DEF NoResponse
      <3> QED
        BY <3>1, <3>2, <3>3
    <2>4. /\ rid # NULL => rid \in DOMAIN heap /\ rid \notin {body, json}
          /\ json # NULL => json \in DOMAIN heap /\ json # body
      BY <1>2, <1>4 DEF OwnInv, Live
    <2>5. \A p \in {rid, json} : p # NULL => ~heap[p].headed
      BY <1>2, <1>4 DEF HeadedInv
    <2> QED
      BY <2>1, <2>2, <2>3, <2>4, <2>5
  <1>6. /\ IsHeap(h1) /\ DOMAIN h1 \subseteq DOMAIN heap
        /\ DOMAIN heap \ {body} \subseteq DOMAIN h1
        /\ FALSE \notin ZeroFrees => DOMAIN h1 = DOMAIN heap \ {body}
        /\ \A x \in DOMAIN heap \ {body} : h1[x] = heap[x]
    <2>1. IsHeap(heap)
      BY <1>5
    <2>2. how \in [realloc : Reallocators, zero_frees : ZeroFrees]
      BY <1>2 DEF TypeInv, TypeOK
    <2> QED
      BY ONLY <2>1, <2>2, ReallocFreeIs
  <1> HIDE DEF h1
  <1>7. rid # NULL => ~h1[rid].headed
    BY <1>5, <1>6
  <1>8. /\ IsHeap(h2) /\ DOMAIN h2 = DOMAIN h1 \ {rid}
        /\ \A x \in DOMAIN h1 \ {rid} : h2[x] = h1[x]
    BY <1>6, <1>7, FreeIs
  <1> HIDE DEF h2
  <1>9. json # NULL => ~h2[json].headed
    <2> SUFFICES ASSUME json # NULL PROVE ~h2[json].headed
      OBVIOUS
    <2>1. json \in DOMAIN heap \ {body, rid}
      BY <1>5
    <2>2. h2[json] = heap[json]
      BY <1>6, <1>8, <2>1
    <2> QED
      BY <1>5, <2>2
  <1>10. IsHeap(heap') /\ DOMAIN heap' = DOMAIN h2 \ {json}
    BY <1>1, <1>8, <1>9, FreeIs
  <1>11. FALSE \notin ZeroFrees => DOMAIN heap' = {}
    BY <1>5, <1>6, <1>8, <1>10
  <1>12. TypeInv'
    <2>1. NoResponse \in [body : Blocks \cup {NULL}, body_len : 0 .. MaxBody,
                          request_id : Blocks \cup {NULL},
                          json : Blocks \cup {NULL}]
      BY SizesAssumption DEF NoResponse
    <2> QED
      BY <1>1, <1>2, <1>10, <2>1 DEF TypeInv, TypeOK, IsHeap, HeapBlock
  <1>13. PhaseInv'
    BY <1>1, <1>3 DEF PhaseInv, Answered, Transferring, Before
  <1>14. OwnInv' /\ HeadedInv'
    BY <1>1, <1>3, <1>11
       DEF OwnInv, HeadedInv, Live, Body, Id, NoBuffer, NoResponse, Answered,
           Over
  <1>15. BodyInv' /\ AppendInv' /\ IdInv'
    BY <1>1 DEF BodyInv, AppendInv, IdInv, Over
  <1> QED
    BY <1>12, <1>13, <1>14, <1>15 DEF IInv

(* Every step keeps the invariant.                                         *)
LEMMA NextIInv == IInv /\ [Next]_vars => IInv'
  <1> SUFFICES ASSUME IInv, [Next]_vars PROVE IInv'
    OBVIOUS
  <1>1. CASE UNCHANGED vars
    <2> USE <1>1 DEF vars, IInv
    <2>1. UNCHANGED <<Body, BodyLen, Id, Live>>
      BY DEF Body, BodyLen, Id, Live
    <2>2. TypeInv' /\ PhaseInv'
      BY DEF TypeInv, TypeOK, IsHeap, HeapBlock, PhaseInv
    <2>3. OwnInv' /\ HeadedInv'
      BY <2>1 DEF OwnInv, HeadedInv
    <2>4. BodyInv' /\ AppendInv' /\ IdInv'
      BY <2>1 DEF BodyInv, AppendInv, IdInv, Needed
    <2> QED
      BY <2>2, <2>3, <2>4
  <1> QED
    BY <1>1, AllocScratchIInv, PrepareFailsIInv, PreparedIInv, header_cbIInv,
       write_cbIInv, DoubleCapIInv, ReallocateIInv, CopyChunkIInv,
       PerformFailsIInv, PerformOkIInv, try_parse_jsonIInv,
       audd_http_response_freeIInv DEF Next

(* So it holds throughout every transfer.                                  *)
LEMMA Invariance == Spec => []IInv
  BY InitIInv, NextIInv, PTL DEF Spec

-----------------------------------------------------------------------------
(* The theorems.                                                           *)

(* Every pointer, length and capacity stays in its range whatever libcurl  *)
(* delivers and whichever allocations fail: in particular the capacity     *)
(* that buf_append doubles never wraps to 0, where the loop would not end. *)
THEOREM TypeCorrect == Spec => []TypeOK
  <1>1. IInv => TypeOK
    BY DEF IInv, TypeInv
  <1> QED
    BY <1>1, Invariance, PTL

(* buf_append loses, repeats and overruns nothing for any first capacity   *)
(* and any chunks up to a quarter of the address space.                    *)
THEOREM BodyIsIntact == Spec => []BodyIntact
  <1>1. ASSUME IInv PROVE BodyIntact
    <2>1. PhaseInv /\ BodyInv /\ AppendInv /\ TypeInv
      BY <1>1 DEF IInv
    <2>2. ASSUME buf.data # NULL, pc # "copy"
          PROVE  /\ buf.len = received /\ Holds(buf.data, buf.len)
                 /\ buf.cap = Len(heap[buf.data].bytes)
      <3>1. pc \in Transferring
        BY <2>1, <2>2 DEF PhaseInv, NoBuffer
      <3>2. Body = buf.data /\ BodyLen = buf.len
        BY <1>1, <3>1, TransferIs
      <3> QED
        BY <2>1, <2>2, <3>1, <3>2 DEF BodyInv, Holds, Transferring, Over
    <2>3. ASSUME pc = "copy"
          PROVE  buf.len + append.n < Len(heap[buf.data].bytes)
      <3>1. pc \in Transferring
        BY <2>3 DEF Transferring
      <3>2. Body = buf.data
        BY <1>1, <3>1, TransferIs
      <3> QED
        BY <2>1, <2>3, <3>1, <3>2
           DEF BodyInv, AppendInv, Transferring, Over
    <2>4. ASSUME pc \in Answered
          PROVE  /\ resp.body_len = received
                 /\ resp.body # NULL => Holds(resp.body, resp.body_len)
      <3>1. Body = resp.body /\ BodyLen = resp.body_len
        BY <2>4 DEF Body, BodyLen
      <3> QED
        BY <2>1, <2>4, <3>1 DEF BodyInv, Holds, Answered, Over
    <2> QED
      BY <2>2, <2>3, <2>4 DEF BodyIntact, Answered
  <1> QED
    BY <1>1, Invariance, PTL

(* Where realloc(p, 0) frees p, which the code takes for granted, every    *)
(* block has one owner at every step and none survives the release.        *)
THEOREM BlocksAreOwned ==
    ASSUME FALSE \notin ZeroFrees PROVE Spec => []BlocksOwned
  <1>1. ASSUME IInv PROVE BlocksOwned
    <2>1. PhaseInv /\ OwnInv /\ TypeInv
      BY <1>1 DEF IInv
    <2>2. \/ buf.data = NULL /\ request_id = NULL /\ Body = resp.body
             /\ Id = resp.request_id
          \/ resp = NoResponse /\ Body = buf.data /\ Id = request_id
      <3>1. CASE pc \in Answered
        BY <2>1, <3>1
           DEF PhaseInv, Body, Id, Answered, Transferring, NoBuffer
      <3>2. CASE pc \notin Answered
        BY <2>1, <3>2 DEF PhaseInv, Body, Id
      <3> QED
        BY <3>1, <3>2
    <2>3. /\ Owners[1] = scratch /\ Owners[2] = buf.data
          /\ Owners[3] = request_id /\ Owners[4] = resp.body
          /\ Owners[5] = resp.request_id /\ Owners[6] = resp.json
          /\ DOMAIN Owners = 1 .. 6
      BY DEF Owners
    <2>4. ASSUME NEW b \in DOMAIN heap
          PROVE  \E i \in DOMAIN Owners : Owners[i] = b
      <3>1. b \in Live
        BY <2>1, <2>4 DEF OwnInv
      <3> QED
        BY <2>2, <2>3, <3>1 DEF Live
    <2>5. ASSUME NEW i \in DOMAIN Owners, NEW j \in DOMAIN Owners,
                 Owners[i] # NULL
          PROVE  Owners[i] \in DOMAIN heap /\ (Owners[i] = Owners[j] => i = j)
      <3>1. Owners[i] \in Live
        BY <2>2, <2>3, <2>5 DEF Live, NoResponse
      <3> QED
        BY <2>1, <2>2, <2>3, <2>5, <3>1 DEF OwnInv, NoResponse
    <2>6. pc \in Over => DOMAIN heap = {}
      BY <2>1 DEF OwnInv
    <2> QED
      BY <2>4, <2>5, <2>6 DEF BlocksOwned, Over
  <1> QED
    BY <1>1, Invariance, PTL

(* When the final header block has an id, that one is handed back, and     *)
(* when no block has any, none is, unless memory ran out for a copy.       *)
THEOREM RequestIdIsRight == Spec => []RequestIdOfResponse
  <1>1. ASSUME IInv PROVE RequestIdOfResponse
    <2> SUFFICES ASSUME pc \in {"parse", "done"}, ~starved
                 PROVE  /\ hop \in id_hops =>
                              id_of = hop /\ resp.request_id # NULL
                        /\ id_hops = {} => resp.request_id = NULL
      BY DEF RequestIdOfResponse
    <2>1. /\ id_of = Max(id_hops \cup {0})
          /\ (resp.request_id # NULL) = (id_hops # {})
      BY <1>1 DEF IInv, IdInv, Id, Answered, Over
    <2>2. hop \in id_hops => Max(id_hops \cup {0}) = hop
      <3>1. hop \in Nat /\ id_hops \subseteq 1 .. hop
        BY <1>1 DEF IInv, TypeInv, TypeOK
      <3> DEFINE T == id_hops \cup {0}
      <3>2. T \subseteq Int /\ \A x \in T : x <= hop
        BY <3>1
      <3>3. hop \in id_hops => hop \in T
        OBVIOUS
      <3> HIDE DEF T
      <3>4. hop \in id_hops => Max(T) = hop
        BY <3>2, <3>3, MaxIs
      <3> QED
        BY <3>4 DEF T
    <2> QED
      BY <2>1, <2>2
  <1> QED
    BY <1>1, Invariance, PTL
=============================================================================
