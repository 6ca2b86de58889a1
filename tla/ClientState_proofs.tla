-------------------------- MODULE ClientState_proofs --------------------------
(***************************************************************************)
(* Proofs about ClientState, for every set of threads, blocks, tokens and  *)
(* error codes.                                                            *)
(*                                                                         *)
(* HeapOwned is nearly inductive once Sound says which registers a thread  *)
(* uses at each pc.  That the lock works (LockInv) is what the other two   *)
(* properties rest on: SnapshotInv for the borrowed token, MessageInHand   *)
(* and MessageWritten for the message and the code, which are written one  *)
(* after the other.                                                        *)
(***************************************************************************)
EXTENDS ClientState, TLAPS

Registers ==
    [pc : Locked \cup {"idle", "lock", "free", "use", "notice", "deref",
                       "preflight_code"},
     op : {"set", "copy", "borrow", "read"},
     field : Guarded,
     then : {"idle", "notice", "preflight_code"},
     new : Pointers, old : Pointers, ptr : Pointers,
     val : Codes \cup {0}]

(* The registers in use at each pc.                                        *)
Sound(r) ==
    /\ r.pc = "set" => r.op = "set"
    /\ r.pc = "code" => r.op = "set" /\ r.field = "last_error_message"
    /\ r.pc \in {"copy", "dup", "use"} => r.op = "copy"
    /\ r.pc = "borrow" => r.op = "borrow"
    /\ r.pc = "free" => r.op = "set"
    /\ r.new # NULL => \/ r.pc \in {"lock", "set"} /\ r.op = "set"
                       \/ r.pc \in {"unlock", "use"} /\ r.op = "copy"
    /\ r.old # NULL => r.pc \in {"code", "unlock", "free"} /\ r.op = "set"

RegInv == \A t \in Threads : Sound(th[t])

(* Nobody is under the lock without holding it.                            *)
LockInv == \A t \in Threads : th[t].pc \in Locked => lock = t

LifeInv ==
    /\ life # "ready" => \A t \in Threads : th[t].pc = "idle"
    /\ life = "token" => \A f \in Fields : slot[f] = NULL
    /\ life = "agent" => slot["user_agent"] = NULL
    /\ life \in {"agent", "bundle"} => slot["ca_bundle_path"] = NULL

SnapshotInv ==
    \A t \in Threads : th[t].pc = "dup" => th[t].ptr = slot["api_token"]

(* A message in a thread's hands carries the thread's code; so does the    *)
(* client's message until the code is written behind it.                   *)
MessageInHand ==
    \A t \in Threads :
       th[t].op = "set" /\ th[t].field = "last_error_message"
          /\ th[t].new # NULL => heap[th[t].new] = th[t].val

MessageWritten ==
    LET message == slot["last_error_message"] IN
    message # NULL =>
       /\ \A t \in Threads : th[t].pc = "code" => heap[message] = th[t].val
       /\ (\A t \in Threads : th[t].pc # "code")
             => heap[message] = last_error_code

IInv == TypeOK /\ RegInv /\ LockInv /\ LifeInv /\ HeapOwned /\ SnapshotInv
            /\ MessageInHand /\ MessageWritten

-----------------------------------------------------------------------------
(* Ownership: what a step that moves one block does to HeapOwned.          *)

Others(t) == \A u \in Threads \ {t} : th'[u] = th[u]

USE HeapAssumption DEF HeapAssumption

(* What a block has kept through a step that moves no block.               *)
LEMMA Kept ==
    ASSUME HeapOwned, NEW t \in Threads, Others(t), UNCHANGED <<slot, heap>>,
           th'[t].new = th[t].new, th'[t].old = th[t].old
    PROVE  HeapOwned'
  <1>1. \A u \in Threads : th'[u].new = th[u].new /\ th'[u].old = th[u].old
    BY DEF Others
  <1> QED
    BY <1>1 DEF HeapOwned, NoDanglingOwner, OneOwner, NoLeak, SlotRefs,
                NewRefs, OldRefs, Live

(* A thread has allocated a block.                                         *)
LEMMA Took ==
    ASSUME HeapOwned, TypeOK, NEW t \in Threads, Others(t),
           NEW b \in Blocks, NEW c \in Content, Allocate(b, c),
           UNCHANGED slot,
           th[t].new = NULL, th'[t].new = b, th'[t].old = th[t].old
    PROVE  HeapOwned'
  <1>1. Live' = Live \cup {b} /\ b \notin Live
    BY DEF Allocate, Live, TypeOK, Content, Text
  <1>2. \A u \in Threads : th'[u].old = th[u].old
    BY DEF Others
  <1>3. \A u \in Threads \ {t}: th'[u].new = th[u].new
    BY DEF Others
  <1>4. /\ OldRefs' = OldRefs /\ SlotRefs' = SlotRefs
        /\ NewRefs' = NewRefs \cup {t} /\ t \notin NewRefs
    BY <1>2, <1>3 DEF OldRefs, NewRefs, SlotRefs
  <1>5. NoDanglingOwner'
    <2>1. \A u \in NewRefs' : th'[u].new \in Live'
      BY <1>1, <1>3, <1>4 DEF HeapOwned, NoDanglingOwner, NewRefs
    <2>2. \A u \in OldRefs' : th'[u].old \in Live'
      BY <1>1, <1>2, <1>4 DEF HeapOwned, NoDanglingOwner, OldRefs
    <2>3. \A f \in SlotRefs' : slot'[f] \in Live'
      BY <1>1, <1>4 DEF HeapOwned, NoDanglingOwner
    <2> QED
      BY <2>1, <2>2, <2>3 DEF NoDanglingOwner
  <1>6. OneOwner'
    <2>1. \A u \in NewRefs \ {t} : th'[u].new = th[u].new /\ th[u].new # b
      BY <1>1, <1>3 DEF HeapOwned, NoDanglingOwner, NewRefs
    <2>2. \A u \in OldRefs : th'[u].old = th[u].old /\ th[u].old # b
      BY <1>1, <1>2 DEF HeapOwned, NoDanglingOwner, OldRefs
    <2>3. \A f \in SlotRefs : slot'[f] = slot[f] /\ slot[f] # b
      BY <1>1 DEF HeapOwned, NoDanglingOwner
    <2> QED
      BY <2>1, <2>2, <2>3, <1>4 DEF HeapOwned, OneOwner
  <1>7. NoLeak'
    <2> SUFFICES ASSUME NEW x \in Live'
                 PROVE  \/ \E f \in Fields : slot[f] = x
                        \/ \E u \in Threads : th'[u].new = x \/ th'[u].old = x
      BY DEF NoLeak
    <2>1. CASE x = b
      BY <2>1
    <2>2. CASE x # b
      <3>1. x \in Live /\ x # NULL
        BY <1>1, <2>2 DEF Live
      <3> QED
        BY <1>2, <1>3, <3>1 DEF HeapOwned, NoLeak
    <2> QED
      BY <2>1, <2>2
  <1> QED
    BY <1>5, <1>6, <1>7 DEF HeapOwned

(* A thread has put its new block into a field and holds the old one.      *)
LEMMA Swapped ==
    ASSUME HeapOwned, TypeOK, NEW t \in Threads, Others(t),
           NEW f \in Fields, slot' = [slot EXCEPT ![f] = th[t].new],
           UNCHANGED heap,
           th[t].old = NULL, th'[t].new = NULL, th'[t].old = slot[f]
    PROVE  HeapOwned'
  <1>1. Live' = Live
    BY DEF Live
  <1>2. \A u \in Threads \ {t}: th'[u].new = th[u].new /\ th'[u].old = th[u].old
    BY DEF Others
  <1>3. slot'[f] = th[t].new /\ \A g \in Fields \ {f} : slot'[g] = slot[g]
    BY DEF TypeOK
  <1>4. NewRefs' = NewRefs \ {t}
    BY <1>2 DEF NewRefs
  <1>5. OldRefs' = IF slot[f] = NULL THEN OldRefs ELSE OldRefs \cup {t}
    BY <1>2 DEF OldRefs
  <1>6. SlotRefs' = IF th[t].new = NULL THEN SlotRefs \ {f}
                    ELSE SlotRefs \cup {f}
    BY <1>3 DEF SlotRefs
  <1>7. NoDanglingOwner'
    BY <1>1, <1>2, <1>3, <1>4, <1>5, <1>6
       DEF HeapOwned, NoDanglingOwner, SlotRefs, NewRefs, OldRefs
  <1>8. OneOwner'
    BY <1>1, <1>2, <1>3, <1>4, <1>5, <1>6
       DEF HeapOwned, OneOwner, SlotRefs, NewRefs, OldRefs
  <1>9. NoLeak'
    <2> SUFFICES ASSUME NEW x \in Live
                 PROVE  \/ \E g \in Fields : slot'[g] = x
                        \/ \E u \in Threads : th'[u].new = x \/ th'[u].old = x
      BY <1>1 DEF NoLeak
    <2>1. x # NULL
      BY DEF Live
    <2>2. CASE \E g \in Fields : slot[g] = x
      BY <1>3, <2>2
    <2>3. CASE \E u \in Threads : th[u].new = x \/ th[u].old = x
      BY <1>2, <1>3, <2>1, <2>3
    <2> QED
      BY <2>2, <2>3 DEF HeapOwned, NoLeak
  <1> QED
    BY <1>7, <1>8, <1>9 DEF HeapOwned

(* A thread has freed the block it took out, or its copy of the token.     *)
LEMMA Gave ==
    ASSUME HeapOwned, NEW t \in Threads, Others(t), UNCHANGED slot,
           \/ /\ FreeBlocks({th[t].old})
              /\ th'[t].old = NULL /\ th'[t].new = th[t].new
           \/ /\ FreeBlocks({th[t].new})
              /\ th'[t].new = NULL /\ th'[t].old = th[t].old
    PROVE  HeapOwned'
  <1>1. \A u \in Threads \ {t}: th'[u].new = th[u].new /\ th'[u].old = th[u].old
    BY DEF Others
  <1>2. CASE FreeBlocks({th[t].old})
             /\ th'[t].old = NULL /\ th'[t].new = th[t].new
    <2>1. Live' = Live \ {th[t].old}
      BY <1>2 DEF Live, FreeBlocks
    <2>2. OldRefs' = OldRefs \ {t} /\ NewRefs' = NewRefs /\ SlotRefs' = SlotRefs
      BY <1>1, <1>2 DEF OldRefs, NewRefs, SlotRefs
    <2>3. NoDanglingOwner'
      BY <1>1, <1>2, <2>1, <2>2
         DEF HeapOwned, NoDanglingOwner, OneOwner, SlotRefs, NewRefs, OldRefs
    <2>4. OneOwner'
      BY <1>1, <1>2, <2>2
         DEF HeapOwned, OneOwner, SlotRefs, NewRefs, OldRefs
    <2>5. NoLeak'
      BY <1>1, <1>2, <2>1 DEF HeapOwned, NoLeak
    <2> QED
      BY <2>3, <2>4, <2>5 DEF HeapOwned
  <1>3. CASE FreeBlocks({th[t].new})
             /\ th'[t].new = NULL /\ th'[t].old = th[t].old
    <2>1. Live' = Live \ {th[t].new}
      BY <1>3 DEF Live, FreeBlocks
    <2>2. NewRefs' = NewRefs \ {t} /\ OldRefs' = OldRefs /\ SlotRefs' = SlotRefs
      BY <1>1, <1>3 DEF OldRefs, NewRefs, SlotRefs
    <2>3. NoDanglingOwner'
      BY <1>1, <1>3, <2>1, <2>2
         DEF HeapOwned, NoDanglingOwner, OneOwner, SlotRefs, NewRefs, OldRefs
    <2>4. OneOwner'
      BY <1>1, <1>3, <2>2
         DEF HeapOwned, OneOwner, SlotRefs, NewRefs, OldRefs
    <2>5. NoLeak'
      BY <1>1, <1>3, <2>1 DEF HeapOwned, NoLeak
    <2> QED
      BY <2>3, <2>4, <2>5 DEF HeapOwned
  <1> QED
    BY <1>2, <1>3

-----------------------------------------------------------------------------
(* The inductive step.                                                     *)

(* Initially there is no client and no block.                              *)
LEMMA InitIInv == Init => IInv
  <1> SUFFICES ASSUME Init PROVE IInv
    OBVIOUS
  <1> USE DEF Init
  <1>1. IdleThread \in Registers /\ Sound(IdleThread)
    BY DEF IdleThread, Registers, Sound, Guarded, Pointers
  <1>2. TypeOK
    BY <1>1 DEF TypeOK, Registers, Pointers, Content
  <1>3. RegInv /\ LockInv /\ LifeInv /\ SnapshotInv
    BY <1>1 DEF RegInv, LockInv, LifeInv, SnapshotInv, IdleThread, Locked, Fields
  <1>4. HeapOwned
    BY DEF HeapOwned, NoDanglingOwner, OneOwner, NoLeak, SlotRefs, NewRefs,
           OldRefs, Live, IdleThread
  <1>5. MessageInHand /\ MessageWritten
    BY DEF MessageInHand, MessageWritten, IdleThread, Fields, Guarded
  <1> QED
    BY <1>2, <1>3, <1>4, <1>5 DEF IInv

(* A thread that is not under the lock enters a function with the          *)
(* registers r, after allocating b with content c for it, or nothing.      *)
LEMMA EnterKeeps ==
    ASSUME IInv, NEW t \in Threads, NEW r \in Registers,
           Enter(t, r), life = "ready",
           th[t].pc \in {"idle", "notice", "preflight_code"},
           r.pc \in {"lock", "notice"}, r.old = NULL,
           r.new # NULL => r.pc = "lock" /\ r.op = "set",
           NEW c \in Content,
           IF r.new = NULL THEN UNCHANGED heap ELSE Allocate(r.new, c),
           r.field = "last_error_message" => c = r.val
    PROVE  IInv'
  <1> USE DEF IInv, Enter
  <1>1. th \in [Threads -> Registers] /\ slot \in [Fields -> Pointers]
    BY DEF TypeOK, Registers
  <1>2. Others(t) /\ th'[t] = r /\ th' \in [Threads -> Registers]
    BY <1>1 DEF Others
  <1>3. heap' \in [Blocks -> Content \cup {Free}]
    BY DEF TypeOK, Allocate
  <1>4. TypeOK'
    BY <1>2, <1>3 DEF TypeOK, Registers
  <1>5. th[t].new = NULL /\ th[t].old = NULL
    BY DEF RegInv, Sound
  <1>6. RegInv'
    BY <1>2 DEF RegInv, Sound, Others
  <1>7. LockInv'
    BY <1>2 DEF LockInv, Others, Locked
  <1>8. LifeInv'
    BY DEF LifeInv
  <1>9. HeapOwned'
    <2>1. CASE r.new = NULL
      BY <1>2, <1>5, <2>1, Kept
    <2>2. CASE r.new # NULL
      <3>1. r.new \in Blocks
        BY <2>2 DEF Registers, Pointers
      <3> QED
        BY <1>2, <1>5, <2>2, <3>1, Took
    <2> QED
      BY <2>1, <2>2
  <1>10. SnapshotInv'
    BY <1>2 DEF SnapshotInv, Others
  <1>11. \A b \in Live : heap'[b] = heap[b]
    BY DEF Live, Allocate, TypeOK
  <1>12. MessageInHand'
    <2>1. \A u \in Threads \ {t} : th[u].new # NULL => th[u].new \in Live
      BY DEF HeapOwned, NoDanglingOwner, NewRefs
    <2>2. r.new # NULL => heap'[r.new] = c
      BY DEF Allocate, TypeOK, Registers, Pointers
    <2> QED
      BY <1>2, <1>11, <2>1, <2>2 DEF MessageInHand, Others
  <1>13. MessageWritten'
    <2>1. slot["last_error_message"] # NULL => slot["last_error_message"] \in Live
      BY DEF HeapOwned, NoDanglingOwner, SlotRefs, Fields, Guarded
    <2>2. th[t].pc # "code" /\ th'[t].pc # "code"
      BY <1>2
    <2> QED
      BY <1>2, <1>11, <2>1, <2>2 DEF MessageWritten, Others
  <1> QED
    BY <1>4, <1>6, <1>7, <1>8, <1>9, <1>10, <1>12, <1>13

(* Entering audd_client_set_error, or the poller recording a failure.      *)
LEMMA SetErrorKeeps ==
    ASSUME IInv, NEW t \in Threads, NEW code \in Codes \cup {0},
           NEW then \in {"idle", "notice", "preflight_code"},
           SetError(t, code, then), life = "ready",
           th[t].pc \in {"idle", "notice", "preflight_code"}
    PROVE  IInv'
  <1> PICK b \in Pointers :
         /\ IF b = NULL THEN UNCHANGED heap ELSE Allocate(b, code)
         /\ Enter(t, [IdleThread EXCEPT !.pc = "lock", !.then = then,
                                        !.field = "last_error_message",
                                        !.new = b, !.val = code])
    BY DEF SetError
  <1> DEFINE r == [IdleThread EXCEPT !.pc = "lock", !.then = then,
                                     !.field = "last_error_message",
                                     !.new = b, !.val = code]
  <1>1. /\ r \in Registers /\ r.pc = "lock" /\ r.op = "set" /\ r.old = NULL
        /\ r.new = b /\ r.val = code
    BY DEF IdleThread, Registers, Guarded, Pointers
  <1>2. code \in Content
    BY DEF Content, Text
  <1>3. Enter(t, r) /\ IF r.new = NULL THEN UNCHANGED heap
                                       ELSE Allocate(r.new, code)
    BY <1>1
  <1> HIDE DEF r
  <1> QED
    BY <1>1, <1>2, <1>3, EnterKeeps

(* A thread inside a function goes on without touching a string.           *)
LEMMA QuietKeeps ==
    ASSUME IInv, NEW t \in Threads, Others(t),
           th' \in [Threads -> Registers], Sound(th'[t]),
           UNCHANGED <<life, slot, last_error_code, heap>>,
           th[t].pc \notin {"idle", "code"}, th'[t].pc # "code",
           th'[t].new = th[t].new, th'[t].old = th[t].old,
           th'[t].new # NULL => UNCHANGED <<th[t].op, th[t].field, th[t].val>>,
           th'[t].pc = "dup" => th'[t].ptr = slot["api_token"],
           lock' \in {t, NULL} \/ (lock' = lock /\ th'[t].pc \notin Locked),
           lock' = t \/ th'[t].pc \notin Locked,
           lock' = lock \/ lock = NULL \/ th[t].pc \in Locked
    PROVE  IInv'
  <1> USE DEF IInv
  <1>1. TypeOK'
    BY DEF TypeOK, Registers
  <1>2. RegInv'
    BY DEF RegInv, Others
  <1>3. LockInv'
    BY DEF LockInv, Others
  <1>4. LifeInv'
    BY DEF LifeInv
  <1>5. HeapOwned'
    BY Kept
  <1>6. SnapshotInv'
    BY DEF SnapshotInv, Others
  <1>7. MessageInHand'
    BY DEF MessageInHand, Others
  <1>8. MessageWritten'
    BY DEF MessageWritten, Others
  <1> QED
    BY <1>1, <1>2, <1>3, <1>4, <1>5, <1>6, <1>7, <1>8

(* audd_client_free of a client that no thread is using.                   *)
LEMMA FreeKeeps ==
    ASSUME IInv, audd_client_free, \A t \in Threads : th[t].pc = "idle",
           UNCHANGED <<last_error_code, lock, th>>
    PROVE  IInv'
  <1> USE DEF IInv, audd_client_free
  <1>1. \A f \in Fields : slot'[f] = NULL
    OBVIOUS
  <1>2. \A t \in Threads : th[t].new = NULL /\ th[t].old = NULL
    BY DEF RegInv, Sound
  <1>3. heap' \in [Blocks -> Content \cup {Free}]
    BY DEF FreeBlocks, TypeOK
  <1>4. TypeOK'
    BY <1>3 DEF TypeOK, Pointers
  <1>5. LifeInv' /\ RegInv' /\ LockInv'
    BY <1>1 DEF LifeInv, RegInv, LockInv, Fields, Guarded
  <1>6. HeapOwned'
    <2>1. Live' = {}
      BY <1>2 DEF Live, FreeBlocks, HeapOwned, NoLeak
    <2> QED
      BY <1>1, <1>2, <2>1 DEF HeapOwned, NoDanglingOwner, OneOwner, NoLeak,
                              SlotRefs, NewRefs, OldRefs
  <1>7. SnapshotInv' /\ MessageInHand' /\ MessageWritten'
    BY <1>1, <1>2 DEF SnapshotInv, MessageInHand, MessageWritten, Fields, Guarded
  <1> QED
    BY <1>4, <1>5, <1>6, <1>7

(* One more string of a client that is being made.                         *)
LEMMA NewFieldKeeps ==
    ASSUME IInv, NEW f \in Fields, slot[f] = NULL,
           f # "last_error_message",
           NEW b \in Blocks, NEW c \in Content,
           Allocate(b, c), slot' = [slot EXCEPT ![f] = b],
           life # "ready", life' \in {"agent", "bundle", "ready"},
           LifeInv', UNCHANGED <<last_error_code, lock, th>>
    PROVE  IInv'
  <1> USE DEF IInv
  <1>1. \A t \in Threads : th[t].new = NULL /\ th[t].old = NULL
    BY DEF LifeInv, RegInv, Sound
  <1>2. slot'[f] = b /\ \A g \in Fields \ {f} : slot'[g] = slot[g]
    BY DEF TypeOK
  <1>3. Live' = Live \cup {b} /\ b \notin Live
    BY DEF Allocate, Live, TypeOK, Content, Text
  <1>4. TypeOK'
    <2>1. heap' \in [Blocks -> Content \cup {Free}]
      BY DEF Allocate, TypeOK
    <2>2. slot' \in [Fields -> Pointers]
      BY DEF TypeOK, Pointers
    <2> QED
      BY <2>1, <2>2 DEF TypeOK
  <1>5. RegInv' /\ LockInv'
    BY DEF RegInv, LockInv
  <1>6. HeapOwned'
    <2>1. NewRefs' = {} /\ OldRefs' = {} /\ SlotRefs' = SlotRefs \cup {f}
      BY <1>1, <1>2 DEF NewRefs, OldRefs, SlotRefs
    <2>2. \A g \in SlotRefs : g # f /\ slot[g] \in Live /\ slot'[g] = slot[g]
      BY <1>2 DEF HeapOwned, NoDanglingOwner, SlotRefs
    <2>3. NoDanglingOwner'
      BY <1>2, <1>3, <2>1, <2>2 DEF NoDanglingOwner
    <2>4. OneOwner'
      BY <1>2, <1>3, <2>1, <2>2 DEF HeapOwned, OneOwner
    <2>5. NoLeak'
      <3> SUFFICES ASSUME NEW x \in Live'
                   PROVE  \E g \in Fields : slot'[g] = x
        BY DEF NoLeak
      <3>1. CASE x = b
        BY <1>2, <3>1
      <3>2. CASE x # b
        <4>1. x \in Live /\ x # NULL
          BY <1>3, <3>2 DEF Live
        <4>2. PICK g \in Fields : slot[g] = x
          BY <1>1, <4>1 DEF HeapOwned, NoLeak
        <4> QED
          BY <1>2, <4>1, <4>2
      <3> QED
        BY <3>1, <3>2
    <2> QED
      BY <2>3, <2>4, <2>5 DEF HeapOwned
  <1>7. SnapshotInv' /\ MessageInHand'
    BY <1>1 DEF SnapshotInv, MessageInHand, LifeInv
  <1>8. MessageWritten'
    <2>1. slot'["last_error_message"] = slot["last_error_message"]
      BY <1>2 DEF Fields, Guarded
    <2>2. slot["last_error_message"] # NULL => slot["last_error_message"] \in Live
      BY DEF HeapOwned, NoDanglingOwner, SlotRefs, Fields, Guarded
    <2>3. \A x \in Live : heap'[x] = heap[x]
      BY DEF Live, Allocate, TypeOK
    <2> QED
      BY <2>1, <2>2, <2>3 DEF MessageWritten
  <1> QED
    BY <1>4, <1>5, <1>6, <1>7, <1>8

(* Every step preserves it.                                                *)
LEMMA NextIInv == IInv /\ [Next]_vars => IInv'
  <1> SUFFICES ASSUME IInv, [Next]_vars PROVE IInv'
    OBVIOUS
  <1>0. /\ th \in [Threads -> Registers] /\ slot \in [Fields -> Pointers]
        /\ \A t \in Threads : Sound(th[t])
    BY DEF IInv, TypeOK, Registers, RegInv
  <1>1. ASSUME audd_client_new PROVE IInv'
    <2>1. CASE NewField("token", "api_token", Tokens, "agent")
      <3>1. CASE audd_client_free
        BY <2>1, <3>1, FreeKeeps DEF NewField, IInv, LifeInv
      <3>2. CASE ~audd_client_free
        <4> PICK b \in Blocks, c \in Tokens :
              Allocate(b, c) /\ slot' = [slot EXCEPT !["api_token"] = b]
          BY <2>1, <3>2 DEF NewField
        <4>1. LifeInv'
          BY <1>0, <2>1, <3>2 DEF NewField, IInv, LifeInv, Fields, Guarded
        <4> QED
          BY <2>1, <3>2, <4>1, NewFieldKeeps
             DEF NewField, IInv, LifeInv, Fields, Guarded, Content
      <3> QED
        BY <3>1, <3>2
    <2>2. CASE NewField("agent", "user_agent", {Text}, "bundle")
      <3>1. CASE audd_client_free
        BY <2>2, <3>1, FreeKeeps DEF NewField, IInv, LifeInv
      <3>2. CASE ~audd_client_free
        <4> PICK b \in Blocks :
              Allocate(b, Text) /\ slot' = [slot EXCEPT !["user_agent"] = b]
          BY <2>2, <3>2 DEF NewField
        <4>1. LifeInv'
          BY <1>0, <2>2, <3>2 DEF NewField, IInv, LifeInv, Fields, Guarded
        <4> QED
          BY <2>2, <3>2, <4>1, NewFieldKeeps
             DEF NewField, IInv, LifeInv, Fields, Guarded, Content
      <3> QED
        BY <3>1, <3>2
    <2>3. CASE NewField("bundle", "ca_bundle_path", {Text}, "ready")
      <3>1. CASE audd_client_free
        BY <2>3, <3>1, FreeKeeps DEF NewField, IInv, LifeInv
      <3>2. CASE ~audd_client_free
        <4> PICK b \in Blocks :
              Allocate(b, Text) /\ slot' = [slot EXCEPT !["ca_bundle_path"] = b]
          BY <2>3, <3>2 DEF NewField
        <4>1. LifeInv'
          BY <1>0, <2>3, <3>2 DEF NewField, IInv, LifeInv, Fields, Guarded
        <4> QED
          BY <2>3, <3>2, <4>1, NewFieldKeeps
             DEF NewField, IInv, LifeInv, Fields, Guarded, Content
      <3> QED
        BY <3>1, <3>2
    <2>4. CASE SkipField("token", "agent") \/ SkipField("bundle", "ready")
      <3>1. TypeOK' /\ LifeInv'
        BY <2>4 DEF SkipField, IInv, TypeOK, LifeInv, Fields
      <3>2. RegInv' /\ LockInv' /\ SnapshotInv' /\ MessageInHand'
            /\ MessageWritten' /\ HeapOwned'
        BY <2>4 DEF SkipField, IInv, RegInv, LockInv, SnapshotInv,
             MessageInHand, MessageWritten, HeapOwned, NoDanglingOwner,
             OneOwner, NoLeak, Live, SlotRefs, NewRefs, OldRefs
      <3> QED
        BY <3>1, <3>2 DEF IInv
    <2> QED
      BY <1>1, <2>1, <2>2, <2>3, <2>4 DEF audd_client_new
  <1>2. ASSUME FreeClient PROVE IInv'
    BY <1>2, FreeKeeps DEF FreeClient
  <1>3. ASSUME NEW t \in Threads, CallSetToken(t) PROVE IInv'
    <2> USE <1>3 DEF CallSetToken, Idle
    <2> PICK b \in Blocks, k \in Tokens :
           /\ Allocate(b, k)
           /\ Enter(t, [IdleThread EXCEPT !.pc = "lock", !.new = b])
      OBVIOUS
    <2> DEFINE r == [IdleThread EXCEPT !.pc = "lock", !.new = b]
    <2>1. /\ r \in Registers /\ r.pc \in {"lock", "notice"} /\ r.old = NULL
          /\ r.new # NULL => r.pc = "lock" /\ r.op = "set"
          /\ r.field = "last_error_message" => r.val = k
      BY DEF IdleThread, Registers, Guarded, Pointers
    <2>2. /\ Enter(t, r) /\ life = "ready"
          /\ th[t].pc \in {"idle", "notice", "preflight_code"}
          /\ IF r.new = NULL THEN UNCHANGED heap ELSE Allocate(r.new, k)
      BY DEF IdleThread, IInv, LifeInv
    <2>3. k \in Content
      BY DEF Content, Text
    <2> HIDE DEF r
    <2> QED
      BY <2>1, <2>2, <2>3, EnterKeeps
  <1>4. ASSUME NEW t \in Threads, CallSetError(t) PROVE IInv'
    BY <1>4, SetErrorKeeps DEF CallSetError, Idle
  <1>5. ASSUME NEW t \in Threads, CallClearError(t) PROVE IInv'
    <2> USE <1>5 DEF CallClearError, Idle
    <2> DEFINE r == [IdleThread EXCEPT !.pc = "lock", !.field = "last_error_message"]
    <2>1. /\ r \in Registers /\ r.pc \in {"lock", "notice"} /\ r.old = NULL
          /\ r.new # NULL => r.pc = "lock" /\ r.op = "set"
          /\ r.field = "last_error_message" => r.val = 0
      BY DEF IdleThread, Registers, Guarded, Pointers
    <2>2. /\ Enter(t, r) /\ life = "ready"
          /\ th[t].pc \in {"idle", "notice", "preflight_code"}
          /\ IF r.new = NULL THEN UNCHANGED heap ELSE Allocate(r.new, 0)
      BY DEF IdleThread, IInv, LifeInv
    <2>3. 0 \in Content
      BY DEF Content, Text
    <2> HIDE DEF r
    <2> QED
      BY <2>1, <2>2, <2>3, EnterKeeps
  <1>6. ASSUME NEW t \in Threads, CallSetRequestId(t) PROVE IInv'
    <2> USE <1>6 DEF CallSetRequestId, Idle
    <2> PICK b \in Pointers :
           /\ IF b = NULL THEN UNCHANGED heap ELSE Allocate(b, Text)
           /\ Enter(t, [IdleThread EXCEPT !.pc = "lock", !.new = b,
                                          !.field = "last_request_id"])
      OBVIOUS
    <2> DEFINE r == [IdleThread EXCEPT !.pc = "lock", !.new = b, !.field = "last_request_id"]
    <2>1. /\ r \in Registers /\ r.pc \in {"lock", "notice"} /\ r.old = NULL
          /\ r.new # NULL => r.pc = "lock" /\ r.op = "set"
          /\ r.field = "last_error_message" => r.val = Text
      BY DEF IdleThread, Registers, Guarded, Pointers
    <2>2. /\ Enter(t, r) /\ life = "ready"
          /\ th[t].pc \in {"idle", "notice", "preflight_code"}
          /\ IF r.new = NULL THEN UNCHANGED heap ELSE Allocate(r.new, Text)
      BY DEF IdleThread, IInv, LifeInv
    <2>3. Text \in Content
      BY DEF Content, Text
    <2> HIDE DEF r
    <2> QED
      BY <2>1, <2>2, <2>3, EnterKeeps
  <1>7. ASSUME NEW t \in Threads, CallCopyToken(t) PROVE IInv'
    <2> USE <1>7 DEF CallCopyToken, Idle
    <2> DEFINE r == [IdleThread EXCEPT !.pc = "lock", !.op = "copy"]
    <2>1. /\ r \in Registers /\ r.pc \in {"lock", "notice"} /\ r.old = NULL
          /\ r.new # NULL => r.pc = "lock" /\ r.op = "set"
          /\ r.field = "last_error_message" => r.val = 0
      BY DEF IdleThread, Registers, Guarded, Pointers
    <2>2. /\ Enter(t, r) /\ life = "ready"
          /\ th[t].pc \in {"idle", "notice", "preflight_code"}
          /\ IF r.new = NULL THEN UNCHANGED heap ELSE Allocate(r.new, 0)
      BY DEF IdleThread, IInv, LifeInv
    <2>3. 0 \in Content
      BY DEF Content, Text
    <2> HIDE DEF r
    <2> QED
      BY <2>1, <2>2, <2>3, EnterKeeps
  <1>8. ASSUME NEW t \in Threads, CallReadCode(t) PROVE IInv'
    <2> USE <1>8 DEF CallReadCode, Idle
    <2> DEFINE r == [IdleThread EXCEPT !.pc = "lock", !.op = "read"]
    <2>1. /\ r \in Registers /\ r.pc \in {"lock", "notice"} /\ r.old = NULL
          /\ r.new # NULL => r.pc = "lock" /\ r.op = "set"
          /\ r.field = "last_error_message" => r.val = 0
      BY DEF IdleThread, Registers, Guarded, Pointers
    <2>2. /\ Enter(t, r) /\ life = "ready"
          /\ th[t].pc \in {"idle", "notice", "preflight_code"}
          /\ IF r.new = NULL THEN UNCHANGED heap ELSE Allocate(r.new, 0)
      BY DEF IdleThread, IInv, LifeInv
    <2>3. 0 \in Content
      BY DEF Content, Text
    <2> HIDE DEF r
    <2> QED
      BY <2>1, <2>2, <2>3, EnterKeeps
  <1>9. ASSUME NEW t \in Threads, PollFails(t) PROVE IInv'
    BY <1>9, SetErrorKeeps DEF PollFails, Idle
  <1>10. ASSUME NEW t \in Threads, PreflightFails(t) PROVE IInv'
    BY <1>10, SetErrorKeeps DEF PreflightFails, Idle
  <1>11. ASSUME NEW t \in Threads, PreflightReadsCode(t) PROVE IInv'
    <2> USE <1>11 DEF PreflightReadsCode
    <2>1. life = "ready"
      BY DEF IInv, LifeInv
    <2>2. CASE last_error_code = NoCallbackCode
      <3>1. NoCallbackCode \in Codes \cup {0}
        BY <2>2 DEF IInv, TypeOK
      <3> QED
        BY <2>1, <2>2, <3>1, SetErrorKeeps
    <2>3. CASE last_error_code # NoCallbackCode
      <3> DEFINE r == [IdleThread EXCEPT !.pc = "notice"]
      <3>1. /\ r \in Registers /\ r.pc = "notice" /\ r.old = NULL
            /\ r.new = NULL /\ r.field # "last_error_message"
        BY DEF IdleThread, Registers, Guarded, Pointers
      <3>2. Enter(t, r) /\ UNCHANGED heap
        BY <2>3
      <3>3. Text \in Content
        BY DEF Content
      <3> HIDE DEF r
      <3> QED
        BY <2>1, <3>1, <3>2, <3>3, EnterKeeps
    <2> QED
      BY <2>2, <2>3
  <1>12. ASSUME NEW t \in Threads, CallBorrowMessage(t) PROVE IInv'
    <2> USE <1>12 DEF CallBorrowMessage, Idle
    <2> DEFINE r == [IdleThread EXCEPT !.pc = "lock", !.op = "borrow"]
    <2>1. /\ r \in Registers /\ r.pc \in {"lock", "notice"} /\ r.old = NULL
          /\ r.new # NULL => r.pc = "lock" /\ r.op = "set"
          /\ r.field = "last_error_message" => r.val = 0
      BY DEF IdleThread, Registers, Guarded, Pointers
    <2>2. /\ Enter(t, r) /\ life = "ready"
          /\ th[t].pc \in {"idle", "notice", "preflight_code"}
          /\ IF r.new = NULL THEN UNCHANGED heap ELSE Allocate(r.new, 0)
      BY DEF IdleThread, IInv, LifeInv
    <2>3. 0 \in Content
      BY DEF Content, Text
    <2> HIDE DEF r
    <2> QED
      BY <2>1, <2>2, <2>3, EnterKeeps
  <1>13. ASSUME NEW t \in Threads, Lock(t) PROVE IInv'
    <2> USE <1>0, <1>13 DEF Lock, At
    <2>1. Others(t) /\ th' \in [Threads -> Registers]
      BY DEF Others, Registers, IdleThread, Locked, Guarded, Pointers, AfterUnlock, IInv, TypeOK
    <2>2. /\ th'[t].new = th[t].new /\ th'[t].old = th[t].old
          /\ UNCHANGED <<th[t].op, th[t].field, th[t].val>>
          /\ th'[t].pc = th[t].op /\ th[t].pc = "lock"
          /\ th[t].op \in {"set", "copy", "borrow", "read"}
      BY DEF Registers
    <2>3. Sound(th'[t])
      <3>1. Sound(th[t])
        BY <1>0
      <3> QED
        BY <2>2, <3>1 DEF Sound
    <2>4. th[t].pc \in Locked => lock = t
      BY DEF IInv, LockInv
    <2> QED
      BY <2>1, <2>2, <2>3, <2>4, QuietKeeps DEF Locked
  <1>14. ASSUME NEW t \in Threads, ReadCode(t) PROVE IInv'
    <2> USE <1>0, <1>14 DEF ReadCode, At
    <2>1. Others(t) /\ th' \in [Threads -> Registers]
      BY DEF Others, Registers, IdleThread, Locked, Guarded, Pointers, AfterUnlock, IInv, TypeOK
    <2>2. /\ th'[t].new = th[t].new /\ th'[t].old = th[t].old
          /\ UNCHANGED <<th[t].op, th[t].field>>
          /\ th'[t].pc = "unlock" /\ th[t].new = NULL
      BY DEF Registers, Sound
    <2>3. Sound(th'[t])
      <3>1. Sound(th[t])
        BY <1>0
      <3> QED
        BY <2>2, <3>1 DEF Sound
    <2>4. th[t].pc \in Locked => lock = t
      BY DEF IInv, LockInv
    <2> QED
      BY <2>1, <2>2, <2>3, <2>4, QuietKeeps DEF Locked
  <1>15. ASSUME NEW t \in Threads, ReadPointer(t) PROVE IInv'
    <2> USE <1>0, <1>15 DEF ReadPointer, At
    <2>1. Others(t) /\ th' \in [Threads -> Registers]
      BY DEF Others, Registers, IdleThread, Locked, Guarded, Pointers, AfterUnlock, IInv, TypeOK
    <2>2. /\ th'[t].new = th[t].new /\ th'[t].old = th[t].old
          /\ UNCHANGED <<th[t].op, th[t].field, th[t].val>>
          /\ th'[t].pc = (IF th[t].pc = "copy" THEN "dup" ELSE "unlock")
          /\ th[t].pc = "copy" => th'[t].ptr = slot["api_token"]
      BY DEF Registers
    <2>3. Sound(th'[t])
      <3>1. Sound(th[t])
        BY <1>0
      <3> QED
        BY <2>2, <3>1 DEF Sound
    <2>4. lock = t
      BY DEF IInv, LockInv, Locked
    <2>5. /\ UNCHANGED <<life, slot, last_error_code, heap, lock>>
          /\ th[t].pc \in {"copy", "borrow"} /\ th'[t].pc \in {"dup", "unlock"}
          /\ th'[t].pc = "dup" => th'[t].ptr = slot["api_token"]
      BY <2>2
    <2> HIDE <1>15 DEF ReadPointer, At
    <2> QED
      BY <2>1, <2>2, <2>3, <2>4, <2>5, QuietKeeps
  <1>16. ASSUME NEW t \in Threads, Unlock(t) PROVE IInv'
    <2> USE <1>0, <1>16 DEF Unlock, At
    <2>1. Others(t) /\ th' \in [Threads -> Registers]
      BY DEF Others, Registers, IdleThread, Locked, Guarded, Pointers, AfterUnlock, IInv, TypeOK
    <2>2. /\ th'[t].new = th[t].new /\ th'[t].old = th[t].old
          /\ th'[t].new # NULL => UNCHANGED <<th[t].op, th[t].field, th[t].val>>
          /\ th[t].op = "read" => th'[t].pc = "idle" /\ th[t].new = NULL
                                   /\ th[t].old = NULL
          /\ th[t].op # "read" => th'[t].pc = AfterUnlock(th[t].op)
                                   /\ UNCHANGED th[t].op
          /\ th[t].op \in {"set", "copy", "borrow", "read"}
          /\ th[t].op # "read" => th'[t].pc \in {"free", "use", "deref"}
          /\ th'[t].pc = "free" => th'[t].op = "set"
          /\ th'[t].pc = "use" => th'[t].op = "copy"
          /\ th[t].op = "set" => th'[t].pc = "free"
          /\ th[t].op = "copy" => th'[t].pc = "use"
      BY DEF Registers, Sound, IdleThread, AfterUnlock
    <2>3. Sound(th'[t])
      <3>1. Sound(th[t])
        BY <1>0
      <3> QED
        BY <2>2, <3>1 DEF Sound
    <2>4. th[t].pc \in Locked => lock = t
      BY DEF IInv, LockInv
    <2> QED
      BY <2>1, <2>2, <2>3, <2>4, QuietKeeps DEF Locked
  <1>17. ASSUME NEW t \in Threads, CallbackReturns(t) PROVE IInv'
    <2> USE <1>0, <1>17 DEF CallbackReturns, At
    <2>1. Others(t) /\ th' \in [Threads -> Registers]
      BY DEF Others, Registers, IdleThread, Locked, Guarded, Pointers, AfterUnlock, IInv, TypeOK
    <2>2. /\ th'[t].new = th[t].new /\ th'[t].old = th[t].old
          /\ th'[t].new = NULL /\ th'[t].old = NULL /\ th'[t].pc = "idle"
      BY DEF Registers, Sound, IdleThread
    <2>3. Sound(th'[t])
      <3>1. Sound(th[t])
        BY <1>0
      <3> QED
        BY <2>2, <3>1 DEF Sound
    <2>4. th[t].pc \in Locked => lock = t
      BY DEF IInv, LockInv
    <2> QED
      BY <2>1, <2>2, <2>3, <2>4, QuietKeeps DEF Locked
  <1>18. ASSUME NEW t \in Threads, Exchange(t) PROVE IInv'
    <2> USE <1>0, <1>18 DEF Exchange, At
    <2>1. Others(t) /\ th' \in [Threads -> Registers]
      BY DEF Others, Registers, Locked, Guarded, Fields, Pointers, IInv, TypeOK
    <2>2. /\ th'[t].new = NULL /\ th'[t].old = slot[th[t].field]
          /\ th'[t].pc = IF th[t].field = "last_error_message"
                         THEN "code" ELSE "unlock"
          /\ UNCHANGED <<th[t].op, th[t].field, th[t].val>>
          /\ th[t].old = NULL /\ th[t].op = "set"
          /\ th[t].field \in Guarded
      BY DEF Registers, Sound
    <2>3. lock = t /\ \A u \in Threads \ {t} : th[u].pc \notin Locked
      BY DEF IInv, LockInv, Locked
    <2>4. th[t].field \in Fields /\ slot' \in [Fields -> Pointers]
          /\ slot'[th[t].field] = th[t].new
          /\ \A g \in Fields \ {th[t].field} : slot'[g] = slot[g]
      BY <2>2 DEF Fields, Registers
    <2>5. TypeOK'
      BY <2>1, <2>4 DEF IInv, TypeOK, Registers
    <2>6. RegInv'
      BY SMTT(30), <2>1, <2>2 DEF IInv, RegInv, Sound, Others
    <2>7. LockInv' /\ LifeInv'
      BY <2>1, <2>2, <2>3 DEF IInv, LockInv, LifeInv, Others, Locked
    <2>8. HeapOwned'
      BY <2>1, <2>2, <2>4, Swapped DEF IInv
    <2>9. SnapshotInv'
      BY <2>1, <2>2, <2>3 DEF IInv, SnapshotInv, Others, Locked
    <2>10. MessageInHand'
      BY <2>1, <2>2 DEF IInv, MessageInHand, Others
    <2>11. MessageWritten'
      <3>1. CASE th[t].field = "last_error_message"
        <4>1. slot'["last_error_message"] # NULL =>
                 heap[slot'["last_error_message"]] = th'[t].val
          BY <2>2, <2>4, <3>1 DEF IInv, MessageInHand
        <4>2. \A u \in Threads : th'[u].pc = "code" <=> u = t
          BY <2>1, <2>2, <2>3, <3>1 DEF Others, Locked
        <4> QED
          BY <4>1, <4>2 DEF MessageWritten
      <3>2. CASE th[t].field # "last_error_message"
        <4>1. slot'["last_error_message"] = slot["last_error_message"]
          BY <2>4, <3>2 DEF Fields, Guarded
        <4>2. \A u \in Threads : th'[u].pc # "code" /\ th[u].pc # "code"
          BY <2>1, <2>2, <2>3, <3>2 DEF Others, Locked
        <4> QED
          BY <4>1, <4>2 DEF IInv, MessageWritten
      <3> QED
        BY <3>1, <3>2
    <2> QED
      BY <2>5, <2>6, <2>7, <2>8, <2>9, <2>10, <2>11 DEF IInv
  <1>19. ASSUME NEW t \in Threads, WriteCode(t) PROVE IInv'
    <2> USE <1>0, <1>19 DEF WriteCode, At
    <2>1. Others(t) /\ th' \in [Threads -> Registers]
      BY DEF Others, Registers, Locked
    <2>2. /\ th'[t].new = th[t].new /\ th'[t].old = th[t].old
          /\ UNCHANGED <<th[t].op, th[t].field, th[t].val>>
          /\ th'[t].pc = "unlock" /\ th[t].val \in Codes \cup {0}
      BY DEF Registers
    <2>3. lock = t /\ \A u \in Threads \ {t} : th[u].pc \notin Locked
      BY DEF IInv, LockInv, Locked
    <2>4. TypeOK'
      BY <2>1, <2>2 DEF IInv, TypeOK, Registers
    <2>5. RegInv'
      BY <2>1, <2>2 DEF IInv, RegInv, Sound, Others
    <2>6. LockInv' /\ LifeInv'
      BY <2>1, <2>2, <2>3 DEF IInv, LockInv, LifeInv, Others
    <2>7. HeapOwned'
      BY <2>1, <2>2, Kept DEF IInv
    <2>8. SnapshotInv' /\ MessageInHand'
      BY <2>1, <2>2 DEF IInv, SnapshotInv, MessageInHand, Others
    <2>9. MessageWritten'
      BY <2>1, <2>2, <2>3 DEF IInv, MessageWritten, Others, Locked
    <2> QED
      BY <2>4, <2>5, <2>6, <2>7, <2>8, <2>9 DEF IInv
  <1>20. ASSUME NEW t \in Threads, DupToken(t) PROVE IInv'
    <2> USE <1>0, <1>20 DEF DupToken, At
    <2> PICK b \in Pointers :
           /\ IF b = NULL THEN UNCHANGED heap
              ELSE th[t].ptr # NULL /\ Allocate(b, heap[th[t].ptr])
           /\ th' = [th EXCEPT ![t].new = b, ![t].pc = "unlock"]
      OBVIOUS
    <2>1. Others(t) /\ th' \in [Threads -> Registers]
      BY DEF Others, Registers, Locked
    <2>2. /\ th'[t].new = b /\ th'[t].old = th[t].old
          /\ UNCHANGED <<th[t].op, th[t].field, th[t].val>>
          /\ th'[t].pc = "unlock" /\ th[t].new = NULL /\ th[t].old = NULL
          /\ th[t].op = "copy"
      BY DEF Registers, Sound
    <2>3. lock = t
      BY DEF IInv, LockInv, Locked
    <2>4. b # NULL => b \in Blocks /\ heap[th[t].ptr] \in Content
      <3>1. th[t].ptr = slot["api_token"]
        BY DEF IInv, SnapshotInv
      <3>2. th[t].ptr # NULL => th[t].ptr \in Live
        BY <3>1 DEF IInv, HeapOwned, NoDanglingOwner, SlotRefs, Fields, Guarded
      <3> QED
        BY <3>2 DEF Live, IInv, TypeOK, Pointers
    <2>5. TypeOK'
      <3>1. heap' \in [Blocks -> Content \cup {Free}]
        BY <2>4 DEF IInv, TypeOK, Allocate
      <3> QED
        BY <2>1, <3>1 DEF IInv, TypeOK, Registers
    <2>6. RegInv'
      BY <2>1, <2>2 DEF IInv, RegInv, Sound, Others
    <2>7. LockInv' /\ LifeInv'
      BY <2>1, <2>2, <2>3 DEF IInv, LockInv, LifeInv, Others
    <2>8. HeapOwned'
      <3>1. CASE b = NULL
        BY <2>1, <2>2, <3>1, Kept DEF IInv
      <3>2. CASE b # NULL
        BY <2>1, <2>2, <2>4, <3>2, Took DEF IInv
      <3> QED
        BY <3>1, <3>2
    <2>9. \A x \in Live : heap'[x] = heap[x]
      BY DEF Live, Allocate, IInv, TypeOK
    <2>10. SnapshotInv'
      BY <2>1, <2>2 DEF IInv, SnapshotInv, Others
    <2>11. MessageInHand'
      <3>1. \A u \in Threads \ {t} : th[u].new # NULL => th[u].new \in Live
        BY DEF IInv, HeapOwned, NoDanglingOwner, NewRefs
      <3> QED
        BY <2>1, <2>2, <2>9, <3>1 DEF IInv, MessageInHand, Others
    <2>12. MessageWritten'
      <3>1. slot["last_error_message"] # NULL => slot["last_error_message"] \in Live
        BY DEF IInv, HeapOwned, NoDanglingOwner, SlotRefs, Fields, Guarded
      <3> QED
        BY <2>1, <2>2, <2>9, <3>1 DEF IInv, MessageWritten, Others
    <2> QED
      BY <2>5, <2>6, <2>7, <2>8, <2>10, <2>11, <2>12 DEF IInv
  <1>21. ASSUME NEW t \in Threads, FreeOld(t) PROVE IInv'
    <2> USE <1>0, <1>21 DEF FreeOld, At
    <2>1. Others(t) /\ th' \in [Threads -> Registers]
      <3>1. th'[t] \in Registers
        BY ZenonT(60) DEF Registers, IdleThread, Locked, Guarded, Pointers
      <3> QED
        BY <3>1 DEF Others
    <2>2. /\ th'[t].new = NULL /\ th'[t].old = NULL /\ th[t].new = NULL
          /\ th'[t].pc \in {"idle", "notice", "preflight_code"}
          /\ FreeBlocks({th[t].old})
      BY DEF Registers, Sound, IdleThread
    <2>3. TypeOK'
      <3>1. heap' \in [Blocks -> Content \cup {Free}]
        BY DEF IInv, TypeOK, FreeBlocks
      <3> QED
        BY <2>1, <3>1 DEF IInv, TypeOK, Registers
    <2>4. RegInv'
      BY <2>1, <2>2 DEF IInv, RegInv, Sound, Others
    <2>5. LockInv' /\ LifeInv'
      BY <2>1, <2>2 DEF IInv, LockInv, LifeInv, Others, Locked
    <2>6. HeapOwned'
      BY <2>1, <2>2, Gave DEF IInv
    <2>7. SnapshotInv'
      BY <2>1, <2>2 DEF IInv, SnapshotInv, Others
    <2>8. MessageInHand'
      <3>1. ASSUME NEW u \in Threads, th'[u].new # NULL
            PROVE  heap'[th'[u].new] = heap[th[u].new]
        <4>1. u # t /\ th'[u] = th[u]
          BY <2>1, <2>2, <3>1 DEF Others
        <4>2. th[u].new # th[t].old /\ th[u].new \in Blocks
          BY <3>1, <4>1 DEF IInv, HeapOwned, OneOwner, NoDanglingOwner,
                            NewRefs, OldRefs, Live
        <4> QED
          BY <4>1, <4>2 DEF FreeBlocks
      <3> QED
        BY <2>1, <2>2, <3>1 DEF IInv, MessageInHand, Others
    <2>9. MessageWritten'
      <3>1. slot["last_error_message"] # NULL =>
               heap'[slot["last_error_message"]] = heap[slot["last_error_message"]]
        BY DEF IInv, HeapOwned, OneOwner, NoDanglingOwner, SlotRefs, NewRefs,
               OldRefs, Live, FreeBlocks, Fields, Guarded
      <3> QED
        BY <2>1, <2>2, <3>1 DEF IInv, MessageWritten, Others
    <2> QED
      BY <2>3, <2>4, <2>5, <2>6, <2>7, <2>8, <2>9 DEF IInv
  <1>22. ASSUME NEW t \in Threads, UseToken(t) PROVE IInv'
    <2> USE <1>0, <1>22 DEF UseToken, At
    <2>1. Others(t) /\ th' \in [Threads -> Registers]
      <3>1. th'[t] \in Registers
        BY DEF Registers, IdleThread, Locked, Guarded, Pointers
      <3> QED
        BY <3>1 DEF Others
    <2>2. /\ th'[t].new = NULL /\ th'[t].old = NULL /\ th[t].old = NULL
          /\ th'[t].pc \in {"idle", "notice", "preflight_code"}
          /\ FreeBlocks({th[t].new})
      BY DEF Registers, Sound, IdleThread
    <2>3. TypeOK'
      <3>1. heap' \in [Blocks -> Content \cup {Free}]
        BY DEF IInv, TypeOK, FreeBlocks
      <3> QED
        BY <2>1, <3>1 DEF IInv, TypeOK, Registers
    <2>4. RegInv'
      BY <2>1, <2>2 DEF IInv, RegInv, Sound, Others
    <2>5. LockInv' /\ LifeInv'
      BY <2>1, <2>2 DEF IInv, LockInv, LifeInv, Others, Locked
    <2>6. HeapOwned'
      BY <2>1, <2>2, Gave DEF IInv
    <2>7. SnapshotInv'
      BY <2>1, <2>2 DEF IInv, SnapshotInv, Others
    <2>8. MessageInHand'
      <3>1. ASSUME NEW u \in Threads, th'[u].new # NULL
            PROVE  heap'[th'[u].new] = heap[th[u].new]
        <4>1. u # t /\ th'[u] = th[u]
          BY <2>1, <2>2, <3>1 DEF Others
        <4>2. th[u].new # th[t].new /\ th[u].new \in Blocks
          BY <3>1, <4>1 DEF IInv, HeapOwned, OneOwner, NoDanglingOwner,
                            NewRefs, OldRefs, Live
        <4> QED
          BY <4>1, <4>2 DEF FreeBlocks
      <3> QED
        BY <2>1, <2>2, <3>1 DEF IInv, MessageInHand, Others
    <2>9. MessageWritten'
      <3>1. slot["last_error_message"] # NULL =>
               heap'[slot["last_error_message"]] = heap[slot["last_error_message"]]
        BY DEF IInv, HeapOwned, OneOwner, NoDanglingOwner, SlotRefs, NewRefs,
               OldRefs, Live, FreeBlocks, Fields, Guarded
      <3> QED
        BY <2>1, <2>2, <3>1 DEF IInv, MessageWritten, Others
    <2> QED
      BY <2>3, <2>4, <2>5, <2>6, <2>7, <2>8, <2>9 DEF IInv
  <1>23. CASE UNCHANGED vars
    BY <1>23 DEF vars, IInv, TypeOK, RegInv, LockInv, LifeInv, SnapshotInv,
         MessageInHand, MessageWritten, HeapOwned, NoDanglingOwner, OneOwner,
         NoLeak, Live, SlotRefs, NewRefs, OldRefs
  <1> QED
    BY <1>1, <1>2, <1>3, <1>4, <1>5, <1>6, <1>7, <1>8, <1>9, <1>10, <1>11,
       <1>12, <1>13, <1>14, <1>15, <1>16, <1>17, <1>18, <1>19, <1>20, <1>21,
       <1>22, <1>23
       DEF Next, Call, Continue

(* The invariant holds in every behaviour.                                 *)
THEOREM Invariance == Spec => []IInv
  BY InitIInv, NextIInv, PTL DEF Spec

(* Type correctness of the client, its heap and its threads.               *)
THEOREM TypeCorrect == Spec => []TypeOK
  <1>1. IInv => TypeOK
    BY DEF IInv
  <1> QED
    BY Invariance, <1>1, PTL

(* Every block has exactly one owner: nothing is freed twice, freed while  *)
(* the client points to it, or lost.                                       *)
THEOREM Owned == Spec => []HeapOwned
  <1>1. IInv => HeapOwned
    BY DEF IInv
  <1> QED
    BY Invariance, <1>1, PTL

(* The token is alive and current while it is copied.                      *)
THEOREM SnapshotIsSafe == Spec => []SnapshotSafe
  <1>1. IInv => SnapshotSafe
    BY DEF IInv, SnapshotInv, SnapshotSafe, At, HeapOwned, NoDanglingOwner,
           SlotRefs, Fields, Guarded
  <1> QED
    BY Invariance, <1>1, PTL

(* Message and code of the last error belong together.                     *)
THEOREM PairConsistent == Spec => []ErrorPairConsistent
  <1>1. IInv => ErrorPairConsistent
    BY DEF IInv, MessageWritten, ErrorPairConsistent, At
  <1> QED
    BY Invariance, <1>1, PTL

=============================================================================
