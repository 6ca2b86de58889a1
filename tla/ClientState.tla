---------------------------- MODULE ClientState ----------------------------
(***************************************************************************)
(* struct audd_client shared by threads (src/src/audd_client.c,            *)
(* src/src/audd_error.c): heap strings hang off the client, a mutex guards *)
(* api_token, last_error_message, last_error_code and last_request_id, and *)
(* the old string is always freed after the unlock.  A thread is           *)
(*   - a rotator, calling audd_client_set_api_token,                       *)
(*   - a requester, whose requests snapshot the token and set or clear the *)
(*     last error and request id, or                                       *)
(*   - a poller, inside audd_longpoll_run: after its preflight it sets an  *)
(*     error and hands the borrowed message to the on_error callback.      *)
(*                                                                         *)
(* Any allocation may fail.  Blocks bounds the heap; a freed block may be  *)
(* handed out again.                                                       *)
(***************************************************************************)
EXTENDS Naturals, FiniteSets

CONSTANTS
    Rotators, Requesters, Pollers,  \* the threads, by what they do
    Blocks,                         \* heap blocks
    Tokens,                         \* token strings
    Codes,                          \* API error codes other than 0
    NoCallbackCode,                 \* kNoCallbackErrorCode
    NULL, Free                      \* no block; the content of a free block

ASSUME RolesAssumption ==
    /\ Rotators \cap Requesters = {}
    /\ Rotators \cap Pollers = {}
    /\ Requesters \cap Pollers = {}

Threads == Rotators \cup Requesters \cup Pollers

ASSUME HeapAssumption ==
    /\ NULL \notin Blocks \cup Threads
    /\ Free \notin Tokens \cup Codes \cup {0}

(* The fields guarded by client->lock and those fixed by audd_client_new.  *)
Guarded == {"api_token", "last_error_message", "last_request_id"}
Fields == Guarded \cup {"user_agent", "ca_bundle_path"}

(* Content of a string that nothing looks at.                              *)
Text == 0

Content == Tokens \cup Codes \cup {Text}
Pointers == Blocks \cup {NULL}

VARIABLES
    life,             \* how far audd_client_new is; "ready"; "freed"
    slot,             \* the client's string fields
    last_error_code,  \* the client's int field
    lock,             \* thread that holds client->lock, or NULL
    heap,             \* content of every block
    th                \* the threads

vars == <<life, slot, last_error_code, lock, heap, th>>

(* A thread's registers: pc; the audd_client_* function it is in (op), the *)
(* field it works on, where it goes on the return (then); the block it     *)
(* allocated (new), took out (old) or merely borrowed (ptr); an int (val). *)
IdleThread ==
    [pc |-> "idle", op |-> "set", field |-> "api_token", then |-> "idle",
     new |-> NULL, old |-> NULL, ptr |-> NULL, val |-> 0]

Locked == {"set", "code", "copy", "dup", "borrow", "read", "unlock"}

TypeOK ==
    /\ life \in {"token", "agent", "bundle", "ready", "freed"}
    /\ slot \in [Fields -> Pointers]
    /\ last_error_code \in Codes \cup {0}
    /\ lock \in Threads \cup {NULL}
    /\ heap \in [Blocks -> Content \cup {Free}]
    /\ th \in [Threads ->
                 [pc : Locked \cup {"idle", "lock", "free", "use", "notice",
                                    "deref", "preflight_code"},
                  op : {"set", "copy", "borrow", "read"},
                  field : Guarded,
                  then : {"idle", "notice", "preflight_code"},
                  new : Pointers, old : Pointers, ptr : Pointers,
                  val : Codes \cup {0}]]

Init ==
    /\ life = "token"
    /\ slot = [f \in Fields |-> NULL]
    /\ last_error_code = 0
    /\ lock = NULL
    /\ heap = [b \in Blocks |-> Free]
    /\ th = [t \in Threads |-> IdleThread]

Live == {b \in Blocks : heap[b] # Free}

-----------------------------------------------------------------------------
(* The heap.                                                               *)

(* audd_strdup succeeded: block b now holds c.                             *)
Allocate(b, c) ==
    /\ heap[b] = Free
    /\ heap' = [heap EXCEPT ![b] = c]

(* audd_free of each pointer in ps; NULL is allowed.                       *)
FreeBlocks(ps) ==
    heap' = [b \in Blocks |-> IF b \in ps THEN Free ELSE heap[b]]

-----------------------------------------------------------------------------
(* audd_client_new and audd_client_free.                                   *)

(* Frees every string and the client itself.                               *)
audd_client_free ==
    /\ FreeBlocks({slot[f] : f \in Fields})
    /\ slot' = [f \in Fields |-> NULL]
    /\ life' = "freed"

(* One string of the client is made.  If that fails the half-made client   *)
(* goes through audd_client_free.                                          *)
NewField(stage, f, contents, next) ==
    /\ life = stage
    /\ \/ /\ \E b \in Blocks, c \in contents :
                Allocate(b, c) /\ slot' = [slot EXCEPT ![f] = b]
          /\ life' = next
       \/ audd_client_free
    /\ UNCHANGED <<last_error_code, lock, th>>

(* No token was given and AUDD_API_TOKEN is unset, or the options name no  *)
(* CA bundle: the field stays NULL.                                        *)
SkipField(stage, next) ==
    /\ life = stage
    /\ life' = next
    /\ UNCHANGED <<slot, last_error_code, lock, heap, th>>

audd_client_new ==
    \/ NewField("token", "api_token", Tokens, "agent")
    \/ SkipField("token", "agent")
    \/ NewField("agent", "user_agent", {Text}, "bundle")
    \/ NewField("bundle", "ca_bundle_path", {Text}, "ready")
    \/ SkipField("bundle", "ready")

(* The owner frees the client once no call is running on it.               *)
FreeClient ==
    /\ life = "ready"
    /\ \A t \in Threads : th[t].pc = "idle"
    /\ audd_client_free
    /\ UNCHANGED <<last_error_code, lock, th>>

-----------------------------------------------------------------------------
(* Entering an audd_client_* function: the work before the lock.           *)

Enter(t, registers) ==
    /\ th' = [th EXCEPT ![t] = registers]
    /\ UNCHANGED <<life, slot, last_error_code, lock>>

Idle(t) == life = "ready" /\ th[t].pc = "idle"

(* audd_client_set_api_token(new_token): out of memory it returns at once. *)
CallSetToken(t) ==
    /\ t \in Rotators
    /\ Idle(t)
    /\ \E b \in Blocks, k \in Tokens :
          /\ Allocate(b, k)
          /\ Enter(t, [IdleThread EXCEPT !.pc = "lock", !.new = b])

(* audd_client_set_error(message, code) and then on to `then`: without     *)
(* memory the message is NULL, the code is set all the same.               *)
SetError(t, code, then) ==
    \E b \in Pointers :
       /\ IF b = NULL THEN UNCHANGED heap ELSE Allocate(b, code)
       /\ Enter(t, [IdleThread EXCEPT !.pc = "lock", !.then = then,
                                      !.field = "last_error_message",
                                      !.new = b, !.val = code])

CallSetError(t) ==
    /\ t \in Requesters
    /\ Idle(t)
    /\ \E code \in Codes \cup {0} : SetError(t, code, "idle")

(* audd_client_clear_error.                                                *)
CallClearError(t) ==
    /\ t \in Requesters
    /\ Idle(t)
    /\ UNCHANGED heap
    /\ Enter(t, [IdleThread EXCEPT !.pc = "lock",
                                   !.field = "last_error_message"])

(* audd_client_set_request_id(rid): rid may be NULL, or memory may run out.*)
CallSetRequestId(t) ==
    /\ t \in Requesters \cup Pollers
    /\ Idle(t)
    /\ \E b \in Pointers :
          /\ IF b = NULL THEN UNCHANGED heap ELSE Allocate(b, Text)
          /\ Enter(t, [IdleThread EXCEPT !.pc = "lock", !.new = b,
                                         !.field = "last_request_id"])

(* audd_client_copy_api_token, called by audd_http_post for each attempt.  *)
CallCopyToken(t) ==
    /\ t \in Requesters
    /\ Idle(t)
    /\ UNCHANGED heap
    /\ Enter(t, [IdleThread EXCEPT !.pc = "lock", !.op = "copy"])

(* audd_last_error_code.                                                   *)
CallReadCode(t) ==
    /\ t \in Requesters
    /\ Idle(t)
    /\ UNCHANGED heap
    /\ Enter(t, [IdleThread EXCEPT !.pc = "lock", !.op = "read"])

(* A poll of audd_longpoll_run failed: audd_http_get (or the loop itself)  *)
(* recorded why, and emit_error comes next.                                *)
PollFails(t) ==
    /\ t \in Pollers
    /\ Idle(t)
    /\ SetError(t, 0, "notice")

(* preflight_callback_url: audd_streams_get_callback_url failed and        *)
(* recorded the API's code; client->last_error_code is looked at next.     *)
PreflightFails(t) ==
    /\ t \in Pollers
    /\ Idle(t)
    /\ \E code \in Codes : SetError(t, code, "preflight_code")

(* The look, without the lock: for kNoCallbackErrorCode the hint replaces  *)
(* the message, and either way emit_error comes next.                      *)
PreflightReadsCode(t) ==
    /\ th[t].pc = "preflight_code"
    /\ IF last_error_code = NoCallbackCode
       THEN SetError(t, NoCallbackCode, "notice")
       ELSE /\ UNCHANGED heap
            /\ Enter(t, [IdleThread EXCEPT !.pc = "notice"])

(* emit_error(..., audd_last_error_message(client)): the accessor.         *)
CallBorrowMessage(t) ==
    /\ th[t].pc = "notice"
    /\ UNCHANGED heap
    /\ Enter(t, [IdleThread EXCEPT !.pc = "lock", !.op = "borrow"])

-----------------------------------------------------------------------------
(* Under the lock.                                                         *)

At(t, pc) == th[t].pc = pc

(* Mutant: the token is copied without taking the lock.                    *)
LockUnlessCopying(t) ==
    /\ At(t, "lock")
    /\ lock = NULL \/ th[t].op = "copy"
    /\ lock' = IF th[t].op = "copy" THEN lock ELSE t
    /\ th' = [th EXCEPT ![t].pc = th[t].op]
    /\ UNCHANGED <<life, slot, last_error_code, heap>>

Lock(t) ==
    /\ At(t, "lock")
    /\ lock = NULL
    /\ lock' = t
    /\ th' = [th EXCEPT ![t].pc = th[t].op]
    /\ UNCHANGED <<life, slot, last_error_code, heap>>

(* Mutant: the old string is forgotten instead of freed.                   *)
ExchangeLosingOld(t) ==
    /\ At(t, "set")
    /\ slot' = [slot EXCEPT ![th[t].field] = th[t].new]
    /\ th' = [th EXCEPT ![t].new = NULL,
                        ![t].pc = IF th[t].field = "last_error_message"
                                  THEN "code" ELSE "unlock"]
    /\ UNCHANGED <<life, last_error_code, lock, heap>>

(* old = client->field; client->field = dup.                               *)
Exchange(t) ==
    /\ At(t, "set")
    /\ slot' = [slot EXCEPT ![th[t].field] = th[t].new]
    /\ th' = [th EXCEPT ![t].old = slot[th[t].field],
                        ![t].new = NULL,
                        ![t].pc = IF th[t].field = "last_error_message"
                                  THEN "code" ELSE "unlock"]
    /\ UNCHANGED <<life, last_error_code, lock, heap>>

(* Mutants: the code is left as it was; the wrong variable is stored.      *)
WriteNoCode(t) ==
    /\ At(t, "code")
    /\ th' = [th EXCEPT ![t].pc = "unlock"]
    /\ UNCHANGED <<life, slot, last_error_code, lock, heap>>

WriteMessageAsCode(t) ==
    /\ At(t, "code")
    /\ last_error_code' = slot["last_error_message"]
    /\ th' = [th EXCEPT ![t].pc = "unlock"]
    /\ UNCHANGED <<life, slot, lock, heap>>

(* client->last_error_code = api_code.                                     *)
WriteCode(t) ==
    /\ At(t, "code")
    /\ last_error_code' = th[t].val
    /\ th' = [th EXCEPT ![t].pc = "unlock"]
    /\ UNCHANGED <<life, slot, lock, heap>>

ReadCode(t) ==
    /\ At(t, "read")
    /\ th' = [th EXCEPT ![t].val = last_error_code, ![t].pc = "unlock"]
    /\ UNCHANGED <<life, slot, last_error_code, lock, heap>>

(* The pointer is read ...                                                 *)
ReadPointer(t) ==
    /\ At(t, "copy") \/ At(t, "borrow")
    /\ th' = [th EXCEPT ![t].ptr = slot[IF At(t, "copy") THEN "api_token"
                                        ELSE "last_error_message"],
                        ![t].pc = IF At(t, "copy") THEN "dup" ELSE "unlock"]
    /\ UNCHANGED <<life, slot, last_error_code, lock, heap>>

(* ... and the string behind it duplicated: NULL if there is no token, or  *)
(* no memory.                                                              *)
DupToken(t) ==
    /\ At(t, "dup")
    /\ \E b \in Pointers :
          /\ IF b = NULL THEN UNCHANGED heap
             ELSE th[t].ptr # NULL /\ Allocate(b, heap[th[t].ptr])
          /\ th' = [th EXCEPT ![t].new = b, ![t].pc = "unlock"]
    /\ UNCHANGED <<life, slot, last_error_code, lock>>

AfterUnlock(op) ==
    CASE op = "set"    -> "free"
      [] op = "copy"   -> "use"
      [] op = "borrow" -> "deref"

(* Mutant: a return that forgets the unlock.                               *)
ReturnHoldingLock(t) ==
    /\ At(t, "unlock")
    /\ th' = [th EXCEPT ![t] = IF @.op = "read" THEN IdleThread
                               ELSE [@ EXCEPT !.pc = AfterUnlock(th[t].op)]]
    /\ UNCHANGED <<life, slot, last_error_code, lock, heap>>

Unlock(t) ==
    /\ At(t, "unlock")
    /\ lock' = NULL
    /\ th' = [th EXCEPT ![t] = IF @.op = "read" THEN IdleThread
                               ELSE [@ EXCEPT !.pc = AfterUnlock(th[t].op)]]
    /\ UNCHANGED <<life, slot, last_error_code, heap>>

-----------------------------------------------------------------------------
(* After the unlock.                                                       *)

(* audd_free(old).                                                         *)
FreeOld(t) ==
    /\ At(t, "free")
    /\ FreeBlocks({th[t].old})
    /\ th' = [th EXCEPT ![t] = IF @.then = "idle" THEN IdleThread
                               ELSE [@ EXCEPT !.old = NULL, !.pc = th[t].then]]
    /\ UNCHANGED <<life, slot, last_error_code, lock>>

(* audd_http_post puts the snapshot into the form and frees it.            *)
UseToken(t) ==
    /\ At(t, "use")
    /\ FreeBlocks({th[t].new})
    /\ th' = [th EXCEPT ![t] = IdleThread]
    /\ UNCHANGED <<life, slot, last_error_code, lock>>

(* The on_error callback has read the borrowed message.                    *)
CallbackReturns(t) ==
    /\ At(t, "deref")
    /\ th' = [th EXCEPT ![t] = IdleThread]
    /\ UNCHANGED <<life, slot, last_error_code, lock, heap>>

-----------------------------------------------------------------------------
Call(t) ==
    \/ CallSetToken(t) \/ CallSetError(t) \/ CallClearError(t)
    \/ CallSetRequestId(t) \/ CallCopyToken(t) \/ CallReadCode(t)
    \/ PollFails(t) \/ PreflightFails(t)

(* What a thread does next, once it is in a call.                          *)
Continue(t) ==
    \/ PreflightReadsCode(t) \/ CallBorrowMessage(t)
    \/ Lock(t) \/ Exchange(t) \/ WriteCode(t) \/ ReadCode(t)
    \/ ReadPointer(t) \/ DupToken(t) \/ Unlock(t)
    \/ FreeOld(t) \/ UseToken(t) \/ CallbackReturns(t)

Next ==
    \/ audd_client_new
    \/ FreeClient
    \/ \E t \in Threads : Call(t) \/ Continue(t)
    \/ life = "freed" /\ UNCHANGED vars

Spec == Init /\ [][Next]_vars

(* Threads run; pthread_mutex_lock hands a free mutex to every waiter in   *)
(* the end (an assumption on the platform, POSIX leaves it open).          *)
FairSpec ==
    /\ Spec
    /\ \A t \in Threads : WF_vars(Continue(t)) /\ SF_vars(Lock(t))

-----------------------------------------------------------------------------
(* Properties.                                                             *)

SlotRefs == {f \in Fields : slot[f] # NULL}
NewRefs == {t \in Threads : th[t].new # NULL}
OldRefs == {t \in Threads : th[t].old # NULL}

(* Every block has exactly one owner: a field of the client, a thread that *)
(* has not yet put it there, or a thread that has taken it out.  So no     *)
(* string is freed twice, none is freed while the client still points to   *)
(* it, and none is lost, although every swap frees outside the lock.       *)
NoDanglingOwner ==
    /\ \A f \in SlotRefs : slot[f] \in Live
    /\ \A t \in NewRefs : th[t].new \in Live
    /\ \A t \in OldRefs : th[t].old \in Live

OneOwner ==
    /\ \A f, g \in SlotRefs : slot[f] = slot[g] => f = g
    /\ \A t, u \in NewRefs : th[t].new = th[u].new => t = u
    /\ \A t, u \in OldRefs : th[t].old = th[u].old => t = u
    /\ \A t \in NewRefs, u \in OldRefs : th[t].new # th[u].old
    /\ \A f \in SlotRefs, t \in NewRefs : slot[f] # th[t].new
    /\ \A f \in SlotRefs, t \in OldRefs : slot[f] # th[t].old

NoLeak ==
    \A b \in Live : \/ \E f \in Fields : slot[f] = b
                    \/ \E t \in Threads : th[t].new = b \/ th[t].old = b

HeapOwned == NoDanglingOwner /\ OneOwner /\ NoLeak

(* The token snapshot is taken under the lock: while strdup reads it, the  *)
(* string is alive and still the client's token, however many rotations    *)
(* are waiting to free it.                                                 *)
SnapshotSafe ==
    \A t \in Threads : At(t, "dup") /\ th[t].ptr # NULL =>
        th[t].ptr \in Live /\ th[t].ptr = slot["api_token"]

(* Message and code always come from the same audd_client_set_error,       *)
(* whatever set_error and clear_error calls interleave.                    *)
ErrorPairConsistent ==
    LET message == slot["last_error_message"] IN
    message # NULL /\ (\A t \in Threads : ~At(t, "code"))
        => heap[message] = last_error_code

(* Every call on the client returns, and the mutex is given back.          *)
CallsReturn == \A t \in Threads : th[t].pc # "idle" ~> th[t].pc = "idle"

-----------------------------------------------------------------------------
(* What include/audd.h promises and the code does not do when a request    *)
(* runs beside the poller.                                                 *)

(* The message that audd_longpoll_run hands to on_error is alive, and the  *)
(* one the client still holds, until the callback returns.                 *)
NoticeMessageAlive ==
    \A t \in Pollers : At(t, "deref") /\ th[t].ptr # NULL =>
        th[t].ptr \in Live /\ th[t].ptr = slot["last_error_message"]

=============================================================================
