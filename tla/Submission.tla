----------------------------- MODULE Submission -----------------------------
(***************************************************************************)
(* What the retry layer of audd-c promises about the server's work: how    *)
(* often one public call may make the server work, as a function of the    *)
(* retry class, and that nothing new is answered once it has returned.     *)
(* The classes are described with enum audd_retry_class_t in               *)
(* src/src/audd_internal.h.                                                *)
(***************************************************************************)
EXTENDS Integers

CONSTANT Attempts

VARIABLES
    call,      \* the public call, with its retry class
    worked,    \* attempts the server worked for
    answered,  \* attempts the server answered with a 5xx
    finished   \* the call has returned

vars == <<call, worked, answered, finished>>

Init ==
    /\ worked = {}
    /\ answered = {}
    /\ finished = FALSE

(* May the server work for attempt a, given the work it has already done?  *)
MayWork(a) ==
    CASE call.class = "READ"        -> TRUE
      [] call.class = "RECOGNITION" -> a \in answered \/ worked \subseteq answered
      [] OTHER                      -> worked = {}

Work(a) ==
    /\ a \notin worked
    /\ MayWork(a)
    /\ worked' = worked \cup {a}
    /\ UNCHANGED <<call, answered, finished>>

Answer5xx(a) ==
    /\ ~finished
    /\ answered' = answered \cup {a}
    /\ UNCHANGED <<call, worked, finished>>

Finish ==
    /\ ~finished
    /\ finished' = TRUE
    /\ UNCHANGED <<call, worked, answered>>

Next ==
    \/ \E a \in Attempts : Work(a) \/ Answer5xx(a)
    \/ Finish

Spec == Init /\ [][Next]_vars
=============================================================================
