---------------------------- MODULE Subscription ----------------------------
(***************************************************************************)
(* What a longpoll subscription promises the application: the events of    *)
(* its category reach the callbacks one by one, in the order of the log    *)
(* and without a gap, from where it began.  Only an event of a kind nobody *)
(* knows is passed over; an event that met a failed allocation may be lost *)
(* or come again, and one whose time is not given as a whole number comes  *)
(* again; nothing comes once the run has returned.  What polls fail, how   *)
(* long it waits and who closes it does not show here.                     *)
(***************************************************************************)
EXTENDS Naturals, Sequences

CONSTANT Events   \* records with a shape and a stamp

VARIABLES
    log,          \* the events of the category
    seen,         \* the last event that is dealt with; 0: not begun
    delivered,    \* what the callbacks were given
    starved,      \* events for which memory ran out
    ended         \* the run has returned

vars == <<log, seen, delivered, starved, ended>>

Init ==
    /\ log \in Seq(Events)
    /\ seen \in 0 .. Len(log)
    /\ delivered = <<>> /\ starved = {}
    /\ ended = FALSE

(* The next event: the one behind seen, or, for a subscription that starts *)
(* from now, some event later than all it has delivered.                   *)
Due(e) ==
    /\ e \in 1 .. Len(log)
    /\ IF seen > 0 THEN e = seen + 1
       ELSE \A i \in 1 .. Len(delivered) : delivered[i] < e

Publish ==
    /\ \E e \in Events : log' = Append(log, e)
    /\ UNCHANGED <<seen, delivered, starved, ended>>

(* The server says where now is.                                           *)
Begin ==
    /\ seen = 0
    /\ seen' = Len(log)
    /\ UNCHANGED <<log, delivered, starved, ended>>

Starve(e) ==
    /\ Due(e)
    /\ starved' = starved \cup {e}
    /\ UNCHANGED <<log, seen, delivered, ended>>

(* Dealing with e may leave it, or the event before it, as the last one.   *)
MayRepeat(e) == e \in starved \/ log[e].stamp # "whole"
Deal(e) == seen' = e \/ (MayRepeat(e) /\ seen' \in {seen, e - 1})

Deliver(e) ==
    /\ ~ended /\ Due(e) /\ log[e].shape = "known"
    /\ delivered' = Append(delivered, e)
    /\ Deal(e)
    /\ UNCHANGED <<log, starved, ended>>

PassOver(e) ==
    /\ Due(e) /\ (log[e].shape = "unknown" \/ e \in starved)
    /\ Deal(e)
    /\ UNCHANGED <<log, delivered, starved, ended>>

End ==
    /\ ended' = TRUE
    /\ UNCHANGED <<log, seen, delivered, starved>>

Next ==
    \/ Publish \/ Begin \/ End
    \/ \E e \in 1 .. Len(log) : Starve(e) \/ Deliver(e) \/ PassOver(e)

Spec == Init /\ [][Next]_vars
=============================================================================
