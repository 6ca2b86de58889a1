--------------------------- MODULE MCClientState ---------------------------
(***************************************************************************)
(* Instances of ClientState for TLC.  Threads of one role, blocks and      *)
(* tokens are interchangeable; the error codes are not (19 is special).    *)
(***************************************************************************)
EXTENDS ClientState, TLC

Symmetry ==
    Permutations(Rotators) \cup Permutations(Requesters)
        \cup Permutations(Blocks) \cup Permutations(Tokens)
=============================================================================
