---------------------------- MODULE MC_RingBuffer ----------------------------
(* Three slots and two frames: enough to wrap start around twice and to   *)
(* tell every order of the contents apart.                                *)
EXTENDS RingBuffer

CONSTANTS f1, f2

MCItems == {f1, f2}

=============================================================================
