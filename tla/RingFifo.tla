------------------------------ MODULE RingFifo ------------------------------
(***************************************************************************)
(* What CacheBuffer promises (spec 4.A): a FIFO of at most Size frames     *)
(* that, when full, drops its oldest frame to take a new one, and whose   *)
(* snapshot is its contents oldest first.  StreamHub's ring is this FIFO; *)
(* RingBuffer shows the circular array of the code implements it.         *)
(***************************************************************************)
EXTENDS Naturals, Sequences

CONSTANTS
  Items,   \* the frames that may be pushed
  Size     \* the capacity

VARIABLES
  queue,   \* the logical contents, oldest first
  out      \* the last snapshot taken

Init ==
  /\ queue = << >>
  /\ out = << >>

\* push: append, evicting the oldest frame when full.
Push ==
  \E x \in Items :
    /\ queue' = IF Len(queue) < Size THEN Append(queue, x)
                                     ELSE Append(Tail(queue), x)
    /\ UNCHANGED out

\* snapshot: a copy of the contents at this instant.
Snapshot ==
  /\ out' = queue
  /\ UNCHANGED queue

Spec == Init /\ [][Push \/ Snapshot]_<<queue, out>>

=============================================================================
