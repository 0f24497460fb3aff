----------------------------- MODULE RingBuffer -----------------------------
(***************************************************************************)
(* RingBuffer of udp_rtp.go: a circular array buf[0..size-1] with the     *)
(* index of the oldest slot and the number of slots in use.  Push and     *)
(* GetAll each run under the buffer's own lock, so each is one step.      *)
(* Contents is the refinement mapping to the FIFO of RingFifo.            *)
(***************************************************************************)
EXTENDS Naturals, Sequences

CONSTANTS
  Items,   \* the frames that may be pushed
  Size,    \* size, 8192 as NewStreamHub creates it
  Nil      \* an empty slot (a nil []byte)

ASSUME RingAssumption == Size \in Nat \ {0} /\ Nil \notin Items

VARIABLES
  buf,     \* r.buf
  start,   \* r.start, the slot of the oldest frame
  count,   \* r.count, the number of frames held
  out      \* the slice the last GetAll returned

vars == <<buf, start, count, out>>

Slots == 0 .. Size - 1

TypeOK ==
  /\ buf \in [Slots -> Items \cup {Nil}]
  /\ start \in Slots
  /\ count \in 0 .. Size
  /\ out \in Seq(Items \cup {Nil})

\* NewRingBuffer(size)
Init ==
  /\ buf = [i \in Slots |-> Nil]
  /\ start = 0
  /\ count = 0
  /\ out = << >>

\* Mutant: when full, the oldest slot is overwritten but start stays.
PushKeepStart(item) ==
  /\ IF count < Size
     THEN /\ buf' = [buf EXCEPT ![(start + count) % Size] = item]
          /\ count' = count + 1
          /\ UNCHANGED start
     ELSE /\ buf' = [buf EXCEPT ![start] = item]
          /\ UNCHANGED <<start, count>>
  /\ UNCHANGED out

\* Push: fill the slot after the newest, or overwrite the oldest and
\* advance start.
Push(item) ==
  /\ IF count < Size
     THEN /\ buf' = [buf EXCEPT ![(start + count) % Size] = item]
          /\ count' = count + 1
          /\ UNCHANGED start
     ELSE /\ buf' = [buf EXCEPT ![start] = item]
          /\ start' = (start + 1) % Size
          /\ UNCHANGED count
  /\ UNCHANGED out

\* The logical contents, oldest first: what GetAll copies out.
Contents == [i \in 1 .. count |-> buf[(start + i - 1) % Size]]

\* GetAll: out[i] = buf[(start+i) % size] for i < count.
GetAll ==
  /\ out' = Contents
  /\ UNCHANGED <<buf, start, count>>

Next == (\E x \in Items : Push(x)) \/ GetAll

Spec == Init /\ [][Next]_vars

Fifo == INSTANCE RingFifo WITH queue <- Contents

(* The circular array behaves as the FIFO of spec 4.A: every Push appends  *)
(* to the logical contents, dropping the oldest frame exactly when the     *)
(* buffer is full, and every GetAll returns the contents oldest first      *)
(* (law 4 of spec 8).                                                     *)
FifoSpec == Fifo!Spec

=============================================================================
