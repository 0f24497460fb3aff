-------------------------- MODULE RingBufferProofs --------------------------
(***************************************************************************)
(* Proofs that the circular array of RingBuffer is well typed and          *)
(* implements the FIFO of RingFifo under the mapping Contents, for every   *)
(* capacity and every set of frames.  The index arithmetic uses that an    *)
(* index below twice the capacity wraps around at most once.               *)
(***************************************************************************)
EXTENDS RingBuffer, SequenceTheorems, TLAPS

USE RingAssumption DEF Slots

\* Slot k past start, for k below twice the capacity, is a slot.
LEMMA IdxSlot ==
  ASSUME NEW st \in Slots, NEW k \in 0 .. Size
  PROVE  (st + k) % Size \in Slots
BY SMT

\* Contents is a sequence of count slot values.
LEMMA ContentsType ==
  ASSUME TypeOK
  PROVE  /\ Contents \in Seq(Items \cup {Nil})
         /\ Len(Contents) = count
<1>1. \A i \in 1 .. count : (start + i - 1) % Size \in Slots
  BY IdxSlot DEF TypeOK
<1>2. QED
  BY <1>1 DEF TypeOK, Contents

\* The initial state is well typed.
LEMMA InitTypeOK == Init => TypeOK
BY DEF Init, TypeOK

\* Push and GetAll keep the buffer well typed.
LEMMA NextTypeOK == TypeOK /\ [Next]_vars => TypeOK'
<1> SUFFICES ASSUME TypeOK, [Next]_vars PROVE TypeOK'
  OBVIOUS
<1>1. ASSUME NEW x \in Items, Push(x) PROVE TypeOK'
  <2>1. CASE count < Size
    <3>1. (start + count) % Size \in Slots
      BY <2>1, IdxSlot DEF TypeOK
    <3>2. QED
      BY <1>1, <2>1, <3>1 DEF Push, TypeOK
  <2>2. CASE ~(count < Size)
    <3>1. (start + 1) % Size \in Slots
      BY IdxSlot DEF TypeOK
    <3>2. QED
      BY <1>1, <2>2, <3>1 DEF Push, TypeOK
  <2>3. QED
    BY <2>1, <2>2
<1>2. ASSUME GetAll PROVE TypeOK'
  BY <1>2, ContentsType DEF GetAll, TypeOK
<1>3. CASE UNCHANGED vars
  BY <1>3 DEF vars, TypeOK
<1>4. QED
  BY <1>1, <1>2, <1>3 DEF Next

(* For every capacity and every set of frames, the circular array of       *)
(* RingBuffer keeps start inside the array and count within the capacity,  *)
(* whatever sequence of Push and GetAll calls the hub makes.               *)
THEOREM RingTypeCorrect == Spec => []TypeOK
BY InitTypeOK, NextTypeOK, PTL DEF Spec

\* Two distinct offsets below the capacity name two distinct slots.
LEMMA WrapDistinct ==
  ASSUME NEW n \in Nat \ {0}, NEW st \in 0 .. n - 1,
         NEW j \in 0 .. n - 1, NEW k \in 0 .. n - 1, j # k
  PROVE  (st + j) % n # (st + k) % n
<1>1. (st + j) % n = IF st + j < n THEN st + j ELSE st + j - n
  OBVIOUS
<1>2. (st + k) % n = IF st + k < n THEN st + k ELSE st + k - n
  OBVIOUS
<1>3. QED
  BY <1>1, <1>2

\* Counting from the slot after st is counting from st one further on.
LEMMA WrapShift ==
  ASSUME NEW n \in Nat \ {0}, NEW st \in 0 .. n - 1, NEW i \in 1 .. n
  PROVE  (((st + 1) % n) + i - 1) % n = (st + i) % n
<1>1. (st + 1) % n = IF st + 1 < n THEN st + 1 ELSE 0
  OBVIOUS
<1>2. (st + i) % n = IF st + i < n THEN st + i ELSE st + i - n
  OBVIOUS
<1>3. CASE st + 1 < n
  <2>1. (st + 1 + i - 1) % n = (st + i) % n
    OBVIOUS
  <2>2. QED
    BY <1>1, <1>3, <2>1
<1>4. CASE ~(st + 1 < n)
  <2>1. st = n - 1
    BY <1>4
  <2>2. (0 + i - 1) % n = i - 1
    OBVIOUS
  <2>3. QED
    BY <1>1, <1>2, <1>4, <2>1, <2>2
<1>5. QED
  BY <1>3, <1>4

\* A full turn comes back to st; less than a full turn does not.
LEMMA WrapTurn ==
  ASSUME NEW n \in Nat \ {0}, NEW st \in 0 .. n - 1
  PROVE  /\ (st + n) % n = st
         /\ \A i \in 1 .. n - 1 : (st + i) % n # st
<1>1. (st + n) % n = st
  OBVIOUS
<1>2. ASSUME NEW i \in 1 .. n - 1 PROVE (st + i) % n # st
  <2>1. (st + i) % n = IF st + i < n THEN st + i ELSE st + i - n
    OBVIOUS
  <2>2. QED
    BY <2>1
<1>3. QED
  BY <1>1, <1>2

\* A Push into a buffer with a free slot appends to the contents.
LEMMA PushAppends ==
  ASSUME TypeOK, NEW x \in Items, Push(x), count < Size
  PROVE  Contents' = Append(Contents, x)
<1> DEFINE new == (start + count) % Size
<1>1. /\ count' = count + 1
      /\ start' = start
      /\ buf' = [buf EXCEPT ![new] = x]
  BY DEF Push
<1>2. new \in Slots
  BY IdxSlot DEF TypeOK
<1>3. ASSUME NEW i \in 1 .. count
      PROVE  (start + i - 1) % Size # new
  <2>1. /\ start \in 0 .. Size - 1
        /\ i - 1 \in 0 .. Size - 1
        /\ count \in 0 .. Size - 1
        /\ i - 1 # count
    BY DEF TypeOK
  <2>2. (start + (i - 1)) % Size # (start + count) % Size
    BY <2>1, WrapDistinct, Zenon
  <2>3. QED
    BY <2>2
<1>4. ASSUME NEW i \in 1 .. count + 1
      PROVE  buf'[(start + i - 1) % Size]
               = IF i = count + 1 THEN x ELSE buf[(start + i - 1) % Size]
  <2>0. DOMAIN buf = Slots
    BY DEF TypeOK
  <2>1. (start + i - 1) % Size \in Slots
    BY DEF TypeOK
  <2>2. CASE i = count + 1
    <3>1. (start + i - 1) % Size = new
      BY <2>2 DEF TypeOK
    <3>2. QED
      BY <1>1, <1>2, <2>0, <2>2, <3>1, Zenon
  <2>3. CASE i # count + 1
    <3>1. (start + i - 1) % Size # new
      BY <1>3, <2>3 DEF TypeOK
    <3>2. QED
      BY <1>1, <2>0, <2>1, <2>3, <3>1, Zenon
  <2>4. QED
    BY <2>2, <2>3
<1>5. Contents' = [i \in 1 .. count + 1 |->
                     IF i = count + 1 THEN x ELSE buf[(start + i - 1) % Size]]
  BY <1>1, <1>4 DEF Contents
<1>6. QED
  <2> DEFINE T == Items \cup {Nil}
  <2>1. Contents \in Seq(T) /\ Len(Contents) = count
    BY ContentsType
  <2>2. /\ Append(Contents, x) \in Seq(T)
        /\ Len(Append(Contents, x)) = count + 1
        /\ \A i \in 1 .. count : Append(Contents, x)[i] = Contents[i]
        /\ Append(Contents, x)[count + 1] = x
    BY <2>1, AppendProperties
  <2>3. Contents' \in Seq(T) /\ Len(Contents') = count + 1
    <3>1. \A i \in 1 .. count + 1 : (start + i - 1) % Size \in Slots
      BY DEF TypeOK
    <3>2. QED
      BY <1>5, <3>1 DEF TypeOK
  <2>4. ASSUME NEW i \in 1 .. count + 1
        PROVE  Contents'[i] = Append(Contents, x)[i]
    <3>1. CASE i = count + 1
      BY <1>5, <2>2, <3>1
    <3>2. CASE i # count + 1
      <4>1. i \in 1 .. count
        BY <3>2 DEF TypeOK
      <4>2. Contents[i] = buf[(start + i - 1) % Size]
        BY <4>1 DEF Contents
      <4>3. QED
        BY <1>5, <2>2, <3>2, <4>1, <4>2
    <3>3. QED
      BY <3>1, <3>2
  <2>5. QED
    BY <2>2, <2>3, <2>4, SeqEqual

\* A Push into a full buffer drops the oldest frame and appends the new one.
LEMMA PushEvicts ==
  ASSUME TypeOK, NEW x \in Items, Push(x), ~(count < Size)
  PROVE  Contents' = Append(Tail(Contents), x)
<1>1. /\ count = Size
      /\ count' = count
      /\ start' = (start + 1) % Size
      /\ buf' = [buf EXCEPT ![start] = x]
  BY DEF Push, TypeOK
<1>2. start \in 0 .. Size - 1
  BY DEF TypeOK
<1>3. \A i \in 1 .. Size : (((start + 1) % Size) + i - 1) % Size = (start + i) % Size
  BY <1>2, WrapShift, Zenon
<1>4. /\ (start + Size) % Size = start
      /\ \A i \in 1 .. Size - 1 : (start + i) % Size # start
  BY <1>2, WrapTurn, Zenon
<1>5. \A i \in 1 .. Size : (start + i) % Size \in Slots
  BY DEF TypeOK
<1>6. Contents' = [i \in 1 .. Size |->
                     IF i = Size THEN x ELSE buf[(start + i) % Size]]
  <2>1. Contents' = [i \in 1 .. Size |-> buf'[(start + i) % Size]]
    BY <1>1, <1>3 DEF Contents
  <2>2. DOMAIN buf = Slots /\ start \in Slots
    BY DEF TypeOK
  <2>3. ASSUME NEW i \in 1 .. Size
        PROVE  buf'[(start + i) % Size]
                 = IF i = Size THEN x ELSE buf[(start + i) % Size]
    <3>1. CASE i = Size
      BY <1>1, <1>4, <2>2, <3>1, Zenon
    <3>2. CASE i # Size
      <4>1. i \in 1 .. Size - 1
        BY <3>2 DEF TypeOK
      <4>2. (start + i) % Size # start
        BY <1>4, <4>1
      <4>3. QED
        BY <1>1, <1>5, <2>2, <3>2, <4>2, Zenon
    <3>3. QED
      BY <3>1, <3>2
  <2>4. QED
    BY <2>1, <2>3
<1>7. QED
  <2> DEFINE T == Items \cup {Nil}
  <2>1. Contents \in Seq(T) /\ Len(Contents) = Size /\ Contents # << >>
    BY <1>1, ContentsType
  <2>2. /\ Tail(Contents) \in Seq(T)
        /\ Len(Tail(Contents)) = Size - 1
        /\ \A i \in 1 .. Size - 1 : Tail(Contents)[i] = Contents[i + 1]
    BY <2>1, HeadTailProperties
  <2>3. /\ Append(Tail(Contents), x) \in Seq(T)
        /\ Len(Append(Tail(Contents), x)) = Size
        /\ \A i \in 1 .. Size - 1 :
             Append(Tail(Contents), x)[i] = Tail(Contents)[i]
        /\ Append(Tail(Contents), x)[Size] = x
    BY <2>2, AppendProperties
  <2>4. \A i \in 1 .. Size - 1 : Contents[i + 1] = buf[(start + i) % Size]
    BY <1>1 DEF Contents, TypeOK
  <2>5. Contents' \in Seq(T) /\ Len(Contents') = Size
    BY <1>5, <1>6 DEF TypeOK
  <2>6. \A i \in 1 .. Size : Contents'[i] = Append(Tail(Contents), x)[i]
    BY <1>6, <2>2, <2>3, <2>4
  <2>7. QED
    BY <2>3, <2>5, <2>6, SeqEqual

\* The empty array maps to the empty FIFO.
LEMMA InitRefines == Init => Fifo!Init
BY DEF Init, Fifo!Init, Contents

\* Every Push is a FIFO push, every GetAll a FIFO snapshot, and a stutter
\* maps to a stutter.
LEMMA NextRefines ==
  TypeOK /\ [Next]_vars => [Fifo!Push \/ Fifo!Snapshot]_<<Contents, out>>
<1> SUFFICES ASSUME TypeOK, [Next]_vars
             PROVE  [Fifo!Push \/ Fifo!Snapshot]_<<Contents, out>>
  OBVIOUS
<1>1. ASSUME NEW x \in Items, Push(x) PROVE Fifo!Push
  <2>1. Len(Contents) = count /\ UNCHANGED out
    BY <1>1, ContentsType DEF Push
  <2>2. CASE count < Size
    <3>1. Contents' = Append(Contents, x)
      BY <1>1, <2>2, PushAppends
    <3>2. QED
      BY <2>1, <2>2, <3>1 DEF Fifo!Push
  <2>3. CASE ~(count < Size)
    <3>1. Contents' = Append(Tail(Contents), x)
      BY <1>1, <2>3, PushEvicts
    <3>2. QED
      BY <2>1, <2>3, <3>1 DEF Fifo!Push
  <2>4. QED
    BY <2>2, <2>3
<1>2. ASSUME GetAll PROVE Fifo!Snapshot
  BY <1>2 DEF GetAll, Fifo!Snapshot, Contents
<1>3. CASE UNCHANGED vars
  BY <1>3 DEF vars, Contents
<1>4. QED
  BY <1>1, <1>2, <1>3 DEF Next

(* For every capacity and every set of frames, the circular array of the  *)
(* code implements the FIFO of spec 4.A: a full Push drops exactly the     *)
(* oldest frame and GetAll returns the last min(pushes, size) frames in    *)
(* push order (FifoSpec).                                                  *)
THEOREM RingRefinesFifo == Spec => FifoSpec
<1>1. Init => Fifo!Init
  BY InitRefines
<1>2. TypeOK /\ [Next]_vars => [Fifo!Push \/ Fifo!Snapshot]_<<Contents, out>>
  BY NextRefines
<1>3. QED
  BY <1>1, <1>2, RingTypeCorrect, PTL DEF Spec, FifoSpec, Fifo!Spec

=============================================================================
