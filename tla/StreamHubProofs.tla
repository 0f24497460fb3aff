--------------------------- MODULE StreamHubProofs ---------------------------
(***************************************************************************)
(* Proofs about StreamHub for every value of its constants: the type      *)
(* invariant, that a hub is torn down consistently, and that every client  *)
(* channel is closed exactly once.                                         *)
(***************************************************************************)
EXTENDS StreamHub, SequenceTheorems, TLAPS

USE ConstAssumption DEF Frames, NoFrame, NoCrash, Crashes, Playing, Stopped

(* TypeOK is not inductive by itself: a send of rdFrame or a push of it    *)
(* into the cache needs rdFrame to be a frame while the reader is between  *)
(* a read and the end of its fan-out, and the drop path needs rdTarget to  *)
(* be a connection.                                                        *)
ReaderFrameOK ==
  /\ rdPc \in {"check", "bcast", "fanout", "drop", "resync"} => rdFrame \in Frames
  /\ rdPc \in {"drop", "resync"} => rdTarget \in Conns

(* TypeOK split in two: the provers do the Boolean-valued variables and   *)
(* the data separately.                                                    *)
BoolTypes ==
  /\ closed \in BOOLEAN
  /\ clientsNil \in BOOLEAN
  /\ ringNil \in BOOLEAN
  /\ chClosed \in [Conns -> BOOLEAN]

DataTypes ==
  /\ state \in {Playing, Stopped}
  /\ clients \in [Ids -> Conns \cup {NoConn}]
  /\ ring \in Seq(Frames) /\ Len(ring) <= RingSize
  /\ lastFrame \in Frames \cup {NoFrame}
  /\ packetCount \in Nat
  /\ dropCount \in Nat
  /\ addCh \in Seq(Conns)
  /\ removeCh \in Seq(Ids)
  /\ ch \in [Conns -> Seq(Frames)]
  /\ runPc \in {"loop", "closing", "exited"}
  /\ rdPc \in {"read", "check", "bcast", "fanout", "drop", "resync", "exited"}
  /\ received \in 0..MaxFrames
  /\ rdFrame \in Frames \cup {NoFrame}
  /\ targets \in SUBSET Conns
  /\ rdTarget \in Conns \cup {NoConn}
  /\ primePc \in [Conns -> {"none", "snap", "send", "done"}]
  /\ primeBuf \in [Conns -> Seq(Frames)]
  /\ connPc \in [Conns -> {"idle", "adding", "flush", "condwait", "serve",
                           "leaving", "done"}]
  /\ delivered \in [Conns -> Seq(Frames)]
  /\ crash \in {NoCrash} \cup Crashes

(* TypeOK is the conjunction of the two halves. *)
LEMMA TypeOKSplit == TypeOK <=> BoolTypes /\ DataTypes
BY DEF TypeOK, BoolTypes, DataTypes

TypeInv == BoolTypes /\ DataTypes /\ ReaderFrameOK

(* The connections in Clients are connections. *)
LEMMA RegisteredType ==
  ASSUME clients \in [Ids -> Conns \cup {NoConn}]
  PROVE  Registered \subseteq Conns
BY DEF Registered

(* Push keeps the cache a sequence of frames of at most RingSize. *)
LEMMA RingPushType ==
  ASSUME NEW s \in Seq(Frames), Len(s) <= RingSize, NEW f \in Frames
  PROVE  /\ RingPush(s, f) \in Seq(Frames)
         /\ Len(RingPush(s, f)) <= RingSize
<1>1. CASE Len(s) < RingSize
  BY <1>1, AppendProperties DEF RingPush
<1>2. CASE ~(Len(s) < RingSize)
  <2>1. s # << >>
    BY <1>2, EmptySeq
  <2>2. Tail(s) \in Seq(Frames) /\ Len(Tail(s)) = Len(s) - 1
    BY <2>1, HeadTailProperties
  <2>3. QED
    BY <1>2, <2>2, AppendProperties DEF RingPush
<1>3. QED
  BY <1>1, <1>2

(* A new hub is well typed. *)
LEMMA InitTypeInv == Init => TypeInv
<1> SUFFICES ASSUME Init PROVE TypeInv
  OBVIOUS
<1>1. BoolTypes
  BY DEF Init, BoolTypes
<1>2. DataTypes
  BY EmptySeq DEF Init, DataTypes
<1>3. ReaderFrameOK
  BY DEF Init, ReaderFrameOK
<1>4. QED
  BY <1>1, <1>2, <1>3 DEF TypeInv

(* Only Close(), run()'s <-h.Closed case, RunRemove and RunReap write a    *)
(* Boolean-valued variable, and each writes TRUE.                          *)
LEMMA NextBoolTypes == BoolTypes /\ DataTypes /\ [Next]_vars => BoolTypes'
<1> SUFFICES ASSUME BoolTypes, DataTypes, [Next]_vars PROVE BoolTypes'
  OBVIOUS
<1> USE DEF BoolTypes
<1>1. CASE ExternalClose \/ RunReap
  BY <1>1 DEF ExternalClose, RunReap, CloseHub, hubVars
<1>2. CASE RunRemove
  BY <1>2 DEF RunRemove
<1>3. CASE RunClosed
  BY <1>3 DEF RunClosed
<1>4. CASE UNCHANGED vars
  BY <1>4 DEF vars
<1>5. CASE RunAdd
  BY <1>5 DEF RunAdd, hubVars
<1>6. CASE ReadLoopExit
  BY <1>6 DEF ReadLoopExit, hubVars
<1>7. CASE ReadLoopRecv
  BY <1>7 DEF ReadLoopRecv, hubVars
<1>8. CASE ReadLoopCheck
  BY <1>8 DEF ReadLoopCheck, hubVars
<1>9. CASE Broadcast
  BY <1>9 DEF Broadcast, hubVars
<1>10. CASE BroadcastDrop
  BY <1>10 DEF BroadcastDrop, hubVars
<1>11. CASE BroadcastResync
  BY <1>11 DEF BroadcastResync, hubVars
<1>12. CASE BroadcastDone
  BY <1>12 DEF BroadcastDone, hubVars
<1>13. ASSUME NEW c \in Conns, BroadcastSend(c) PROVE BoolTypes'
  BY <1>13 DEF BroadcastSend, hubVars, connUnchanged
<1>14. ASSUME NEW c \in Conns, SendInitialSnapshot(c) PROVE BoolTypes'
  BY <1>14 DEF SendInitialSnapshot, hubVars, connUnchanged
<1>15. ASSUME NEW c \in Conns, SendInitialFrame(c) PROVE BoolTypes'
  BY <1>15 DEF SendInitialFrame, hubVars, connUnchanged
<1>16. ASSUME NEW c \in Conns, ServeHTTPStart(c) PROVE BoolTypes'
  BY <1>16 DEF ServeHTTPStart, hubVars, connUnchanged
<1>17. ASSUME NEW c \in Conns, ServeHTTPAdd(c) PROVE BoolTypes'
  BY <1>17 DEF ServeHTTPAdd, hubVars, connUnchanged
<1>18. ASSUME NEW c \in Conns, ServeHTTPNoFlusher(c) PROVE BoolTypes'
  BY <1>18 DEF ServeHTTPNoFlusher, hubVars, connUnchanged
<1>19. ASSUME NEW c \in Conns, WaitForPlaying(c) PROVE BoolTypes'
  BY <1>19 DEF WaitForPlaying, hubVars, connUnchanged
<1>20. ASSUME NEW c \in Conns, ServeFrame(c) PROVE BoolTypes'
  BY <1>20 DEF ServeFrame, hubVars, connUnchanged
<1>21. ASSUME NEW c \in Conns, ServeReturn(c) PROVE BoolTypes'
  BY <1>21 DEF ServeReturn, hubVars, connUnchanged
<1>22. ASSUME NEW c \in Conns, ServeCancel(c) PROVE BoolTypes'
  BY <1>22 DEF ServeCancel, hubVars, connUnchanged
<1>23. ASSUME NEW c \in Conns, ServeHTTPDeferRemove(c) PROVE BoolTypes'
  BY <1>23 DEF ServeHTTPDeferRemove, hubVars, connUnchanged
<1>24. QED
  BY <1>1, <1>2, <1>3, <1>4, <1>5, <1>6, <1>7, <1>8, <1>9, <1>10, <1>11, <1>12, <1>13, <1>14, <1>15, <1>16, <1>17, <1>18, <1>19, <1>20, <1>21, <1>22, <1>23 DEF Next

(* Every action keeps the data typed, and the reader's frame a frame while *)
(* it is being broadcast.  One lemma per action whose proof needs a case   *)
(* split; an outside Close() first.                                        *)
LEMMA ExternalCloseTypes ==
  ASSUME TypeInv, ExternalClose
  PROVE  DataTypes' /\ ReaderFrameOK'
<1> USE DEF TypeInv, DataTypes, ReaderFrameOK
<1>1. CASE closed
  BY <1>1 DEF ExternalClose, CloseHub, hubVars, rdVars, primeVars
<1>2. CASE ~closed
  BY <1>2 DEF ExternalClose, CloseHub, hubVars, rdVars, primeVars
<1>3. QED
  BY <1>1, <1>2

(* run()'s add case keeps the data typed. *)
LEMMA RunAddTypes ==
  ASSUME TypeInv, RunAdd
  PROVE  DataTypes' /\ ReaderFrameOK'
<1> USE DEF TypeInv, DataTypes, ReaderFrameOK
<1>1. CASE clientsNil = TRUE
  BY <1>1 DEF RunAdd, rdVars
<1>2. CASE clientsNil # TRUE
  <2>1. Head(addCh) \in Conns /\ Tail(addCh) \in Seq(Conns)
    BY DEF RunAdd
  <2>2. clients' = [clients EXCEPT ![IdOf[Head(addCh)]] = Head(addCh)]
        /\ primePc' = [primePc EXCEPT ![Head(addCh)] = "snap"]
    BY <1>2 DEF RunAdd
  <2>3. clients' \in [Ids -> Conns \cup {NoConn}]
    BY <2>1, <2>2
  <2>4. QED
    BY <2>1, <2>2, <2>3 DEF RunAdd, rdVars
<1>3. QED
  BY <1>1, <1>2

(* run()'s remove case keeps the data typed. *)
LEMMA RunRemoveTypes ==
  ASSUME TypeInv, RunRemove
  PROVE  DataTypes' /\ ReaderFrameOK'
<1> USE DEF TypeInv, DataTypes, ReaderFrameOK
<1>1. Head(removeCh) \in Ids /\ Tail(removeCh) \in Seq(Ids)
  BY DEF RunRemove
<1>2. clients' \in [Ids -> Conns \cup {NoConn}]
  BY <1>1 DEF RunRemove
<1>3. QED
  BY <1>1, <1>2 DEF RunRemove, rdVars, primeVars

(* run()'s reap of an empty hub keeps the data typed. *)
LEMMA RunReapTypes ==
  ASSUME TypeInv, RunReap
  PROVE  DataTypes' /\ ReaderFrameOK'
<1> USE DEF TypeInv, DataTypes, ReaderFrameOK
<1>1. CASE closed
  BY <1>1 DEF RunReap, CloseHub, hubVars, rdVars, primeVars
<1>2. CASE ~closed
  BY <1>2 DEF RunReap, CloseHub, hubVars, rdVars, primeVars
<1>3. QED
  BY <1>1, <1>2

(* broadcast's locked part keeps the data typed: the cache stays within  *)
(* RingSize and the fan-out targets are connections.                      *)
LEMMA BroadcastTypes ==
  ASSUME TypeInv, Broadcast
  PROVE  DataTypes' /\ ReaderFrameOK'
<1> USE DEF TypeInv, DataTypes, ReaderFrameOK
<1>1. CASE clientsNil \/ ringNil
  BY <1>1 DEF Broadcast, primeVars
<1>2. CASE ~(clientsNil \/ ringNil)
  <2>1. ring' = RingPush(ring, rdFrame) /\ targets' = Registered
        /\ rdPc' = "fanout" /\ lastFrame' = rdFrame
        /\ packetCount' = packetCount + 1 /\ state' = Playing
    BY <1>2 DEF Broadcast
  <2>2. rdFrame \in Frames
    BY DEF Broadcast
  <2>3. ring' \in Seq(Frames) /\ Len(ring') <= RingSize
    BY <2>1, <2>2, RingPushType
  <2>4. targets' \in SUBSET Conns
    BY <2>1, RegisteredType
  <2>5. QED
    BY <2>1, <2>2, <2>3, <2>4 DEF Broadcast, primeVars
<1>3. QED
  BY <1>1, <1>2

(* The drop path keeps the data typed. *)
LEMMA BroadcastDropTypes ==
  ASSUME TypeInv, BroadcastDrop
  PROVE  DataTypes' /\ ReaderFrameOK'
<1> USE DEF TypeInv, DataTypes, ReaderFrameOK
<1>1. rdTarget \in Conns
  BY DEF BroadcastDrop
<1>2. ch' \in [Conns -> Seq(Frames)]
  <2>1. CASE dropCount' % ResyncEvery = 0
    <3>1. ch' = [ch EXCEPT ![rdTarget] = IF @ = << >> THEN @ ELSE Tail(@)]
      BY <2>1 DEF BroadcastDrop
    <3>2. \A s \in Seq(Frames) : (IF s = << >> THEN s ELSE Tail(s)) \in Seq(Frames)
      BY HeadTailProperties
    <3>3. QED
      BY <1>1, <3>1, <3>2
  <2>2. CASE dropCount' % ResyncEvery # 0
    BY <2>2 DEF BroadcastDrop
  <2>3. QED
    BY <2>1, <2>2
<1>3. QED
  BY <1>1, <1>2 DEF BroadcastDrop, hubVars, primeVars

(* A fan-out send keeps the data typed. *)
LEMMA BroadcastSendTypes ==
  ASSUME TypeInv, NEW c \in Conns, BroadcastSend(c)
  PROVE  DataTypes' /\ ReaderFrameOK'
<1> USE DEF TypeInv, DataTypes, ReaderFrameOK
<1>1. chClosed[c] \in BOOLEAN /\ rdFrame \in Frames
  BY DEF BoolTypes, BroadcastSend
<1>2. CASE chClosed[c]
  BY <1>2 DEF BroadcastSend, hubVars, primeVars
<1>3. CASE ~chClosed[c] /\ Len(ch[c]) < QueueCap
  <2>1. ch' = [ch EXCEPT ![c] = Append(@, rdFrame)] /\ targets' = targets \ {c}
        /\ UNCHANGED <<rdPc, rdTarget, crash>>
    <3>1. ~(Len(ch[c]) >= QueueCap)
      BY <1>3
    <3>2. QED
      BY <1>1, <1>3, <3>1, Zenon DEF BroadcastSend
  <2>2. QED
    BY <1>1, <2>1 DEF BroadcastSend, hubVars, primeVars
<1>4. CASE ~chClosed[c] /\ ~(Len(ch[c]) < QueueCap)
  BY <1>1, <1>4 DEF BroadcastSend, hubVars, primeVars
<1>5. QED
  BY <1>1, <1>2, <1>3, <1>4

(* sendInitial's snapshot keeps the data typed. *)
LEMMA SendInitialSnapshotTypes ==
  ASSUME TypeInv, NEW c \in Conns, SendInitialSnapshot(c)
  PROVE  DataTypes' /\ ReaderFrameOK'
<1> USE DEF TypeInv, DataTypes, ReaderFrameOK
<1>1. ringNil \in BOOLEAN
  BY DEF BoolTypes
<1>2. CASE ringNil
  BY <1>2 DEF SendInitialSnapshot, hubVars, rdVars, primeVars
<1>3. CASE ~ringNil
  <2>1. primeBuf' = [primeBuf EXCEPT ![c] = ring]
        /\ primePc' = [primePc EXCEPT ![c] = "send"] /\ UNCHANGED crash
    BY <1>1, <1>3 DEF SendInitialSnapshot
  <2>2. QED
    BY <2>1 DEF SendInitialSnapshot, hubVars, rdVars
<1>4. QED
  BY <1>1, <1>2, <1>3

(* sendInitial's send of one cached frame keeps the data typed. *)
LEMMA SendInitialFrameTypes ==
  ASSUME TypeInv, NEW c \in Conns, SendInitialFrame(c)
  PROVE  DataTypes' /\ ReaderFrameOK'
<1> USE DEF TypeInv, DataTypes, ReaderFrameOK
<1>1. closed \in BOOLEAN /\ chClosed[c] \in BOOLEAN
  BY DEF BoolTypes
<1>2. CASE primeBuf[c] # << >> /\ ~closed /\ ~chClosed[c]
           /\ Len(ch[c]) < QueueCap
  <2>1. Head(primeBuf[c]) \in Frames /\ Tail(primeBuf[c]) \in Seq(Frames)
    BY <1>2, HeadTailProperties
  <2>2. ch' = [ch EXCEPT ![c] = Append(@, Head(primeBuf[c]))]
        /\ primeBuf' = [primeBuf EXCEPT ![c] = Tail(@)]
        /\ UNCHANGED <<primePc, crash>>
    <3>1. ~(primeBuf[c] = << >>) /\ ~(Len(ch[c]) >= QueueCap)
      BY <1>2
    <3>2. QED
      BY <1>1, <1>2, <3>1, Zenon DEF SendInitialFrame
  <2>3. QED
    BY <2>1, <2>2 DEF SendInitialFrame, hubVars, rdVars
<1>3. CASE ~(primeBuf[c] # << >> /\ ~closed /\ ~chClosed[c]
             /\ Len(ch[c]) < QueueCap)
  <2>1. UNCHANGED <<ch, primeBuf>>
        /\ primePc' \in [Conns -> {"none", "snap", "send", "done"}]
        /\ crash' \in {NoCrash} \cup Crashes
    BY <1>1, <1>3 DEF SendInitialFrame, primeVars
  <2>2. QED
    BY <2>1 DEF SendInitialFrame, hubVars, rdVars
<1>4. QED
  BY <1>2, <1>3

(* Every step keeps the data typed. *)
LEMMA NextDataTypes ==
  TypeInv /\ [Next]_vars => DataTypes' /\ ReaderFrameOK'
<1> SUFFICES ASSUME TypeInv, [Next]_vars PROVE DataTypes' /\ ReaderFrameOK'
  OBVIOUS
<1> USE DEF TypeInv, DataTypes, ReaderFrameOK
<1>1. CASE ExternalClose
  BY <1>1, ExternalCloseTypes
<1>2. CASE RunAdd
  BY <1>2, RunAddTypes
<1>3. CASE RunRemove
  BY <1>3, RunRemoveTypes
<1>4. CASE RunReap
  BY <1>4, RunReapTypes
<1>5. CASE RunClosed
  BY <1>5 DEF RunClosed, rdVars, primeVars
<1>6. CASE ReadLoopExit
  BY <1>6 DEF ReadLoopExit, hubVars, primeVars
<1>7. CASE ReadLoopRecv
  BY <1>7 DEF ReadLoopRecv, hubVars, primeVars
<1>8. CASE ReadLoopCheck
  BY <1>8 DEF ReadLoopCheck, hubVars, primeVars
<1>9. CASE Broadcast
  BY <1>9, BroadcastTypes
<1>10. CASE BroadcastDrop
  BY <1>10, BroadcastDropTypes
<1>11. CASE BroadcastResync
  BY <1>11 DEF BroadcastResync, hubVars, primeVars
<1>12. CASE BroadcastDone
  BY <1>12 DEF BroadcastDone, hubVars, primeVars
<1>13. ASSUME NEW c \in Conns, BroadcastSend(c) PROVE DataTypes' /\ ReaderFrameOK'
  BY <1>13, BroadcastSendTypes
<1>14. ASSUME NEW c \in Conns, SendInitialSnapshot(c) PROVE DataTypes' /\ ReaderFrameOK'
  BY <1>14, SendInitialSnapshotTypes
<1>15. ASSUME NEW c \in Conns, SendInitialFrame(c) PROVE DataTypes' /\ ReaderFrameOK'
  BY <1>15, SendInitialFrameTypes
<1>16. ASSUME NEW c \in Conns, ServeHTTPStart(c) PROVE DataTypes' /\ ReaderFrameOK'
  BY <1>16 DEF ServeHTTPStart, connUnchanged, hubVars, rdVars, primeVars
<1>17. ASSUME NEW c \in Conns, ServeHTTPAdd(c) PROVE DataTypes' /\ ReaderFrameOK'
  BY <1>17 DEF ServeHTTPAdd, connUnchanged, hubVars, rdVars, primeVars
<1>18. ASSUME NEW c \in Conns, ServeHTTPNoFlusher(c) PROVE DataTypes' /\ ReaderFrameOK'
  BY <1>18 DEF ServeHTTPNoFlusher, connUnchanged, hubVars, rdVars, primeVars
<1>19. ASSUME NEW c \in Conns, WaitForPlaying(c) PROVE DataTypes' /\ ReaderFrameOK'
  BY <1>19 DEF WaitForPlaying, connUnchanged, hubVars, rdVars, primeVars
<1>20. ASSUME NEW c \in Conns, ServeFrame(c) PROVE DataTypes' /\ ReaderFrameOK'
  BY <1>20 DEF ServeFrame, connUnchanged, hubVars, rdVars, primeVars
<1>21. ASSUME NEW c \in Conns, ServeReturn(c) PROVE DataTypes' /\ ReaderFrameOK'
  BY <1>21 DEF ServeReturn, connUnchanged, hubVars, rdVars, primeVars
<1>22. ASSUME NEW c \in Conns, ServeCancel(c) PROVE DataTypes' /\ ReaderFrameOK'
  BY <1>22 DEF ServeCancel, connUnchanged, hubVars, rdVars, primeVars
<1>23. ASSUME NEW c \in Conns, ServeHTTPDeferRemove(c) PROVE DataTypes' /\ ReaderFrameOK'
  BY <1>23 DEF ServeHTTPDeferRemove, connUnchanged, hubVars, rdVars, primeVars
<1>24. CASE UNCHANGED vars
  BY <1>24 DEF vars
<1>25. QED
  BY <1>1, <1>2, <1>3, <1>4, <1>5, <1>6, <1>7, <1>8, <1>9, <1>10, <1>11,
     <1>12, <1>13, <1>14, <1>15, <1>16, <1>17, <1>18, <1>19, <1>20, <1>21,
     <1>22, <1>23, <1>24 DEF Next

(* Every step keeps the whole type invariant. *)
LEMMA NextTypeInv == TypeInv /\ [Next]_vars => TypeInv'
BY NextBoolTypes, NextDataTypes DEF TypeInv

(* The type invariant of the hub holds in every reachable state. *)
THEOREM TypeCorrect == Spec => []TypeOK
<1>1. Spec => []TypeInv
  BY InitTypeInv, NextTypeInv, PTL DEF Spec
<1>2. QED
  BY <1>1, TypeOKSplit, PTL DEF TypeInv

-----------------------------------------------------------------------------
(* Teardown.  Only Close() (from outside or from run()), run()'s cases    *)
(* that touch Clients, and broadcast's locked part write the hub's        *)
(* fields; every other step leaves them alone.                             *)

(* A step of a goroutine other than run(), Close() and broadcast's locked *)
(* part leaves the hub's fields as they were.                              *)
LEMMA OtherStepsKeepHub ==
  ASSUME [Next]_vars,
         ~ExternalClose, ~RunAdd, ~RunRemove, ~RunReap, ~RunClosed,
         ~Broadcast
  PROVE  UNCHANGED hubVars
<1>1. CASE UNCHANGED vars
  BY <1>1 DEF vars, hubVars
<1>2. CASE Next
  BY <1>2 DEF Next, hubVars, connUnchanged, ReadLoopExit, ReadLoopRecv,
     ReadLoopCheck, BroadcastDrop, BroadcastResync, BroadcastDone,
     BroadcastSend, SendInitialSnapshot, SendInitialFrame, ServeHTTPStart,
     ServeHTTPAdd, ServeHTTPNoFlusher, WaitForPlaying, ServeFrame,
     ServeReturn, ServeCancel, ServeHTTPDeferRemove
<1>3. QED
  BY <1>1, <1>2

(* Close() leaves a closed hub torn down, whatever state it was in.        *)
LEMMA CloseHubTeardown ==
  ASSUME TypeInv, TeardownConsistent, CloseHub
  PROVE  TeardownConsistent'
<1>1. closed \in BOOLEAN
  BY DEF TypeInv, BoolTypes
<1>2. CASE closed
  BY <1>2 DEF CloseHub, TeardownConsistent, hubVars
<1>3. CASE ~closed
  BY <1>3 DEF CloseHub, TeardownConsistent
<1>4. QED
  BY <1>1, <1>2, <1>3

(* The hub's teardown is consistent in every reachable state, together    *)
(* with the type invariant.                                                *)
TeardownInv == TypeInv /\ TeardownConsistent

(* Every step keeps the teardown consistent. *)
LEMMA NextTeardown ==
  TeardownInv /\ [Next]_vars => TeardownConsistent'
<1> SUFFICES ASSUME TypeInv, TeardownConsistent, [Next]_vars
             PROVE  TeardownConsistent'
  BY DEF TeardownInv
<1>0. closed \in BOOLEAN /\ clientsNil \in BOOLEAN /\ ringNil \in BOOLEAN
  BY DEF TypeInv, BoolTypes
<1>1. CASE ExternalClose
  BY <1>1, CloseHubTeardown DEF ExternalClose
<1>2. CASE RunReap
  BY <1>2, CloseHubTeardown DEF RunReap
<1>3. CASE RunAdd
  <2>1. CASE clientsNil
    BY <1>3, <2>1 DEF RunAdd, TeardownConsistent
  <2>2. CASE ~clientsNil
    <3>1. ~closed
      BY <1>0, <2>2 DEF TeardownConsistent
    <3>2. QED
      BY <1>3, <2>2, <3>1 DEF RunAdd, TeardownConsistent
  <2>3. QED
    BY <1>0, <2>1, <2>2
<1>4. CASE RunRemove
  <2>1. removeCh # << >> /\ Head(removeCh) \in Ids
    BY <1>4 DEF RunRemove, TypeInv, DataTypes
  <2>2. QED
    BY <1>4, <2>1 DEF RunRemove, TeardownConsistent
<1>5. CASE RunClosed
  BY <1>5 DEF RunClosed, TeardownConsistent
<1>6. CASE Broadcast
  <2>1. CASE clientsNil \/ ringNil
    BY <1>6, <2>1 DEF Broadcast, TeardownConsistent
  <2>2. CASE ~(clientsNil \/ ringNil)
    <3>1. ~closed
      BY <1>0, <2>2 DEF TeardownConsistent
    <3>2. QED
      BY <1>6, <2>2, <3>1 DEF Broadcast, TeardownConsistent
  <2>3. QED
    BY <1>0, <2>1, <2>2
<1>7. CASE ~ExternalClose /\ ~RunAdd /\ ~RunRemove /\ ~RunReap /\ ~RunClosed
           /\ ~Broadcast
  BY <1>7, OtherStepsKeepHub DEF TeardownConsistent, hubVars
<1>8. QED
  BY <1>1, <1>2, <1>3, <1>4, <1>5, <1>6, <1>7

-----------------------------------------------------------------------------
(* WaitForPlaying.  Only WaitForPlaying writes "condwait", and it does so  *)
(* only for an open hub that is not Playing, which TeardownConsistent      *)
(* rules out: an open hub is always Playing.                               *)

\* No ServeHTTP is in WaitForPlaying's cond-wait loop.
NoCondWait == \A c \in Conns : connPc[c] # "condwait"

IInv == TypeInv /\ TeardownConsistent /\ NoCondWait

(* Every ServeHTTP step other than WaitForPlaying moves its connection to  *)
(* a place other than the cond-wait loop, and every other step leaves      *)
(* connPc alone.                                                           *)
LEMMA OtherStepsNoCondWait ==
  ASSUME DataTypes, NoCondWait, [Next]_vars,
         \A c \in Conns : ~WaitForPlaying(c)
  PROVE  NoCondWait'
<1> SUFFICES ASSUME NEW d \in Conns PROVE connPc'[d] # "condwait"
  BY DEF NoCondWait
<1>1. CASE UNCHANGED vars
  BY <1>1 DEF vars, NoCondWait
<1>2. CASE \E c \in Conns : ServeHTTPStart(c) \/ ServeHTTPAdd(c)
                            \/ ServeHTTPNoFlusher(c) \/ ServeReturn(c)
                            \/ ServeCancel(c) \/ ServeHTTPDeferRemove(c)
  BY <1>2 DEF DataTypes, NoCondWait, ServeHTTPStart, ServeHTTPAdd,
     ServeHTTPNoFlusher, ServeReturn, ServeCancel, ServeHTTPDeferRemove
<1>3. CASE Next /\ ~\E c \in Conns : ServeHTTPStart(c) \/ ServeHTTPAdd(c)
                            \/ ServeHTTPNoFlusher(c) \/ ServeReturn(c)
                            \/ ServeCancel(c) \/ ServeHTTPDeferRemove(c)
  <2>1. UNCHANGED connPc
    BY <1>3 DEF Next, ExternalClose, RunAdd, RunRemove, RunReap, RunClosed,
       ReadLoopExit, ReadLoopRecv, ReadLoopCheck, Broadcast, BroadcastDrop,
       BroadcastResync, BroadcastDone, BroadcastSend, SendInitialSnapshot,
       SendInitialFrame, ServeFrame
  <2>2. QED
    BY <2>1 DEF NoCondWait
<1>4. QED
  BY <1>1, <1>2, <1>3

(* WaitForPlaying on an open hub finds it Playing and goes on to serve.    *)
LEMMA WaitForPlayingNoCondWait ==
  ASSUME TypeInv, TeardownConsistent, NoCondWait,
         NEW c \in Conns, WaitForPlaying(c)
  PROVE  NoCondWait'
<1>1. closed \in BOOLEAN /\ state \in {Playing, Stopped}
      /\ connPc \in [Conns -> {"idle", "adding", "flush", "condwait", "serve",
                               "leaving", "done"}]
  BY DEF TypeInv, BoolTypes, DataTypes
<1>2. ~closed => state = Playing
  BY <1>1 DEF TeardownConsistent
<1>3. connPc'[c] # "condwait"
  BY <1>1, <1>2 DEF WaitForPlaying
<1>4. \A d \in Conns \ {c} : connPc'[d] = connPc[d]
  BY <1>1 DEF WaitForPlaying
<1>5. QED
  BY <1>3, <1>4 DEF NoCondWait

(* IInv is inductive. *)
LEMMA NextIInv == IInv /\ [Next]_vars => IInv'
<1> SUFFICES ASSUME IInv, [Next]_vars PROVE IInv'
  OBVIOUS
<1>1. TypeInv'
  BY NextTypeInv DEF IInv
<1>2. TeardownConsistent'
  BY NextTeardown DEF IInv, TeardownInv
<1>3. NoCondWait'
  <2>1. CASE \E c \in Conns : WaitForPlaying(c)
    BY <2>1, WaitForPlayingNoCondWait DEF IInv
  <2>2. CASE \A c \in Conns : ~WaitForPlaying(c)
    BY <2>2, OtherStepsNoCondWait DEF IInv, TypeInv
  <2>3. QED
    BY <2>1, <2>2
<1>4. QED
  BY <1>1, <1>2, <1>3 DEF IInv

(* A new hub satisfies IInv. *)
LEMMA InitIInv == Init => IInv
<1> SUFFICES ASSUME Init PROVE IInv
  OBVIOUS
<1>1. TeardownConsistent
  BY DEF Init, TeardownConsistent
<1>2. NoCondWait
  BY DEF Init, NoCondWait
<1>3. QED
  BY <1>1, <1>2, InitTypeInv DEF IInv

(* A hub is torn down consistently in every reachable state: it is Stopped *)
(* exactly when it is closed, Clients and CacheBuffer are nil exactly      *)
(* then, and a closed hub holds no client, cached frame or LastFrame.      *)
THEOREM TeardownCorrect == Spec => []TeardownConsistent
<1>1. Spec => []IInv
  BY InitIInv, NextIInv, PTL DEF Spec
<1>2. QED
  BY <1>1, PTL DEF IInv

-----------------------------------------------------------------------------
(* Closing client channels.  Close() and run()'s <-h.Closed case close     *)
(* every channel in Clients, and RunRemove the one stored under the id it  *)
(* receives.  No channel is closed twice as long as a channel in Clients   *)
(* is open, and every attached connection is either still in Clients under *)
(* its own id or already closed.  That needs connection ids to be distinct:*)
(* with a shared id, the second RunAdd overwrites the first connection's   *)
(* entry, which then is neither in Clients nor closed (run shared_connid). *)

\* Distinct connections carry distinct X-ConnIDs.
IdOfInjective == \A c, d \in Conns : IdOf[c] = IdOf[d] => c = d

\* run() has received connection c from AddCh (go sendInitial started).
Attached(c) == primePc[c] # "none"

(* The strengthening of ClientQueuesClosedOnce, one conjunct per fact.     *)
\* Clients stores each connection under its own id.
MapIds ==
  \A id \in Ids : clients[id] # NoConn => IdOf[clients[id]] = id

\* A channel in Clients is open and attached.
OpenRegistered ==
  \A id \in Ids : clients[id] # NoConn =>
    ~chClosed[clients[id]] /\ Attached(clients[id])

\* Only attached channels are ever closed.
ClosedAttached == \A c \in Conns : chClosed[c] => Attached(c)

\* An attached connection is in Clients under its id, or already closed.
AttachedTracked ==
  \A c \in Conns : Attached(c) => clients[IdOf[c]] = c \/ chClosed[c]

\* Before ServeHTTP sends on AddCh its connection is neither attached nor
\* queued.
NotYetQueued ==
  \A c \in Conns : connPc[c] \in {"idle", "adding"} =>
    ~Attached(c) /\ \A i \in DOMAIN addCh : addCh[i] # c

\* A connection is queued on AddCh at most once and only before it attaches.
AddQueueOK ==
  \A i \in DOMAIN addCh :
    /\ ~Attached(addCh[i])
    /\ \A j \in DOMAIN addCh : addCh[j] = addCh[i] => j = i

ClosedOnceInv ==
  /\ MapIds /\ OpenRegistered /\ ClosedAttached /\ AttachedTracked
  /\ NotYetQueued /\ AddQueueOK
  /\ crash # "closeOfClosed"


(* A new hub has no client, no closed channel and an empty AddCh.          *)
LEMMA InitClosedOnce == Init => ClosedOnceInv
BY DEF Init, ClosedOnceInv, MapIds, OpenRegistered,
   ClosedAttached, AttachedTracked, NotYetQueued, AddQueueOK, Attached

(* A step that leaves Clients, the channels' closed flags and AddCh alone, *)
(* attaches and detaches nobody, moves no ServeHTTP back before its send   *)
(* on AddCh and closes no channel keeps ClosedOnceInv.                    *)
LEMMA QuietStepClosedOnce ==
  ASSUME ClosedOnceInv, DataTypes,
         UNCHANGED <<clients, chClosed, addCh>>,
         \A c \in Conns : Attached(c)' <=> Attached(c),
         \A c \in Conns : connPc'[c] \in {"idle", "adding"}
                            => connPc[c] \in {"idle", "adding"},
         crash' # "closeOfClosed"
  PROVE  ClosedOnceInv'
<1>1. clients \in [Ids -> Conns \cup {NoConn}] /\ addCh \in Seq(Conns)
  BY DEF DataTypes
<1>2. MapIds' /\ OpenRegistered'
  BY <1>1 DEF ClosedOnceInv, MapIds, OpenRegistered
<1>3. ClosedAttached' /\ AttachedTracked'
  BY DEF ClosedOnceInv, ClosedAttached, AttachedTracked
<1>4. NotYetQueued'
  BY DEF ClosedOnceInv, NotYetQueued
<1>5. AddQueueOK'
  BY <1>1, ElementOfSeq DEF ClosedOnceInv, AddQueueOK
<1>6. QED
  BY <1>2, <1>3, <1>4, <1>5 DEF ClosedOnceInv


(* Close() and run()'s <-h.Closed case: every channel in Clients is open,  *)
(* so closing them all closes none twice, and afterwards every attached    *)
(* connection is closed.                                                   *)
LEMMA CloseAllClosedOnce ==
  ASSUME ClosedOnceInv, DataTypes, BoolTypes,
         clients' = [id \in Ids |-> NoConn],
         chClosed' = [c \in Conns |-> chClosed[c] \/ c \in Registered],
         crash' = IF \E c \in Registered : chClosed[c]
                  THEN "closeOfClosed" ELSE crash,
         UNCHANGED <<primePc, connPc, addCh>>
  PROVE  ClosedOnceInv'
<1>1. clients \in [Ids -> Conns \cup {NoConn}] /\ addCh \in Seq(Conns)
      /\ chClosed \in [Conns -> BOOLEAN]
  BY DEF DataTypes, BoolTypes
<1>2. \A c \in Registered : ~chClosed[c] /\ Attached(c)
  BY DEF ClosedOnceInv, OpenRegistered, Registered
<1>3. crash' # "closeOfClosed"
  BY <1>2 DEF ClosedOnceInv
<1>4. MapIds' /\ OpenRegistered'
  BY DEF MapIds, OpenRegistered
<1>5. ClosedAttached'
  BY <1>1, <1>2 DEF ClosedOnceInv, ClosedAttached, Attached
<1>6. AttachedTracked'
  <2> SUFFICES ASSUME NEW c \in Conns, Attached(c)' PROVE chClosed'[c]
    BY DEF AttachedTracked
  <2>1. clients[IdOf[c]] = c => c \in Registered
    BY DEF Registered
  <2>2. QED
    BY <1>1, <2>1 DEF ClosedOnceInv, AttachedTracked, Attached
<1>7. NotYetQueued' /\ AddQueueOK'
  BY DEF ClosedOnceInv, NotYetQueued, AddQueueOK, Attached
<1>8. QED
  BY <1>3, <1>4, <1>5, <1>6, <1>7 DEF ClosedOnceInv


(* run() receives the connection at the head of AddCh.  It was queued     *)
(* once and is not attached, so its channel is open; with distinct ids its *)
(* slot in Clients holds no other attached connection, and storing it      *)
(* there loses nobody.  On a closed hub the write panics (nilMap) instead. *)
LEMMA RunAddClosedOnce ==
  ASSUME IdOfInjective, ClosedOnceInv, DataTypes, BoolTypes, RunAdd
  PROVE  ClosedOnceInv'
<1>1. addCh \in Seq(Conns) /\ addCh # << >>
  BY DEF RunAdd, DataTypes
<1>2. PICK c \in Conns : c = Head(addCh)
  BY <1>1, HeadTailProperties
<1>3. /\ addCh' = Tail(addCh)
      /\ Tail(addCh) \in Seq(Conns)
      /\ Len(Tail(addCh)) = Len(addCh) - 1
      /\ \A i \in 1 .. Len(Tail(addCh)) : Tail(addCh)[i] = addCh[i + 1]
  BY <1>1, HeadTailProperties DEF RunAdd
<1>4. c = addCh[1] /\ 1 \in DOMAIN addCh
  BY <1>1, <1>2, EmptySeq
<1>5. ~Attached(c) /\ ~chClosed[c]
  BY <1>4 DEF ClosedOnceInv, AddQueueOK, ClosedAttached
<1>6. \A i \in DOMAIN addCh' : addCh'[i] # c /\ ~Attached(addCh'[i])
  <2> SUFFICES ASSUME NEW i \in DOMAIN addCh'
               PROVE  addCh'[i] # c /\ ~Attached(addCh'[i])
    OBVIOUS
  <2>1. addCh'[i] = addCh[i + 1] /\ i + 1 \in DOMAIN addCh /\ i + 1 # 1
    BY <1>1, <1>3
  <2>2. QED
    BY <1>4, <2>1 DEF ClosedOnceInv, AddQueueOK
<1>7. \A i, j \in DOMAIN addCh' : addCh'[j] = addCh'[i] => j = i
  BY <1>1, <1>3 DEF ClosedOnceInv, AddQueueOK
<1>8. \A x \in Conns : connPc[x] \in {"idle", "adding"} => x # c
  BY <1>4 DEF ClosedOnceInv, NotYetQueued
<1>9. \A x \in Conns : (\A i \in DOMAIN addCh : addCh[i] # x)
                         => \A i \in DOMAIN addCh' : addCh'[i] # x
  BY <1>1, <1>3
<1>10. CASE clientsNil
  <2>1. UNCHANGED <<clients, chClosed, primePc, connPc>> /\ crash' = "nilMap"
    BY <1>10 DEF RunAdd
  <2>2. QED
    BY <1>6, <1>7, <1>9, <2>1 DEF ClosedOnceInv, MapIds, OpenRegistered,
       ClosedAttached, AttachedTracked, NotYetQueued, AddQueueOK, Attached
<1>11. CASE ~clientsNil
  <2>1. /\ clients' = [clients EXCEPT ![IdOf[c]] = c]
        /\ primePc' = [primePc EXCEPT ![c] = "snap"]
        /\ UNCHANGED <<chClosed, connPc, crash>>
    BY <1>2, <1>11 DEF RunAdd
  <2>2. \A x \in Conns : Attached(x)' <=> Attached(x) \/ x = c
    BY <2>1 DEF Attached, DataTypes
  <2>3. clients \in [Ids -> Conns \cup {NoConn}] /\ IdOf[c] \in Ids
    BY DEF DataTypes
  <2>4. MapIds' /\ OpenRegistered'
    BY <1>5, <2>1, <2>2, <2>3 DEF ClosedOnceInv, MapIds, OpenRegistered
  <2>5. ClosedAttached'
    BY <2>1, <2>2 DEF ClosedOnceInv, ClosedAttached
  <2>6. AttachedTracked'
    <3>1. \A x \in Conns \ {c} : IdOf[x] # IdOf[c]
      BY DEF IdOfInjective
    <3>2. QED
      BY <2>1, <2>2, <2>3, <3>1 DEF ClosedOnceInv, AttachedTracked
  <2>9. NotYetQueued'
    BY <1>8, <1>9, <2>1, <2>2 DEF ClosedOnceInv, NotYetQueued
  <2>10. AddQueueOK'
    BY <1>3, <1>6, <1>7, <2>2 DEF AddQueueOK
  <2>11. QED
    BY <2>1, <2>4, <2>5, <2>6, <2>9, <2>10 DEF ClosedOnceInv
<1>12. QED
  BY <1>10, <1>11


(* run() receives an id from RemoveCh.  The channel stored under it is     *)
(* open, so closing it closes nothing twice; it is stored under no other   *)
(* id, so every other entry stays open; and an attached connection whose   *)
(* id this was is now closed or was closed before.                         *)
LEMMA RunRemoveClosedOnce ==
  ASSUME ClosedOnceInv, DataTypes, BoolTypes, RunRemove
  PROVE  ClosedOnceInv'
<1>1. PICK id \in Ids : id = Head(removeCh)
  <2>1. removeCh \in Seq(Ids) /\ removeCh # << >>
    BY DEF RunRemove, DataTypes
  <2>2. QED
    BY <2>1, HeadTailProperties
<1>2. UNCHANGED <<primePc, connPc, addCh>>
  BY DEF RunRemove, primeVars
<1>3. clients \in [Ids -> Conns \cup {NoConn}] /\ chClosed \in [Conns -> BOOLEAN]
  BY DEF DataTypes, BoolTypes
<1>4. CASE clients[id] = NoConn
  <2>1. UNCHANGED <<clients, chClosed, crash>>
    BY <1>1, <1>4 DEF RunRemove
  <2>2. QED
    BY <1>2, <2>1 DEF ClosedOnceInv, MapIds, OpenRegistered,
       ClosedAttached, AttachedTracked, NotYetQueued, AddQueueOK, Attached
<1>5. CASE clients[id] # NoConn
  <2>1. PICK c \in Conns : c = clients[id]
    BY <1>3, <1>5
  <2>2. ~chClosed[c] /\ Attached(c) /\ IdOf[c] = id
    BY <1>5, <2>1 DEF ClosedOnceInv, OpenRegistered, MapIds
  <2>3. /\ clients' = [clients EXCEPT ![id] = NoConn]
        /\ chClosed' = [chClosed EXCEPT ![c] = TRUE]
        /\ crash' = crash
    BY <1>1, <1>5, <2>1, <2>2 DEF RunRemove
  <2>4. \A j \in Ids \ {id} : clients[j] # c
    BY <2>2 DEF ClosedOnceInv, MapIds
  <2>5. MapIds' /\ OpenRegistered'
    BY <1>2, <1>3, <2>3, <2>4 DEF ClosedOnceInv, MapIds, OpenRegistered,
       Attached
  <2>6. ClosedAttached'
    BY <1>2, <1>3, <2>2, <2>3 DEF ClosedOnceInv, ClosedAttached, Attached
  <2>7. AttachedTracked'
    BY <1>2, <1>3, <2>1, <2>3 DEF ClosedOnceInv, AttachedTracked, Attached
  <2>8. QED
    BY <1>2, <2>3, <2>5, <2>6, <2>7 DEF ClosedOnceInv, NotYetQueued,
       AddQueueOK, Attached
<1>6. QED
  BY <1>4, <1>5


(* ServeHTTP sends its connection on AddCh once, before run() attached it. *)
LEMMA ServeHTTPAddClosedOnce ==
  ASSUME ClosedOnceInv, DataTypes, NEW c \in Conns, ServeHTTPAdd(c)
  PROVE  ClosedOnceInv'
<1>1. ~Attached(c) /\ \A i \in DOMAIN addCh : addCh[i] # c
  BY DEF ServeHTTPAdd, ClosedOnceInv, NotYetQueued
<1>2. addCh \in Seq(Conns)
  BY DEF DataTypes
<1>3. /\ addCh' = Append(addCh, c)
      /\ DOMAIN addCh' = 1 .. Len(addCh) + 1
      /\ \A i \in 1 .. Len(addCh) : addCh'[i] = addCh[i]
      /\ addCh'[Len(addCh) + 1] = c
  BY <1>2, AppendProperties DEF ServeHTTPAdd
<1>4. /\ UNCHANGED <<clients, chClosed, primePc, crash>>
      /\ connPc' = [connPc EXCEPT ![c] = "flush"]
  BY DEF ServeHTTPAdd, connUnchanged, hubVars, primeVars
<1>5. connPc \in [Conns -> {"idle", "adding", "flush", "condwait", "serve",
                           "leaving", "done"}]
  BY DEF DataTypes
<1>6. NotYetQueued'
  <2> SUFFICES ASSUME NEW x \in Conns, connPc'[x] \in {"idle", "adding"}
               PROVE  ~Attached(x)' /\ \A i \in DOMAIN addCh' : addCh'[i] # x
    BY DEF NotYetQueued
  <2>1. x # c /\ connPc[x] \in {"idle", "adding"}
    BY <1>4, <1>5
  <2>2. ~Attached(x) /\ \A i \in DOMAIN addCh : addCh[i] # x
    BY <2>1 DEF ClosedOnceInv, NotYetQueued
  <2>3. \A i \in DOMAIN addCh' : addCh'[i] # x
    BY <1>2, <1>3, <2>1, <2>2
  <2>4. QED
    BY <1>4, <2>2, <2>3 DEF Attached
<1>7. AddQueueOK'
  <2>1. \A i \in DOMAIN addCh' : primePc'[addCh'[i]] = "none"
    BY <1>1, <1>2, <1>3, <1>4 DEF ClosedOnceInv, AddQueueOK, Attached
  <2>2. \A i, j \in DOMAIN addCh' : addCh'[j] = addCh'[i] => j = i
    BY <1>1, <1>2, <1>3 DEF ClosedOnceInv, AddQueueOK
  <2>3. QED
    BY <2>1, <2>2 DEF AddQueueOK, Attached
<1>8. QED
  BY <1>4, <1>6, <1>7 DEF ClosedOnceInv, MapIds, OpenRegistered,
     ClosedAttached, AttachedTracked, Attached


(* Close(): a no-op on a closed hub, else it closes every channel in      *)
(* Clients.                                                                *)
LEMMA CloseHubClosedOnce ==
  ASSUME ClosedOnceInv, DataTypes, BoolTypes, CloseHub,
         UNCHANGED <<primePc, connPc, addCh>>
  PROVE  ClosedOnceInv'
<1>1. CASE closed
  BY <1>1, QuietStepClosedOnce DEF CloseHub, hubVars, ClosedOnceInv, Attached
<1>2. CASE ~closed
  BY <1>2, CloseAllClosedOnce DEF CloseHub
<1>3. QED
  BY <1>1, <1>2

(* With distinct connection ids, every step keeps ClosedOnceInv.           *)
LEMMA NextClosedOnce ==
  ASSUME IdOfInjective, TypeInv, ClosedOnceInv, [Next]_vars
  PROVE  ClosedOnceInv'
<1>0. DataTypes /\ BoolTypes /\ crash # "closeOfClosed"
  BY DEF TypeInv, ClosedOnceInv
<1>1. CASE ExternalClose \/ RunReap
  BY <1>0, <1>1, CloseHubClosedOnce DEF ExternalClose, RunReap, primeVars
<1>2. CASE RunClosed
  BY <1>0, <1>2, CloseAllClosedOnce DEF RunClosed, primeVars
<1>3. CASE RunAdd
  BY <1>0, <1>3, RunAddClosedOnce
<1>4. CASE RunRemove
  BY <1>0, <1>4, RunRemoveClosedOnce
<1>5. CASE \E c \in Conns : ServeHTTPAdd(c)
  BY <1>0, <1>5, ServeHTTPAddClosedOnce
<1>6. CASE \/ ReadLoopExit \/ ReadLoopRecv \/ ReadLoopCheck \/ Broadcast
           \/ BroadcastDrop \/ BroadcastResync \/ BroadcastDone
           \/ \E c \in Conns : BroadcastSend(c)
  <2>1. UNCHANGED <<clients, chClosed, addCh, primePc, connPc>>
    BY <1>6 DEF ReadLoopExit, ReadLoopRecv, ReadLoopCheck, Broadcast,
       BroadcastDrop, BroadcastResync, BroadcastDone, BroadcastSend,
       hubVars, primeVars
  <2>2. crash' # "closeOfClosed"
    BY <1>0, <1>6 DEF ReadLoopExit, ReadLoopRecv, ReadLoopCheck, Broadcast,
       BroadcastDrop, BroadcastResync, BroadcastDone, BroadcastSend
  <2>3. QED
    BY <1>0, <2>1, <2>2, QuietStepClosedOnce DEF Attached
<1>7. CASE \E c \in Conns : SendInitialSnapshot(c) \/ SendInitialFrame(c)
  <2>1. PICK c \in Conns : SendInitialSnapshot(c) \/ SendInitialFrame(c)
    BY <1>7
  <2>2. UNCHANGED <<clients, chClosed, addCh, connPc>>
    BY <2>1 DEF SendInitialSnapshot, SendInitialFrame, hubVars
  <2>3. crash' # "closeOfClosed"
    BY <1>0, <2>1 DEF SendInitialSnapshot, SendInitialFrame
  <2>4. \A d \in Conns : Attached(d)' <=> Attached(d)
    <3>1. primePc \in [Conns -> {"none", "snap", "send", "done"}]
      BY <1>0 DEF DataTypes
    <3>2. CASE SendInitialSnapshot(c)
      <4>1. \/ UNCHANGED primePc
            \/ primePc' = [primePc EXCEPT ![c] = "send"] /\ primePc[c] = "snap"
        BY <3>2 DEF SendInitialSnapshot, primeVars
      <4>2. QED
        BY <3>1, <4>1 DEF Attached
    <3>3. CASE SendInitialFrame(c)
      <4>1. \/ UNCHANGED primePc
            \/ primePc' = [primePc EXCEPT ![c] = "done"] /\ primePc[c] = "send"
        BY <3>3 DEF SendInitialFrame, primeVars
      <4>2. QED
        BY <3>1, <4>1 DEF Attached
    <3>4. QED
      BY <2>1, <3>2, <3>3
  <2>5. QED
    BY <1>0, <2>2, <2>3, <2>4, QuietStepClosedOnce
<1>8. CASE \E c \in Conns :
             \/ ServeHTTPStart(c) \/ ServeHTTPNoFlusher(c)
             \/ WaitForPlaying(c) \/ ServeFrame(c) \/ ServeReturn(c)
             \/ ServeCancel(c) \/ ServeHTTPDeferRemove(c)
  <2>1. UNCHANGED <<clients, chClosed, addCh, primePc, crash>>
    BY <1>8 DEF ServeHTTPStart, ServeHTTPNoFlusher, WaitForPlaying,
       ServeFrame, ServeReturn, ServeCancel, ServeHTTPDeferRemove,
       connUnchanged, hubVars, primeVars
  <2>2. \A d \in Conns : connPc'[d] \in {"idle", "adding"}
                           => connPc[d] \in {"idle", "adding"}
    BY <1>0, <1>8 DEF ServeHTTPStart, ServeHTTPNoFlusher, WaitForPlaying,
       ServeFrame, ServeReturn, ServeCancel, ServeHTTPDeferRemove, DataTypes
  <2>3. QED
    BY <1>0, <2>1, <2>2, QuietStepClosedOnce DEF Attached
<1>9. CASE UNCHANGED vars
  BY <1>0, <1>9, QuietStepClosedOnce DEF vars, Attached
<1>10. QED
  BY <1>1, <1>2, <1>3, <1>4, <1>5, <1>6, <1>7, <1>8, <1>9 DEF Next

\* The inductive invariant behind ClientQueuesClosedOnce.
ClosedOnceIInv == IInv /\ ClosedOnceInv

(* With distinct connection ids, no client channel is ever closed twice,  *)
(* and once the hub is closed every connection run() attached has had its *)
(* channel closed, by RunRemove or by Close() (ClientQueuesClosedOnce,     *)
(* checked by the hub_safety run).  Without distinct ids the property      *)
(* fails: run shared_connid.                                               *)
THEOREM ClientQueuesClosedOnceCorrect ==
  IdOfInjective => (Spec => []ClientQueuesClosedOnce)
<1> SUFFICES ASSUME IdOfInjective PROVE Spec => []ClientQueuesClosedOnce
  OBVIOUS
<1>1. Init => ClosedOnceIInv
  BY InitIInv, InitClosedOnce DEF ClosedOnceIInv
<1>2. ClosedOnceIInv /\ [Next]_vars => ClosedOnceIInv'
  BY NextIInv, NextClosedOnce DEF ClosedOnceIInv, IInv
<1>3. ClosedOnceIInv => ClientQueuesClosedOnce
  <2> SUFFICES ASSUME ClosedOnceIInv
               PROVE  ClientQueuesClosedOnce
    OBVIOUS
  <2>1. closed => \A id \in Ids : clients[id] = NoConn
    BY DEF ClosedOnceIInv, IInv, TeardownConsistent
  <2>2. QED
    BY <2>1 DEF ClosedOnceIInv, ClosedOnceInv, AttachedTracked, Attached,
       ClientQueuesClosedOnce
<1>4. QED
  BY <1>1, <1>2, <1>3, PTL DEF Spec

=============================================================================
