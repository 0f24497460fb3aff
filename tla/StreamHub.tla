------------------------------ MODULE StreamHub ------------------------------
(***************************************************************************)
(* One StreamHub of src/stream/udp_rtp.go and the goroutines that share   *)
(* it: the control loop run(), one socket readLoop() with broadcast(),     *)
(* one sendInitial() priming goroutine per attached client, one            *)
(* ServeHTTP() goroutine per HTTP connection, and an outside caller of     *)
(* Close() (the registry's RemoveHubEx).                                   *)
(*                                                                         *)
(* Frames are numbered by the order the socket delivers them; the RTP      *)
(* extraction between read and broadcast is a pure function modelled in   *)
(* its own module.  A step is one stretch of code that runs without a      *)
(* suspension point or under one hold of Mu.  The only critical section    *)
(* that spans two steps is broadcast's drop path (drain, then resend), so  *)
(* the lock is modelled by MuFree, false while the reader is in it.        *)
(*                                                                         *)
(* A Go panic outside an HTTP handler ends the process: the step that      *)
(* panics records why in crash, and no step follows.                       *)
(***************************************************************************)
EXTENDS Naturals, Sequences, FiniteSets

CONSTANTS
  Conns,        \* HTTP connections (model values)
  Ids,          \* connection ids, the keys of h.Clients
  IdOf,         \* IdOf[c]: the X-ConnID (or time-based id) of connection c
  NoConn,       \* an empty slot of h.Clients
  MaxFrames,    \* datagrams the multicast socket delivers in a behaviour
  RingSize,     \* capacity of CacheBuffer (8192 in NewStreamHub)
  QueueCap,     \* capacity of a client channel (4096 in ServeHTTP)
  ResyncEvery,  \* a resync pulse every ResyncEvery drops (100 in broadcast)
  ChanBuf,      \* capacity of AddCh and RemoveCh (1024 in NewStreamHub)
  ExternalCloser \* whether something outside run() calls Close()

ASSUME ConstAssumption ==
  /\ IdOf \in [Conns -> Ids]
  /\ NoConn \notin Conns
  /\ MaxFrames \in Nat
  /\ RingSize \in Nat \ {0}
  /\ QueueCap \in Nat \ {0}
  /\ ResyncEvery \in Nat \ {0}
  /\ ChanBuf \in Nat \ {0}
  /\ ExternalCloser \in BOOLEAN

Frames == 1..MaxFrames
NoFrame == 0                       \* a nil LastFrame

Playing == "Playing"
Stopped == "Stopped"

\* Why the process died: nothing yet, a send on a closed channel, a method
\* call on the nil CacheBuffer, an assignment into the nil Clients map, or a
\* close of a closed channel.
NoCrash == "none"
Crashes == {"sendOnClosed", "nilRing", "nilMap", "closeOfClosed"}

VARIABLES
  closed,      \* h.Closed has been closed
  state,       \* h.state
  clients,     \* h.Clients: id -> connection whose channel is stored there
  clientsNil,  \* h.Clients == nil
  ring,        \* CacheBuffer.GetAll(), oldest first
  ringNil,     \* h.CacheBuffer == nil
  lastFrame,   \* h.LastFrame
  packetCount, \* h.PacketCount
  dropCount,   \* h.DropCount
  addCh,       \* buffered h.AddCh
  removeCh,    \* buffered h.RemoveCh
  ch,          \* ch[c]: the frames buffered in connection c's channel
  chClosed,    \* chClosed[c]: close(ch) has been called
  runPc,       \* where run() is
  rdPc,        \* where readLoop()/broadcast() is
  received,    \* datagrams read from the socket so far
  rdFrame,     \* the frame readLoop is broadcasting
  targets,     \* broadcast's snapshot of the clients still to be sent to
  rdTarget,    \* the client whose send would block (drop path)
  primePc,     \* where the sendInitial goroutine of each connection is
  primeBuf,    \* the cached frames it still has to send
  connPc,      \* where ServeHTTP of each connection is
  delivered,   \* frames each ServeHTTP has written to its response
  crash        \* why the process panicked, or NoCrash

vars == <<closed, state, clients, clientsNil, ring, ringNil, lastFrame,
          packetCount, dropCount, addCh, removeCh, ch, chClosed, runPc,
          rdPc, received, rdFrame, targets, rdTarget, primePc, primeBuf,
          connPc, delivered, crash>>

hubVars == <<closed, state, clients, clientsNil, ring, ringNil, lastFrame>>
rdVars == <<rdPc, received, rdFrame, targets, rdTarget>>
primeVars == <<primePc, primeBuf>>

-----------------------------------------------------------------------------
\* The connections whose channel is stored in h.Clients.
Registered == {clients[id] : id \in {i \in Ids : clients[i] # NoConn}}

\* Mu is held across two steps only by broadcast's drop path.
MuFree == rdPc # "resync"

\* Mutant: Push never overwrites (a count <= size off-by-one).
RingPushNoEvict(s, f) == Append(s, f)

\* RingBuffer.Push as seen through GetAll: append, and when the buffer is
\* full the oldest frame is overwritten.
RingPush(s, f) ==
  IF Len(s) < RingSize THEN Append(s, f) ELSE Append(Tail(s), f)

-----------------------------------------------------------------------------
\* NewStreamHub: a hub that bound its socket, with state StatePlaying, run()
\* and readLoop() started, and no HTTP connection yet.
Init ==
  /\ closed = FALSE
  /\ state = Playing
  /\ clients = [id \in Ids |-> NoConn]
  /\ clientsNil = FALSE
  /\ ring = << >>
  /\ ringNil = FALSE
  /\ lastFrame = NoFrame
  /\ packetCount = 0
  /\ dropCount = 0
  /\ addCh = << >>
  /\ removeCh = << >>
  /\ ch = [c \in Conns |-> << >>]
  /\ chClosed = [c \in Conns |-> FALSE]
  /\ runPc = "loop"
  /\ rdPc = "read"
  /\ received = 0
  /\ rdFrame = NoFrame
  /\ targets = {}
  /\ rdTarget = NoConn
  /\ primePc = [c \in Conns |-> "none"]
  /\ primeBuf = [c \in Conns |-> << >>]
  /\ connPc = [c \in Conns |-> "idle"]
  /\ delivered = [c \in Conns |-> << >>]
  /\ crash = NoCrash

-----------------------------------------------------------------------------
(***************************************************************************)
(* Close(): idempotent; closes h.Closed, the sockets, every client channel *)
(* and drops Clients, CacheBuffer and LastFrame, then sets StateStopped.   *)
(* A channel closed twice panics.                                          *)
(***************************************************************************)
CloseHub ==
  IF closed
  THEN UNCHANGED <<hubVars, chClosed, crash>>
  ELSE /\ closed' = TRUE
       /\ chClosed' = [c \in Conns |-> chClosed[c] \/ c \in Registered]
       /\ crash' = IF \E c \in Registered : chClosed[c]
                   THEN "closeOfClosed" ELSE crash
       /\ clients' = [id \in Ids |-> NoConn]
       /\ clientsNil' = TRUE
       /\ ring' = << >>
       /\ ringNil' = TRUE
       /\ lastFrame' = NoFrame
       /\ state' = Stopped

\* The registry's RemoveHubEx (or RemoveHub) calling Close() from outside.
ExternalClose ==
  /\ ExternalCloser /\ MuFree
  /\ CloseHub
  /\ UNCHANGED <<packetCount, dropCount, addCh, removeCh, ch, runPc, rdVars,
                 primeVars, connPc, delivered>>

-----------------------------------------------------------------------------
(* run(): the control loop, one action per case of its select.             *)

RunAdd ==
  /\ runPc = "loop" /\ MuFree /\ addCh # << >>
  /\ LET c == Head(addCh) IN
       /\ addCh' = Tail(addCh)
       /\ IF clientsNil
          THEN /\ crash' = "nilMap"
               /\ UNCHANGED <<clients, primePc>>
          ELSE /\ clients' = [clients EXCEPT ![IdOf[c]] = c]
               /\ primePc' = [primePc EXCEPT ![c] = "snap"]   \* go sendInitial
               /\ UNCHANGED crash
  /\ UNCHANGED <<closed, state, clientsNil, ring, ringNil, lastFrame,
                 packetCount, dropCount, removeCh, ch, chClosed, runPc,
                 rdVars, primeBuf, connPc, delivered>>

\* Mutant: the channel is closed but the entry is not deleted.
RunRemoveKeepEntry ==
  /\ runPc = "loop" /\ MuFree /\ removeCh # << >>
  /\ LET id == Head(removeCh)
         c  == clients[id]
     IN /\ removeCh' = Tail(removeCh)
        /\ IF c # NoConn
           THEN /\ chClosed' = [chClosed EXCEPT ![c] = TRUE]
                /\ crash' = IF chClosed[c] THEN "closeOfClosed" ELSE crash
           ELSE UNCHANGED <<chClosed, crash>>
        /\ runPc' = IF \A i \in Ids : clients[i] = NoConn
                    THEN "closing" ELSE "loop"
  /\ UNCHANGED <<closed, state, clients, clientsNil, ring, ringNil,
                 lastFrame, packetCount, dropCount, addCh, ch, rdVars,
                 primeVars, connPc, delivered>>

\* Delete the client and close its channel; when none is left, go on to
\* Close() and OnEmpty.
RunRemove ==
  /\ runPc = "loop" /\ MuFree /\ removeCh # << >>
  /\ LET id == Head(removeCh)
         c  == clients[id]
     IN /\ removeCh' = Tail(removeCh)
        /\ IF c # NoConn
           THEN /\ clients' = [clients EXCEPT ![id] = NoConn]
                /\ chClosed' = [chClosed EXCEPT ![c] = TRUE]
                /\ crash' = IF chClosed[c] THEN "closeOfClosed" ELSE crash
           ELSE UNCHANGED <<clients, chClosed, crash>>
        /\ runPc' = IF \A i \in Ids : clients'[i] = NoConn
                    THEN "closing" ELSE "loop"
  /\ UNCHANGED <<closed, state, clientsNil, ring, ringNil, lastFrame,
                 packetCount, dropCount, addCh, ch, rdVars, primeVars,
                 connPc, delivered>>

\* The last client left: h.Close(), then h.OnEmpty(h), then return.
RunReap ==
  /\ runPc = "closing" /\ MuFree
  /\ CloseHub
  /\ runPc' = "exited"
  /\ UNCHANGED <<packetCount, dropCount, addCh, removeCh, ch, rdVars,
                 primeVars, connPc, delivered>>

\* Mutant: run()'s select has no <-h.Closed case.
RunClosedMissing == FALSE

\* <-h.Closed: close the channels still in Clients, set Clients to nil.
RunClosed ==
  /\ runPc = "loop" /\ MuFree /\ closed
  /\ chClosed' = [c \in Conns |-> chClosed[c] \/ c \in Registered]
  /\ crash' = IF \E c \in Registered : chClosed[c]
              THEN "closeOfClosed" ELSE crash
  /\ clients' = [id \in Ids |-> NoConn]
  /\ clientsNil' = TRUE
  /\ runPc' = "exited"
  /\ UNCHANGED <<closed, state, ring, ringNil, lastFrame, packetCount,
                 dropCount, addCh, removeCh, ch, rdVars, primeVars, connPc,
                 delivered>>

-----------------------------------------------------------------------------
(* sendInitial(ch): snapshot the cache under Mu, then send it without      *)
(* blocking, stopping at hub close or at a full channel.                   *)

SendInitialSnapshot(c) ==
  /\ primePc[c] = "snap" /\ MuFree
  /\ IF ringNil
     THEN /\ crash' = "nilRing"
          /\ UNCHANGED primeVars
     ELSE /\ primeBuf' = [primeBuf EXCEPT ![c] = ring]
          /\ primePc' = [primePc EXCEPT ![c] = "send"]
          /\ UNCHANGED crash
  /\ UNCHANGED <<hubVars, packetCount, dropCount, addCh, removeCh, ch,
                 chClosed, runPc, rdVars, connPc, delivered>>

SendInitialFrame(c) ==
  /\ primePc[c] = "send"
  /\ \/ /\ primeBuf[c] = << >> \/ closed \/ (~chClosed[c] /\ Len(ch[c]) >= QueueCap)
        /\ primePc' = [primePc EXCEPT ![c] = "done"]
        /\ UNCHANGED <<primeBuf, ch, crash>>
     \/ /\ primeBuf[c] # << >> /\ ~closed /\ chClosed[c]
        /\ crash' = "sendOnClosed"
        /\ UNCHANGED <<primeVars, ch>>
     \/ /\ primeBuf[c] # << >> /\ ~closed /\ ~chClosed[c]
        /\ Len(ch[c]) < QueueCap
        /\ ch' = [ch EXCEPT ![c] = Append(@, Head(primeBuf[c]))]
        /\ primeBuf' = [primeBuf EXCEPT ![c] = Tail(@)]
        /\ UNCHANGED <<primePc, crash>>
  /\ UNCHANGED <<hubVars, packetCount, dropCount, addCh, removeCh, chClosed,
                 runPc, rdVars, connPc, delivered>>

-----------------------------------------------------------------------------
(* readLoop() and broadcast().                                             *)

\* <-h.Closed, or ReadFrom failing on the closed socket: return.
ReadLoopExit ==
  /\ rdPc = "read" /\ closed
  /\ rdPc' = "exited"
  /\ UNCHANGED <<hubVars, packetCount, dropCount, addCh, removeCh, ch,
                 chClosed, runPc, received, rdFrame, targets, rdTarget,
                 primeVars, connPc, delivered, crash>>

\* A datagram for the group arrives and is copied out of the pool buffer.
ReadLoopRecv ==
  /\ rdPc = "read" /\ ~closed /\ received < MaxFrames
  /\ received' = received + 1
  /\ rdFrame' = received + 1
  /\ rdPc' = "check"
  /\ UNCHANGED <<hubVars, packetCount, dropCount, addCh, removeCh, ch,
                 chClosed, runPc, targets, rdTarget, primeVars, connPc,
                 delivered, crash>>

\* Under RLock: a stopped hub or a dropped cache ends the loop.
ReadLoopCheck ==
  /\ rdPc = "check" /\ MuFree
  /\ rdPc' = IF state = Stopped \/ ringNil THEN "exited" ELSE "bcast"
  /\ UNCHANGED <<hubVars, packetCount, dropCount, addCh, removeCh, ch,
                 chClosed, runPc, received, rdFrame, targets, rdTarget,
                 primeVars, connPc, delivered, crash>>

\* Mutant: broadcast without its nil checks under the lock.
BroadcastUnguarded ==
  /\ rdPc = "bcast" /\ MuFree
  /\ packetCount' = packetCount + 1
  /\ lastFrame' = rdFrame
  /\ ring' = RingPush(ring, rdFrame)
  /\ state' = Playing
  /\ targets' = Registered
  /\ rdPc' = "fanout"
  /\ UNCHANGED <<closed, clients, clientsNil, ringNil, dropCount, addCh,
                 removeCh, ch, chClosed, runPc, received, rdFrame, rdTarget,
                 primeVars, connPc, delivered, crash>>

\* broadcast's locked part: count, remember and cache the frame, set
\* StatePlaying, and copy the clients map.
Broadcast ==
  /\ rdPc = "bcast" /\ MuFree
  /\ IF clientsNil \/ ringNil
     THEN /\ rdPc' = "read"
          /\ UNCHANGED <<state, ring, lastFrame, packetCount, targets>>
     ELSE /\ packetCount' = packetCount + 1
          /\ lastFrame' = rdFrame
          /\ ring' = RingPush(ring, rdFrame)
          /\ state' = Playing
          /\ targets' = Registered
          /\ rdPc' = "fanout"
  /\ UNCHANGED <<closed, clients, clientsNil, ringNil, dropCount, addCh,
                 removeCh, ch, chClosed, runPc, received, rdFrame, rdTarget,
                 primeVars, connPc, delivered, crash>>

\* The non-blocking send to one client of the copy, without the lock.
BroadcastSend(c) ==
  /\ rdPc = "fanout" /\ c \in targets
  /\ \/ /\ chClosed[c]
        /\ crash' = "sendOnClosed"
        /\ UNCHANGED <<ch, targets, rdPc, rdTarget>>
     \/ /\ ~chClosed[c] /\ Len(ch[c]) < QueueCap
        /\ ch' = [ch EXCEPT ![c] = Append(@, rdFrame)]
        /\ targets' = targets \ {c}
        /\ UNCHANGED <<rdPc, rdTarget, crash>>
     \/ /\ ~chClosed[c] /\ Len(ch[c]) >= QueueCap
        /\ rdPc' = "drop"
        /\ rdTarget' = c
        /\ UNCHANGED <<ch, targets, crash>>
  /\ UNCHANGED <<hubVars, packetCount, dropCount, addCh, removeCh, chClosed,
                 runPc, received, rdFrame, primeVars, connPc, delivered>>

\* default branch: under Mu, count the drop; every ResyncEvery-th drop
\* drains one frame of that client's channel and keeps Mu for the resend.
BroadcastDrop ==
  /\ rdPc = "drop" /\ MuFree
  /\ dropCount' = dropCount + 1
  /\ IF dropCount' % ResyncEvery = 0
     THEN /\ ch' = [ch EXCEPT ![rdTarget] = IF @ = << >> THEN @ ELSE Tail(@)]
          /\ rdPc' = "resync"
          /\ UNCHANGED targets
     ELSE /\ targets' = targets \ {rdTarget}
          /\ rdPc' = "fanout"
          /\ UNCHANGED ch
  /\ UNCHANGED <<hubVars, packetCount, addCh, removeCh, chClosed, runPc,
                 received, rdFrame, rdTarget, primeVars, connPc, delivered,
                 crash>>

\* Still under Mu: try to enqueue LastFrame, then release Mu.
BroadcastResync ==
  /\ rdPc = "resync"
  /\ LET c == rdTarget IN
       /\ IF lastFrame # NoFrame /\ chClosed[c]
          THEN crash' = "sendOnClosed"
          ELSE UNCHANGED crash
       /\ ch' = IF lastFrame # NoFrame /\ ~chClosed[c] /\ Len(ch[c]) < QueueCap
                THEN [ch EXCEPT ![c] = Append(@, lastFrame)]
                ELSE ch
       /\ targets' = targets \ {c}
  /\ rdPc' = "fanout"
  /\ UNCHANGED <<hubVars, packetCount, dropCount, addCh, removeCh, chClosed,
                 runPc, received, rdFrame, rdTarget, primeVars, connPc,
                 delivered>>

BroadcastDone ==
  /\ rdPc = "fanout" /\ targets = {}
  /\ rdPc' = "read"
  /\ UNCHANGED <<hubVars, packetCount, dropCount, addCh, removeCh, ch,
                 chClosed, runPc, received, rdFrame, targets, rdTarget,
                 primeVars, connPc, delivered, crash>>

-----------------------------------------------------------------------------
(* ServeHTTP(): one goroutine per connection.                              *)

connUnchanged == <<hubVars, packetCount, dropCount, chClosed, runPc, rdVars,
                   primeVars, crash>>

\* A request arrives; a closed hub answers 503 and returns.
ServeHTTPStart(c) ==
  /\ connPc[c] = "idle"
  /\ connPc' = [connPc EXCEPT ![c] = IF closed THEN "done" ELSE "adding"]
  /\ UNCHANGED <<connUnchanged, addCh, removeCh, ch, delivered>>

\* h.AddCh <- hubClient{ch, connID}; the deferred remove is armed.
ServeHTTPAdd(c) ==
  /\ connPc[c] = "adding" /\ Len(addCh) < ChanBuf
  /\ addCh' = Append(addCh, c)
  /\ connPc' = [connPc EXCEPT ![c] = "flush"]
  /\ UNCHANGED <<connUnchanged, removeCh, ch, delivered>>

\* The writer is not an http.Flusher: 500 and return.
ServeHTTPNoFlusher(c) ==
  /\ connPc[c] = "flush"
  /\ connPc' = [connPc EXCEPT ![c] = "leaving"]
  /\ UNCHANGED <<connUnchanged, addCh, removeCh, ch, delivered>>

\* WaitForPlaying(ctx) under Mu: false when closed, true when Playing;
\* a Stopped open hub would enter the cond-wait loop.
WaitForPlaying(c) ==
  /\ connPc[c] = "flush" /\ MuFree
  /\ connPc' = [connPc EXCEPT ![c] =
                  IF closed THEN "leaving"
                  ELSE IF state = Playing THEN "serve" ELSE "condwait"]
  /\ UNCHANGED <<connUnchanged, addCh, removeCh, ch, delivered>>

\* case data, ok := <-ch with ok: the frame is written to the response.
ServeFrame(c) ==
  /\ connPc[c] = "serve" /\ ch[c] # << >>
  /\ delivered' = [delivered EXCEPT ![c] = Append(@, Head(ch[c]))]
  /\ ch' = [ch EXCEPT ![c] = Tail(@)]
  /\ UNCHANGED <<connUnchanged, addCh, removeCh, connPc>>

\* The loop returns: the channel is closed and drained, h.Closed is
\* closed, or (any time) the client goes away or a write fails.
ServeReturn(c) ==
  /\ connPc[c] = "serve"
  /\ \/ chClosed[c] /\ ch[c] = << >>
     \/ closed
  /\ connPc' = [connPc EXCEPT ![c] = "leaving"]
  /\ UNCHANGED <<connUnchanged, addCh, removeCh, ch, delivered>>

ServeCancel(c) ==
  /\ connPc[c] = "serve"
  /\ connPc' = [connPc EXCEPT ![c] = "leaving"]
  /\ UNCHANGED <<connUnchanged, addCh, removeCh, ch, delivered>>

\* The deferred h.RemoveCh <- connID.
ServeHTTPDeferRemove(c) ==
  /\ connPc[c] = "leaving" /\ Len(removeCh) < ChanBuf
  /\ removeCh' = Append(removeCh, IdOf[c])
  /\ connPc' = [connPc EXCEPT ![c] = "done"]
  /\ UNCHANGED <<connUnchanged, addCh, ch, delivered>>

-----------------------------------------------------------------------------
Next ==
  /\ crash = NoCrash
  /\ \/ ExternalClose
     \/ RunAdd \/ RunRemove \/ RunReap \/ RunClosed
     \/ ReadLoopExit \/ ReadLoopRecv \/ ReadLoopCheck \/ Broadcast
     \/ BroadcastDrop \/ BroadcastResync \/ BroadcastDone
     \/ \E c \in Conns :
          \/ BroadcastSend(c)
          \/ SendInitialSnapshot(c) \/ SendInitialFrame(c)
          \/ ServeHTTPStart(c) \/ ServeHTTPAdd(c) \/ ServeHTTPNoFlusher(c)
          \/ WaitForPlaying(c) \/ ServeFrame(c) \/ ServeReturn(c)
          \/ ServeCancel(c) \/ ServeHTTPDeferRemove(c)

Spec == Init /\ [][Next]_vars

(***************************************************************************)
(* Fairness: the Go scheduler eventually runs every runnable goroutine, so *)
(* each step a goroutine takes on its own is weakly fair.  What the outside *)
(* world does is not: a request arriving, a datagram arriving, a client     *)
(* going away, a writer that is not a Flusher, an outside Close().          *)
(***************************************************************************)
Fairness ==
  /\ WF_vars(RunAdd) /\ WF_vars(RunRemove) /\ WF_vars(RunReap)
  /\ WF_vars(RunClosed)
  /\ WF_vars(ReadLoopExit) /\ WF_vars(ReadLoopCheck) /\ WF_vars(Broadcast)
  /\ WF_vars(BroadcastDrop) /\ WF_vars(BroadcastResync)
  /\ WF_vars(BroadcastDone)
  /\ \A c \in Conns :
       /\ WF_vars(BroadcastSend(c))
       /\ WF_vars(SendInitialSnapshot(c)) /\ WF_vars(SendInitialFrame(c))
       /\ WF_vars(ServeHTTPAdd(c)) /\ WF_vars(WaitForPlaying(c))
       /\ WF_vars(ServeFrame(c)) /\ WF_vars(ServeReturn(c))
       /\ WF_vars(ServeHTTPDeferRemove(c))

FairSpec == Spec /\ Fairness

-----------------------------------------------------------------------------
(* Properties                                                              *)

TypeOK ==
  /\ closed \in BOOLEAN
  /\ state \in {Playing, Stopped}
  /\ clients \in [Ids -> Conns \cup {NoConn}]
  /\ clientsNil \in BOOLEAN
  /\ ring \in Seq(Frames) /\ Len(ring) <= RingSize
  /\ ringNil \in BOOLEAN
  /\ lastFrame \in Frames \cup {NoFrame}
  /\ packetCount \in Nat
  /\ dropCount \in Nat
  /\ addCh \in Seq(Conns)
  /\ removeCh \in Seq(Ids)
  /\ ch \in [Conns -> Seq(Frames)]
  /\ chClosed \in [Conns -> BOOLEAN]
  /\ runPc \in {"loop", "closing", "exited"}
  /\ rdPc \in {"read", "check", "bcast", "fanout", "drop", "resync", "exited"}
  /\ received \in 0..MaxFrames
  /\ rdFrame \in Frames \cup {NoFrame}
  /\ targets \in SUBSET Conns
  /\ rdTarget \in Conns \cup {NoConn}
  /\ primePc \in [Conns -> {"none", "snap", "send", "done"}]
  /\ primeBuf \in [Conns -> Seq(Frames)]
  /\ connPc \in [Conns -> {"idle", "adding", "flush", "condwait", "serve",
                           "leaving", "done"}]
  /\ delivered \in [Conns -> Seq(Frames)]
  /\ crash \in {NoCrash} \cup Crashes

(* Close() tears the hub down in one critical section and nothing brings  *)
(* it back: the hub is Stopped exactly when it is closed, Clients and      *)
(* CacheBuffer are nil exactly then, and a closed hub holds no client, no  *)
(* cached frame and no LastFrame.  This rests on broadcast() re-checking   *)
(* for a nil cache under Mu after readLoop's unlocked check.               *)
TeardownConsistent ==
  /\ closed <=> state = Stopped
  /\ closed <=> clientsNil
  /\ closed <=> ringNil
  /\ closed => /\ \A id \in Ids : clients[id] = NoConn
               /\ ring = << >>
               /\ lastFrame = NoFrame

(* Every client channel is closed exactly once: never twice (a panic), and *)
(* once the hub is closed every connection run() ever attached has had its *)
(* channel closed, by RunRemove or by Close().                             *)
ClientQueuesClosedOnce ==
  /\ crash # "closeOfClosed"
  /\ closed => \A c \in Conns : primePc[c] # "none" => chClosed[c]

\* Every goroutine of the hub has ended or never started.
Quiescent ==
  /\ runPc = "exited" /\ rdPc = "exited"
  /\ \A c \in Conns : primePc[c] \in {"none", "done"}
                      /\ connPc[c] \in {"idle", "done"}

(* Once the hub is closed, every goroutine of it ends: run(), readLoop(),  *)
(* each sendInitial and each ServeHTTP that had started (or the process    *)
(* has died).                                                              *)
ClosedHubQuiesces == closed ~> (Quiescent \/ crash # NoCrash)

(* No client channel is ever sent to after it was closed (spec section 8, *)
(* property 6): broadcast's fan-out, its resync and sendInitial all send   *)
(* outside the critical section that closes channels.                      *)
NoSendOnClosed == crash # "sendOnClosed"

(* sendInitial never reads the cache after Close() dropped it: the spec    *)
(* says priming aborts on hub close.                                       *)
PrimingSurvivesClose == crash # "nilRing"

(* After the hub is closed no client is added (spec invariant I2) and      *)
(* run() does not write into the nil Clients map.                          *)
AttachSurvivesClose == crash # "nilMap"

\* The connection ids sent on RemoveCh and not yet received by run().
PendingRemoves == {removeCh[i] : i \in DOMAIN removeCh}

(* A connection whose ServeHTTP has returned and whose remove has been     *)
(* consumed is no longer in Clients: no ghost client keeps the hub open.   *)
NoGhostClient ==
  \A c \in Conns :
    connPc[c] = "done" /\ IdOf[c] \notin PendingRemoves
      => clients[IdOf[c]] # c

=============================================================================
