------------------------------ MODULE Registry ------------------------------
(***************************************************************************)
(* The multi-channel registry of udp_rtp.go (GetOrCreateHub, RemoveHubEx)  *)
(* composed with the life cycle of the hubs it hands out: the request     *)
(* goroutines that look a hub up, create and insert one, attach to it and *)
(* leave it, and each hub's control loop, which closes the hub when its   *)
(* last client leaves and then runs the on-empty callback, RemoveHubEx by *)
(* the hub's key.  A hub is abstracted to what the registry can observe:  *)
(* whether it is closed, its attached clients and its pending removes;    *)
(* its frames and priming are the subject of StreamHub.                   *)
(***************************************************************************)
CONSTANTS
  Keys,    \* channel keys, HubKey(udpAddr, ifaces)
  Hubs,    \* the hubs NewStreamHub may return, in no particular order
  Reqs,    \* HTTP requests, each served once; connIDs are distinct
  NoHub    \* the absent map entry and the absent hub

ASSUME RegistryAssumption == NoHub \notin Hubs

VARIABLES
  hubMap,      \* m.Hubs: key -> hub, NoHub when absent
  created,     \* hubs NewStreamHub has returned
  hubKey,      \* the key a created hub was made for (its AddrList/ifaces)
  closedH,     \* hubs whose Closed channel is closed
  attached,    \* hub -> the connIDs in its Clients map
  addQ,        \* hub -> the clients queued on its AddCh
  removeQ,     \* hub -> the connIDs queued on its RemoveCh
  runPc,       \* hub -> where its run goroutine is
  reapTarget,  \* hub -> the hub its RemoveHubEx took from the map
  reqPc,       \* request -> where its goroutine is
  reqKey,      \* request -> the channel key it asks for
  reqHub,      \* request -> the hub GetOrCreateHub gave it, NoHub before
  panicked     \* a run goroutine assigned into a nil Clients map

vars == <<hubMap, created, hubKey, closedH, attached, addQ, removeQ, runPc,
          reapTarget, reqPc, reqKey, reqHub, panicked>>

RunPcs == {"idle", "loop", "reap", "closeTarget", "exit"}
ReqPcs == {"idle", "create", "insert", "serve", "adding", "streaming", "done"}

TypeOK ==
  /\ hubMap \in [Keys -> Hubs \cup {NoHub}]
  /\ created \subseteq Hubs
  /\ hubKey \in [Hubs -> Keys]
  /\ closedH \subseteq created
  /\ attached \in [Hubs -> SUBSET Reqs]
  /\ addQ \in [Hubs -> SUBSET Reqs]
  /\ removeQ \in [Hubs -> SUBSET Reqs]
  /\ runPc \in [Hubs -> RunPcs]
  /\ reapTarget \in [Hubs -> Hubs \cup {NoHub}]
  /\ reqPc \in [Reqs -> ReqPcs]
  /\ reqKey \in [Reqs -> Keys]
  /\ reqHub \in [Reqs -> Hubs \cup {NoHub}]
  /\ panicked \in BOOLEAN

Init ==
  /\ hubMap = [k \in Keys |-> NoHub]
  /\ created = {}
  /\ hubKey \in [Hubs -> Keys]
  /\ closedH = {}
  /\ attached = [h \in Hubs |-> {}]
  /\ addQ = [h \in Hubs |-> {}]
  /\ removeQ = [h \in Hubs |-> {}]
  /\ runPc = [h \in Hubs |-> "idle"]
  /\ reapTarget = [h \in Hubs |-> NoHub]
  /\ reqPc = [r \in Reqs |-> "idle"]
  /\ reqKey \in [Reqs -> Keys]
  /\ reqHub = [r \in Reqs |-> NoHub]
  /\ panicked = FALSE

(* StreamHub.Close on hub t: close Closed, close and drop every client    *)
(* queue.  A second call returns at once, which the union makes a no-op.  *)
CloseHub(t) ==
  /\ closedH' = closedH \cup {t}
  /\ attached' = [attached EXCEPT ![t] = {}]

-----------------------------------------------------------------------------
(* Request goroutines: GetOrCreateHub, then ServeHTTP.                     *)

\* GetOrCreateHub under the read lock: a mapped hub that is not closed is
\* returned; otherwise the caller goes on to create one.
GetLookup(r) ==
  LET h == hubMap[reqKey[r]]
      live == h # NoHub /\ h \notin closedH
  IN /\ reqPc[r] = "idle"
     /\ reqPc' = [reqPc EXCEPT ![r] = IF live THEN "serve" ELSE "create"]
     /\ reqHub' = [reqHub EXCEPT ![r] = IF live THEN h ELSE NoHub]
     /\ UNCHANGED <<hubMap, created, hubKey, closedH, attached, addQ, removeQ,
                    runPc, reapTarget, reqKey, panicked>>

\* NewStreamHub binds the sockets and starts run(); OnEmpty is installed.
Create(r) ==
  /\ reqPc[r] = "create"
  /\ \E h \in Hubs \ created :
       /\ hubKey[h] = reqKey[r]
       /\ created' = created \cup {h}
       /\ runPc' = [runPc EXCEPT ![h] = "loop"]
       /\ reqPc' = [reqPc EXCEPT ![r] = "insert"]
       /\ reqHub' = [reqHub EXCEPT ![r] = h]
  /\ UNCHANGED <<hubMap, hubKey, closedH, attached, addQ, removeQ, reapTarget,
                 reqKey, panicked>>

\* NewStreamHub fails (no socket could be bound): the error is returned
\* and nothing is cached.
CreateFail(r) ==
  /\ reqPc[r] = "create"
  /\ reqPc' = [reqPc EXCEPT ![r] = "done"]
  /\ UNCHANGED <<hubMap, created, hubKey, closedH, attached, addQ, removeQ,
                 runPc, reapTarget, reqKey, reqHub, panicked>>

\* Under the write lock the new hub is stored, replacing whatever is there.
Insert(r) ==
  /\ reqPc[r] = "insert"
  /\ hubMap' = [hubMap EXCEPT ![reqKey[r]] = reqHub[r]]
  /\ reqPc' = [reqPc EXCEPT ![r] = "serve"]
  /\ UNCHANGED <<created, hubKey, closedH, attached, addQ, removeQ, runPc,
                 reapTarget, reqKey, reqHub, panicked>>

\* ServeHTTP's select on h.Closed: 503 on a closed hub, else go on.
ServeCheck(r) ==
  /\ reqPc[r] = "serve"
  /\ reqPc' = [reqPc EXCEPT ![r] = IF reqHub[r] \in closedH THEN "done"
                                   ELSE "adding"]
  /\ UNCHANGED <<hubMap, created, hubKey, closedH, attached, addQ, removeQ,
                 runPc, reapTarget, reqKey, reqHub, panicked>>

\* h.AddCh <- hubClient{...}; the deferred remove is armed.  The buffer
\* of 1024 is not reached by the requests modelled here.
ServeAdd(r) ==
  LET h == reqHub[r] IN
  /\ reqPc[r] = "adding"
  /\ addQ' = [addQ EXCEPT ![h] = @ \cup {r}]
  /\ reqPc' = [reqPc EXCEPT ![r] = "streaming"]
  /\ UNCHANGED <<hubMap, created, hubKey, closedH, attached, removeQ, runPc,
                 reapTarget, reqKey, reqHub, panicked>>

\* The serve loop returns (client gone, queue closed or hub closed) and the
\* deferred send queues the connID on the hub's RemoveCh.
Leave(r) ==
  LET h == reqHub[r] IN
  /\ reqPc[r] = "streaming"
  /\ reqPc' = [reqPc EXCEPT ![r] = "done"]
  /\ removeQ' = [removeQ EXCEPT ![h] = @ \cup {r}]
  /\ UNCHANGED <<hubMap, created, hubKey, closedH, attached, addQ, runPc,
                 reapTarget, reqKey, reqHub, panicked>>

-----------------------------------------------------------------------------
(* A hub's run goroutine and its on-empty callback.                        *)

\* run's add case: store the client in Clients.  After Close() the map is
\* nil and the assignment panics, which ends the process.
RunAdd(h) ==
  /\ runPc[h] = "loop"
  /\ \E r \in addQ[h] :
       /\ addQ' = [addQ EXCEPT ![h] = @ \ {r}]
       /\ IF h \in closedH
          THEN /\ panicked' = TRUE
               /\ UNCHANGED attached
          ELSE /\ attached' = [attached EXCEPT ![h] = @ \cup {r}]
               /\ UNCHANGED panicked
  /\ UNCHANGED <<hubMap, created, hubKey, closedH, removeQ, runPc,
                 reapTarget, reqPc, reqKey, reqHub>>

\* run's remove case: drop the client; an empty table closes the hub and
\* goes on to OnEmpty.  After Close the table is nil and so empty too.
RunRemove(h) ==
  /\ runPc[h] = "loop"
  /\ \E r \in removeQ[h] :
       LET left == attached[h] \ {r} IN
       /\ removeQ' = [removeQ EXCEPT ![h] = @ \ {r}]
       /\ IF left = {}
          THEN /\ CloseHub(h)
               /\ runPc' = [runPc EXCEPT ![h] = "reap"]
          ELSE /\ attached' = [attached EXCEPT ![h] = left]
               /\ UNCHANGED <<closedH, runPc>>
  /\ UNCHANGED <<hubMap, created, hubKey, addQ, reapTarget, reqPc, reqKey,
                 reqHub, panicked>>

\* run's Closed case: the goroutine exits.
RunClosed(h) ==
  /\ runPc[h] = "loop"
  /\ h \in closedH
  /\ runPc' = [runPc EXCEPT ![h] = "exit"]
  /\ UNCHANGED <<hubMap, created, hubKey, closedH, attached, addQ, removeQ,
                 reapTarget, reqPc, reqKey, reqHub, panicked>>

\* Mutant: RemoveHubEx looks the hub up but leaves the map entry in place.
RemoveLookupKeepEntry(h) ==
  LET k == hubKey[h] IN
  /\ runPc[h] = "reap"
  /\ IF hubMap[k] = NoHub
     THEN /\ runPc' = [runPc EXCEPT ![h] = "exit"]
          /\ UNCHANGED reapTarget
     ELSE /\ reapTarget' = [reapTarget EXCEPT ![h] = hubMap[k]]
          /\ runPc' = [runPc EXCEPT ![h] = "closeTarget"]
  /\ UNCHANGED <<hubMap, created, hubKey, closedH, attached, addQ, removeQ,
                 reqPc, reqKey, reqHub, panicked>>

\* Mutant: RemoveHubEx without its "if !ok" return.
RemoveLookupNoCheck(h) ==
  LET k == hubKey[h] IN
  /\ runPc[h] = "reap"
  /\ reapTarget' = [reapTarget EXCEPT ![h] = hubMap[k]]
  /\ hubMap' = [hubMap EXCEPT ![k] = NoHub]
  /\ runPc' = [runPc EXCEPT ![h] = "closeTarget"]
  /\ UNCHANGED <<created, hubKey, closedH, attached, addQ, removeQ,
                 reqPc, reqKey, reqHub, panicked>>

\* RemoveHubEx(h.AddrList[0], ifaces) under the write lock: whatever hub
\* is stored under h's key is taken out of the map, h or not.
RemoveLookup(h) ==
  LET k == hubKey[h] IN
  /\ runPc[h] = "reap"
  /\ IF hubMap[k] = NoHub
     THEN /\ runPc' = [runPc EXCEPT ![h] = "exit"]
          /\ UNCHANGED <<hubMap, reapTarget>>
     ELSE /\ reapTarget' = [reapTarget EXCEPT ![h] = hubMap[k]]
          /\ hubMap' = [hubMap EXCEPT ![k] = NoHub]
          /\ runPc' = [runPc EXCEPT ![h] = "closeTarget"]
  /\ UNCHANGED <<created, hubKey, closedH, attached, addQ, removeQ,
                 reqPc, reqKey, reqHub, panicked>>

\* RemoveHubEx, outside the lock: Close the hub it took from the map.
RemoveClose(h) ==
  /\ runPc[h] = "closeTarget"
  /\ CloseHub(reapTarget[h])
  /\ runPc' = [runPc EXCEPT ![h] = "exit"]
  /\ UNCHANGED <<hubMap, created, hubKey, addQ, removeQ, reapTarget, 
                 reqPc, reqKey, reqHub, panicked>>

-----------------------------------------------------------------------------
\* A panic ends the process: no goroutine takes another step.
Next ==
  /\ ~panicked
  /\ \/ \E r \in Reqs :
          \/ GetLookup(r) \/ Create(r) \/ CreateFail(r) \/ Insert(r)
          \/ ServeCheck(r) \/ ServeAdd(r) \/ Leave(r)
     \/ \E h \in Hubs :
          RunAdd(h) \/ RunRemove(h) \/ RunClosed(h) \/ RemoveLookup(h)
            \/ RemoveClose(h)

Spec == Init /\ [][Next]_vars

-----------------------------------------------------------------------------
(* A hub stays reachable through the registry after it is closed only     *)
(* while its own run goroutine is on its way through OnEmpty to take it    *)
(* out: GetOrCreateHub never keeps handing out a dead hub for good.        *)
ClosedHubBeingReaped ==
  \A k \in Keys :
    hubMap[k] \in closedH => runPc[hubMap[k]] = "reap"

(* A client that has not left and whose add run() has taken is still in   *)
(* the Clients map of its hub: only its own leaving detaches it, since a   *)
(* hub is reaped only after all its clients have left (spec 4.D).          *)
ClientsStayAttached ==
  \A r \in Reqs :
    reqPc[r] = "streaming" /\ r \notin addQ[reqHub[r]]
      => r \in attached[reqHub[r]]

(* GetOrCreateHub never leaves two live hubs for one key: insertion races  *)
(* do not duplicate sockets (spec 4.D).                                    *)
OneLiveHubPerKey ==
  \A h1, h2 \in created \ closedH :
    hubKey[h1] = hubKey[h2] => h1 = h2

=============================================================================
