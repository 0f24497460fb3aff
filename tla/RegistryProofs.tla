--------------------------- MODULE RegistryProofs ---------------------------
(***************************************************************************)
(* Proofs about the registry: a closed hub stays in the map only while its *)
(* own reaper is about to take it out, for any numbers of keys, hubs and   *)
(* requests.  The invariant is not inductive alone: a hub that a creator   *)
(* is about to insert must be shown still open, which needs the facts      *)
(* below about fresh hubs, the map and the reapers' targets.               *)
(***************************************************************************)
EXTENDS Registry, TLAPS

ActivePcs == {"insert", "serve", "adding", "streaming"}

\* Every mapped hub was created, for the key it is stored under.
MapOK ==
  \A k \in Keys :
    hubMap[k] # NoHub => hubMap[k] \in created /\ hubKey[hubMap[k]] = k

\* A request past creation holds a hub that NewStreamHub returned.
ActiveHubsCreated ==
  \A r \in Reqs : reqPc[r] \in ActivePcs => reqHub[r] \in created

\* Nobody can have queued an add or a remove on a hub not yet created.
FreshQueuesEmpty ==
  \A h \in Hubs \ created : addQ[h] = {} /\ removeQ[h] = {}

\* A reaper about to Close holds a created hub that is no longer mapped.
TargetOK ==
  \A g \in Hubs :
    runPc[g] = "closeTarget" =>
      /\ reapTarget[g] \in created
      /\ \A k \in Keys : hubMap[k] # reapTarget[g]

\* A hub between NewStreamHub and its insertion is open, unmapped and
\* known to nobody but its creator.
InsertOK ==
  \A r \in Reqs :
    reqPc[r] = "insert" =>
      /\ reqHub[r] \notin closedH
      /\ hubKey[reqHub[r]] = reqKey[r]
      /\ addQ[reqHub[r]] = {}
      /\ removeQ[reqHub[r]] = {}
      /\ \A k \in Keys : hubMap[k] # reqHub[r]
      /\ \A g \in Hubs : runPc[g] = "closeTarget" => reapTarget[g] # reqHub[r]
      /\ \A r2 \in Reqs \ {r} :
           reqPc[r2] \in ActivePcs => reqHub[r2] # reqHub[r]

IInv ==
  /\ TypeOK
  /\ MapOK
  /\ ActiveHubsCreated
  /\ FreshQueuesEmpty
  /\ TargetOK
  /\ InsertOK
  /\ ClosedHubBeingReaped

USE RegistryAssumption

\* The initial state satisfies the inductive invariant.
LEMMA InitIInv == Init => IInv
BY DEF Init, IInv, TypeOK, MapOK, ActiveHubsCreated, FreshQueuesEmpty,
       TargetOK, InsertOK, ClosedHubBeingReaped, RunPcs, ReqPcs, ActivePcs

\* Every step of the request goroutines and of the run loops and reapers
\* preserves the inductive invariant.
LEMMA NextIInv == IInv /\ [Next]_vars => IInv'
<1> USE DEF IInv, TypeOK, MapOK, ActiveHubsCreated, FreshQueuesEmpty,
            TargetOK, InsertOK, ClosedHubBeingReaped, ActivePcs, CloseHub,
            RunPcs, ReqPcs
<1> SUFFICES ASSUME IInv, [Next]_vars PROVE IInv'
  OBVIOUS
<1>1. ASSUME NEW r \in Reqs, GetLookup(r) PROVE IInv'
  BY <1>1 DEF GetLookup
<1>2. ASSUME NEW r \in Reqs, Create(r) PROVE IInv'
  BY <1>2 DEF Create
<1>3. ASSUME NEW r \in Reqs, CreateFail(r) PROVE IInv'
  BY <1>3 DEF CreateFail
<1>4. ASSUME NEW r \in Reqs, Insert(r) PROVE IInv'
  BY <1>4 DEF Insert
<1>5. ASSUME NEW r \in Reqs, ServeCheck(r) PROVE IInv'
  BY <1>5 DEF ServeCheck
<1>13. ASSUME NEW r \in Reqs, ServeAdd(r) PROVE IInv'
  BY <1>13 DEF ServeAdd
<1>14. ASSUME NEW h \in Hubs, RunAdd(h) PROVE IInv'
  <2>1. PICK r \in addQ[h] :
          /\ addQ' = [addQ EXCEPT ![h] = @ \ {r}]
          /\ IF h \in closedH
             THEN panicked' = TRUE /\ UNCHANGED attached
             ELSE /\ attached' = [attached EXCEPT ![h] = @ \cup {r}]
                  /\ UNCHANGED panicked
    BY <1>14 DEF RunAdd
  <2>2. UNCHANGED <<hubMap, created, hubKey, closedH, removeQ, runPc,
                    reapTarget, reqPc, reqKey, reqHub>>
    BY <1>14 DEF RunAdd
  <2>3. CASE h \in closedH
    BY <2>1, <2>2, <2>3
  <2>4. CASE h \notin closedH
    <3>1. h \in created
      BY <2>1 DEF FreshQueuesEmpty
    <3>2. QED
      BY <2>1, <2>2, <2>4, <3>1
  <2>5. QED
    BY <2>3, <2>4
<1>6. ASSUME NEW r \in Reqs, Leave(r) PROVE IInv'
  BY <1>6 DEF Leave
<1>7. ASSUME NEW h \in Hubs, RunRemove(h) PROVE IInv'
  BY <1>7 DEF RunRemove
<1>8. ASSUME NEW h \in Hubs, RunClosed(h) PROVE IInv'
  BY <1>8 DEF RunClosed
<1>9. ASSUME NEW h \in Hubs, RemoveLookup(h) PROVE IInv'
  BY <1>9 DEF RemoveLookup
<1>10. ASSUME NEW h \in Hubs, RemoveClose(h) PROVE IInv'
  BY <1>10 DEF RemoveClose
<1>11. CASE UNCHANGED vars
  BY <1>11 DEF vars
<1>12. QED
  BY <1>1, <1>2, <1>3, <1>4, <1>5, <1>6, <1>7, <1>8, <1>9, <1>10, <1>11,
     <1>13, <1>14 DEF Next

(* For any keys, hubs and requests, GetOrCreateHub can find a closed hub   *)
(* in the map only while that hub's run goroutine is about to call         *)
(* RemoveHubEx for it (ClosedHubBeingReaped, the reaper of run/OnEmpty).   *)
THEOREM ClosedHubReapedCorrect == Spec => []ClosedHubBeingReaped
<1>1. Init => IInv
  BY InitIInv
<1>2. IInv /\ [Next]_vars => IInv'
  BY NextIInv
<1>3. IInv => ClosedHubBeingReaped
  BY DEF IInv
<1>4. QED
  BY <1>1, <1>2, <1>3, PTL DEF Spec

(* Every reachable state of the registry and of the goroutines around it   *)
(* is well typed for any keys, hubs and requests: the map holds only hubs  *)
(* NewStreamHub can return, and each request and run loop is at one of its *)
(* code positions (Registry's TypeOK, checked by the registry run).        *)
THEOREM RegistryTypeCorrect == Spec => []TypeOK
<1>1. IInv => TypeOK
  BY DEF IInv
<1>2. QED
  BY <1>1, InitIInv, NextIInv, PTL DEF Spec


=============================================================================
