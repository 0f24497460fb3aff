# TLA+ models of tvgate's UDP/RTP stream hub

This directory models `src/stream/udp_rtp.go`, the part of tvgate that
re-broadcasts one multicast or unicast UDP stream to many HTTP clients. The
modules are checked with TLC and proved with TLAPS. `src/main.go` only parses
flags and starts the HTTP server, so it is not modelled.

## The system

`udp_rtp.go` has five parts that interact:

| Part | Code | What it does |
|---|---|---|
| Ring buffer | `RingBuffer.Push`, `GetAll` (57-77) | Keeps the last 8192 frames for priming new clients. Has its own lock. |
| RTP extractor | `rtpPayloadGet`, `processRTPPacket` (294-390) | A pure function from a datagram to its MPEG-TS payload. |
| Stream hub | `StreamHub` (90-690) | See below. |
| Registry | `MultiChannelHub` (695-765) | Maps `md5(addr@ifaces)` to a hub. Its `OnEmpty` reaper removes and closes a hub by key. |
| Interface update and migration | `UpdateInterfaces`, `TransferClientsTo` (771-873) | Rebind a hub's sockets, or move its clients to another hub. |

A live hub runs these goroutines concurrently:

- **`run()`**: the control loop. It selects on `AddCh`, `RemoveCh` and `Closed`. It inserts and deletes clients under `Mu`, and closes a client's channel on removal. When the last client leaves, it calls `Close()` and `OnEmpty`.
- **`readLoop()`**: one per socket. It reads a datagram, checks under `RLock` that the hub is still open, and calls `broadcast`.
- **`broadcast`**, in three parts:
  1. Under `Mu`: count the frame, set `LastFrame`, push it into the cache, set the state to `Playing`, and copy `Clients`.
  2. After unlocking: a non-blocking send to each copied client.
  3. For a full client, under `Mu` again: count a drop. On every 100th drop, evict one queued frame and re-send `LastFrame` (a resync pulse).
- **`sendInitial`**: started by `run()` for each new client. It snapshots the cache under `Mu`, then sends the cached frames without blocking. It stops when the hub is closed or the channel is full.
- **`ServeHTTP`**: one per HTTP request.
  - It returns 503 if the hub is closed.
  - It queues an add on `AddCh` and defers a remove on `RemoveCh`.
  - It returns 500 if the writer cannot flush.
  - It calls `WaitForPlaying`.
  - It then copies frames from its channel to the response until one of these happens: the channel is closed, the hub is closed, or the request is cancelled.
- **`Close()`**: idempotent. It is called by `run()` or by the registry (`RemoveHubEx`). Under `Mu` it:
  1. closes `Closed` and the sockets;
  2. closes every client channel;
  3. sets `Clients`, `CacheBuffer` and `LastFrame` to nil;
  4. sets the state to `Stopped`.

## Modules

| Module | Models |
|---|---|
| `StreamHub.tla` | One hub: `run()`, one `readLoop`/`broadcast`, `sendInitial` per connection, `ServeHTTP` per connection, `WaitForPlaying`, and `Close()` called from `run()` or from outside. |
| `MC_StreamHub.tla` | The TLC instance: two connections, their ids, a shared-id variant and a symmetry set. |
| `StreamHubProofs.tla` | TLAPS proofs of the type invariant, of `TeardownConsistent` and of `ClientQueuesClosedOnce`. |
| `Registry.tla` | `MultiChannelHub` (`GetOrCreateHub`, `RemoveHubEx`) composed with the life cycle of the hubs it hands out: request goroutines, each hub's `run()` loop, and its `OnEmpty` reaper. |
| `MC_Registry.tla` | One key, three hubs, three requests. |
| `RegistryProofs.tla` | TLAPS proof of `ClosedHubBeingReaped`. |
| `RingFifo.tla` | The abstract cache: a bounded FIFO of the last `Size` frames and a snapshot read. |
| `RingBuffer.tla` | `RingBuffer` (`buf`, `start`, `count`, `Push`, `GetAll`), with `Contents` as the refinement mapping to `RingFifo`. |
| `MC_RingBuffer.tla` | Three slots and two frame values. |
| `RingBufferProofs.tla` | TLAPS proofs that `RingBuffer` is type-correct and implements `RingFifo`. |
| `RtpExtract.tla` | `rtpPayloadGet` and `processRTPPacket` as operators on byte sequences, and the extractor as spec section 4.B states it. |
| `MC_RtpExtract.tla` | A set of datagrams built to reach every early return. |

### How StreamHub's state corresponds to the code

- **Hub fields.**
  - `closed` is whether `h.Closed` is closed.
  - `state` is `h.state`.
  - `clients` maps a connection id to the connection whose channel `h.Clients[id]` holds, or `NoConn`.
  - `clientsNil` and `ringNil` say whether `Clients` and `CacheBuffer` are nil. Go distinguishes an empty map from a nil one, and writing to a nil map panics.
  - `ring` is `CacheBuffer.GetAll()`.
  - `lastFrame` is `h.LastFrame`.
  - `packetCount` and `dropCount` are the counters.
- **Channels.**
  - `addCh` and `removeCh` are the buffered channels' contents.
  - `ch[c]` holds the frames queued for connection `c`, and `chClosed[c]` says whether `close(ch)` was called.
  - `QueueCap` stands for the 4096-frame capacity.
- **Goroutine positions.**
  - `runPc` is `run()`'s position.
  - `rdPc` is the position of `readLoop` and `broadcast`. The reader also holds `rdFrame` (the frame being broadcast), `targets` (the copied clients still to send to) and `rdTarget` (the client on the drop path).
  - `primePc` and `primeBuf` are each `sendInitial`'s position and its snapshot.
  - `connPc` and `delivered` are each `ServeHTTP`'s position and the frames it has written.
- **Panics.** A Go panic outside the HTTP handler (a send on a closed channel, a nil dereference, a write to a nil map, a double close) ends the process. The model records it in `crash`, and no step follows.
- **Frames.** A frame is its arrival number, `1..MaxFrames`. RTP extraction is abstracted away because no property depends on payload bytes. The extraction is checked on its own in `RtpExtract`.
- **The mutex.** `Mu` is held across steps only on the drop path (`rdPc = "resync"`, `MuFree`). Every other critical section is inside one action, so every lock-taking action is guarded by `MuFree`.

### Actions

Each action models the whole code path it names, including a trailing `Close()`.

| Action | Code |
|---|---|
| `RunAdd` | `run()` add case (449-455), including `go sendInitial` |
| `RunRemove` | remove case (457-474) |
| `RunReap` | `Close()` and return when it was the last client (466-472) |
| `RunClosed` | the `<-h.Closed` case (476-483) |
| `CloseHub` | `Close()` (604-643) |
| `ExternalClose` | `RemoveHubEx` closing the hub (750-765) |
| `SendInitialSnapshot`, `SendInitialFrame` | `sendInitial` (491-515) |
| `ReadLoopExit`, `ReadLoopRecv`, `ReadLoopCheck` | `readLoop` (239-287) |
| `Broadcast` | locked part, including the nil re-check (392-417) |
| `BroadcastSend` | send, full or closed (419-423) |
| `BroadcastDrop`, `BroadcastResync` | drop path (424-439) |
| `BroadcastDone` | end of fan-out |
| `ServeHTTPStart` | closed check and 503 (520-526) |
| `ServeHTTPAdd` | `AddCh <-` (528-536) |
| `ServeHTTPNoFlusher` | 500 (550-554) |
| `WaitForPlaying` | 660-690 |
| `ServeFrame`, `ServeReturn`, `ServeCancel` | the serve loop (569-596) |
| `ServeHTTPDeferRemove` | the deferred `RemoveCh <-` (537) |

`PROJECT.json`'s `map` gives every definition's lines.

The Go `select` picks among ready cases at random, so each ready case is a separate disjunct. Tickers and header writes change no shared state and are left out.

Some steps are merged, and each merge is a simplification:

- `SendInitialFrame` makes the closed check (`:501-505`) and the send (`:508-512`) one step. `Close()` could run between them in the code.
- `ServeFrame` treats `w.Write` and `Flush` as instant. Under `FairSpec` it is also fair, so a client whose writes block forever is not modelled.
- `WaitForPlaying` folds the loop guard at `:671` into the early return at `:664`.
- In the registry, `GetLookup` reads `IsClosed()` together with the lookup. The code reads it just after `RUnlock`.

## Runs of StreamHub

| Run (cfg) | Checks | Result |
|---|---|---|
| `hub_safety` (`MC_StreamHub.cfg`) | `TypeOK`, `TeardownConsistent`, `ClientQueuesClosedOnce` | pass, about 2.3M distinct states, about 2 min |
| `hub_quiesces` (`MC_StreamHub_live.cfg`) | `ClosedHubQuiesces` under `FairSpec` | pass, about 250k states |
| `send_on_closed` | `NoSendOnClosed` | violated |
| `priming_after_close` | `PrimingSurvivesClose` | violated |
| `attach_after_close` | `AttachSurvivesClose` | violated |
| `ghost_client` | `NoGhostClient` | violated |
| `shared_connid` (`MC_StreamHub_SharedConnID.cfg`) | `ClientQueuesClosedOnce` with two connections sharing one `X-ConnID` | violated |

### What each property says

- **`TeardownConsistent`**: the hub is `Stopped` exactly when it is closed. `Clients` and `CacheBuffer` are nil exactly then. A closed hub holds no client, no cached frame and no `LastFrame`. This depends on `broadcast` re-checking for nil under `Mu` after `readLoop`'s unlocked check (mutant `BroadcastUnguarded`).
- `WaitForPlaying`'s cond-wait loop is unreachable: an open hub is always `Playing` (it starts `Playing`, and only `Close()` sets `Stopped`), and `TeardownConsistent` says so. The loop's guard at `:671` re-checks `IsClosed()`, so it is no hazard even if it were reached. Spec invariant I4 ("Playing ⇒ a frame was delivered") does not hold in the code, because `NewStreamHub` starts in `Playing`.
- **`ClientQueuesClosedOnce`**: no channel is closed twice. Once the hub is closed, every attached connection's channel is closed (spec §8 property 5).
- **`ClosedHubQuiesces`**: after close, `run()`, the reader, every priming goroutine and every started `ServeHTTP` end, unless the process has crashed.

### Violations

These are the findings, each with a trace:

- **Send on a closed channel.** `broadcast` sends to its copy of `Clients` after unlocking. `run()` may have closed that client's channel in between, because the client left (`udp_rtp.go:422`).
- **Nil `CacheBuffer` in `sendInitial`.** The client leaves before the priming goroutine runs. `run()` then calls `Close()`, and `GetAll` runs on nil (`:494`).
- **Write to the nil `Clients` map.** An add is queued when the registry calls `Close()`, and `run()`'s select picks the add first (`:451`).
- **Ghost client.** `RemoveCh` is read before `AddCh` for the same connection. The connection stays in `Clients` after its handler returns, and the hub is never reaped (`:449`/`:457`).
- **Colliding `X-ConnID`.** `run()` keys `Clients` by the request's `X-ConnID` header. A second connection with the same id overwrites the first's entry. The first connection's remove then deletes and closes the second's channel, and the first channel is never closed (`:451`, `:530`).

### Bounds

- Two connections, so that one can leave while the other is served, and `run()` can see adds and removes of different connections interleaved.
- Two datagrams in the safety run and one in the liveness run.
- A one-frame cache, so that the cache evicts.
- One-frame channels, so that the drop path runs. `ResyncEvery = 2` stands for the code's 100, so that the resync pulse runs.
- `ChanBuf = 1024` as in the code.
- Symmetry over the two connections, which are interchangeable because `IdOf` maps each connection to its own id.

Every action and every branch fires in `hub_safety`. Deadlock checking is off because the system really stops: a hub whose clients have left and whose datagrams are spent has no enabled step, and neither does a crashed process.

### Fairness

`FairSpec` puts weak fairness on each step a hub goroutine takes on its own, because the Go scheduler eventually runs a runnable goroutine. It puts no fairness on what the outside world does: a request arriving, a datagram arriving, a client leaving, a non-flushable writer, an outside `Close()`. `ServeFrame` is one of the fair steps. This assumes that each write to a client returns, which an HTTP server with write timeouts ensures, but a stalled client without them would not.

### Proofs (StreamHubProofs.tla)

All proofs hold for every value of the constants, under `ConstAssumption`: positive capacities, `IdOf ∈ [Conns → Ids]` and `NoConn ∉ Conns`.

- **`TypeCorrect`: `Spec ⇒ □TypeOK`.**
  - `TypeOK` alone is not inductive. `broadcast` pushes and sends `rdFrame`, which must be a frame from the read until the end of the fan-out. The drop path needs `rdTarget` to be a connection. `ReaderFrameOK` adds both facts.
  - `TypeOK` is split into `BoolTypes` and `DataTypes`, and the provers handle each half separately.
  - There is one lemma per action whose proof needs a case split, and `RingPushType` bounds the cache.
- **`TeardownCorrect`: `Spec ⇒ □TeardownConsistent`.**
  - The inductive invariant is `IInv = TypeInv ∧ TeardownConsistent ∧ NoCondWait`. `NoCondWait` (no `ServeHTTP` is in `WaitForPlaying`'s cond-wait loop) follows from `TeardownConsistent`, which gives `¬closed ⇒ state = Playing`. The later proofs use it.
  - `Close()` establishes it.
  - `RunAdd` writes `Clients` only when it is not nil, which implies the hub is open.
  - `Broadcast` writes state, cache and `LastFrame` only when `Clients` and the cache are not nil, which also implies the hub is open.
  - Every other step leaves the hub's fields alone (`OtherStepsKeepHub`).
- **`ClientQueuesClosedOnceCorrect`: `IdOfInjective ⇒ (Spec ⇒ □ClientQueuesClosedOnce)`.**
  - The hypothesis says distinct connections carry distinct ids. It is part of the theorem, not an assumption on the constants, because the code does not guarantee it: `ServeHTTP` takes the id from the `X-ConnID` header, and `shared_connid` shows the property failing when two connections share one.
  - A connection is *attached* once `run()` has received it from `AddCh` (`primePc ≠ "none"`).
  - The inductive invariant is `IInv ∧ ClosedOnceInv`. `ClosedOnceInv` has these conjuncts:
    - `MapIds`: `Clients` stores each connection under its own id.
    - `OpenRegistered`: a channel in `Clients` is open and attached.
    - `ClosedAttached`: only attached channels are closed.
    - `AttachedTracked`: an attached connection is still in `Clients` under its id, or already closed.
    - `NotYetQueued` and `AddQueueOK`: a connection is on `AddCh` at most once, and only before it attaches. This follows from `ServeHTTP`'s order (idle, adding, then past the send).
  - How the steps keep it:
    - `Close()` and `<-h.Closed` close only open channels (`OpenRegistered`), and afterwards every attached connection is closed (`AttachedTracked`).
    - `RunRemove` closes the open channel under the id it receives. `MapIds` keeps every other entry open.
    - `RunAdd` stores a connection that was never attached, so its channel is open. Distinct ids mean its slot holds nobody else who is attached. This is the one place the hypothesis is used.
  - TLC checked `ClosedOnceInv` on the `hub_safety` instance (2.27M states) before the proof.

These stay with TLC only:

- Liveness (`ClosedHubQuiesces`), because TLAPS does not handle the fairness reasoning.
- The violated properties, which are false.

## The registry (Registry.tla)

`MultiChannelHub` maps a channel key to a hub. `Registry` composes it with what the registry can observe of each hub: whether it is closed, its attached connections, and its queued adds and removes. It also models the goroutines that use the registry:

- **Request goroutines** (one per `Reqs` element, each with a key):
  - `GetLookup`: `GetOrCreateHub`'s read-locked lookup. A hit on an open hub goes straight to serving.
  - `Create` and `CreateFail`: the unlocked `NewStreamHub`, which may fail to bind.
  - `Insert`: the write-locked insert, which overwrites whatever the key holds.
  - `ServeCheck`: `ServeHTTP`'s select on `Closed`, which answers 503 on a closed hub.
  - `ServeAdd`: the send on `AddCh` (buffered 1024, never full with three requests), which arms the deferred remove.
  - `Leave`: the deferred remove.
- **Each hub's control loop:**
  - `RunAdd`: stores a queued client in `Clients`. After `Close()` the map is nil and the assignment panics. `panicked` records this, and `Next` takes no step after it.
  - `RunRemove`: removes a client. When it removes the last one, it closes the hub and runs `OnEmpty`.
  - `RunClosed`: the `<-h.Closed` case.
- **The `OnEmpty` reaper**, which calls `RemoveHubEx(h.AddrList[0], ifaces)` by key:
  - `RemoveLookup`: the locked lookup and delete.
  - `RemoveClose`: the `Close()` of the hub it found.

The hub's frames and priming are abstracted away because they belong to `StreamHub`. The adds and removes are separate queues, so `run()` can take a client's remove before its add, as its `select` can. Request-side steps are separate actions because `GetOrCreateHub` releases its lock between lookup and insert.

### Runs of Registry

| Run (cfg) | Checks | Result |
|---|---|---|
| `registry` (`MC_Registry.cfg`) | `TypeOK`, `ClosedHubBeingReaped` | pass, 5,887 distinct states (with symmetry) |
| `stale_reaper` (`MC_Registry_ClientsStayAttached.cfg`) | `ClientsStayAttached` | violated |
| `create_race` (`MC_Registry_OneLiveHubPerKey.cfg`) | `OneLiveHubPerKey` | violated |

- **`ClosedHubBeingReaped`**: a closed hub stays in the map only while its own reaper is about to remove it. In every other state, `GetOrCreateHub` never hands out a closed hub from the map. The mutant `RemoveLookupKeepEntry` (the reaper closes the hub but leaves the entry) breaks it.
- **Stale reaper** (finding, `:737`). `OnEmpty` removes by key. When a request has already replaced the closing hub with a new one, the reaper removes and closes the new hub, and that hub's streaming clients are cut off. `ClientsStayAttached` speaks of clients whose add `run()` has taken.
- **Create race** (divergence, `:724`). `GetOrCreateHub` drops the read lock before creating. Two requests both bind a hub for one key, and the later insert wins. Spec 4.D says insertion races do not duplicate sockets.

**Bounds.** One key, three hubs and three requests:

- two requests can create concurrently;
- a reaper can race a hub that replaced the one it reaps;
- a third request can find a hub through the map.

**No liveness here.** No property of the registry asks that hubs are eventually released. In the code that fails anyway: when `run()` takes a client's remove before its add while another client is attached, the added client stays in `Clients` forever, and the hub is never reaped. This is the `ghost_client` finding of `StreamHub`. `Spec` has no fairness, and deadlock checking is off because everything finishes or the process panics.

### Proofs (RegistryProofs.tla): `ClosedHubReapedCorrect`, `RegistryTypeCorrect`

`RegistryTypeCorrect` proves `Spec ⇒ □TypeOK` from the same inductive invariant `IInv`, which contains `TypeOK`.

This proves `Spec ⇒ □ClosedHubBeingReaped` for any keys, hubs and requests, under `NoHub ∉ Hubs`. The invariant alone is not inductive, because `Insert` stores a hub that must be shown to be still open. The inductive invariant `IInv` adds these conjuncts:

- `MapOK`: a mapped hub was created for its key.
- `ActiveHubsCreated`.
- `FreshQueuesEmpty`: nobody can queue an add or a remove on an uncreated hub.
- `TargetOK`: a reaper about to close holds an unmapped created hub.
- `InsertOK`: a hub between creation and insertion is open, unmapped, not a reaper's target, and known only to its creator.

TLC checked `IInv` as an invariant with two keys (193,896 states) before the proof. The proof has one step per action.

## The ring buffer (RingFifo.tla, RingBuffer.tla)

`RingFifo` is what `CacheBuffer` promises (spec 4.A): a FIFO of at most `Size` frames. When it is full, a push drops the oldest frame. `RingBuffer` is the code:

- a slot array `buf`, with `start` and `count`;
- `Push` writes slot `(start+count) % size`, or, when full, overwrites `buf[start]` and advances `start`;
- `GetAll` copies `buf[(start+i) % size]` for `i < count`.

The refinement mapping is `Contents`, the logical sequence oldest first, and `FifoSpec == Fifo!Spec` is the property.

- **Run `ring_fifo`** (`MC_RingBuffer.cfg`): `FifoSpec` passes with three slots and two frame values (377 states). `start` wraps, and every order of contents can be told apart. The mutant `PushKeepStart` (overwrite without advancing `start`) breaks it.
- **`RingTypeCorrect`**: `Spec ⇒ □TypeOK`.
- **`RingRefinesFifo`**: `Spec ⇒ FifoSpec`, for every `Size > 0`.
  - Initial states map to `Fifo!Init`.
  - A push that is not full maps to an append (`PushAppends`).
  - A full push maps to `Append(Tail(·), x)` (`PushEvicts`).
  - `GetAll` maps to `Snapshot`.
  - The modular index facts are stated once as lemmas in the exact shape the steps need:
    - `WrapShift`: `(start+1)%n + i-1` and `start + i` index the same slot;
    - `WrapTurn`: the overwritten slot is the new last element;
    - `WrapDistinct`: slots of distinct positions differ.

## The RTP extractor (RtpExtract.tla)

`RtpPayloadGet` and `ProcessRTPPacket` are translated from the code. The early returns of `rtpPayloadGet` are one disjunction that yields the error result. `PassThrough` is the disjunction of `processRTPPacket`'s early returns before the window checks (lines 337-362), and the window checks follow it. An earlier version wrote the early returns as `CASE` arms in the code's order. That was wrong in TLA+: when guards overlap (a 5-byte datagram is both below 188 bytes and below 12), `CASE` picks an arbitrary true arm, not the first one. TLC happened to take the first, but the proof could not. Every early return of these functions yields the same value, so a disjunction is faithful to the code and unambiguous. The bit fields are read with `\div` and `%`. `Receive` hands each datagram of a set to the extractor. `SpecExtract` is written from spec section 4.B instead of the code. It covers:

- passthrough below 188 bytes, for sync byte `0x47`, and for non-RTP packets;
- the header, CSRC, extension and padding lengths;
- the 4-byte skip for payload types 14 and 32;
- the minimum-size check on the window.

- **Run `rtp_extract`** (`MC_RtpExtract.cfg`): `ExtractMatchesSpec` (`payload = SpecExtract(datagram)`) passes.
  - `TSPktMin = 4` stands for 188, so that windows above and below the minimum fit in 22-byte datagrams.
  - The datagrams cover every length up to 22, the first bytes that matter (a sync byte, versions 0, 2 and 3, padding, extension and CSRC bits), payload types 14, 32, 96 and 142, extension lengths 0, 1 and 256, and padding lengths 0, 1, 2 and 9.
  - Every arm of both functions fires.
  - The mutant `ProcessRTPPacketOffByOne` (`>= 187`) breaks the property.

### Proof (RtpExtractProofs.tla): `ExtractCorrect`

This proves `Spec ⇒ □ExtractMatchesSpec` for every `TSPktMin > 0` and every set of datagrams that are byte sequences (`RtpAssumption`). Those are the types that `[]byte` and the `188` constant have in the code. The invariant needs no strengthening, because each `Receive` recomputes `payload` from `datagram`. The work is the lemma `ProcessMatchesSpec`: `ProcessRTPPacket(d) = SpecExtract(d)` for every byte sequence `d`. It rests on these lemmas:

- `HeaderTypes` and `FieldTypes`: the bit fields of a byte are naturals within their widths.
- `PayloadGetUnfold`, `QuantitiesMatch` and `PayloadGetMatches`: `rtpPayloadGet` succeeds exactly on the packets the spec calls RTP, and its offsets are the spec's header length (fixed header, CSRCs, extension) and padding.
- `PassThroughMatches`: every early return of `processRTPPacket` returns the datagram unchanged, as the spec says.
- `WindowIsSpec`: the `SubSeq` the code copies is the spec's window. The code's three window guards together are equivalent to the spec's single minimum-size check, because the offsets are naturals.

No induction is needed: the argument is a case split over the code's branches.

## What is only model-checked

- Liveness: `ClosedHubQuiesces`. TLAPS does not handle the fairness reasoning here.
- Every violated property, because it is false.

## Not modelled

- **`UpdateInterfaces` and `TransferClientsTo`** (771-873): rebinding a hub's sockets with two generations of read loops, and moving clients between hubs. Hazards at `:822` and `:843` are listed without a property.
- **Per-client delivery order** (`:454`): listed as a hazard without a property.
- **Socket binding, `net.ListenMulticastUDP`, the buffer pool and `main.go`**: OS I/O and flag parsing with no shared state.
