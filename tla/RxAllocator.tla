---------------------------- MODULE RxAllocator ----------------------------
(***************************************************************************)
(* Receive buffers of the PCIe transport (pcie/gen1_2/rx.c), for devices   *)
(* with multi-queue RX.  Three parties share the receive buffer            *)
(* descriptors (RBDs):                                                     *)
(*                                                                         *)
(*  - one NAPI poller per RX queue, iwl_pcie_rx_handle;                    *)
(*  - the background work iwl_pcie_rx_allocator, which gives pages to      *)
(*    empty RBDs, RX_CLAIM_REQ_ALLOC of them for each posted request;      *)
(*  - the device, which fills posted RBDs and closes them on some queue.   *)
(*                                                                         *)
(* RBDs are interchangeable, so every list of the code is its length.      *)
(* A poller runs under rxq->lock, so its steps here are cut only where     *)
(* another party can see the difference: at accesses to the allocator's    *)
(* lists (under rba->lock) and to its two atomic counters.                 *)
(***************************************************************************)
EXTENDS Integers, FiniteSets

CONSTANTS
    Queues,         \* the RX queues, info.num_rxqs of them
    DefQueue,       \* IWL_DEFAULT_RX_QUEUE, which owns all buffers at first
    QueueSize,      \* num_rx_bufs, the size of each queue's ring
    RX_POST_REQ_ALLOC,   \* 2: a request is posted with that many RBDs,
    RX_CLAIM_REQ_ALLOC,  \* 8: and asks for that many
    WrAlign,        \* 8: the device's write pointer moves in multiples of it
    EmergencyBatch, \* 8: RBs handled between two emergency allocations
    MaxClosed,      \* bound: closed RBs a queue may have waiting for its poller
    AtomicMayFail,  \* may an emergency (GFP_ATOMIC) page allocation fail?
    InitMayFail     \* may a page allocation at initialisation fail?

ASSUME QueuesAssumption == IsFiniteSet(Queues) /\ DefQueue \in Queues
ASSUME QueueSizeAssumption == QueueSize \in Nat \ {0}
ASSUME BatchAssumption ==
    /\ RX_POST_REQ_ALLOC \in Nat \ {0} /\ RX_CLAIM_REQ_ALLOC \in Nat
    /\ RX_POST_REQ_ALLOC < RX_CLAIM_REQ_ALLOC
    /\ WrAlign \in Nat \ {0} /\ EmergencyBatch \in Nat \ {0}
ASSUME MaxClosedAssumption == MaxClosed \in Nat \ {0}
ASSUME MayFailAssumption == AtomicMayFail \in BOOLEAN /\ InitMayFail \in BOOLEAN

\* Mutant: the pool is one RBD per queue too small.
PoolSizeShort ==
    Cardinality(Queues) * (RX_CLAIM_REQ_ALLOC - RX_POST_REQ_ALLOC - 1)

\* Size of the allocator's own pool of RBDs.
PoolSize == Cardinality(Queues) * (RX_CLAIM_REQ_ALLOC - RX_POST_REQ_ALLOC)

VARIABLES
    enabled,        \* STATUS_DEVICE_ENABLED
    ring,           \* ring[q]: RBDs in q's free table the device has not used
    visible,        \* visible[q]: those below write_actual, shown to the device
    closed,         \* closed[q]: RBs the device closed on q, not yet handled
    rx_free,        \* rx_free[q]: RBDs with a page, free_count
    rx_used,        \* rx_used[q]: RBDs of the list rx_used that used_count counts
    rx_emerg,       \* rx_emerg[q]: RBDs of the list rx_used it does not count
    used_count,     \* used_count[q]
    pc,             \* pc[q]: where q's poller is, see the actions
    avail,          \* avail[q]: closed RBs up to the index r read at `restart'
    emergency,      \* emergency[q], count[q], rb_pending_alloc[q]: the
    count,          \*   poller's locals
    rb_pending_alloc,
    rbd_empty,      \* rba->rbd_empty
    rbd_allocated,  \* rba->rbd_allocated
    req_pending,    \* rba->req_pending
    req_ready,      \* rba->req_ready
    queued,         \* is the work item rx_alloc queued?
    apc,            \* where iwl_pcie_rx_allocator is
    pending,        \* its local count of requests
    local_empty     \* its local list of empty RBDs

rings == <<ring, visible, closed, rx_free, rx_used, rx_emerg, used_count>>
poller == <<pc, avail, emergency, count, rb_pending_alloc>>
rba == <<rbd_empty, rbd_allocated, req_pending, req_ready>>
work == <<apc, pending, local_empty>>
vars == <<enabled, rings, poller, rba, queued, work>>

(***************************************************************************)
(* iwl_pcie_rxq_alloc_rbs: pages for the RBDs of rx_used, one at a time    *)
(* until the list is empty or an allocation fails.  Allocated(n, mayFail)  *)
(* is the set of numbers of RBDs, out of n, that may get one.              *)
(***************************************************************************)
Allocated(n, mayFail) == IF mayFail THEN 0 .. n ELSE {n}

(***************************************************************************)
(* iwl_pcie_rxmq_restock and iwl_pcie_rxq_inc_wr_ptr.  All of rx_free goes *)
(* to the ring, with no check for space; the device is told of whole       *)
(* groups of 8.  With the device disabled the RBDs stay on rx_free.        *)
(* "free" is the length of rx_free[q] at the call.                         *)
(***************************************************************************)
Restock(q, free) ==
    IF enabled
    THEN /\ ring' = [ring EXCEPT ![q] = @ + free]
         /\ visible' = [visible EXCEPT
                ![q] = ring[q] + free - ((ring[q] + free - @) % WrAlign)]
         /\ rx_free' = [rx_free EXCEPT ![q] = 0]
    ELSE /\ rx_free' = [rx_free EXCEPT ![q] = free]
         /\ UNCHANGED <<ring, visible>>

(***************************************************************************)
(* _iwl_pcie_rx_init and the first restock.  n pages could be allocated    *)
(* for the QueueSize - 1 RBDs of the default queue; the others stay on its *)
(* rx_used, where used_count does not count them.                          *)
(***************************************************************************)
Only(n) == [q \in Queues |-> IF q = DefQueue THEN n ELSE 0]
Zero == [q \in Queues |-> 0]

RxInit(n) ==
    /\ ring = Only(n)
    /\ visible = Only(n - (n % WrAlign))
    /\ rx_emerg = Only(QueueSize - 1 - n)
    /\ rx_used = Zero
    /\ rx_free = Zero
    /\ closed = Zero
    /\ used_count = Zero
    /\ rbd_empty = PoolSize
    /\ rbd_allocated = 0
    /\ req_pending = 0
    /\ req_ready = 0

\* The same on a restart.
ReInit(n) ==
    /\ ring' = Only(n)
    /\ visible' = Only(n - (n % WrAlign))
    /\ rx_emerg' = Only(QueueSize - 1 - n)
    /\ rx_used' = Zero
    /\ rx_free' = Zero
    /\ closed' = Zero
    /\ used_count' = Zero
    /\ rbd_empty' = PoolSize
    /\ rbd_allocated' = 0
    /\ req_pending' = 0
    /\ req_ready' = 0

Init ==
    /\ enabled = TRUE
    /\ \E n \in Allocated(QueueSize - 1, InitMayFail) : RxInit(n)
    /\ pc = [q \in Queues |-> "idle"]
    /\ avail = Zero
    /\ emergency = [q \in Queues |-> FALSE]
    /\ count = Zero
    /\ rb_pending_alloc = Zero
    /\ queued = FALSE
    /\ apc = "idle"
    /\ pending = 0
    /\ local_empty = 0

----------------------------------------------------------------------------
(* The device *)

\* External: the device takes a posted RBD of p's table, fills it and closes
\* it on the queue q the frame hashes to.  Its DMA stops some time after
\* STATUS_DEVICE_ENABLED is cleared.
DeviceClosesRb(p, q) ==
    /\ visible[p] > 0
    /\ closed[q] < MaxClosed
    /\ visible' = [visible EXCEPT ![p] = @ - 1]
    /\ ring' = [ring EXCEPT ![p] = @ - 1]
    /\ closed' = [closed EXCEPT ![q] = @ + 1]
    /\ UNCHANGED <<enabled, rx_free, rx_used, rx_emerg, used_count, poller,
                   rba, queued, work>>

\* iwl_trans_pcie_stop_device clears the flag first; pollers may be running.
StopDevice ==
    /\ enabled
    /\ enabled' = FALSE
    /\ UNCHANGED <<rings, poller, rba, queued, work>>

\* The next start: napi_synchronize has waited for the pollers and
\* cancel_work_sync for the allocator (it also dequeues the work).
StartDevice ==
    /\ ~enabled
    /\ \A q \in Queues : pc[q] = "idle"
    /\ apc = "idle"
    /\ enabled' = TRUE
    /\ \E n \in Allocated(QueueSize - 1, InitMayFail) : ReInit(n)
    /\ queued' = FALSE
    /\ UNCHANGED <<poller, work>>

----------------------------------------------------------------------------
(* iwl_pcie_rx_handle, the poller of queue q *)

Goto(q, l) == pc' = [pc EXCEPT ![q] = l]

\* iwl_pcie_rx_move_to_allocator: the whole list rx_used goes to rbd_empty.
MoveToAllocator(q) ==
    /\ rbd_empty' = rbd_empty + rx_used[q] + rx_emerg[q]
    /\ rx_used' = [rx_used EXCEPT ![q] = 0]
    /\ rx_emerg' = [rx_emerg EXCEPT ![q] = 0]

\* Entry, up to `restart' and the read of the device's closed index.
Poll(q) ==
    /\ pc[q] = "idle"
    /\ closed[q] > 0
    /\ Goto(q, "loop")
    /\ avail' = [avail EXCEPT ![q] = closed[q]]
    /\ emergency' = [emergency EXCEPT ![q] = FALSE]
    /\ count' = [count EXCEPT ![q] = 0]
    /\ UNCHANGED <<enabled, rings, rb_pending_alloc, rba, queued, work>>

\* Head of the loop: sample req_pending, maybe enter emergency mode.  The
\* sample is kept only in that mode, nothing else reads it again.
LoopHead(q) ==
    LET sample == req_pending * RX_CLAIM_REQ_ALLOC
        enter == sample >= QueueSize \div 2 /\ ~emergency[q] IN
    /\ pc[q] = "loop"
    /\ avail[q] > 0
    /\ Goto(q, "rb")
    /\ emergency' = [emergency EXCEPT ![q] = @ \/ enter]
    /\ rb_pending_alloc' = [rb_pending_alloc EXCEPT
          ![q] = IF emergency'[q] THEN sample ELSE 0]
    /\ IF enter
       THEN MoveToAllocator(q)
       ELSE UNCHANGED <<rbd_empty, rx_used, rx_emerg>>
    /\ UNCHANGED <<enabled, ring, visible, closed, rx_free, used_count, avail,
                   count, rbd_allocated, req_pending, req_ready, queued, work>>

\* The RB leaves the ring: i = (i + 1) & (queue_size - 1).
NextRb(q) ==
    /\ closed' = [closed EXCEPT ![q] = @ - 1]
    /\ avail' = [avail EXCEPT ![q] = @ - 1]

\* The page was not stolen, or the RB is a fragment: it is reused as it is.
RbReused(q) ==
    /\ pc[q] = "rb"
    /\ NextRb(q)
    /\ rx_free' = [rx_free EXCEPT ![q] = @ + 1]
    /\ Goto(q, "claim")
    /\ UNCHANGED <<enabled, ring, visible, rx_used, rx_emerg, used_count,
                   emergency, count, rb_pending_alloc, rba, queued, work>>

\* iwl_pcie_rx_reuse_rbd in emergency mode: the RBD is not counted.
RbStolenEmergency(q) ==
    /\ pc[q] = "rb"
    /\ emergency[q]
    /\ NextRb(q)
    /\ rx_emerg' = [rx_emerg EXCEPT ![q] = @ + 1]
    /\ Goto(q, "claim")
    /\ UNCHANGED <<enabled, ring, visible, rx_free, rx_used, used_count,
                   emergency, count, rb_pending_alloc, rba, queued, work>>

\* iwl_pcie_rx_reuse_rbd: every 8 counted RBDs, the second one posts a
\* request, after the RBDs were moved to the allocator.
RbStolen(q) ==
    /\ pc[q] = "rb"
    /\ ~emergency[q]
    /\ NextRb(q)
    /\ used_count' = [used_count EXCEPT ![q] = @ + 1]
    /\ IF used_count'[q] % RX_CLAIM_REQ_ALLOC = RX_POST_REQ_ALLOC
       THEN /\ rbd_empty' = rbd_empty + rx_used[q] + 1 + rx_emerg[q]
            /\ rx_used' = [rx_used EXCEPT ![q] = 0]
            /\ rx_emerg' = [rx_emerg EXCEPT ![q] = 0]
            /\ Goto(q, "post")
       ELSE /\ rx_used' = [rx_used EXCEPT ![q] = @ + 1]
            /\ Goto(q, "claim")
            /\ UNCHANGED <<rbd_empty, rx_emerg>>
    /\ UNCHANGED <<enabled, ring, visible, rx_free, emergency, count,
                   rb_pending_alloc, rbd_allocated, req_pending, req_ready,
                   queued, work>>

\* atomic_inc(&rba->req_pending)
PostRequest(q) ==
    /\ pc[q] = "post"
    /\ req_pending' = req_pending + 1
    /\ Goto(q, "kick")
    /\ UNCHANGED <<enabled, rings, avail, emergency, count, rb_pending_alloc,
                   rbd_empty, rbd_allocated, req_ready, queued, work>>

\* queue_work, which does nothing if the work is already queued
QueueWork(q) ==
    /\ pc[q] = "kick"
    /\ queued' = TRUE
    /\ Goto(q, "claim")
    /\ UNCHANGED <<enabled, rings, avail, emergency, count, rb_pending_alloc,
                   rba, work>>

\* Mutant: a queue claims without having given up a whole batch.
ClaimAnyTime(q) ==
    /\ pc[q] = "claim"
    /\ IF req_ready > 0
       THEN req_ready' = req_ready - 1 /\ Goto(q, "take")
       ELSE Goto(q, "tail") /\ UNCHANGED req_ready
    /\ UNCHANGED <<enabled, rings, avail, emergency, count, rb_pending_alloc,
                   rbd_empty, rbd_allocated, req_pending, queued, work>>

\* iwl_pcie_rx_allocator_get: atomic_dec_if_positive(&rba->req_ready)
Claim(q) ==
    /\ pc[q] = "claim"
    /\ IF used_count[q] >= RX_CLAIM_REQ_ALLOC /\ req_ready > 0
       THEN req_ready' = req_ready - 1 /\ Goto(q, "take")
       ELSE Goto(q, "tail") /\ UNCHANGED req_ready
    /\ UNCHANGED <<enabled, rings, avail, emergency, count, rb_pending_alloc,
                   rbd_empty, rbd_allocated, req_pending, queued, work>>

\* Mutant: used_count keeps counting the RBDs that came back.
TakeWithoutUncounting(q) ==
    /\ pc[q] = "take"
    /\ rbd_allocated' = rbd_allocated - RX_CLAIM_REQ_ALLOC
    /\ rx_free' = [rx_free EXCEPT ![q] = @ + RX_CLAIM_REQ_ALLOC]
    /\ Goto(q, "tail")
    /\ UNCHANGED <<enabled, ring, visible, closed, rx_used, rx_emerg, avail,
                   used_count, emergency, count, rb_pending_alloc, rbd_empty,
                   req_pending, req_ready, queued, work>>

\* iwl_pcie_rx_allocator_get: take the 8 RBDs of the claimed request
TakeAllocated(q) ==
    /\ pc[q] = "take"
    /\ rbd_allocated' = rbd_allocated - RX_CLAIM_REQ_ALLOC
    /\ rx_free' = [rx_free EXCEPT ![q] = @ + RX_CLAIM_REQ_ALLOC]
    /\ used_count' = [used_count EXCEPT ![q] = @ - RX_CLAIM_REQ_ALLOC]
    /\ Goto(q, "tail")
    /\ UNCHANGED <<enabled, ring, visible, closed, rx_used, rx_emerg, avail,
                   emergency, count, rb_pending_alloc, rbd_empty, req_pending,
                   req_ready, queued, work>>

\* End of the loop body outside emergency mode.
LoopTail(q) ==
    /\ pc[q] = "tail"
    /\ ~emergency[q]
    /\ Goto(q, "loop")
    /\ IF used_count[q] % RX_CLAIM_REQ_ALLOC = 0
       THEN MoveToAllocator(q)
       ELSE UNCHANGED <<rbd_empty, rx_used, rx_emerg>>
    /\ UNCHANGED <<enabled, ring, visible, closed, rx_free, used_count, avail,
                   emergency, count, rb_pending_alloc, rbd_allocated,
                   req_pending, req_ready, queued, work>>

\* iwl_pcie_rxq_alloc_rbs(GFP_ATOMIC) and iwl_pcie_rxq_restock.  It is called
\* in emergency mode, when rx_used holds no counted RBD.
AllocAndRestock(q) ==
    \E n \in Allocated(rx_emerg[q], AtomicMayFail) :
        /\ rx_emerg' = [rx_emerg EXCEPT ![q] = @ - n]
        /\ Restock(q, rx_free[q] + n)

\* End of the loop body in emergency mode: every 8th RB, allocate on the spot,
\* restock and start over; the mode ends when few requests were pending.
EmergencyTail(q) ==
    /\ pc[q] = "tail"
    /\ emergency[q]
    /\ Goto(q, "loop")
    /\ count' = [count EXCEPT ![q] = (@ + 1) % EmergencyBatch]
    /\ IF count[q] + 1 = EmergencyBatch
       THEN /\ emergency' = [emergency EXCEPT
                  ![q] = ~(rb_pending_alloc[q] < QueueSize \div 3)]
            /\ avail' = [avail EXCEPT ![q] = closed[q]]
            /\ AllocAndRestock(q)
       ELSE UNCHANGED <<emergency, avail, ring, visible, rx_free, rx_emerg>>
    /\ UNCHANGED <<enabled, closed, rx_used, used_count, rb_pending_alloc, rba,
                   queued, work>>

\* Mutant: an exit outside emergency mode does not restock the ring.
PollDoneNoRestock(q) ==
    /\ pc[q] = "loop"
    /\ Goto(q, "idle")
    /\ avail' = [avail EXCEPT ![q] = 0]
    /\ emergency' = [emergency EXCEPT ![q] = FALSE]
    /\ count' = [count EXCEPT ![q] = 0]
    /\ rb_pending_alloc' = [rb_pending_alloc EXCEPT ![q] = 0]
    /\ IF emergency[q] /\ count[q] > 0
       THEN AllocAndRestock(q)
       ELSE UNCHANGED <<ring, visible, rx_free, rx_emerg>>
    /\ UNCHANGED <<enabled, closed, rx_used, used_count, rba, queued, work>>

\* `out': all closed RBs handled, or (with some left) the budget is spent.
PollDone(q) ==
    /\ pc[q] = "loop"
    /\ Goto(q, "idle")
    /\ avail' = [avail EXCEPT ![q] = 0]
    /\ emergency' = [emergency EXCEPT ![q] = FALSE]
    /\ count' = [count EXCEPT ![q] = 0]
    /\ rb_pending_alloc' = [rb_pending_alloc EXCEPT ![q] = 0]
    /\ IF emergency[q] /\ count[q] > 0
       THEN AllocAndRestock(q)
       ELSE Restock(q, rx_free[q]) /\ UNCHANGED rx_emerg
    /\ UNCHANGED <<enabled, closed, rx_used, used_count, rba, queued, work>>

----------------------------------------------------------------------------
(* iwl_pcie_rx_allocator, the work item *)

\* The work starts; it may be queued again from now on.
WorkStart ==
    /\ apc = "idle"
    /\ queued
    /\ queued' = FALSE
    /\ pending' = req_pending
    /\ apc' = "swap"
    /\ UNCHANGED <<enabled, rings, poller, rba, local_empty>>

\* list_replace_init(&rba->rbd_empty, &local_empty)
SwapEmpty ==
    /\ apc = "swap"
    /\ local_empty' = rbd_empty
    /\ rbd_empty' = 0
    /\ apc' = "while"
    /\ UNCHANGED <<enabled, rings, poller, rbd_allocated, req_pending,
                   req_ready, queued, pending>>

\* The for loop: pages for 8 RBDs of local_empty, each allocation repeated
\* until it succeeds.  Only local lists are touched, so it is one step.
AllocatePages ==
    /\ apc = "while"
    /\ pending > 0
    /\ local_empty' = local_empty - RX_CLAIM_REQ_ALLOC
    /\ apc' = "dec"
    /\ UNCHANGED <<enabled, rings, poller, rba, queued, pending>>

\* atomic_dec(&rba->req_pending); pending--
DecPending ==
    /\ apc = "dec"
    /\ req_pending' = req_pending - 1
    /\ pending' = pending - 1
    /\ apc' = IF pending' = 0 THEN "reread" ELSE "splice"
    /\ UNCHANGED <<enabled, rings, poller, rbd_empty, rbd_allocated, req_ready,
                   queued, local_empty>>

\* pending = atomic_read(&rba->req_pending)
RereadPending ==
    /\ apc = "reread"
    /\ pending' = req_pending
    /\ apc' = "splice"
    /\ UNCHANGED <<enabled, rings, poller, rba, queued, local_empty>>

\* Mutant: one RBD of the batch is not published.
SpliceOneShort ==
    /\ apc = "splice"
    /\ rbd_allocated' = rbd_allocated + RX_CLAIM_REQ_ALLOC - 1
    /\ local_empty' = local_empty + rbd_empty + 1
    /\ rbd_empty' = 0
    /\ apc' = "ready"
    /\ UNCHANGED <<enabled, rings, poller, req_pending, req_ready, queued,
                   pending>>

\* Under rba->lock: publish the 8 RBDs, take over the new empty ones.
SpliceAllocated ==
    /\ apc = "splice"
    /\ rbd_allocated' = rbd_allocated + RX_CLAIM_REQ_ALLOC
    /\ local_empty' = local_empty + rbd_empty
    /\ rbd_empty' = 0
    /\ apc' = "ready"
    /\ UNCHANGED <<enabled, rings, poller, req_pending, req_ready, queued,
                   pending>>

\* atomic_inc(&rba->req_ready)
IncReady ==
    /\ apc = "ready"
    /\ req_ready' = req_ready + 1
    /\ apc' = "while"
    /\ UNCHANGED <<enabled, rings, poller, rbd_empty, rbd_allocated,
                   req_pending, queued, pending, local_empty>>

\* No request left: the unused RBDs go back to rbd_empty.
WorkDone ==
    /\ apc = "while"
    /\ pending = 0
    /\ rbd_empty' = rbd_empty + local_empty
    /\ local_empty' = 0
    /\ apc' = "idle"
    /\ UNCHANGED <<enabled, rings, poller, rbd_allocated, req_pending,
                   req_ready, queued, pending>>

----------------------------------------------------------------------------
Device ==
    \/ \E p, q \in Queues : DeviceClosesRb(p, q)
    \/ StopDevice
    \/ StartDevice

Poller(q) ==
    \/ Poll(q) \/ LoopHead(q) \/ RbReused(q) \/ RbStolenEmergency(q)
    \/ RbStolen(q) \/ PostRequest(q) \/ QueueWork(q) \/ Claim(q)
    \/ TakeAllocated(q) \/ LoopTail(q) \/ EmergencyTail(q) \/ PollDone(q)

Allocator ==
    \/ WorkStart \/ SwapEmpty \/ AllocatePages \/ DecPending \/ RereadPending
    \/ SpliceAllocated \/ IncReady \/ WorkDone

Next == Device \/ Allocator \/ \E q \in Queues : Poller(q)

Spec == Init /\ [][Next]_vars

(***************************************************************************)
(* Fairness: the workqueue runs a queued work and the work always goes on  *)
(* (a failed page allocation is retried until it succeeds); the kernel     *)
(* polls a queue with closed RBs and a poll always goes on.  When the page *)
(* was handed to the stack or not is the frame's choice, and so is the     *)
(* device's: neither is fair.                                              *)
(***************************************************************************)
Fairness ==
    /\ WF_vars(Allocator)
    /\ \A q \in Queues : WF_vars(Poller(q))

FairSpec == Spec /\ Fairness

----------------------------------------------------------------------------
(* Properties *)

PollerStates ==
    {"idle", "loop", "rb", "post", "kick", "claim", "take", "tail"}
WorkStates ==
    {"idle", "swap", "while", "dec", "reread", "splice", "ready"}

\* Every length is a natural number: no list is taken from when it is empty.
TypeOK ==
    /\ enabled \in BOOLEAN /\ queued \in BOOLEAN
    /\ ring \in [Queues -> Nat] /\ visible \in [Queues -> Nat]
    /\ closed \in [Queues -> Nat] /\ rx_free \in [Queues -> Nat]
    /\ rx_used \in [Queues -> Nat] /\ rx_emerg \in [Queues -> Nat]
    /\ used_count \in [Queues -> Nat]
    /\ pc \in [Queues -> PollerStates] /\ avail \in [Queues -> Nat]
    /\ emergency \in [Queues -> BOOLEAN] /\ count \in [Queues -> 0 .. (EmergencyBatch - 1)]
    /\ rb_pending_alloc \in [Queues -> Nat]
    /\ rbd_empty \in Nat /\ rbd_allocated \in Nat
    /\ req_pending \in Nat /\ req_ready \in Nat
    /\ apc \in WorkStates /\ pending \in Nat /\ local_empty \in Nat

\* BUG_ON(list_empty(&local_empty)) in iwl_pcie_rx_allocator never fires: the
\* RBDs a request was posted with and the initial pool always suffice for the
\* 8 pages of the request being served, whatever the pollers have not yet
\* handed over.
LocalEmptyCoversRequest ==
    apc = "while" /\ pending > 0 => local_empty >= RX_CLAIM_REQ_ALLOC

\* The pollers that claimed a request in iwl_pcie_rx_allocator_get.
Takers == {q \in Queues : pc[q] = "take"}

\* iwl_pcie_rx_allocator_get takes 8 entries of rbd_allocated with no check:
\* req_ready never promises more than the list holds, even with several
\* queues between their decrement and rba->lock.
ClaimsAreCovered ==
    rbd_allocated >= RX_CLAIM_REQ_ALLOC * (req_ready + Cardinality(Takers))

\* iwl_pcie_rxmq_restock does not check for space, and a ring with QueueSize
\* entries looks empty: no queue ever collects that many RBDs, neither in
\* its free table nor in its table of closed RBs.
RingsNeverFull ==
    \A q \in Queues : ring[q] < QueueSize /\ closed[q] < QueueSize

\* A device that ran out of buffers gets new ones, by itself: from the
\* requests in flight or from the emergency allocations.
StarvedDeviceRestocked ==
    (\A q \in Queues : visible[q] = 0)
        ~> ((\E q \in Queues : visible[q] > 0) \/ ~enabled)
============================================================================
