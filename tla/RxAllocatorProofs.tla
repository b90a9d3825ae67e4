------------------------- MODULE RxAllocatorProofs -------------------------
(***************************************************************************)
(* Proofs about RxAllocator, for any number of queues, any ring size and   *)
(* any batch sizes, with page allocations free to fail:                    *)
(*                                                                         *)
(*   RxTypeCorrect       no list is ever taken from when it is empty       *)
(*   RxNeverOutOfRbds    the BUG_ON of iwl_pcie_rx_allocator cannot fire   *)
(*   RxClaimsAreCovered  a claim always finds the RBDs it was promised     *)
(*   RxRingsNeverFull    restocking without a space check is safe          *)
(*                                                                         *)
(* The inductive invariant is an account of RBDs.  The allocator holds at  *)
(* least RX_CLAIM_REQ_ALLOC empty RBDs for each pending request, plus the  *)
(* slack of every queue: the part of the pool the queue's open request has *)
(* not drawn.  The sums over the queues are those of module Counting.      *)
(***************************************************************************)
EXTENDS RxAllocator, Counting

\* How far q is into its current group of RX_CLAIM_REQ_ALLOC counted RBDs.
InGroup(q) == used_count[q] % RX_CLAIM_REQ_ALLOC

\* What is left of q's share of the pool.  A queue starts with the difference
\* of the batch sizes, adds the RBDs it hands over and draws a whole batch
\* when its request is posted (here: once req_pending was incremented).
SlackOf(q) ==
    IF InGroup(q) < RX_POST_REQ_ALLOC
    THEN RX_CLAIM_REQ_ALLOC - RX_POST_REQ_ALLOC + InGroup(q) - rx_used[q]
    ELSE InGroup(q) - RX_POST_REQ_ALLOC - rx_used[q]
         + (IF pc[q] = "post" THEN RX_CLAIM_REQ_ALLOC ELSE 0)
Slack == [q \in Queues |-> SlackOf(q)]
TotalSlack == SumOver(Queues, Slack, RX_CLAIM_REQ_ALLOC)

\* RBDs the allocator may still give a page to, or just did.
EmptyRbds ==
    rbd_empty + local_empty + (IF apc = "dec" THEN RX_CLAIM_REQ_ALLOC ELSE 0)

\* RBDs that circulate through q, those it lent the allocator included.
Circulating ==
    [q \in Queues |->
        ring[q] + closed[q] + rx_free[q] + rx_emerg[q] + used_count[q]]
TotalCirculating == SumOver(Queues, Circulating, QueueSize)

\* The lists of one queue and where its poller is.
PollerInv ==
    \A q \in Queues :
        /\ visible[q] <= ring[q]
        /\ avail[q] <= closed[q]
        /\ pc[q] = "rb" => avail[q] > 0
        /\ pc[q] = "take" => used_count[q] >= RX_CLAIM_REQ_ALLOC
        /\ emergency[q] => rx_used[q] = 0
        /\ pc[q] \in {"post", "kick"} => ~emergency[q]
        /\ pc[q] = "post" =>
              InGroup(q) = RX_POST_REQ_ALLOC /\ rx_used[q] = 0
        /\ pc[q] = "idle" => avail[q] = 0 /\ ~emergency[q]

\* The counted RBDs a queue has not handed over yet.
GroupInv ==
    \A q \in Queues :
        /\ InGroup(q) >= RX_POST_REQ_ALLOC =>
              rx_used[q] <= InGroup(q) - RX_POST_REQ_ALLOC
        /\ 0 < InGroup(q) /\ InGroup(q) < RX_POST_REQ_ALLOC =>
              rx_used[q] <= InGroup(q)
        /\ InGroup(q) = 0 =>
              rx_used[q] <= RX_CLAIM_REQ_ALLOC - RX_POST_REQ_ALLOC
        /\ InGroup(q) = 0 /\ rx_used[q] > 0 =>
              pc[q] \in {"claim", "take", "tail"} /\ ~emergency[q]

\* The allocator's local copies.
WorkInv ==
    /\ apc \in {"idle", "swap"} => local_empty = 0
    /\ apc = "idle" => pending = 0
    /\ pending <= req_pending
    /\ apc = "dec" =>
          pending > 0 /\ local_empty >= RX_CLAIM_REQ_ALLOC * (pending - 1)
    /\ apc \in {"while", "ready"} => local_empty >= RX_CLAIM_REQ_ALLOC * pending
    /\ apc = "splice" =>
          local_empty + rbd_empty >= RX_CLAIM_REQ_ALLOC * pending

\* The allocator's account of empty RBDs.
CreditInv == EmptyRbds >= RX_CLAIM_REQ_ALLOC * req_pending + TotalSlack

\* Its account of RBDs with a page.
ReadyInv ==
    rbd_allocated = RX_CLAIM_REQ_ALLOC *
        (req_ready + Cardinality(Takers) + (IF apc = "ready" THEN 1 ELSE 0))

\* The queues' account.
CirculationInv ==
    /\ \A q \in Queues : Circulating[q] <= QueueSize - 1
    /\ TotalCirculating <= QueueSize - 1

IInv ==
    /\ TypeOK
    /\ PollerInv
    /\ GroupInv
    /\ WorkInv
    /\ CreditInv
    /\ ReadyInv
    /\ CirculationInv

-----------------------------------------------------------------------------
USE QueuesAssumption, QueueSizeAssumption, BatchAssumption,
    MaxClosedAssumption, MayFailAssumption

(***************************************************************************)
(* Facts about single operators                                            *)
(***************************************************************************)

\* The position in a group is a remainder, and moves by one.
LEMMA InGroupFacts ==
    ASSUME TypeOK, NEW q \in Queues
    PROVE  /\ InGroup(q) \in 0 .. (RX_CLAIM_REQ_ALLOC - 1)
           /\ (used_count[q] + 1) % RX_CLAIM_REQ_ALLOC =
                 IF InGroup(q) + 1 = RX_CLAIM_REQ_ALLOC
                 THEN 0 ELSE InGroup(q) + 1
           /\ used_count[q] >= RX_CLAIM_REQ_ALLOC =>
                 (used_count[q] - RX_CLAIM_REQ_ALLOC) % RX_CLAIM_REQ_ALLOC
                    = InGroup(q)
<1>1. used_count[q] \in Nat /\ RX_CLAIM_REQ_ALLOC \in Nat \ {0}
  BY DEF TypeOK
<1>. QED  BY <1>1, DivMod, ModInc, ModSub DEF InGroup

\* iwl_pcie_rxmq_restock keeps the lengths of the lists natural numbers, and
\* what leaves rx_free enters the ring.
LEMMA RestockFacts ==
    ASSUME TypeOK, PollerInv, NEW q \in Queues, NEW free \in Nat,
           Restock(q, free)
    PROVE  /\ ring' \in [Queues -> Nat]
           /\ visible' \in [Queues -> Nat]
           /\ rx_free' \in [Queues -> Nat]
           /\ \A p \in Queues \ {q} :
                 ring'[p] = ring[p] /\ rx_free'[p] = rx_free[p]
           /\ ring'[q] + rx_free'[q] = ring[q] + free
<1>1. ring[q] \in Nat /\ visible[q] \in Nat /\ visible[q] <= ring[q]
  BY DEF TypeOK, PollerInv
<1>. DEFINE d == ring[q] + free - visible[q]
<1>2. d \in Nat  BY <1>1
<1>3. d % WrAlign \in Nat /\ d % WrAlign <= d  BY <1>2, ModAtMost
<1>4. ring[q] + free - (d % WrAlign) \in Nat  BY <1>1, <1>3
<1>. HIDE DEF d
<1>5. CASE enabled
  BY <1>1, <1>4, <1>5 DEF Restock, TypeOK, d
<1>6. CASE ~enabled
  BY <1>6 DEF Restock, TypeOK
<1>. QED  BY <1>5, <1>6

\* The same of allocation and restocking together.
LEMMA AllocAndRestockFacts ==
    ASSUME TypeOK, PollerInv, NEW q \in Queues, AllocAndRestock(q)
    PROVE  /\ ring' \in [Queues -> Nat]
           /\ visible' \in [Queues -> Nat]
           /\ rx_free' \in [Queues -> Nat]
           /\ rx_emerg' \in [Queues -> Nat]
           /\ \A p \in Queues \ {q} :
                 /\ ring'[p] = ring[p] /\ rx_free'[p] = rx_free[p]
                 /\ rx_emerg'[p] = rx_emerg[p]
           /\ ring'[q] + rx_free'[q] + rx_emerg'[q]
                 = ring[q] + rx_free[q] + rx_emerg[q]
<1>1. PICK n \in Allocated(rx_emerg[q], AtomicMayFail) :
         /\ rx_emerg' = [rx_emerg EXCEPT ![q] = @ - n]
         /\ Restock(q, rx_free[q] + n)
  BY DEF AllocAndRestock
<1>2. n \in Nat /\ n <= rx_emerg[q] /\ rx_emerg[q] \in Nat /\ rx_free[q] \in Nat
  BY DEF Allocated, TypeOK
<1>3. rx_free[q] + n \in Nat  BY <1>2
<1>4. /\ rx_emerg' \in [Queues -> Nat]
      /\ rx_emerg'[q] = rx_emerg[q] - n
      /\ \A p \in Queues \ {q} : rx_emerg'[p] = rx_emerg[p]
  BY <1>1, <1>2 DEF TypeOK
<1>5. /\ ring' \in [Queues -> Nat]
      /\ visible' \in [Queues -> Nat]
      /\ rx_free' \in [Queues -> Nat]
      /\ \A p \in Queues \ {q} :
            ring'[p] = ring[p] /\ rx_free'[p] = rx_free[p]
      /\ ring'[q] + rx_free'[q] = ring[q] + (rx_free[q] + n)
  BY <1>1, <1>3, RestockFacts
<1>6. ring[q] \in Nat /\ ring'[q] \in Nat /\ rx_free'[q] \in Nat
  BY <1>5 DEF TypeOK
<1>. QED  BY <1>2, <1>4, <1>5, <1>6

\* Numbers of _iwl_pcie_rx_init.
LEMMA InitFacts ==
    /\ PoolSize \in Nat
    /\ \A n \in Nat : n - (n % WrAlign) \in Nat /\ n - (n % WrAlign) <= n
    /\ \A n \in Allocated(QueueSize - 1, InitMayFail) :
          n \in Nat /\ QueueSize - 1 - n \in Nat
<1>1. Cardinality(Queues) \in Nat  BY FS_CardinalityType
<1>2. PoolSize \in Nat
  <2>1. RX_CLAIM_REQ_ALLOC - RX_POST_REQ_ALLOC \in Nat  OBVIOUS
  <2>. QED  BY <1>1, <2>1, TimesMono DEF PoolSize
<1>3. ASSUME NEW n \in Nat
      PROVE  n - (n % WrAlign) \in Nat /\ n - (n % WrAlign) <= n
  BY ModAtMost
<1>4. \A n \in Allocated(QueueSize - 1, InitMayFail) :
          n \in Nat /\ QueueSize - 1 - n \in Nat
  BY DEF Allocated
<1>. QED  BY <1>2, <1>3, <1>4

\* Claiming pollers are finitely many.
LEMMA TakersFinite ==
    /\ IsFiniteSet(Takers)
    /\ Cardinality(Takers) \in Nat
<1>1. Takers \in SUBSET Queues  BY DEF Takers
<1>. QED  BY <1>1, FS_Subset, FS_CardinalityType

\* A poller in "take" finds a whole batch.
LEMMA TakeFindsBatch ==
    ASSUME TypeOK, ReadyInv, NEW q \in Queues, pc[q] = "take"
    PROVE  rbd_allocated >= RX_CLAIM_REQ_ALLOC
<1>1. q \in Takers  BY DEF Takers
<1>2. Cardinality(Takers) # 0  BY <1>1, TakersFinite, FS_EmptySet
<1>. DEFINE k == req_ready + Cardinality(Takers)
                 + (IF apc = "ready" THEN 1 ELSE 0)
<1>3. k \in Nat /\ 1 <= k  BY <1>2, TakersFinite DEF TypeOK
<1>4. RX_CLAIM_REQ_ALLOC * 1 <= RX_CLAIM_REQ_ALLOC * k
  <2>. HIDE DEF k
  <2>. QED  BY <1>3, TimesMono
<1>. QED  BY <1>4 DEF ReadyInv

\* The slack of a queue lies between nothing and a whole batch.
LEMMA SlackType ==
    TypeOK /\ PollerInv /\ GroupInv =>
        Slack \in [Queues -> 0 .. RX_CLAIM_REQ_ALLOC]
<1>. SUFFICES ASSUME TypeOK, PollerInv, GroupInv, NEW q \in Queues
              PROVE  SlackOf(q) \in 0 .. RX_CLAIM_REQ_ALLOC
  BY DEF Slack
<1>2. InGroup(q) \in 0 .. (RX_CLAIM_REQ_ALLOC - 1)  BY InGroupFacts
<1>3. rx_used[q] \in Nat  BY DEF TypeOK
<1>4. /\ InGroup(q) >= RX_POST_REQ_ALLOC =>
            rx_used[q] <= InGroup(q) - RX_POST_REQ_ALLOC
      /\ 0 < InGroup(q) /\ InGroup(q) < RX_POST_REQ_ALLOC =>
            rx_used[q] <= InGroup(q)
      /\ InGroup(q) = 0 =>
            rx_used[q] <= RX_CLAIM_REQ_ALLOC - RX_POST_REQ_ALLOC
      /\ pc[q] = "post" => InGroup(q) = RX_POST_REQ_ALLOC /\ rx_used[q] = 0
  BY DEF GroupInv, PollerInv
<1>. QED  BY <1>2, <1>3, <1>4 DEF SlackOf

\* So the total is a natural number.
LEMMA TotalSlackType ==
    TotalSlack \in Nat
BY SumType DEF TotalSlack

\* BUG_ON(list_empty(&local_empty)): a whole batch is there for the request.
LEMMA WorkFindsBatch ==
    ASSUME TypeOK, WorkInv
    PROVE  LocalEmptyCoversRequest
<1>1. SUFFICES ASSUME apc = "while", pending > 0
               PROVE  local_empty >= RX_CLAIM_REQ_ALLOC
  BY DEF LocalEmptyCoversRequest
<1>2. local_empty >= RX_CLAIM_REQ_ALLOC * pending  BY <1>1 DEF WorkInv
<1>3. RX_CLAIM_REQ_ALLOC * 1 <= RX_CLAIM_REQ_ALLOC * pending
      /\ RX_CLAIM_REQ_ALLOC * pending \in Nat
  BY <1>1, TimesMono DEF TypeOK
<1>. QED  BY <1>2, <1>3 DEF TypeOK

-----------------------------------------------------------------------------
(***************************************************************************)
(* Every step preserves each part of the invariant                         *)
(***************************************************************************)

\* No list is taken from when it is empty.
LEMMA TypeStep ==
    ASSUME IInv, [Next]_vars
    PROVE  TypeOK'
<1>1. CASE UNCHANGED vars
  BY <1>1
  DEF vars, rings, poller, rba, work, IInv, TypeOK, PollerInv, WorkInv, PollerStates, WorkStates
<1>2. ASSUME NEW p \in Queues, NEW q \in Queues, DeviceClosesRb(p, q) PROVE TypeOK'
  BY <1>2
  DEF DeviceClosesRb, rings, poller, rba, work, IInv, TypeOK, PollerInv, WorkInv, PollerStates, WorkStates
<1>3. CASE StopDevice
  BY <1>3
  DEF StopDevice, rings, poller, rba, work, IInv, TypeOK, PollerInv, WorkInv, PollerStates, WorkStates
<1>4. CASE StartDevice
  <2>1. PICK n \in Allocated(QueueSize - 1, InitMayFail) : ReInit(n)
    BY <1>4 DEF StartDevice
  <2>2. /\ n \in Nat /\ QueueSize - 1 - n \in Nat
        /\ n - (n % WrAlign) \in Nat /\ PoolSize \in Nat
    BY InitFacts
  <2>. QED
    BY <1>4, <2>1, <2>2
    DEF StartDevice, ReInit, Only, Zero, poller, work, IInv, TypeOK
<1>5. ASSUME NEW q \in Queues, Poll(q) PROVE TypeOK'
  BY <1>5
  DEF Poll, Goto, rings, poller, rba, work, IInv, TypeOK, PollerInv, WorkInv, PollerStates, WorkStates
<1>6. ASSUME NEW q \in Queues, LoopHead(q) PROVE TypeOK'
  BY <1>6
  DEF LoopHead, Goto, MoveToAllocator, rings, poller, rba, work, IInv, TypeOK, PollerInv, WorkInv, PollerStates, WorkStates
<1>7. ASSUME NEW q \in Queues, RbReused(q) PROVE TypeOK'
  BY <1>7
  DEF RbReused, Goto, NextRb, rings, poller, rba, work, IInv, TypeOK, PollerInv, WorkInv, PollerStates, WorkStates
<1>8. ASSUME NEW q \in Queues, RbStolenEmergency(q) PROVE TypeOK'
  BY <1>8
  DEF RbStolenEmergency, Goto, NextRb, rings, poller, rba, work, IInv, TypeOK, PollerInv, WorkInv, PollerStates, WorkStates
<1>9. ASSUME NEW q \in Queues, RbStolen(q) PROVE TypeOK'
  BY <1>9
  DEF RbStolen, Goto, NextRb, rings, poller, rba, work, IInv, TypeOK, PollerInv, WorkInv, PollerStates, WorkStates
<1>10. ASSUME NEW q \in Queues, PostRequest(q) PROVE TypeOK'
  BY <1>10
  DEF PostRequest, Goto, rings, poller, rba, work, IInv, TypeOK, PollerInv, WorkInv, PollerStates, WorkStates
<1>11. ASSUME NEW q \in Queues, QueueWork(q) PROVE TypeOK'
  BY <1>11
  DEF QueueWork, Goto, rings, poller, rba, work, IInv, TypeOK, PollerInv, WorkInv, PollerStates, WorkStates
<1>12. ASSUME NEW q \in Queues, Claim(q) PROVE TypeOK'
  BY <1>12
  DEF Claim, Goto, rings, poller, rba, work, IInv, TypeOK, PollerInv, WorkInv, PollerStates, WorkStates
<1>13. ASSUME NEW q \in Queues, TakeAllocated(q) PROVE TypeOK'
  <2>1. rbd_allocated - RX_CLAIM_REQ_ALLOC \in Nat
    BY <1>13, TakeFindsBatch DEF TakeAllocated, IInv, TypeOK
  <2>. QED
    BY <1>13, <2>1
    DEF TakeAllocated, Goto, poller, work, IInv, TypeOK, PollerInv,
        PollerStates
<1>14. ASSUME NEW q \in Queues, LoopTail(q) PROVE TypeOK'
  BY <1>14
  DEF LoopTail, Goto, MoveToAllocator, rings, poller, rba, work, IInv, TypeOK, PollerInv, WorkInv, PollerStates, WorkStates
<1>15. ASSUME NEW q \in Queues, EmergencyTail(q) PROVE TypeOK'
  <2>1. /\ ring' \in [Queues -> Nat] /\ visible' \in [Queues -> Nat]
        /\ rx_free' \in [Queues -> Nat] /\ rx_emerg' \in [Queues -> Nat]
    BY <1>15, AllocAndRestockFacts DEF EmergencyTail, IInv, TypeOK
  <2>2. (count[q] + 1) % EmergencyBatch \in 0 .. (EmergencyBatch - 1)
    BY DivMod, count[q] + 1 \in Nat DEF IInv, TypeOK
  <2>. QED
    BY <1>15, <2>1, <2>2
    DEF EmergencyTail, Goto, rba, work, IInv, TypeOK, PollerStates
<1>16. ASSUME NEW q \in Queues, PollDone(q) PROVE TypeOK'
  <2>1. /\ ring' \in [Queues -> Nat] /\ visible' \in [Queues -> Nat]
        /\ rx_free' \in [Queues -> Nat] /\ rx_emerg' \in [Queues -> Nat]
    <3>1. rx_free[q] \in Nat  BY DEF IInv, TypeOK
    <3>. QED
      BY <1>16, <3>1, RestockFacts, AllocAndRestockFacts
      DEF PollDone, IInv, TypeOK
  <2>2. /\ pc' = [pc EXCEPT ![q] = "idle"] /\ avail' = [avail EXCEPT ![q] = 0]
        /\ emergency' = [emergency EXCEPT ![q] = FALSE]
        /\ count' = [count EXCEPT ![q] = 0]
        /\ rb_pending_alloc' = [rb_pending_alloc EXCEPT ![q] = 0]
        /\ UNCHANGED <<enabled, closed, rx_used, used_count, rba, queued, work>>
    BY <1>16 DEF PollDone, Goto
  <2>. QED
    BY <2>1, <2>2 DEF rba, work, IInv, TypeOK, PollerStates
<1>17. CASE WorkStart
  BY <1>17
  DEF WorkStart, rings, poller, rba, work, IInv, TypeOK, PollerInv, WorkInv, PollerStates, WorkStates
<1>18. CASE SwapEmpty
  BY <1>18
  DEF SwapEmpty, rings, poller, rba, work, IInv, TypeOK, PollerInv, WorkInv, PollerStates, WorkStates
<1>19. CASE AllocatePages
  <2>1. local_empty - RX_CLAIM_REQ_ALLOC \in Nat
    BY <1>19, WorkFindsBatch
    DEF AllocatePages, LocalEmptyCoversRequest, IInv, TypeOK
  <2>. QED
    BY <1>19, <2>1
    DEF AllocatePages, rings, poller, rba, IInv, TypeOK, WorkStates
<1>20. CASE DecPending
  BY <1>20
  DEF DecPending, rings, poller, rba, work, IInv, TypeOK, PollerInv, WorkInv, PollerStates, WorkStates
<1>21. CASE RereadPending
  BY <1>21
  DEF RereadPending, rings, poller, rba, work, IInv, TypeOK, PollerInv, WorkInv, PollerStates, WorkStates
<1>22. CASE SpliceAllocated
  BY <1>22
  DEF SpliceAllocated, rings, poller, rba, work, IInv, TypeOK, PollerInv, WorkInv, PollerStates, WorkStates
<1>23. CASE IncReady
  BY <1>23
  DEF IncReady, rings, poller, rba, work, IInv, TypeOK, PollerInv, WorkInv, PollerStates, WorkStates
<1>24. CASE WorkDone
  BY <1>24
  DEF WorkDone, rings, poller, rba, work, IInv, TypeOK, PollerInv, WorkInv, PollerStates, WorkStates
<1>. QED
  BY <1>1, <1>2, <1>3, <1>4, <1>5, <1>6, <1>7, <1>8, <1>9, <1>10, <1>11, <1>12, <1>13, <1>14, <1>15, <1>16, <1>17, <1>18, <1>19, <1>20, <1>21, <1>22, <1>23, <1>24
  DEF Next, Device, Poller, Allocator

\* The pollers.
LEMMA PollerStep ==
    ASSUME IInv, [Next]_vars
    PROVE  PollerInv'
<1>1. CASE UNCHANGED vars
  BY <1>1
  DEF vars, rings, poller, rba, work, IInv, TypeOK, PollerInv, InGroup
<1>2. ASSUME NEW p \in Queues, NEW q \in Queues, DeviceClosesRb(p, q) PROVE PollerInv'
  BY <1>2
  DEF DeviceClosesRb, rings, poller, rba, work, IInv, TypeOK, PollerInv, InGroup
<1>3. CASE StopDevice
  BY <1>3
  DEF StopDevice, rings, poller, rba, work, IInv, TypeOK, PollerInv, InGroup
<1>4. CASE StartDevice
  BY <1>4
  DEF StartDevice, ReInit, Only, Zero, Allocated, PoolSize, rings, poller, rba, work, IInv, TypeOK, PollerInv, InGroup
<1>5. ASSUME NEW q \in Queues, Poll(q) PROVE PollerInv'
  BY <1>5
  DEF Poll, Goto, rings, poller, rba, work, IInv, TypeOK, PollerInv, InGroup
<1>6. ASSUME NEW q \in Queues, LoopHead(q) PROVE PollerInv'
  BY <1>6
  DEF LoopHead, Goto, MoveToAllocator, rings, poller, rba, work, IInv, TypeOK, PollerInv, InGroup
<1>7. ASSUME NEW q \in Queues, RbReused(q) PROVE PollerInv'
  BY <1>7
  DEF RbReused, Goto, NextRb, rings, poller, rba, work, IInv, TypeOK, PollerInv, InGroup
<1>8. ASSUME NEW q \in Queues, RbStolenEmergency(q) PROVE PollerInv'
  BY <1>8
  DEF RbStolenEmergency, Goto, NextRb, rings, poller, rba, work, IInv, TypeOK, PollerInv, InGroup
<1>9. ASSUME NEW q \in Queues, RbStolen(q) PROVE PollerInv'
  BY <1>9
  DEF RbStolen, Goto, NextRb, rings, poller, rba, work, IInv, TypeOK, PollerInv, InGroup
<1>10. ASSUME NEW q \in Queues, PostRequest(q) PROVE PollerInv'
  BY <1>10
  DEF PostRequest, Goto, rings, poller, rba, work, IInv, TypeOK, PollerInv, InGroup
<1>11. ASSUME NEW q \in Queues, QueueWork(q) PROVE PollerInv'
  BY <1>11
  DEF QueueWork, Goto, rings, poller, rba, work, IInv, TypeOK, PollerInv, InGroup
<1>12. ASSUME NEW q \in Queues, Claim(q) PROVE PollerInv'
  BY <1>12
  DEF Claim, Goto, rings, poller, rba, work, IInv, TypeOK, PollerInv, InGroup
<1>13. ASSUME NEW q \in Queues, TakeAllocated(q) PROVE PollerInv'
  BY <1>13
  DEF TakeAllocated, Goto, rings, poller, rba, work, IInv, TypeOK, PollerInv, InGroup
<1>14. ASSUME NEW q \in Queues, LoopTail(q) PROVE PollerInv'
  BY <1>14
  DEF LoopTail, Goto, MoveToAllocator, rings, poller, rba, work, IInv, TypeOK, PollerInv, InGroup
<1>15. ASSUME NEW q \in Queues, EmergencyTail(q) PROVE PollerInv'
  BY <1>15
  DEF EmergencyTail, Goto, AllocAndRestock, Allocated, Restock, rings, poller, rba, work, IInv, TypeOK, PollerInv, InGroup
<1>16. ASSUME NEW q \in Queues, PollDone(q) PROVE PollerInv'
  BY <1>16
  DEF PollDone, Goto, AllocAndRestock, Allocated, Restock, rings, poller, rba, work, IInv, TypeOK, PollerInv, InGroup
<1>17. CASE WorkStart
  BY <1>17
  DEF WorkStart, rings, poller, rba, work, IInv, TypeOK, PollerInv, InGroup
<1>18. CASE SwapEmpty
  BY <1>18
  DEF SwapEmpty, rings, poller, rba, work, IInv, TypeOK, PollerInv, InGroup
<1>19. CASE AllocatePages
  BY <1>19
  DEF AllocatePages, rings, poller, rba, work, IInv, TypeOK, PollerInv, InGroup
<1>20. CASE DecPending
  BY <1>20
  DEF DecPending, rings, poller, rba, work, IInv, TypeOK, PollerInv, InGroup
<1>21. CASE RereadPending
  BY <1>21
  DEF RereadPending, rings, poller, rba, work, IInv, TypeOK, PollerInv, InGroup
<1>22. CASE SpliceAllocated
  BY <1>22
  DEF SpliceAllocated, rings, poller, rba, work, IInv, TypeOK, PollerInv, InGroup
<1>23. CASE IncReady
  BY <1>23
  DEF IncReady, rings, poller, rba, work, IInv, TypeOK, PollerInv, InGroup
<1>24. CASE WorkDone
  BY <1>24
  DEF WorkDone, rings, poller, rba, work, IInv, TypeOK, PollerInv, InGroup
<1>. QED
  BY <1>1, <1>2, <1>3, <1>4, <1>5, <1>6, <1>7, <1>8, <1>9, <1>10, <1>11, <1>12, <1>13, <1>14, <1>15, <1>16, <1>17, <1>18, <1>19, <1>20, <1>21, <1>22, <1>23, <1>24
  DEF Next, Device, Poller, Allocator

\* The counted RBDs not handed over.
LEMMA GroupStep ==
    ASSUME IInv, [Next]_vars
    PROVE  GroupInv'
<1>1. CASE UNCHANGED vars
  BY <1>1
  DEF vars, rings, poller, rba, work, IInv, TypeOK, PollerInv, GroupInv, InGroup
<1>2. ASSUME NEW p \in Queues, NEW q \in Queues, DeviceClosesRb(p, q) PROVE GroupInv'
  BY <1>2
  DEF DeviceClosesRb, rings, poller, rba, work, IInv, TypeOK, PollerInv, GroupInv, InGroup
<1>3. CASE StopDevice
  BY <1>3
  DEF StopDevice, rings, poller, rba, work, IInv, TypeOK, PollerInv, GroupInv, InGroup
<1>4. CASE StartDevice
  BY <1>4
  DEF StartDevice, ReInit, Only, Zero, Allocated, PoolSize, rings, poller, rba, work, IInv, TypeOK, PollerInv, GroupInv, InGroup
<1>5. ASSUME NEW q \in Queues, Poll(q) PROVE GroupInv'
  BY <1>5
  DEF Poll, Goto, rings, poller, rba, work, IInv, TypeOK, PollerInv, GroupInv, InGroup
<1>6. ASSUME NEW q \in Queues, LoopHead(q) PROVE GroupInv'
  BY <1>6
  DEF LoopHead, Goto, MoveToAllocator, rings, poller, rba, work, IInv, TypeOK, PollerInv, GroupInv, InGroup
<1>7. ASSUME NEW q \in Queues, RbReused(q) PROVE GroupInv'
  BY <1>7
  DEF RbReused, Goto, NextRb, rings, poller, rba, work, IInv, TypeOK, PollerInv, GroupInv, InGroup
<1>8. ASSUME NEW q \in Queues, RbStolenEmergency(q) PROVE GroupInv'
  BY <1>8
  DEF RbStolenEmergency, Goto, NextRb, rings, poller, rba, work, IInv, TypeOK, PollerInv, GroupInv, InGroup
<1>9. ASSUME NEW q \in Queues, RbStolen(q) PROVE GroupInv'
  <2>1. /\ InGroup(q) \in 0 .. (RX_CLAIM_REQ_ALLOC - 1)
        /\ InGroup(q)' = IF InGroup(q) + 1 = RX_CLAIM_REQ_ALLOC
                         THEN 0 ELSE InGroup(q) + 1
        /\ used_count'[q] % RX_CLAIM_REQ_ALLOC = InGroup(q)'
    BY <1>9, InGroupFacts DEF RbStolen, InGroup, IInv, TypeOK
  <2>2. \A p \in Queues \ {q} :
          /\ InGroup(p)' = InGroup(p) /\ rx_used'[p] = rx_used[p]
          /\ pc'[p] = pc[p] /\ emergency'[p] = emergency[p]
    BY <1>9 DEF RbStolen, Goto, InGroup, IInv, TypeOK
  <2>3. /\ pc[q] = "rb" /\ ~emergency[q] /\ emergency'[q] = emergency[q]
        /\ rx_used[q] \in Nat
        /\ IF InGroup(q)' = RX_POST_REQ_ALLOC
           THEN rx_used'[q] = 0
           ELSE rx_used'[q] = rx_used[q] + 1 /\ pc'[q] = "claim"
    BY <1>9, <2>1 DEF RbStolen, Goto, IInv, TypeOK
  <2>. QED
    BY <2>1, <2>2, <2>3 DEF IInv, GroupInv
<1>10. ASSUME NEW q \in Queues, PostRequest(q) PROVE GroupInv'
  BY <1>10
  DEF PostRequest, Goto, rings, poller, rba, work, IInv, TypeOK, PollerInv, GroupInv, InGroup
<1>11. ASSUME NEW q \in Queues, QueueWork(q) PROVE GroupInv'
  BY <1>11
  DEF QueueWork, Goto, rings, poller, rba, work, IInv, TypeOK, PollerInv, GroupInv, InGroup
<1>12. ASSUME NEW q \in Queues, Claim(q) PROVE GroupInv'
  BY <1>12
  DEF Claim, Goto, rings, poller, rba, work, IInv, TypeOK, PollerInv, GroupInv, InGroup
<1>13. ASSUME NEW q \in Queues, TakeAllocated(q) PROVE GroupInv'
  <2>1. \A p \in Queues : InGroup(p)' = InGroup(p)
    BY <1>13, InGroupFacts DEF TakeAllocated, InGroup, IInv, TypeOK, PollerInv
  <2>. QED
    BY <1>13, <2>1 DEF TakeAllocated, Goto, IInv, TypeOK, GroupInv
<1>14. ASSUME NEW q \in Queues, LoopTail(q) PROVE GroupInv'
  BY <1>14
  DEF LoopTail, Goto, MoveToAllocator, rings, poller, rba, work, IInv, TypeOK, PollerInv, GroupInv, InGroup
<1>15. ASSUME NEW q \in Queues, EmergencyTail(q) PROVE GroupInv'
  BY <1>15
  DEF EmergencyTail, Goto, AllocAndRestock, Allocated, Restock, rings, poller, rba, work, IInv, TypeOK, PollerInv, GroupInv, InGroup
<1>16. ASSUME NEW q \in Queues, PollDone(q) PROVE GroupInv'
  BY <1>16
  DEF PollDone, Goto, AllocAndRestock, Allocated, Restock, rings, poller, rba, work, IInv, TypeOK, PollerInv, GroupInv, InGroup
<1>17. CASE WorkStart
  BY <1>17
  DEF WorkStart, rings, poller, rba, work, IInv, TypeOK, PollerInv, GroupInv, InGroup
<1>18. CASE SwapEmpty
  BY <1>18
  DEF SwapEmpty, rings, poller, rba, work, IInv, TypeOK, PollerInv, GroupInv, InGroup
<1>19. CASE AllocatePages
  BY <1>19
  DEF AllocatePages, rings, poller, rba, work, IInv, TypeOK, PollerInv, GroupInv, InGroup
<1>20. CASE DecPending
  BY <1>20
  DEF DecPending, rings, poller, rba, work, IInv, TypeOK, PollerInv, GroupInv, InGroup
<1>21. CASE RereadPending
  BY <1>21
  DEF RereadPending, rings, poller, rba, work, IInv, TypeOK, PollerInv, GroupInv, InGroup
<1>22. CASE SpliceAllocated
  BY <1>22
  DEF SpliceAllocated, rings, poller, rba, work, IInv, TypeOK, PollerInv, GroupInv, InGroup
<1>23. CASE IncReady
  BY <1>23
  DEF IncReady, rings, poller, rba, work, IInv, TypeOK, PollerInv, GroupInv, InGroup
<1>24. CASE WorkDone
  BY <1>24
  DEF WorkDone, rings, poller, rba, work, IInv, TypeOK, PollerInv, GroupInv, InGroup
<1>. QED
  BY <1>1, <1>2, <1>3, <1>4, <1>5, <1>6, <1>7, <1>8, <1>9, <1>10, <1>11, <1>12, <1>13, <1>14, <1>15, <1>16, <1>17, <1>18, <1>19, <1>20, <1>21, <1>22, <1>23, <1>24
  DEF Next, Device, Poller, Allocator

\* The allocator's local copies.
LEMMA WorkStep ==
    ASSUME IInv, [Next]_vars
    PROVE  WorkInv'
<1>1. CASE UNCHANGED vars
  BY <1>1
  DEF vars, rings, poller, rba, work, IInv, TypeOK, WorkInv
<1>2. ASSUME NEW p \in Queues, NEW q \in Queues, DeviceClosesRb(p, q) PROVE WorkInv'
  BY <1>2
  DEF DeviceClosesRb, rings, poller, rba, work, IInv, TypeOK, WorkInv
<1>3. CASE StopDevice
  BY <1>3
  DEF StopDevice, rings, poller, rba, work, IInv, TypeOK, WorkInv
<1>4. CASE StartDevice
  BY <1>4
  DEF StartDevice, ReInit, Only, Zero, Allocated, PoolSize, rings, poller, rba, work, IInv, TypeOK, WorkInv
<1>5. ASSUME NEW q \in Queues, Poll(q) PROVE WorkInv'
  BY <1>5
  DEF Poll, Goto, rings, poller, rba, work, IInv, TypeOK, WorkInv
<1>6. ASSUME NEW q \in Queues, LoopHead(q) PROVE WorkInv'
  BY <1>6
  DEF LoopHead, Goto, MoveToAllocator, rings, poller, rba, work, IInv, TypeOK, WorkInv
<1>7. ASSUME NEW q \in Queues, RbReused(q) PROVE WorkInv'
  BY <1>7
  DEF RbReused, Goto, NextRb, rings, poller, rba, work, IInv, TypeOK, WorkInv
<1>8. ASSUME NEW q \in Queues, RbStolenEmergency(q) PROVE WorkInv'
  BY <1>8
  DEF RbStolenEmergency, Goto, NextRb, rings, poller, rba, work, IInv, TypeOK, WorkInv
<1>9. ASSUME NEW q \in Queues, RbStolen(q) PROVE WorkInv'
  BY <1>9
  DEF RbStolen, Goto, NextRb, rings, poller, rba, work, IInv, TypeOK, WorkInv
<1>10. ASSUME NEW q \in Queues, PostRequest(q) PROVE WorkInv'
  BY <1>10
  DEF PostRequest, Goto, rings, poller, rba, work, IInv, TypeOK, WorkInv
<1>11. ASSUME NEW q \in Queues, QueueWork(q) PROVE WorkInv'
  BY <1>11
  DEF QueueWork, Goto, rings, poller, rba, work, IInv, TypeOK, WorkInv
<1>12. ASSUME NEW q \in Queues, Claim(q) PROVE WorkInv'
  BY <1>12
  DEF Claim, Goto, rings, poller, rba, work, IInv, TypeOK, WorkInv
<1>13. ASSUME NEW q \in Queues, TakeAllocated(q) PROVE WorkInv'
  BY <1>13
  DEF TakeAllocated, Goto, rings, poller, rba, work, IInv, TypeOK, WorkInv
<1>14. ASSUME NEW q \in Queues, LoopTail(q) PROVE WorkInv'
  BY <1>14
  DEF LoopTail, Goto, MoveToAllocator, rings, poller, rba, work, IInv, TypeOK, WorkInv
<1>15. ASSUME NEW q \in Queues, EmergencyTail(q) PROVE WorkInv'
  BY <1>15
  DEF EmergencyTail, Goto, AllocAndRestock, Allocated, Restock, rings, poller, rba, work, IInv, TypeOK, WorkInv
<1>16. ASSUME NEW q \in Queues, PollDone(q) PROVE WorkInv'
  BY <1>16
  DEF PollDone, Goto, AllocAndRestock, Allocated, Restock, rings, poller, rba, work, IInv, TypeOK, WorkInv
<1>17. CASE WorkStart
  BY <1>17
  DEF WorkStart, rings, poller, rba, work, IInv, TypeOK, WorkInv
<1>18. CASE SwapEmpty
  <2>1. rbd_empty >= RX_CLAIM_REQ_ALLOC * req_pending
    <3>1. EmptyRbds = rbd_empty
      BY <1>18 DEF SwapEmpty, EmptyRbds, IInv, WorkInv, TypeOK
    <3>2. RX_CLAIM_REQ_ALLOC * req_pending \in Nat
      BY TimesMono DEF IInv, TypeOK
    <3>. QED  BY <3>1, <3>2, TotalSlackType DEF IInv, CreditInv, TypeOK
  <2>2. /\ RX_CLAIM_REQ_ALLOC * pending \in Nat
        /\ RX_CLAIM_REQ_ALLOC * req_pending \in Nat
        /\ RX_CLAIM_REQ_ALLOC * pending <= RX_CLAIM_REQ_ALLOC * req_pending
    BY TimesMono DEF IInv, TypeOK, WorkInv
  <2>. QED
    BY <1>18, <2>1, <2>2 DEF SwapEmpty, IInv, TypeOK, WorkInv
<1>19. CASE AllocatePages
  BY <1>19
  DEF AllocatePages, rings, poller, rba, work, IInv, TypeOK, WorkInv
<1>20. CASE DecPending
  BY <1>20
  DEF DecPending, rings, poller, rba, work, IInv, TypeOK, WorkInv
<1>21. CASE RereadPending
  <2>1. rbd_empty + local_empty >= RX_CLAIM_REQ_ALLOC * req_pending
    <3>1. EmptyRbds = rbd_empty + local_empty
      BY <1>21 DEF RereadPending, EmptyRbds, IInv, TypeOK
    <3>2. RX_CLAIM_REQ_ALLOC * req_pending \in Nat
      BY TimesMono DEF IInv, TypeOK
    <3>. QED  BY <3>1, <3>2, TotalSlackType DEF IInv, CreditInv, TypeOK
  <2>. QED
    BY <1>21, <2>1 DEF RereadPending, rba, IInv, TypeOK, WorkInv
<1>22. CASE SpliceAllocated
  BY <1>22
  DEF SpliceAllocated, rings, poller, rba, work, IInv, TypeOK, WorkInv
<1>23. CASE IncReady
  BY <1>23
  DEF IncReady, rings, poller, rba, work, IInv, TypeOK, WorkInv
<1>24. CASE WorkDone
  BY <1>24
  DEF WorkDone, rings, poller, rba, work, IInv, TypeOK, WorkInv
<1>. QED
  BY <1>1, <1>2, <1>3, <1>4, <1>5, <1>6, <1>7, <1>8, <1>9, <1>10, <1>11, <1>12, <1>13, <1>14, <1>15, <1>16, <1>17, <1>18, <1>19, <1>20, <1>21, <1>22, <1>23, <1>24
  DEF Next, Device, Poller, Allocator

-----------------------------------------------------------------------------
(***************************************************************************)
(* The allocator's account of empty RBDs                                   *)
(***************************************************************************)

\* A step that leaves what slack depends on alone leaves the total alone.
LEMMA SlackSame ==
    ASSUME \A q \in Queues : /\ InGroup(q)' = InGroup(q)
                             /\ rx_used'[q] = rx_used[q]
                             /\ pc'[q] = "post" <=> pc[q] = "post"
    PROVE  TotalSlack' = TotalSlack
<1>1. \A q \in Queues : SlackOf(q)' = SlackOf(q)  BY DEF SlackOf
<1>2. Slack' = Slack  BY <1>1 DEF Slack
<1>. QED  BY <1>2 DEF TotalSlack

\* A step that leaves the whole account alone.
LEMMA CreditSame ==
    ASSUME IInv, TotalSlack' = TotalSlack,
           UNCHANGED <<rbd_empty, req_pending, work>>
    PROVE  CreditInv'
<1>1. EmptyRbds' = EmptyRbds  BY DEF EmptyRbds, work
<1>. QED  BY <1>1 DEF IInv, CreditInv

\* A step of the allocator, which touches no queue.
LEMMA CreditWork ==
    ASSUME IInv, TypeOK', UNCHANGED <<rings, poller>>,
           EmptyRbds' - RX_CLAIM_REQ_ALLOC * req_pending' =
              EmptyRbds - RX_CLAIM_REQ_ALLOC * req_pending
    PROVE  CreditInv'
<1>1. TotalSlack' = TotalSlack
  BY SlackSame DEF rings, poller, InGroup
<1>2. TotalSlack \in Nat  BY TotalSlackType
<1>3. /\ EmptyRbds \in Int /\ EmptyRbds' \in Int
      /\ RX_CLAIM_REQ_ALLOC * req_pending \in Int
      /\ RX_CLAIM_REQ_ALLOC * req_pending' \in Int
  BY DEF EmptyRbds, IInv, TypeOK
<1>. QED  BY <1>1, <1>2, <1>3 DEF IInv, CreditInv

\* A step that changes the slack of one queue and is balanced.
LEMMA CreditOneQueue ==
    ASSUME IInv, TypeOK', PollerInv', GroupInv', NEW q \in Queues,
           \A p \in Queues \ {q} : SlackOf(p)' = SlackOf(p),
           EmptyRbds' - RX_CLAIM_REQ_ALLOC * req_pending' - SlackOf(q)' >=
              EmptyRbds - RX_CLAIM_REQ_ALLOC * req_pending - SlackOf(q)
    PROVE  CreditInv'
<1>1. /\ Slack \in [Queues -> 0 .. RX_CLAIM_REQ_ALLOC]
      /\ Slack' \in [Queues -> 0 .. RX_CLAIM_REQ_ALLOC]
  <2>1. (TypeOK /\ PollerInv /\ GroupInv)' =>
            (Slack \in [Queues -> 0 .. RX_CLAIM_REQ_ALLOC])'
    BY SlackType, PTL
  <2>. QED  BY <2>1, SlackType DEF IInv
<1>2. \A p \in Queues \ {q} : Slack'[p] = Slack[p]  BY DEF Slack
<1>3. SlackOf(q)' \in 0 .. RX_CLAIM_REQ_ALLOC /\ Slack[q] = SlackOf(q)
      /\ Slack[q] \in 0 .. RX_CLAIM_REQ_ALLOC /\ Slack'[q] = SlackOf(q)'
  BY <1>1 DEF Slack
<1>4. TotalSlack' = TotalSlack - SlackOf(q) + SlackOf(q)'
  <2>. DEFINE f == Slack
              g == Slack'
  <2>1. /\ f \in [Queues -> 0 .. RX_CLAIM_REQ_ALLOC]
        /\ g \in [Queues -> 0 .. RX_CLAIM_REQ_ALLOC]
        /\ \A p \in Queues \ {q} : g[p] = f[p]
    BY <1>1, <1>2
  <2>. HIDE DEF f, g
  <2>2. SumOver(Queues, g, RX_CLAIM_REQ_ALLOC)
          = SumOver(Queues, f, RX_CLAIM_REQ_ALLOC) - f[q] + g[q]
    BY <2>1, SumUpdate
  <2>. QED  BY <1>3, <2>2 DEF TotalSlack, f, g
<1>5. TotalSlack \in Nat  BY TotalSlackType
<1>6. /\ EmptyRbds \in Int /\ EmptyRbds' \in Int
      /\ RX_CLAIM_REQ_ALLOC * req_pending \in Int
      /\ RX_CLAIM_REQ_ALLOC * req_pending' \in Int
  BY DEF EmptyRbds, IInv, TypeOK
<1>. QED  BY <1>3, <1>4, <1>5, <1>6 DEF IInv, CreditInv

\* After initialisation every queue has its whole share of the pool.
LEMMA CreditAtInit ==
    /\ used_count = Zero /\ rx_used = Zero /\ req_pending = 0
    /\ rbd_empty = PoolSize /\ local_empty = 0 /\ apc = "idle"
    => CreditInv
<1>. SUFFICES ASSUME used_count = Zero, rx_used = Zero, req_pending = 0,
                     rbd_empty = PoolSize, local_empty = 0, apc = "idle"
              PROVE  CreditInv
  OBVIOUS
<1>. DEFINE c == RX_CLAIM_REQ_ALLOC - RX_POST_REQ_ALLOC
<1>1. c \in 0 .. RX_CLAIM_REQ_ALLOC  OBVIOUS
<1>2. 0 % RX_CLAIM_REQ_ALLOC = 0
  <2>1. 0 % RX_CLAIM_REQ_ALLOC \in Nat /\ 0 % RX_CLAIM_REQ_ALLOC <= 0
    BY ModAtMost, RX_CLAIM_REQ_ALLOC \in Nat \ {0}
  <2>. QED  BY <2>1
<1>3. \A q \in Queues : SlackOf(q) = c
  BY <1>2 DEF SlackOf, InGroup, Zero
<1>. HIDE DEF c
<1>4. Slack = [q \in Queues |-> c]  BY <1>3 DEF Slack
<1>5. TotalSlack = Cardinality(Queues) * c
  BY <1>1, <1>4, SumConstant DEF TotalSlack
<1>6. PoolSize = Cardinality(Queues) * c  BY DEF PoolSize, c
<1>7. RX_CLAIM_REQ_ALLOC * req_pending = 0  OBVIOUS
<1>8. EmptyRbds = PoolSize  BY InitFacts DEF EmptyRbds
<1>. QED  BY <1>5, <1>6, <1>7, <1>8, InitFacts DEF CreditInv

\* The account of empty RBDs.
LEMMA CreditStep ==
    ASSUME IInv, [Next]_vars
    PROVE  CreditInv'
<1>1. CASE UNCHANGED vars
  <2>1. TotalSlack' = TotalSlack
    BY <1>1, SlackSame DEF vars, InGroup, rings, poller, IInv, TypeOK
  <2>. QED  BY <1>1, <2>1, CreditSame DEF vars, rba
<1>2. ASSUME NEW p \in Queues, NEW q \in Queues, DeviceClosesRb(p, q) PROVE CreditInv'
  <2>1. TotalSlack' = TotalSlack
    BY <1>2, SlackSame DEF DeviceClosesRb, InGroup, rings, poller, IInv, TypeOK
  <2>. QED  BY <1>2, <2>1, CreditSame DEF DeviceClosesRb, rba
<1>3. CASE StopDevice
  <2>1. TotalSlack' = TotalSlack
    BY <1>3, SlackSame DEF StopDevice, InGroup, rings, poller, IInv, TypeOK
  <2>. QED  BY <1>3, <2>1, CreditSame DEF StopDevice, rba
<1>4. CASE StartDevice
  <2>1. /\ used_count' = Zero /\ rx_used' = Zero /\ req_pending' = 0
        /\ rbd_empty' = PoolSize /\ local_empty' = 0 /\ apc' = "idle"
    BY <1>4 DEF StartDevice, ReInit, work, IInv, WorkInv
  <2>2. (/\ used_count = Zero /\ rx_used = Zero /\ req_pending = 0
         /\ rbd_empty = PoolSize /\ local_empty = 0 /\ apc = "idle")'
         => CreditInv'
    BY CreditAtInit, PTL
  <2>3. Zero' = Zero /\ PoolSize' = PoolSize  BY DEF Zero, PoolSize
  <2>. QED  BY <2>1, <2>2, <2>3
<1>5. ASSUME NEW q \in Queues, Poll(q) PROVE CreditInv'
  <2>1. TotalSlack' = TotalSlack
    BY <1>5, SlackSame DEF Poll, Goto, InGroup, rings, poller, IInv, TypeOK
  <2>. QED  BY <1>5, <2>1, CreditSame DEF Poll, rba
<1>6. ASSUME NEW q \in Queues, LoopHead(q) PROVE CreditInv'
  <2>1. \A p \in Queues \ {q} : SlackOf(p)' = SlackOf(p)
    BY <1>6 DEF LoopHead, Goto, MoveToAllocator, SlackOf, InGroup, IInv, TypeOK
  <2>2. InGroup(q)' = InGroup(q) /\ InGroup(q) \in Int
    BY <1>6, InGroupFacts DEF LoopHead, InGroup, IInv
  <2>9. EmptyRbds' - RX_CLAIM_REQ_ALLOC * req_pending' - SlackOf(q)' >=
           EmptyRbds - RX_CLAIM_REQ_ALLOC * req_pending - SlackOf(q)
    BY <1>6, <2>2
    DEF LoopHead, Goto, MoveToAllocator, SlackOf, EmptyRbds, work, IInv, TypeOK
  <2>. QED
    BY <2>1, <2>9, TypeStep, PollerStep, GroupStep, CreditOneQueue
<1>7. ASSUME NEW q \in Queues, RbReused(q) PROVE CreditInv'
  <2>1. TotalSlack' = TotalSlack
    BY <1>7, SlackSame DEF RbReused, Goto, NextRb, InGroup, rings, poller, IInv, TypeOK
  <2>. QED  BY <1>7, <2>1, CreditSame DEF RbReused, rba
<1>8. ASSUME NEW q \in Queues, RbStolenEmergency(q) PROVE CreditInv'
  <2>1. TotalSlack' = TotalSlack
    BY <1>8, SlackSame DEF RbStolenEmergency, Goto, NextRb, InGroup, rings, poller, IInv, TypeOK
  <2>. QED  BY <1>8, <2>1, CreditSame DEF RbStolenEmergency, rba
<1>9. ASSUME NEW q \in Queues, RbStolen(q) PROVE CreditInv'
  <2>1. \A p \in Queues \ {q} : SlackOf(p)' = SlackOf(p)
    BY <1>9 DEF RbStolen, Goto, NextRb, SlackOf, InGroup, IInv, TypeOK
  <2>2. /\ InGroup(q) \in 0 .. (RX_CLAIM_REQ_ALLOC - 1)
        /\ InGroup(q)' = IF InGroup(q) + 1 = RX_CLAIM_REQ_ALLOC
                         THEN 0 ELSE InGroup(q) + 1
        /\ used_count'[q] % RX_CLAIM_REQ_ALLOC = InGroup(q)'
    BY <1>9, InGroupFacts DEF RbStolen, InGroup, IInv, TypeOK
  <2>3. /\ pc[q] = "rb" /\ rx_used[q] \in Nat /\ rx_emerg[q] \in Nat
        /\ req_pending' = req_pending
        /\ IF InGroup(q)' = RX_POST_REQ_ALLOC
           THEN /\ EmptyRbds' = EmptyRbds + rx_used[q] + 1 + rx_emerg[q]
                /\ rx_used'[q] = 0 /\ pc'[q] = "post"
           ELSE /\ EmptyRbds' = EmptyRbds
                /\ rx_used'[q] = rx_used[q] + 1 /\ pc'[q] = "claim"
    BY <1>9, <2>2
    DEF RbStolen, Goto, EmptyRbds, work, IInv, TypeOK
  <2>4. /\ EmptyRbds \in Int /\ RX_CLAIM_REQ_ALLOC * req_pending \in Int
    BY DEF EmptyRbds, IInv, TypeOK
  <2>9. EmptyRbds' - RX_CLAIM_REQ_ALLOC * req_pending' - SlackOf(q)' >=
           EmptyRbds - RX_CLAIM_REQ_ALLOC * req_pending - SlackOf(q)
    <3>1. CASE InGroup(q)' = RX_POST_REQ_ALLOC
      <4>1. InGroup(q) = RX_POST_REQ_ALLOC - 1  BY <2>2, <3>1
      <4>2. SlackOf(q) = RX_CLAIM_REQ_ALLOC - 1 - rx_used[q]
      BY <2>3, <4>1 DEF SlackOf
      <4>3. SlackOf(q)' = RX_CLAIM_REQ_ALLOC
      BY <2>3, <3>1 DEF SlackOf
      <4>. QED  BY <2>3, <2>4, <3>1, <4>2, <4>3
    <3>2. CASE InGroup(q)' # RX_POST_REQ_ALLOC
      <4>1. SlackOf(q)' = SlackOf(q) /\ SlackOf(q) \in Int
      BY <2>2, <2>3, <3>2 DEF SlackOf
      <4>. QED  BY <2>3, <2>4, <3>2, <4>1
    <3>. QED  BY <3>1, <3>2
  <2>. QED
    BY <2>1, <2>9, TypeStep, PollerStep, GroupStep, CreditOneQueue
<1>10. ASSUME NEW q \in Queues, PostRequest(q) PROVE CreditInv'
  <2>1. \A p \in Queues \ {q} : SlackOf(p)' = SlackOf(p)
    BY <1>10 DEF PostRequest, Goto, rings, SlackOf, InGroup, IInv, TypeOK
  <2>2. /\ InGroup(q)' = InGroup(q) /\ InGroup(q) = RX_POST_REQ_ALLOC
        /\ rx_used[q] = 0 /\ rx_used'[q] = 0
        /\ pc[q] = "post" /\ pc'[q] = "kick"
    BY <1>10 DEF PostRequest, Goto, InGroup, rings, IInv, TypeOK, PollerInv
  <2>3. SlackOf(q)' = SlackOf(q) - RX_CLAIM_REQ_ALLOC
    BY <2>2 DEF SlackOf
  <2>4. SlackOf(q) \in Int  BY <2>2 DEF SlackOf
  <2>5. /\ RX_CLAIM_REQ_ALLOC * req_pending' =
             RX_CLAIM_REQ_ALLOC * req_pending + RX_CLAIM_REQ_ALLOC
        /\ RX_CLAIM_REQ_ALLOC * req_pending \in Int
    BY <1>10 DEF PostRequest, IInv, TypeOK
  <2>6. EmptyRbds' = EmptyRbds /\ EmptyRbds \in Int
    BY <1>10 DEF PostRequest, EmptyRbds, work, IInv, TypeOK
  <2>9. EmptyRbds' - RX_CLAIM_REQ_ALLOC * req_pending' - SlackOf(q)' >=
           EmptyRbds - RX_CLAIM_REQ_ALLOC * req_pending - SlackOf(q)
    BY <2>3, <2>4, <2>5, <2>6
  <2>. QED
    BY <2>1, <2>9, TypeStep, PollerStep, GroupStep, CreditOneQueue
<1>11. ASSUME NEW q \in Queues, QueueWork(q) PROVE CreditInv'
  <2>1. TotalSlack' = TotalSlack
    BY <1>11, SlackSame DEF QueueWork, Goto, InGroup, rings, poller, IInv, TypeOK
  <2>. QED  BY <1>11, <2>1, CreditSame DEF QueueWork, rba
<1>12. ASSUME NEW q \in Queues, Claim(q) PROVE CreditInv'
  <2>1. TotalSlack' = TotalSlack
    BY <1>12, SlackSame DEF Claim, Goto, InGroup, rings, poller, IInv, TypeOK
  <2>. QED  BY <1>12, <2>1, CreditSame DEF Claim, rba
<1>13. ASSUME NEW q \in Queues, TakeAllocated(q) PROVE CreditInv'
  <2>1. \A p \in Queues : InGroup(p)' = InGroup(p)
    BY <1>13, InGroupFacts DEF TakeAllocated, InGroup, IInv, TypeOK, PollerInv
  <2>2. TotalSlack' = TotalSlack
    BY <1>13, <2>1, SlackSame DEF TakeAllocated, Goto, IInv, TypeOK
  <2>. QED  BY <1>13, <2>2, CreditSame DEF TakeAllocated
<1>14. ASSUME NEW q \in Queues, LoopTail(q) PROVE CreditInv'
  <2>1. \A p \in Queues \ {q} : SlackOf(p)' = SlackOf(p)
    BY <1>14 DEF LoopTail, Goto, MoveToAllocator, SlackOf, InGroup, IInv, TypeOK
  <2>2. InGroup(q)' = InGroup(q) /\ InGroup(q) \in Int
    BY <1>14, InGroupFacts DEF LoopTail, InGroup, IInv
  <2>9. EmptyRbds' - RX_CLAIM_REQ_ALLOC * req_pending' - SlackOf(q)' >=
           EmptyRbds - RX_CLAIM_REQ_ALLOC * req_pending - SlackOf(q)
    BY <1>14, <2>2
    DEF LoopTail, Goto, MoveToAllocator, SlackOf, EmptyRbds, work, IInv, TypeOK
  <2>. QED
    BY <2>1, <2>9, TypeStep, PollerStep, GroupStep, CreditOneQueue
<1>15. ASSUME NEW q \in Queues, EmergencyTail(q) PROVE CreditInv'
  <2>1. TotalSlack' = TotalSlack
    BY <1>15, SlackSame DEF EmergencyTail, Goto, AllocAndRestock, Allocated, Restock, InGroup, rings, poller, IInv, TypeOK
  <2>. QED  BY <1>15, <2>1, CreditSame DEF EmergencyTail, rba
<1>16. ASSUME NEW q \in Queues, PollDone(q) PROVE CreditInv'
  <2>1. TotalSlack' = TotalSlack
    BY <1>16, SlackSame DEF PollDone, Goto, AllocAndRestock, Allocated, Restock, InGroup, rings, poller, IInv, TypeOK
  <2>. QED  BY <1>16, <2>1, CreditSame DEF PollDone, rba
<1>17. CASE WorkStart
  <2>1. UNCHANGED <<rings, poller>>  BY <1>17 DEF WorkStart
  <2>2. EmptyRbds' - RX_CLAIM_REQ_ALLOC * req_pending' =
           EmptyRbds - RX_CLAIM_REQ_ALLOC * req_pending
    BY <1>17 DEF WorkStart, EmptyRbds, rba, IInv, TypeOK, WorkInv
  <2>. QED  BY <2>1, <2>2, TypeStep, CreditWork
<1>18. CASE SwapEmpty
  <2>1. UNCHANGED <<rings, poller>>  BY <1>18 DEF SwapEmpty
  <2>2. EmptyRbds' - RX_CLAIM_REQ_ALLOC * req_pending' =
           EmptyRbds - RX_CLAIM_REQ_ALLOC * req_pending
    BY <1>18 DEF SwapEmpty, EmptyRbds, rba, IInv, TypeOK, WorkInv
  <2>. QED  BY <2>1, <2>2, TypeStep, CreditWork
<1>19. CASE AllocatePages
  <2>1. UNCHANGED <<rings, poller>>  BY <1>19 DEF AllocatePages
  <2>2. EmptyRbds' - RX_CLAIM_REQ_ALLOC * req_pending' =
           EmptyRbds - RX_CLAIM_REQ_ALLOC * req_pending
    BY <1>19 DEF AllocatePages, EmptyRbds, rba, IInv, TypeOK, WorkInv
  <2>. QED  BY <2>1, <2>2, TypeStep, CreditWork
<1>20. CASE DecPending
  <2>1. UNCHANGED <<rings, poller>>  BY <1>20 DEF DecPending
  <2>2. EmptyRbds' - RX_CLAIM_REQ_ALLOC * req_pending' =
           EmptyRbds - RX_CLAIM_REQ_ALLOC * req_pending
    BY <1>20 DEF DecPending, EmptyRbds, rba, IInv, TypeOK, WorkInv
  <2>. QED  BY <2>1, <2>2, TypeStep, CreditWork
<1>21. CASE RereadPending
  <2>1. UNCHANGED <<rings, poller>>  BY <1>21 DEF RereadPending
  <2>2. EmptyRbds' - RX_CLAIM_REQ_ALLOC * req_pending' =
           EmptyRbds - RX_CLAIM_REQ_ALLOC * req_pending
    BY <1>21 DEF RereadPending, EmptyRbds, rba, IInv, TypeOK, WorkInv
  <2>. QED  BY <2>1, <2>2, TypeStep, CreditWork
<1>22. CASE SpliceAllocated
  <2>1. UNCHANGED <<rings, poller>>  BY <1>22 DEF SpliceAllocated
  <2>2. EmptyRbds' - RX_CLAIM_REQ_ALLOC * req_pending' =
           EmptyRbds - RX_CLAIM_REQ_ALLOC * req_pending
    BY <1>22 DEF SpliceAllocated, EmptyRbds, rba, IInv, TypeOK, WorkInv
  <2>. QED  BY <2>1, <2>2, TypeStep, CreditWork
<1>23. CASE IncReady
  <2>1. UNCHANGED <<rings, poller>>  BY <1>23 DEF IncReady
  <2>2. EmptyRbds' - RX_CLAIM_REQ_ALLOC * req_pending' =
           EmptyRbds - RX_CLAIM_REQ_ALLOC * req_pending
    BY <1>23 DEF IncReady, EmptyRbds, rba, IInv, TypeOK, WorkInv
  <2>. QED  BY <2>1, <2>2, TypeStep, CreditWork
<1>24. CASE WorkDone
  <2>1. UNCHANGED <<rings, poller>>  BY <1>24 DEF WorkDone
  <2>2. EmptyRbds' - RX_CLAIM_REQ_ALLOC * req_pending' =
           EmptyRbds - RX_CLAIM_REQ_ALLOC * req_pending
    BY <1>24 DEF WorkDone, EmptyRbds, rba, IInv, TypeOK, WorkInv
  <2>. QED  BY <2>1, <2>2, TypeStep, CreditWork
<1>. QED
  BY <1>1, <1>2, <1>3, <1>4, <1>5, <1>6, <1>7, <1>8, <1>9, <1>10, <1>11, <1>12, <1>13, <1>14, <1>15, <1>16, <1>17, <1>18, <1>19, <1>20, <1>21, <1>22, <1>23, <1>24
  DEF Next, Device, Poller, Allocator

-----------------------------------------------------------------------------
(***************************************************************************)
(* The allocator's account of RBDs with a page                             *)
(***************************************************************************)

\* A step that concerns no claim.
LEMMA ReadySame ==
    ASSUME IInv, Takers' = Takers,
           UNCHANGED <<rbd_allocated, req_ready>>, apc' = "ready" <=> apc = "ready"
    PROVE  ReadyInv'
BY DEF IInv, ReadyInv

\* The account of RBDs with a page.
LEMMA ReadyStep ==
    ASSUME IInv, [Next]_vars
    PROVE  ReadyInv'
<1>1. CASE UNCHANGED vars
  <2>1. Takers' = Takers  BY <1>1 DEF vars, poller, Takers
  <2>. QED  BY <1>1, <2>1, ReadySame DEF vars, poller, rba, work
<1>2. ASSUME NEW p \in Queues, NEW q \in Queues, DeviceClosesRb(p, q) PROVE ReadyInv'
  <2>1. Takers' = Takers
    BY <1>2 DEF DeviceClosesRb, poller, Takers, IInv, TypeOK
  <2>. QED  BY <1>2, <2>1, ReadySame DEF DeviceClosesRb, rba, work
<1>3. CASE StopDevice
  <2>1. Takers' = Takers  BY <1>3 DEF StopDevice, poller, Takers
  <2>. QED  BY <1>3, <2>1, ReadySame DEF StopDevice, rba, work
<1>4. CASE StartDevice
  <2>1. Takers' = {}  BY <1>4 DEF StartDevice, poller, Takers
  <2>2. Cardinality({}) = 0  BY FS_EmptySet
  <2>3. rbd_allocated' = 0 /\ req_ready' = 0 /\ apc' = "idle"
    BY <1>4 DEF StartDevice, ReInit, work
  <2>. QED  BY <2>1, <2>2, <2>3 DEF ReadyInv
<1>5. ASSUME NEW q \in Queues, Poll(q) PROVE ReadyInv'
  <2>1. Takers' = Takers
    BY <1>5 DEF Poll, poller, Goto, Takers, IInv, TypeOK
  <2>. QED  BY <1>5, <2>1, ReadySame DEF Poll, rba, work
<1>6. ASSUME NEW q \in Queues, LoopHead(q) PROVE ReadyInv'
  <2>1. Takers' = Takers
    BY <1>6 DEF LoopHead, poller, Goto, Takers, IInv, TypeOK
  <2>. QED  BY <1>6, <2>1, ReadySame DEF LoopHead, rba, work
<1>7. ASSUME NEW q \in Queues, RbReused(q) PROVE ReadyInv'
  <2>1. Takers' = Takers
    BY <1>7 DEF RbReused, poller, Goto, Takers, IInv, TypeOK
  <2>. QED  BY <1>7, <2>1, ReadySame DEF RbReused, rba, work
<1>8. ASSUME NEW q \in Queues, RbStolenEmergency(q) PROVE ReadyInv'
  <2>1. Takers' = Takers
    BY <1>8 DEF RbStolenEmergency, poller, Goto, Takers, IInv, TypeOK
  <2>. QED  BY <1>8, <2>1, ReadySame DEF RbStolenEmergency, rba, work
<1>9. ASSUME NEW q \in Queues, RbStolen(q) PROVE ReadyInv'
  <2>1. Takers' = Takers
    BY <1>9 DEF RbStolen, poller, Goto, Takers, IInv, TypeOK
  <2>. QED  BY <1>9, <2>1, ReadySame DEF RbStolen, rba, work
<1>10. ASSUME NEW q \in Queues, PostRequest(q) PROVE ReadyInv'
  <2>1. Takers' = Takers
    BY <1>10 DEF PostRequest, poller, Goto, Takers, IInv, TypeOK
  <2>. QED  BY <1>10, <2>1, ReadySame DEF PostRequest, rba, work
<1>11. ASSUME NEW q \in Queues, QueueWork(q) PROVE ReadyInv'
  <2>1. Takers' = Takers
    BY <1>11 DEF QueueWork, poller, Goto, Takers, IInv, TypeOK
  <2>. QED  BY <1>11, <2>1, ReadySame DEF QueueWork, rba, work
<1>12. ASSUME NEW q \in Queues, Claim(q) PROVE ReadyInv'
  <2>1. CASE used_count[q] >= RX_CLAIM_REQ_ALLOC /\ req_ready > 0
    <3>1. Takers' = Takers \cup {q} /\ q \notin Takers
      BY <1>12, <2>1 DEF Claim, Goto, Takers, IInv, TypeOK
    <3>2. Cardinality(Takers') = Cardinality(Takers) + 1
      BY <3>1, TakersFinite, FS_AddElement
    <3>3. /\ req_ready' = req_ready - 1 /\ rbd_allocated' = rbd_allocated
          /\ apc' = apc
      BY <1>12, <2>1 DEF Claim, work
    <3>4. req_ready' + Cardinality(Takers') = req_ready + Cardinality(Takers)
      BY <3>2, <3>3, TakersFinite DEF IInv, TypeOK
    <3>. QED  BY <3>3, <3>4 DEF IInv, ReadyInv
  <2>2. CASE ~(used_count[q] >= RX_CLAIM_REQ_ALLOC /\ req_ready > 0)
    <3>1. Takers' = Takers
      BY <1>12, <2>2 DEF Claim, Goto, Takers, IInv, TypeOK
    <3>. QED  BY <1>12, <2>2, <3>1, ReadySame DEF Claim, work
  <2>. QED  BY <2>1, <2>2
<1>13. ASSUME NEW q \in Queues, TakeAllocated(q) PROVE ReadyInv'
  <2>1. Takers' = Takers \ {q} /\ q \in Takers
    BY <1>13 DEF TakeAllocated, Goto, Takers, IInv, TypeOK
  <2>2. Cardinality(Takers') = Cardinality(Takers) - 1
    BY <2>1, TakersFinite, FS_RemoveElement
  <2>3. /\ req_ready' = req_ready /\ apc' = apc
        /\ rbd_allocated' = rbd_allocated - RX_CLAIM_REQ_ALLOC
    BY <1>13 DEF TakeAllocated, work
  <2>. DEFINE k == req_ready + Cardinality(Takers)
                   + (IF apc = "ready" THEN 1 ELSE 0)
  <2>4. k \in Int /\ rbd_allocated = RX_CLAIM_REQ_ALLOC * k
    BY TakersFinite DEF IInv, TypeOK, ReadyInv
  <2>5. RX_CLAIM_REQ_ALLOC * (k - 1) = RX_CLAIM_REQ_ALLOC * k - RX_CLAIM_REQ_ALLOC
    <3>. HIDE DEF k
    <3>. QED  BY <2>4
  <2>6. req_ready' + Cardinality(Takers')
           + (IF apc' = "ready" THEN 1 ELSE 0) = k - 1
    BY <2>2, <2>3, TakersFinite DEF IInv, TypeOK
  <2>. HIDE DEF k
  <2>. QED  BY <2>3, <2>4, <2>5, <2>6 DEF ReadyInv
<1>14. ASSUME NEW q \in Queues, LoopTail(q) PROVE ReadyInv'
  <2>1. Takers' = Takers
    BY <1>14 DEF LoopTail, poller, Goto, Takers, IInv, TypeOK
  <2>. QED  BY <1>14, <2>1, ReadySame DEF LoopTail, rba, work
<1>15. ASSUME NEW q \in Queues, EmergencyTail(q) PROVE ReadyInv'
  <2>1. Takers' = Takers
    BY <1>15 DEF EmergencyTail, poller, Goto, Takers, IInv, TypeOK
  <2>. QED  BY <1>15, <2>1, ReadySame DEF EmergencyTail, rba, work
<1>16. ASSUME NEW q \in Queues, PollDone(q) PROVE ReadyInv'
  <2>1. Takers' = Takers
    BY <1>16 DEF PollDone, poller, Goto, Takers, IInv, TypeOK
  <2>. QED  BY <1>16, <2>1, ReadySame DEF PollDone, rba, work
<1>17. CASE WorkStart
  <2>1. Takers' = Takers  BY <1>17 DEF WorkStart, poller, Takers
  <2>. QED  BY <1>17, <2>1, ReadySame DEF WorkStart, rba, work
<1>18. CASE SwapEmpty
  <2>1. Takers' = Takers  BY <1>18 DEF SwapEmpty, poller, Takers
  <2>. QED  BY <1>18, <2>1, ReadySame DEF SwapEmpty, rba, work
<1>19. CASE AllocatePages
  <2>1. Takers' = Takers  BY <1>19 DEF AllocatePages, poller, Takers
  <2>. QED  BY <1>19, <2>1, ReadySame DEF AllocatePages, rba, work
<1>20. CASE DecPending
  <2>1. Takers' = Takers  BY <1>20 DEF DecPending, poller, Takers
  <2>. QED  BY <1>20, <2>1, ReadySame DEF DecPending, rba, work
<1>21. CASE RereadPending
  <2>1. Takers' = Takers  BY <1>21 DEF RereadPending, poller, Takers
  <2>. QED  BY <1>21, <2>1, ReadySame DEF RereadPending, rba, work
<1>22. CASE SpliceAllocated
  <2>1. Takers' = Takers  BY <1>22 DEF SpliceAllocated, poller, Takers
  <2>. DEFINE k == req_ready + Cardinality(Takers)
  <2>2. k \in Int /\ rbd_allocated = RX_CLAIM_REQ_ALLOC * (k + 0)
    BY <1>22, TakersFinite DEF SpliceAllocated, IInv, TypeOK, ReadyInv
  <2>3. /\ rbd_allocated' = rbd_allocated + RX_CLAIM_REQ_ALLOC
        /\ req_ready' + Cardinality(Takers')
              + (IF apc' = "ready" THEN 1 ELSE 0) = k + 1
    BY <1>22, <2>1, TakersFinite DEF SpliceAllocated, IInv, TypeOK
  <2>. HIDE DEF k
  <2>4. RX_CLAIM_REQ_ALLOC * (k + 1) =
           RX_CLAIM_REQ_ALLOC * (k + 0) + RX_CLAIM_REQ_ALLOC
    BY <2>2
  <2>. QED  BY <2>2, <2>3, <2>4 DEF ReadyInv
<1>23. CASE IncReady
  <2>1. Takers' = Takers  BY <1>23 DEF IncReady, poller, Takers
  <2>2. req_ready' + Cardinality(Takers')
           + (IF apc' = "ready" THEN 1 ELSE 0)
        = req_ready + Cardinality(Takers) + (IF apc = "ready" THEN 1 ELSE 0)
    BY <1>23, <2>1, TakersFinite DEF IncReady, IInv, TypeOK
  <2>. QED  BY <1>23, <2>2 DEF IncReady, IInv, ReadyInv
<1>24. CASE WorkDone
  <2>1. Takers' = Takers  BY <1>24 DEF WorkDone, poller, Takers
  <2>. QED  BY <1>24, <2>1, ReadySame DEF WorkDone, rba, work
<1>. QED
  BY <1>1, <1>2, <1>3, <1>4, <1>5, <1>6, <1>7, <1>8, <1>9, <1>10, <1>11, <1>12, <1>13, <1>14, <1>15, <1>16, <1>17, <1>18, <1>19, <1>20, <1>21, <1>22, <1>23, <1>24
  DEF Next, Device, Poller, Allocator

-----------------------------------------------------------------------------
(***************************************************************************)
(* The queues' account                                                     *)
(***************************************************************************)

\* A step after which no queue has more RBDs in circulation, and all but one
\* have as many.
LEMMA CirculationOneQueue ==
    ASSUME IInv, TypeOK', NEW q \in Queues,
           \A p \in Queues \ {q} : Circulating'[p] = Circulating[p],
           Circulating'[q] <= Circulating[q]
    PROVE  CirculationInv'
<1>0. QueueSize \in Nat  OBVIOUS
<1>. DEFINE f == Circulating
            g == Circulating'
<1>1. f \in [Queues -> Nat] /\ g \in [Queues -> Nat]
  BY DEF Circulating, IInv, TypeOK
<1>2. \A p \in Queues : f[p] <= QueueSize - 1
  BY DEF IInv, CirculationInv
<1>3. \A p \in Queues \ {q} : g[p] = f[p]  OBVIOUS
<1>4. g[q] <= f[q]  OBVIOUS
<1>5. SumOver(Queues, f, QueueSize) <= QueueSize - 1
  BY DEF IInv, CirculationInv, TotalCirculating
<1>. HIDE DEF f, g
<1>6. \A p \in Queues : g[p] <= QueueSize - 1
  <2>1. g[q] \in Nat /\ f[q] \in Nat  BY <1>1
  <2>. QED  BY <1>2, <1>3, <1>4, <2>1
<1>7. f \in [Queues -> 0 .. QueueSize] /\ g \in [Queues -> 0 .. QueueSize]
  BY <1>1, <1>2, <1>6
<1>8. SumOver(Queues, g, QueueSize) = SumOver(Queues, f, QueueSize) - f[q] + g[q]
  BY <1>3, <1>7, <1>0, SumUpdate
<1>9. SumOver(Queues, f, QueueSize) \in Nat /\ f[q] \in Nat /\ g[q] \in Nat
  BY <1>1, <1>0, SumType
<1>10. SumOver(Queues, g, QueueSize) <= QueueSize - 1
  BY <1>4, <1>5, <1>8, <1>9
<1>. QED  BY <1>6, <1>10 DEF CirculationInv, TotalCirculating, g

\* The device moves an RBD from the queue p to the queue q.
LEMMA CirculationMove ==
    ASSUME IInv, TypeOK', NEW p \in Queues, NEW q \in Queues, p # q,
           \A r \in Queues \ {p, q} : Circulating'[r] = Circulating[r],
           Circulating'[p] = Circulating[p] - 1,
           Circulating'[q] = Circulating[q] + 1
    PROVE  CirculationInv'
<1>0. QueueSize \in Nat  OBVIOUS
<1>. DEFINE f == Circulating
            g == Circulating'
<1>1. f \in [Queues -> Nat] /\ g \in [Queues -> Nat]
  BY DEF Circulating, IInv, TypeOK
<1>2. \A r \in Queues : f[r] <= QueueSize - 1
  BY DEF IInv, CirculationInv
<1>3. SumOver(Queues, f, QueueSize) <= QueueSize - 1
  BY DEF IInv, CirculationInv, TotalCirculating
<1>4. /\ \A r \in Queues \ {p, q} : g[r] = f[r]
      /\ g[p] = f[p] - 1 /\ g[q] = f[q] + 1
  OBVIOUS
<1>. HIDE DEF f, g
<1>5. f \in [Queues -> 0 .. QueueSize]  BY <1>1, <1>2
<1>6. g \in [Queues -> 0 .. QueueSize]
  <2>1. ASSUME NEW r \in Queues PROVE g[r] \in 0 .. QueueSize
    <3>1. g[r] \in Nat /\ f[r] \in Nat /\ f[r] <= QueueSize - 1  BY <1>1, <1>2
    <3>. QED  BY <1>4, <3>1
  <2>. QED  BY <1>1, <2>1
<1>7. SumOver(Queues, g, QueueSize) = SumOver(Queues, f, QueueSize)
  BY <1>0, <1>4, <1>5, <1>6, SumMove
<1>8. SumOver(Queues, g, QueueSize) <= QueueSize - 1
  BY <1>3, <1>7
<1>9. ASSUME NEW r \in Queues PROVE g[r] <= QueueSize - 1
  <2>1. g[r] <= SumOver(Queues, g, QueueSize)
    BY <1>0, <1>6, SumAtLeast
  <2>2. SumOver(Queues, g, QueueSize) \in Nat  BY <1>0, SumType
  <2>3. g[r] \in Nat  BY <1>1
  <2>. QED  BY <1>0, <1>8, <2>1, <2>2, <2>3
<1>. QED  BY <1>8, <1>9 DEF CirculationInv, TotalCirculating, g

\* The lists as _iwl_pcie_rx_init leaves them.
FreshRings ==
    /\ \E n \in Allocated(QueueSize - 1, InitMayFail) :
          ring = Only(n) /\ rx_emerg = Only(QueueSize - 1 - n)
    /\ closed = Zero /\ rx_free = Zero /\ used_count = Zero

\* At first all RBDs outside the pool belong to the default queue.
LEMMA CirculationAtInit ==
    FreshRings => CirculationInv
<1>. SUFFICES ASSUME NEW n \in Allocated(QueueSize - 1, InitMayFail),
                     ring = Only(n), rx_emerg = Only(QueueSize - 1 - n),
                     closed = Zero, rx_free = Zero, used_count = Zero
              PROVE  CirculationInv
  BY DEF FreshRings
<1>1. n \in Nat /\ QueueSize - 1 - n \in Nat  BY InitFacts
<1>. DEFINE f == Zero
            g == Circulating
<1>2. /\ f \in [Queues -> 0 .. QueueSize] /\ g \in [Queues -> 0 .. QueueSize]
      /\ \A q \in Queues \ {DefQueue} : g[q] = f[q]
      /\ f[DefQueue] = 0 /\ g[DefQueue] = QueueSize - 1
      /\ \A q \in Queues : g[q] <= QueueSize - 1
  BY <1>1 DEF Zero, Only, Circulating
<1>3. SumOver(Queues, f, QueueSize) = 0
  <2>1. SumOver(Queues, [q \in Queues |-> 0], QueueSize) = Cardinality(Queues) * 0
    BY SumConstant, 0 \in 0 .. QueueSize
  <2>2. Cardinality(Queues) * 0 = 0  BY FS_CardinalityType
  <2>. QED  BY <2>1, <2>2 DEF Zero
<1>. HIDE DEF f, g
<1>4. SumOver(Queues, g, QueueSize)
        = SumOver(Queues, f, QueueSize) - f[DefQueue] + g[DefQueue]
  BY <1>2, SumUpdate
<1>5. SumOver(Queues, g, QueueSize) = QueueSize - 1
  BY <1>2, <1>3, <1>4
<1>. QED  BY <1>2, <1>5 DEF CirculationInv, TotalCirculating, g

\* The queues' account.
LEMMA CirculationStep ==
    ASSUME IInv, [Next]_vars
    PROVE  CirculationInv'
<1>1. CASE UNCHANGED vars
  <2>1. Circulating' = Circulating
    BY <1>1 DEF vars, rings, Circulating
  <2>. QED  BY <2>1 DEF IInv, CirculationInv, TotalCirculating
<1>2. ASSUME NEW p \in Queues, NEW q \in Queues, DeviceClosesRb(p, q) PROVE CirculationInv'
  <2>0. TypeOK'  BY TypeStep
  <2>1. CASE p = q
    <3>1. Circulating' = Circulating
      BY <1>2, <2>1 DEF DeviceClosesRb, Circulating, IInv, TypeOK
    <3>. QED  BY <3>1 DEF IInv, CirculationInv, TotalCirculating
  <2>2. CASE p # q
    <3>1. /\ \A r \in Queues \ {p, q} : Circulating'[r] = Circulating[r]
          /\ Circulating'[p] = Circulating[p] - 1
          /\ Circulating'[q] = Circulating[q] + 1
      BY <1>2, <2>2 DEF DeviceClosesRb, Circulating, IInv, TypeOK
    <3>. QED  BY <2>0, <2>2, <3>1, CirculationMove
  <2>. QED  BY <2>1, <2>2
<1>3. CASE StopDevice
  <2>1. Circulating' = Circulating
    BY <1>3 DEF StopDevice, rings, Circulating
  <2>. QED  BY <2>1 DEF IInv, CirculationInv, TotalCirculating
<1>4. CASE StartDevice
  <2>1. PICK n \in Allocated(QueueSize - 1, InitMayFail) : ReInit(n)
    BY <1>4 DEF StartDevice
  <2>2. FreshRings'
    BY <2>1 DEF ReInit, FreshRings, Only, Zero, Allocated
  <2>3. FreshRings' => CirculationInv'  BY CirculationAtInit, PTL
  <2>. QED  BY <2>2, <2>3
<1>5. ASSUME NEW q \in Queues, Poll(q) PROVE CirculationInv'
  <2>1. Circulating' = Circulating
    BY <1>5 DEF Poll, rings, Circulating
  <2>. QED  BY <2>1 DEF IInv, CirculationInv, TotalCirculating
<1>6. ASSUME NEW q \in Queues, LoopHead(q) PROVE CirculationInv'
  <2>1. /\ \A p \in Queues \ {q} : Circulating'[p] = Circulating[p]
        /\ Circulating'[q] <= Circulating[q]
    BY <1>6 DEF LoopHead, MoveToAllocator, rings, Circulating, IInv, TypeOK
  <2>. QED  BY <2>1, TypeStep, CirculationOneQueue
<1>7. ASSUME NEW q \in Queues, RbReused(q) PROVE CirculationInv'
  <2>1. /\ \A p \in Queues \ {q} : Circulating'[p] = Circulating[p]
        /\ Circulating'[q] <= Circulating[q]
    BY <1>7 DEF RbReused, NextRb, rings, Circulating, IInv, TypeOK
  <2>. QED  BY <2>1, TypeStep, CirculationOneQueue
<1>8. ASSUME NEW q \in Queues, RbStolenEmergency(q) PROVE CirculationInv'
  <2>1. /\ \A p \in Queues \ {q} : Circulating'[p] = Circulating[p]
        /\ Circulating'[q] <= Circulating[q]
    BY <1>8 DEF RbStolenEmergency, NextRb, rings, Circulating, IInv, TypeOK
  <2>. QED  BY <2>1, TypeStep, CirculationOneQueue
<1>9. ASSUME NEW q \in Queues, RbStolen(q) PROVE CirculationInv'
  <2>1. /\ \A p \in Queues \ {q} : Circulating'[p] = Circulating[p]
        /\ Circulating'[q] <= Circulating[q]
    BY <1>9 DEF RbStolen, NextRb, rings, Circulating, IInv, TypeOK
  <2>. QED  BY <2>1, TypeStep, CirculationOneQueue
<1>10. ASSUME NEW q \in Queues, PostRequest(q) PROVE CirculationInv'
  <2>1. Circulating' = Circulating
    BY <1>10 DEF PostRequest, rings, Circulating
  <2>. QED  BY <2>1 DEF IInv, CirculationInv, TotalCirculating
<1>11. ASSUME NEW q \in Queues, QueueWork(q) PROVE CirculationInv'
  <2>1. Circulating' = Circulating
    BY <1>11 DEF QueueWork, rings, Circulating
  <2>. QED  BY <2>1 DEF IInv, CirculationInv, TotalCirculating
<1>12. ASSUME NEW q \in Queues, Claim(q) PROVE CirculationInv'
  <2>1. Circulating' = Circulating
    BY <1>12 DEF Claim, rings, Circulating
  <2>. QED  BY <2>1 DEF IInv, CirculationInv, TotalCirculating
<1>13. ASSUME NEW q \in Queues, TakeAllocated(q) PROVE CirculationInv'
  <2>1. /\ \A p \in Queues \ {q} : Circulating'[p] = Circulating[p]
        /\ Circulating'[q] <= Circulating[q]
    BY <1>13 DEF TakeAllocated, rings, Circulating, IInv, TypeOK
  <2>. QED  BY <2>1, TypeStep, CirculationOneQueue
<1>14. ASSUME NEW q \in Queues, LoopTail(q) PROVE CirculationInv'
  <2>1. /\ \A p \in Queues \ {q} : Circulating'[p] = Circulating[p]
        /\ Circulating'[q] <= Circulating[q]
    BY <1>14 DEF LoopTail, MoveToAllocator, rings, Circulating, IInv, TypeOK
  <2>. QED  BY <2>1, TypeStep, CirculationOneQueue
<1>15. ASSUME NEW q \in Queues, EmergencyTail(q) PROVE CirculationInv'
  <2>0. /\ \A p \in Queues \ {q} :
              ring'[p] + rx_free'[p] + rx_emerg'[p]
                 = ring[p] + rx_free[p] + rx_emerg[p]
        /\ ring'[q] + rx_free'[q] + rx_emerg'[q]
              = ring[q] + rx_free[q] + rx_emerg[q]
        /\ closed' = closed /\ used_count' = used_count
    BY <1>15, AllocAndRestockFacts, RestockFacts, rx_free[q] \in Nat
    DEF EmergencyTail, IInv, TypeOK
  <2>1. TypeOK'  BY TypeStep
  <2>2. ASSUME NEW p \in Queues PROVE Circulating'[p] = Circulating[p]
    <3>1. ring'[p] + rx_free'[p] + rx_emerg'[p]
             = ring[p] + rx_free[p] + rx_emerg[p]
      BY <2>0
    <3>2. /\ ring[p] \in Nat /\ rx_free[p] \in Nat /\ rx_emerg[p] \in Nat
          /\ closed[p] \in Nat /\ used_count[p] \in Nat
      BY DEF IInv, TypeOK
    <3>3. /\ ring'[p] \in Nat /\ rx_free'[p] \in Nat /\ rx_emerg'[p] \in Nat
      BY <2>1 DEF TypeOK
    <3>. QED  BY <2>0, <3>1, <3>2, <3>3 DEF Circulating
  <2>3. Circulating' = Circulating  BY <2>2 DEF Circulating
  <2>. QED  BY <2>3 DEF IInv, CirculationInv, TotalCirculating
<1>16. ASSUME NEW q \in Queues, PollDone(q) PROVE CirculationInv'
  <2>0. /\ \A p \in Queues \ {q} :
              ring'[p] + rx_free'[p] + rx_emerg'[p]
                 = ring[p] + rx_free[p] + rx_emerg[p]
        /\ ring'[q] + rx_free'[q] + rx_emerg'[q]
              = ring[q] + rx_free[q] + rx_emerg[q]
        /\ closed' = closed /\ used_count' = used_count
    BY <1>16, AllocAndRestockFacts, RestockFacts, rx_free[q] \in Nat
    DEF PollDone, IInv, TypeOK
  <2>1. TypeOK'  BY TypeStep
  <2>2. ASSUME NEW p \in Queues PROVE Circulating'[p] = Circulating[p]
    <3>1. ring'[p] + rx_free'[p] + rx_emerg'[p]
             = ring[p] + rx_free[p] + rx_emerg[p]
      BY <2>0
    <3>2. /\ ring[p] \in Nat /\ rx_free[p] \in Nat /\ rx_emerg[p] \in Nat
          /\ closed[p] \in Nat /\ used_count[p] \in Nat
      BY DEF IInv, TypeOK
    <3>3. /\ ring'[p] \in Nat /\ rx_free'[p] \in Nat /\ rx_emerg'[p] \in Nat
      BY <2>1 DEF TypeOK
    <3>. QED  BY <2>0, <3>1, <3>2, <3>3 DEF Circulating
  <2>3. Circulating' = Circulating  BY <2>2 DEF Circulating
  <2>. QED  BY <2>3 DEF IInv, CirculationInv, TotalCirculating
<1>17. CASE WorkStart
  <2>1. Circulating' = Circulating
    BY <1>17 DEF WorkStart, rings, Circulating
  <2>. QED  BY <2>1 DEF IInv, CirculationInv, TotalCirculating
<1>18. CASE SwapEmpty
  <2>1. Circulating' = Circulating
    BY <1>18 DEF SwapEmpty, rings, Circulating
  <2>. QED  BY <2>1 DEF IInv, CirculationInv, TotalCirculating
<1>19. CASE AllocatePages
  <2>1. Circulating' = Circulating
    BY <1>19 DEF AllocatePages, rings, Circulating
  <2>. QED  BY <2>1 DEF IInv, CirculationInv, TotalCirculating
<1>20. CASE DecPending
  <2>1. Circulating' = Circulating
    BY <1>20 DEF DecPending, rings, Circulating
  <2>. QED  BY <2>1 DEF IInv, CirculationInv, TotalCirculating
<1>21. CASE RereadPending
  <2>1. Circulating' = Circulating
    BY <1>21 DEF RereadPending, rings, Circulating
  <2>. QED  BY <2>1 DEF IInv, CirculationInv, TotalCirculating
<1>22. CASE SpliceAllocated
  <2>1. Circulating' = Circulating
    BY <1>22 DEF SpliceAllocated, rings, Circulating
  <2>. QED  BY <2>1 DEF IInv, CirculationInv, TotalCirculating
<1>23. CASE IncReady
  <2>1. Circulating' = Circulating
    BY <1>23 DEF IncReady, rings, Circulating
  <2>. QED  BY <2>1 DEF IInv, CirculationInv, TotalCirculating
<1>24. CASE WorkDone
  <2>1. Circulating' = Circulating
    BY <1>24 DEF WorkDone, rings, Circulating
  <2>. QED  BY <2>1 DEF IInv, CirculationInv, TotalCirculating
<1>. QED
  BY <1>1, <1>2, <1>3, <1>4, <1>5, <1>6, <1>7, <1>8, <1>9, <1>10, <1>11, <1>12, <1>13, <1>14, <1>15, <1>16, <1>17, <1>18, <1>19, <1>20, <1>21, <1>22, <1>23, <1>24
  DEF Next, Device, Poller, Allocator

-----------------------------------------------------------------------------
(***************************************************************************)
(* The theorems                                                            *)
(***************************************************************************)

\* The invariant holds after initialisation.
LEMMA InitIInv ==
    Init => IInv
<1>. SUFFICES ASSUME Init PROVE IInv
  OBVIOUS
<1>1. PICK n \in Allocated(QueueSize - 1, InitMayFail) : RxInit(n)
  BY DEF Init
<1>2. /\ n \in Nat /\ QueueSize - 1 - n \in Nat /\ PoolSize \in Nat
      /\ n - (n % WrAlign) \in Nat /\ n - (n % WrAlign) <= n
  BY InitFacts
<1>3. TypeOK
  <2>1. /\ Zero \in [Queues -> Nat] /\ Zero \in [Queues -> 0 .. (EmergencyBatch - 1)]
        /\ Only(n) \in [Queues -> Nat] /\ Only(n - (n % WrAlign)) \in [Queues -> Nat]
        /\ Only(QueueSize - 1 - n) \in [Queues -> Nat]
    BY <1>2 DEF Zero, Only
  <2>. QED
    BY <1>1, <1>2, <2>1 DEF Init, RxInit, TypeOK, PollerStates, WorkStates
<1>4. PollerInv
  BY <1>1, <1>2 DEF Init, RxInit, Only, Zero, PollerInv
<1>5. GroupInv
  <2>1. \A q \in Queues : InGroup(q) \in 0 .. (RX_CLAIM_REQ_ALLOC - 1)
    BY <1>3, InGroupFacts
  <2>2. \A q \in Queues : rx_used[q] = 0
    BY <1>1 DEF RxInit, Zero
  <2>. QED  BY <2>1, <2>2 DEF GroupInv
<1>6. WorkInv
  BY <1>1 DEF Init, RxInit, WorkInv
<1>7. CreditInv
  BY <1>1, CreditAtInit DEF Init, RxInit
<1>8. ReadyInv
  <2>1. Takers = {}  BY DEF Init, Takers
  <2>2. Cardinality({}) = 0  BY FS_EmptySet
  <2>. QED  BY <1>1, <2>1, <2>2 DEF Init, RxInit, ReadyInv
<1>9. CirculationInv
  <2>1. FreshRings  BY <1>1 DEF Init, RxInit, FreshRings
  <2>. QED  BY <2>1, CirculationAtInit
<1>. QED  BY <1>3, <1>4, <1>5, <1>6, <1>7, <1>8, <1>9 DEF IInv

\* The account is an invariant of the RX path.
THEOREM RxInvariant == Spec => []IInv
<1>1. IInv /\ [Next]_vars => IInv'
  BY TypeStep, PollerStep, GroupStep, WorkStep, CreditStep, ReadyStep,
     CirculationStep DEF IInv
<1>. QED  BY <1>1, InitIInv, PTL DEF Spec

\* No length becomes negative: every list_first_entry, list_del and ring slot
\* of the RX path is there when the code takes it.
THEOREM RxTypeCorrect == Spec => []TypeOK
<1>1. IInv => TypeOK  BY DEF IInv
<1>. QED  BY <1>1, RxInvariant, PTL

\* BUG_ON(list_empty(&local_empty)) of iwl_pcie_rx_allocator never fires, for
\* any number of queues and any batch sizes: a pool of claim minus post RBDs
\* for each queue is enough.
THEOREM RxNeverOutOfRbds == Spec => []LocalEmptyCoversRequest
<1>1. IInv => LocalEmptyCoversRequest  BY WorkFindsBatch DEF IInv
<1>. QED  BY <1>1, RxInvariant, PTL

\* iwl_pcie_rx_allocator_get always finds the entries it takes.
THEOREM RxClaimsAreCovered == Spec => []ClaimsAreCovered
<1>1. IInv => ClaimsAreCovered
  <2>. SUFFICES ASSUME IInv PROVE ClaimsAreCovered
    OBVIOUS
  <2>. DEFINE m == req_ready + Cardinality(Takers)
              n == m + (IF apc = "ready" THEN 1 ELSE 0)
  <2>1. m \in Nat /\ n \in Nat /\ m <= n
    BY TakersFinite DEF IInv, TypeOK
  <2>2. rbd_allocated = RX_CLAIM_REQ_ALLOC * n  BY DEF IInv, ReadyInv
  <2>. HIDE DEF n
  <2>3. RX_CLAIM_REQ_ALLOC * m <= RX_CLAIM_REQ_ALLOC * n
    <3>. HIDE DEF m
    <3>. QED  BY <2>1, TimesMono
  <2>. QED  BY <2>2, <2>3 DEF ClaimsAreCovered
<1>. QED  BY <1>1, RxInvariant, PTL

\* iwl_pcie_rxmq_restock never needs the space check it does not make.
THEOREM RxRingsNeverFull == Spec => []RingsNeverFull
<1>1. IInv => RingsNeverFull
  <2>1. ASSUME IInv, NEW q \in Queues
        PROVE  ring[q] < QueueSize /\ closed[q] < QueueSize
    <3>1. Circulating[q] <= QueueSize - 1  BY <2>1 DEF IInv, CirculationInv
    <3>2. Circulating[q]
            = ring[q] + closed[q] + rx_free[q] + rx_emerg[q] + used_count[q]
      BY DEF Circulating
    <3>. QED  BY <2>1, <3>1, <3>2 DEF IInv, TypeOK
  <2>. QED  BY <2>1 DEF RingsNeverFull
<1>. QED  BY <1>1, RxInvariant, PTL
=============================================================================
