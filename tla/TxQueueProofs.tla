---------------------------- MODULE TxQueueProofs ----------------------------
(***************************************************************************)
(* Proofs about TxQueue.                                                   *)
(*                                                                         *)
(* The argument about the ring is about distances from read_ptr: what the  *)
(* reclaim has freed or is going to free, the responses under way, the     *)
(* device and write_ptr follow each other, and never fill the window.      *)
(* iwl_pcie_reclaim works with indices masked by n_window; that is enough  *)
(* because the distance is smaller (IndexDistance).                        *)
(*                                                                         *)
(* The argument about stopping is about the room left between the test of  *)
(* the space, without txq->lock, and the wake-up.                          *)
(***************************************************************************)
EXTENDS TxQueue, Counting, TLAPS

\* Up to where entries have been freed or are about to be.
FreeTarget == (r_ptr + ((tfd_num - CmdIndex(r_ptr)) % NWindow)) % MaxTfd
ReclaimedTo ==
    IF rec = "free" THEN FreeTarget
    ELSE IF rec = "relock" THEN r_ptr ELSE read_ptr

\* The pointers follow each other, and the window never fills up.
PointersInOrder ==
    /\ Used(read_ptr, write_ptr) < NWindow
    /\ Used(read_ptr, hw_ptr) <= Used(read_ptr, write_ptr)
    /\ Used(read_ptr, ReclaimedTo) <= Used(read_ptr, hw_ptr)
    /\ rec = "free" => r_ptr = read_ptr

\* So do the responses under way.
NotifsInOrder ==
    \A k \in 1..Len(notifs) :
        /\ Used(read_ptr, ReclaimedTo) <= Used(read_ptr, notifs[k])
        /\ Used(read_ptr, notifs[k]) <= Used(read_ptr, hw_ptr)
        /\ \A j \in 1..k :
              Used(read_ptr, notifs[j]) <= Used(read_ptr, notifs[k])

\* The entries of the window from index x, n of them, and those in use.
Window(x, n) == {i \in 0..(NWindow - 1) : Dist(NWindow, x, i) < n}
Held == Window(CmdIndex(Oldest), Used(Oldest, write_ptr))
FramesHeld == \A i \in Held : entries[i] # NULL

----------------------------------------------------------------------------
(* The ring *)

Ring == 0..(MaxTfd - 1)

\* The sizes of the ring and of its window.
LEMMA Sizes ==
    /\ NWindow \in Nat \ {0} /\ MaxTfd \in Nat \ {0}
    /\ MaxTfd % NWindow = 0 /\ NWindow < MaxTfd
  BY SizeAssumption

\* The marks of iwl_queue_init.
LEMMA Marks ==
    /\ LowMark \in Nat /\ HighMark \in Nat
    /\ 2 <= HighMark /\ HighMark <= LowMark
  BY SizeAssumption DEF LowMark, HighMark, Max2

\* The entries between two pointers.
LEMMA UsedType ==
    ASSUME NEW r \in Ring, NEW w \in Ring
    PROVE  Used(r, w) \in Nat /\ (Used(r, w) = 0 <=> r = w)
  BY Sizes, RingZero DEF Ring, Used

\* The end is moved on, in a window that is not full.
LEMMA UsedGrows ==
    ASSUME NEW r \in Ring, NEW w \in Ring, Used(r, w) < NWindow
    PROVE  IncWrap(w) \in Ring /\ Used(r, IncWrap(w)) = Used(r, w) + 1
<1>1. Used(r, w) < MaxTfd - 1  BY Sizes, UsedType
<1>. QED  BY <1>1, Sizes, RingInc DEF Ring, Used, IncWrap

\* The beginning is moved on.
LEMMA UsedShrinks ==
    ASSUME NEW r \in Ring, NEW w \in Ring, r # w
    PROVE  IncWrap(r) \in Ring /\ Used(IncWrap(r), w) = Used(r, w) - 1
  BY Sizes, RingDec DEF Ring, Used, IncWrap

\* Stretches that follow each other add up.
LEMMA UsedSum ==
    ASSUME NEW a \in Ring, NEW b \in Ring, NEW c \in Ring,
           Used(a, b) + Used(b, c) <= NWindow
    PROVE  Used(a, c) = Used(a, b) + Used(b, c)
<1>1. Used(a, b) + Used(b, c) < MaxTfd  BY Sizes, UsedType
<1>. QED  BY <1>1, Sizes, RingSum DEF Ring, Used

\* A pointer on the way splits it.
LEMMA UsedSplit ==
    ASSUME NEW a \in Ring, NEW b \in Ring, NEW c \in Ring,
           Used(a, b) <= Used(a, c)
    PROVE  Used(a, c) = Used(a, b) + Used(b, c)
  BY Sizes, RingSplit DEF Ring, Used

\* Going on by k entries.
LEMMA UsedAdd ==
    ASSUME NEW r \in Ring, NEW k \in 0..NWindow
    PROVE  (r + k) % MaxTfd \in Ring /\ Used(r, (r + k) % MaxTfd) = k
<1>1. k \in 0..(MaxTfd - 1) /\ r \in 0..(MaxTfd - 1)  BY Sizes DEF Ring
<1>2. MaxTfd \in Nat \ {0}  BY Sizes
<1>3. /\ (r + k) % MaxTfd \in 0..(MaxTfd - 1)
      /\ (((r + k) % MaxTfd) - r) % MaxTfd = k
  BY <1>1, <1>2, RingAdd
<1>. QED  BY <1>3 DEF Ring, Used

\* Going on by the entries up to a pointer leads there.
LEMMA UsedReach ==
    ASSUME NEW r \in Ring, NEW w \in Ring, Used(r, w) <= NWindow
    PROVE  (r + Used(r, w)) % MaxTfd = w
<1>. DEFINE v == (r + Used(r, w)) % MaxTfd
<1>1. v \in Ring /\ Used(r, v) = Used(r, w)  BY UsedType, UsedAdd, Sizes
<1>. HIDE DEF v
<1>2. Used(r, w) = Used(r, v) + Used(v, w)  BY <1>1, UsedType, UsedSplit
<1>3. v = w  BY <1>1, <1>2, UsedType
<1>. QED  BY <1>3 DEF v

\* The entry of a pointer, from that of a pointer before it.
LEMMA IndexAfter ==
    ASSUME NEW r \in Ring, NEW w \in Ring, Used(r, w) <= NWindow
    PROVE  /\ CmdIndex(r) \in 0..(NWindow - 1)
           /\ CmdIndex(w) \in 0..(NWindow - 1)
           /\ CmdIndex(w) = IF CmdIndex(r) + Used(r, w) < NWindow
                            THEN CmdIndex(r) + Used(r, w)
                            ELSE (CmdIndex(r) + Used(r, w)) - NWindow
<1>1. Used(r, w) = Dist(MaxTfd, r, w)  BY Sizes, DistMod DEF Used, Ring
<1>2. CmdIndex(r) \in 0..(NWindow - 1) /\ CmdIndex(w) \in 0..(NWindow - 1)
  BY Sizes, DivMod, r \in Nat, w \in Nat DEF CmdIndex, Ring
<1>3. CmdIndex(w) = IF CmdIndex(r) + Dist(MaxTfd, r, w) < NWindow
                    THEN CmdIndex(r) + Dist(MaxTfd, r, w)
                    ELSE (CmdIndex(r) + Dist(MaxTfd, r, w)) - NWindow
  BY <1>1, Sizes, WindowIndex DEF CmdIndex, Ring
<1>. QED  BY <1>1, <1>2, <1>3

\* The number of entries between two pointers, from their indices.
LEMMA IndexDistance ==
    ASSUME NEW r \in Ring, NEW w \in Ring, Used(r, w) < NWindow
    PROVE  /\ (CmdIndex(w) - CmdIndex(r)) % NWindow = Used(r, w)
           /\ Dist(NWindow, CmdIndex(r), CmdIndex(w)) = Used(r, w)
<1>. DEFINE x == CmdIndex(r)
            y == CmdIndex(w)
            n == Used(r, w)
<1>1. /\ x \in 0..(NWindow - 1) /\ y \in 0..(NWindow - 1)
      /\ y = IF x + n < NWindow THEN x + n ELSE (x + n) - NWindow
      /\ n \in Nat /\ n < NWindow
  BY Sizes, IndexAfter, UsedType
<1>. HIDE DEF x, y, n
<1>2. Dist(NWindow, x, y) = n  BY <1>1, Sizes DEF Dist
<1>3. (y - x) % NWindow = Dist(NWindow, x, y)
  <2>1. x \in 0..(NWindow - 1) /\ y \in 0..(NWindow - 1)  BY <1>1
  <2>2. NWindow \in Nat \ {0}  BY Sizes
  <2>. QED  BY <2>1, <2>2, DistMod
<1>. QED  BY <1>2, <1>3 DEF x, y, n

\* The window grows by the entry after its last one.
LEMMA WindowGrows ==
    ASSUME NEW x \in 0..(NWindow - 1), NEW n \in 0..(NWindow - 1),
           NEW y, y = IF x + n < NWindow THEN x + n ELSE (x + n) - NWindow
    PROVE  Window(x, n + 1) = Window(x, n) \union {y}
  BY Sizes DEF Window, Dist

\* It shrinks by its first n entries.
LEMMA WindowShrinks ==
    ASSUME NEW x \in 0..(NWindow - 1), NEW m \in 0..NWindow, NEW n \in 0..m,
           NEW y, y = IF x + n < NWindow THEN x + n ELSE (x + n) - NWindow
    PROVE  Window(y, m - n) \subseteq Window(x, m) \ Window(x, n)
  BY Sizes DEF Window, Dist

\* Its first n entries, counted.
LEMMA WindowCounted ==
    ASSUME NEW x \in 0..(NWindow - 1), NEW n \in 0..NWindow
    PROVE  {(x + k) % NWindow : k \in 0..(n - 1)} \subseteq Window(x, n)
<1>. SUFFICES ASSUME NEW k \in 0..(n - 1)
              PROVE  (x + k) % NWindow \in Window(x, n)
  OBVIOUS
<1>1. k \in 0..NWindow  BY Sizes
<1>2. (x + k) % NWindow = IF x + k < NWindow THEN x + k ELSE (x + k) - NWindow
  BY <1>1, Sizes, WrapInc
<1>. DEFINE y == (x + k) % NWindow
<1>3. y = IF x + k < NWindow THEN x + k ELSE (x + k) - NWindow  BY <1>2
<1>. HIDE DEF y
<1>4. y \in Window(x, n)  BY <1>3, Sizes DEF Window, Dist
<1>. QED  BY <1>4 DEF y

----------------------------------------------------------------------------
(* The pointers *)

RecTypes == {"idle", "free", "relock", "overflow", "wake", "notfull", "end"}

RingTypes ==
    /\ read_ptr \in Ring /\ write_ptr \in Ring
    /\ hw_ptr \in Ring /\ r_ptr \in Ring
    /\ tfd_num \in 0..(NWindow - 1)
    /\ notifs \in Seq(Ring)
    /\ rec \in RecTypes

OrderInv == RingTypes /\ PointersInOrder /\ NotifsInOrder

\* What the order rests on, besides write_ptr and the place of the reclaim.
pointers == <<read_ptr, hw_ptr, notifs, r_ptr, tfd_num>>

\* The reclaim frees up to a pointer of the ring.
LEMMA ReclaimedType ==
    OrderInv =>
      /\ ReclaimedTo \in Ring
      /\ Used(read_ptr, ReclaimedTo) \in Nat /\ Used(read_ptr, hw_ptr) \in Nat
      /\ Used(read_ptr, write_ptr) \in Nat
<1>. SUFFICES ASSUME OrderInv
              PROVE  /\ ReclaimedTo \in Ring
                     /\ Used(read_ptr, ReclaimedTo) \in Nat
                     /\ Used(read_ptr, hw_ptr) \in Nat
                     /\ Used(read_ptr, write_ptr) \in Nat
  OBVIOUS
<1>1. /\ read_ptr \in Ring /\ write_ptr \in Ring /\ hw_ptr \in Ring
      /\ r_ptr \in Ring /\ tfd_num \in 0..(NWindow - 1)
  BY DEF OrderInv, RingTypes
<1>2. CmdIndex(r_ptr) \in 0..(NWindow - 1)
  <2>1. Used(r_ptr, r_ptr) = 0  BY <1>1, UsedType
  <2>. QED  BY <1>1, <2>1, IndexAfter, Sizes
<1>3. (tfd_num - CmdIndex(r_ptr)) % NWindow \in 0..(NWindow - 1)
  BY <1>1, <1>2, Sizes, RingZero
<1>4. FreeTarget \in Ring  BY <1>1, <1>3, Sizes, UsedAdd DEF FreeTarget
<1>5. ReclaimedTo \in Ring  BY <1>1, <1>4 DEF ReclaimedTo
<1>. QED  BY <1>1, <1>5, UsedType

\* Steps that leave the pointers alone.
LEMMA SameOrder ==
    /\ OrderInv /\ UNCHANGED <<pointers, write_ptr>>
    /\ rec' = rec \/ (rec \notin {"free", "relock"}
                      /\ rec' \in RecTypes \ {"free", "relock"})
    => OrderInv'
<1>. SUFFICES ASSUME OrderInv, UNCHANGED <<pointers, write_ptr>>,
                     rec' = rec \/ (rec \notin {"free", "relock"}
                                    /\ rec' \in RecTypes \ {"free", "relock"})
              PROVE  OrderInv'
  OBVIOUS
<1>1. ReclaimedTo' = ReclaimedTo
  BY DEF ReclaimedTo, FreeTarget, pointers, RecTypes
<1>2. RingTypes'  BY DEF OrderInv, RingTypes, pointers
<1>3. PointersInOrder'
  BY <1>1 DEF OrderInv, PointersInOrder, pointers, RecTypes
<1>4. NotifsInOrder'  BY <1>1 DEF OrderInv, NotifsInOrder, pointers
<1>. QED  BY <1>2, <1>3, <1>4 DEF OrderInv

\* A frame is put on the ring: one entry always stays free.
LEMMA PutInOrder ==
    /\ OrderInv /\ ~MustOverflow
    /\ write_ptr' = IncWrap(write_ptr) /\ UNCHANGED <<pointers, rec>>
    => OrderInv'
<1>. SUFFICES ASSUME OrderInv, ~MustOverflow,
                     write_ptr' = IncWrap(write_ptr),
                     UNCHANGED <<pointers, rec>>
              PROVE  OrderInv'
  OBVIOUS
<1>1. ReclaimedTo' = ReclaimedTo  BY DEF ReclaimedTo, FreeTarget, pointers
<1>2. read_ptr \in Ring /\ write_ptr \in Ring /\ hw_ptr \in Ring
  BY DEF OrderInv, RingTypes
<1>3. /\ Used(read_ptr, write_ptr) \in Nat /\ Used(read_ptr, hw_ptr) \in Nat
      /\ Used(read_ptr, write_ptr) < NWindow
      /\ Used(read_ptr, hw_ptr) <= Used(read_ptr, write_ptr)
      /\ Used(read_ptr, ReclaimedTo) <= Used(read_ptr, hw_ptr)
      /\ rec = "free" => r_ptr = read_ptr
  BY ReclaimedType DEF OrderInv, PointersInOrder
<1>4. Used(read_ptr, write_ptr) + 1 < NWindow
  BY <1>3, Sizes, Marks DEF MustOverflow, Space, SpaceFrom
<1>5. /\ write_ptr' \in Ring
      /\ Used(read_ptr, write_ptr') = Used(read_ptr, write_ptr) + 1
  BY <1>2, <1>3, UsedGrows
<1>6. UNCHANGED <<read_ptr, hw_ptr, notifs, r_ptr, tfd_num>>  BY DEF pointers
<1>7. RingTypes'  BY <1>5, <1>6 DEF OrderInv, RingTypes
<1>8. PointersInOrder'
  BY <1>1, <1>3, <1>4, <1>5, <1>6, Sizes DEF PointersInOrder
<1>9. NotifsInOrder'  BY <1>1, <1>6 DEF OrderInv, NotifsInOrder
<1>. QED  BY <1>7, <1>8, <1>9 DEF OrderInv

\* What iwl_pcie_reclaim is going to free, when it starts.
LEMMA StartTarget ==
    ASSUME OrderInv, NEW ssn \in Ring, NEW f \in BOOLEAN,
           Used(read_ptr, ssn) <= Used(read_ptr, write_ptr),
           StartReclaim(ssn, f)
    PROVE  /\ read_ptr' = read_ptr /\ write_ptr' = write_ptr
           /\ r_ptr' = read_ptr /\ tfd_num' \in 0..(NWindow - 1)
           /\ rec' \in {"idle", "free"}
           /\ ReclaimedTo' \in {read_ptr, ssn}
<1>1. /\ read_ptr' = read_ptr /\ write_ptr' = write_ptr
      /\ r_ptr' = read_ptr /\ tfd_num' = CmdIndex(ssn)
      /\ rec' \in {"idle", "free"}
  BY DEF StartReclaim, ring
<1>2. /\ read_ptr \in Ring /\ Used(read_ptr, ssn) \in Nat
      /\ Used(read_ptr, ssn) < NWindow /\ Used(read_ptr, ssn) <= NWindow
  <2>1. read_ptr \in Ring /\ write_ptr \in Ring  BY DEF OrderInv, RingTypes
  <2>2. Used(read_ptr, write_ptr) < NWindow  BY DEF OrderInv, PointersInOrder
  <2>3. Used(read_ptr, ssn) \in Nat /\ Used(read_ptr, write_ptr) \in Nat
    BY <2>1, UsedType
  <2>. QED  BY <2>1, <2>2, <2>3, Sizes
<1>3. /\ CmdIndex(ssn) \in 0..(NWindow - 1)
      /\ (CmdIndex(ssn) - CmdIndex(read_ptr)) % NWindow = Used(read_ptr, ssn)
  BY <1>2, Sizes, IndexAfter, IndexDistance
<1>4. CASE rec' = "free"
  <2>1. ReclaimedTo' = (read_ptr + Used(read_ptr, ssn)) % MaxTfd
    BY <1>1, <1>3, <1>4 DEF ReclaimedTo, FreeTarget
  <2>2. (read_ptr + Used(read_ptr, ssn)) % MaxTfd = ssn  BY <1>2, UsedReach
  <2>. QED  BY <1>1, <1>3, <2>1, <2>2
<1>5. CASE rec' = "idle"  BY <1>1, <1>3, <1>5 DEF ReclaimedTo
<1>. QED  BY <1>1, <1>4, <1>5

\* A response is handled.
LEMMA ReclaimInOrder == OrderInv /\ Reclaim => OrderInv'
<1>. SUFFICES ASSUME OrderInv, Reclaim PROVE OrderInv'
  OBVIOUS
<1>. DEFINE ssn == Head(notifs)
<1>1. /\ notifs # <<>> /\ notifs' = Tail(notifs) /\ hw_ptr' = hw_ptr
      /\ StartReclaim(ssn, FALSE)
  BY DEF Reclaim
<1>2. /\ notifs \in Seq(Ring) /\ Len(notifs) \in Nat /\ Len(notifs) > 0
      /\ ssn = notifs[1] /\ ssn \in Ring /\ hw_ptr \in Ring
      /\ read_ptr \in Ring /\ write_ptr \in Ring
  BY <1>1 DEF OrderInv, RingTypes
<1>3. /\ notifs' \in Seq(Ring) /\ Len(notifs') = Len(notifs) - 1
      /\ \A k \in 1..Len(notifs') : notifs'[k] = notifs[k + 1]
  BY <1>1, <1>2
<1>. HIDE DEF ssn
<1>4. /\ Used(read_ptr, ssn) <= Used(read_ptr, hw_ptr)
      /\ Used(read_ptr, hw_ptr) <= Used(read_ptr, write_ptr)
      /\ Used(read_ptr, write_ptr) < NWindow
      /\ Used(read_ptr, ssn) \in Nat /\ Used(read_ptr, hw_ptr) \in Nat
      /\ Used(read_ptr, write_ptr) \in Nat
  <2>1. 1 \in 1..Len(notifs)  BY <1>2
  <2>2. Used(read_ptr, notifs[1]) <= Used(read_ptr, hw_ptr)
    BY <2>1 DEF OrderInv, NotifsInOrder
  <2>. QED  BY <1>2, <2>2, UsedType DEF OrderInv, PointersInOrder
<1>5. Used(read_ptr, ssn) <= Used(read_ptr, write_ptr)  BY <1>4, Sizes
<1>6. /\ read_ptr' = read_ptr /\ write_ptr' = write_ptr
      /\ r_ptr' = read_ptr /\ tfd_num' \in 0..(NWindow - 1)
      /\ rec' \in {"idle", "free"}
      /\ ReclaimedTo' \in {read_ptr, ssn}
  BY <1>1, <1>2, <1>5, StartTarget, FALSE \in BOOLEAN
<1>7. Used(read_ptr, ReclaimedTo') <= Used(read_ptr, ssn)
  <2>1. Used(read_ptr, read_ptr) = 0  BY <1>2, UsedType
  <2>. QED  BY <1>4, <1>6, <2>1
<1>8. RingTypes'  BY <1>1, <1>2, <1>3, <1>6 DEF RingTypes, RecTypes
<1>9. Used(read_ptr, ReclaimedTo') \in Nat  BY <1>2, <1>6, UsedType
<1>10. PointersInOrder'
  BY <1>1, <1>4, <1>6, <1>7, <1>9, Sizes DEF PointersInOrder
<1>11. NotifsInOrder'
  <2>. SUFFICES ASSUME NEW k \in 1..Len(notifs')
                PROVE  /\ Used(read_ptr, ReclaimedTo')
                            <= Used(read_ptr, notifs'[k])
                       /\ Used(read_ptr, notifs'[k]) <= Used(read_ptr, hw_ptr)
                       /\ \A j \in 1..k : Used(read_ptr, notifs'[j])
                                            <= Used(read_ptr, notifs'[k])
    BY <1>1, <1>6 DEF NotifsInOrder
  <2>1. k + 1 \in 1..Len(notifs) /\ notifs'[k] = notifs[k + 1]  BY <1>2, <1>3
  <2>2. /\ Used(read_ptr, notifs[k + 1]) <= Used(read_ptr, hw_ptr)
        /\ \A j \in 1..(k + 1) : Used(read_ptr, notifs[j])
                                   <= Used(read_ptr, notifs[k + 1])
    BY <2>1 DEF OrderInv, NotifsInOrder
  <2>3. Used(read_ptr, ssn) <= Used(read_ptr, notifs[k + 1])  BY <1>2, <2>2
  <2>4. Used(read_ptr, notifs[k + 1]) \in Nat
    <3>1. notifs[k + 1] \in Ring  BY <1>2, <2>1
    <3>. QED  BY <1>2, <3>1, UsedType
  <2>5. Used(read_ptr, ReclaimedTo') <= Used(read_ptr, notifs[k + 1])
    BY <1>4, <1>7, <1>9, <2>3, <2>4
  <2>6. \A j \in 1..k : notifs'[j] = notifs[j + 1] /\ j + 1 \in 1..(k + 1)
    BY <1>2, <1>3
  <2>. QED  BY <2>1, <2>2, <2>5, <2>6
<1>. QED  BY <1>8, <1>10, <1>11 DEF OrderInv

\* A flush frees everything.
LEMMA FlushInOrder == OrderInv /\ FlushReclaim => OrderInv'
<1>. SUFFICES ASSUME OrderInv, FlushReclaim PROVE OrderInv'
  OBVIOUS
<1>1. /\ notifs = <<>> /\ notifs' = <<>> /\ hw_ptr' = write_ptr
      /\ StartReclaim(write_ptr, TRUE)
  BY DEF FlushReclaim
<1>2. /\ read_ptr \in Ring /\ write_ptr \in Ring
      /\ Used(read_ptr, write_ptr) \in Nat
      /\ Used(read_ptr, write_ptr) < NWindow
  BY UsedType DEF OrderInv, RingTypes, PointersInOrder
<1>3. /\ read_ptr' = read_ptr /\ write_ptr' = write_ptr
      /\ r_ptr' = read_ptr /\ tfd_num' \in 0..(NWindow - 1)
      /\ rec' \in {"idle", "free"}
      /\ ReclaimedTo' \in {read_ptr, write_ptr}
  <2>. DEFINE f == TRUE
  <2>1. f \in BOOLEAN /\ StartReclaim(write_ptr, f)  BY <1>1
  <2>2. Used(read_ptr, write_ptr) <= Used(read_ptr, write_ptr)  BY <1>2
  <2>. HIDE DEF f
  <2>. QED  BY <1>2, <2>1, <2>2, StartTarget
<1>4. Used(read_ptr, read_ptr) = 0  BY <1>2, UsedType
<1>5. RingTypes'  BY <1>1, <1>2, <1>3 DEF RingTypes, RecTypes
<1>6. PointersInOrder'  BY <1>1, <1>2, <1>3, <1>4, Sizes DEF PointersInOrder
<1>7. NotifsInOrder'  BY <1>1 DEF NotifsInOrder
<1>. QED  BY <1>5, <1>6, <1>7 DEF OrderInv

\* The device sends frames, and only what it was given.
LEMMA DeviceInOrder == OrderInv /\ DeviceReports => OrderInv'
<1>. SUFFICES ASSUME OrderInv, DeviceReports PROVE OrderInv'
  OBVIOUS
<1>1. /\ hw_ptr' \in Slots(IncWrap(hw_ptr), IncWrap(write_ptr))
      /\ notifs' = Append(notifs, hw_ptr')
      /\ UNCHANGED <<read_ptr, write_ptr, r_ptr, tfd_num, rec>>
  BY DEF DeviceReports, ring, locals
<1>2. /\ read_ptr \in Ring /\ write_ptr \in Ring /\ hw_ptr \in Ring
      /\ notifs \in Seq(Ring) /\ Len(notifs) \in Nat
  BY DEF OrderInv, RingTypes
<1>3. /\ ReclaimedTo' = ReclaimedTo /\ ReclaimedTo \in Ring
      /\ Used(read_ptr, ReclaimedTo) \in Nat
      /\ Used(read_ptr, hw_ptr) \in Nat /\ Used(read_ptr, write_ptr) \in Nat
      /\ Used(read_ptr, write_ptr) < NWindow
      /\ Used(read_ptr, hw_ptr) <= Used(read_ptr, write_ptr)
      /\ Used(read_ptr, ReclaimedTo) <= Used(read_ptr, hw_ptr)
  BY <1>1, ReclaimedType
     DEF OrderInv, PointersInOrder, ReclaimedTo, FreeTarget
<1>4. /\ Used(read_ptr, write_ptr)
           = Used(read_ptr, hw_ptr) + Used(hw_ptr, write_ptr)
      /\ Used(hw_ptr, write_ptr) \in Nat
  BY <1>2, <1>3, UsedSplit, UsedType
<1>5. PICK k \in 0..(Used(hw_ptr, write_ptr) - 1) :
          hw_ptr' = (IncWrap(hw_ptr) + k) % MaxTfd
  <2>1. Used(hw_ptr, write_ptr) < NWindow  BY <1>3, <1>4, Sizes
  <2>2. /\ IncWrap(write_ptr) \in Ring
        /\ Used(hw_ptr, IncWrap(write_ptr)) = Used(hw_ptr, write_ptr) + 1
    BY <1>2, <2>1, UsedGrows
  <2>3. hw_ptr # IncWrap(write_ptr)  BY <1>2, <1>4, <2>2, UsedType
  <2>4. Used(IncWrap(hw_ptr), IncWrap(write_ptr)) = Used(hw_ptr, write_ptr)
    BY <1>2, <1>4, <2>2, <2>3, UsedShrinks
  <2>. QED  BY <1>1, <2>4 DEF Slots
<1>6. hw_ptr' \in Ring /\ Used(hw_ptr, hw_ptr') = k + 1
  <2>1. IncWrap(hw_ptr) \in Ring /\ Used(hw_ptr, IncWrap(hw_ptr)) = 1
    <3>1. Used(hw_ptr, hw_ptr) = 0  BY <1>2, UsedType
    <3>. QED  BY <1>2, <3>1, UsedGrows, Sizes
  <2>2. k \in 0..NWindow /\ 1 + k <= NWindow  BY <1>3, <1>4, Sizes
  <2>3. hw_ptr' \in Ring /\ Used(IncWrap(hw_ptr), hw_ptr') = k
    BY <1>5, <2>1, <2>2, UsedAdd
  <2>. QED  BY <1>2, <2>1, <2>2, <2>3, UsedSum
<1>7. /\ Used(read_ptr, hw_ptr') = Used(read_ptr, hw_ptr) + (k + 1)
      /\ Used(read_ptr, hw_ptr') <= Used(read_ptr, write_ptr)
      /\ Used(read_ptr, hw_ptr') \in Nat
  <2>1. Used(read_ptr, hw_ptr) + Used(hw_ptr, hw_ptr') <= NWindow
    BY <1>3, <1>4, <1>6, Sizes
  <2>. QED  BY <1>2, <1>3, <1>4, <1>6, <2>1, UsedSum
<1>8. RingTypes'  BY <1>1, <1>2, <1>6 DEF OrderInv, RingTypes
<1>9. PointersInOrder'
  BY <1>1, <1>3, <1>7, Sizes DEF OrderInv, PointersInOrder
<1>10. NotifsInOrder'
  <2>. SUFFICES ASSUME NEW i \in 1..Len(notifs')
                PROVE  /\ Used(read_ptr, ReclaimedTo)
                            <= Used(read_ptr, notifs'[i])
                       /\ Used(read_ptr, notifs'[i]) <= Used(read_ptr, hw_ptr')
                       /\ \A j \in 1..i : Used(read_ptr, notifs'[j])
                                            <= Used(read_ptr, notifs'[i])
    BY <1>1, <1>3 DEF NotifsInOrder
  <2>1. /\ Len(notifs') = Len(notifs) + 1
        /\ notifs'[Len(notifs) + 1] = hw_ptr'
        /\ \A j \in 1..Len(notifs) : notifs'[j] = notifs[j]
    BY <1>1, <1>2, <1>6
  <2>2. \A j \in 1..Len(notifs) :
           /\ Used(read_ptr, notifs[j]) \in Nat
           /\ Used(read_ptr, ReclaimedTo) <= Used(read_ptr, notifs[j])
           /\ Used(read_ptr, notifs[j]) <= Used(read_ptr, hw_ptr)
           /\ \A l \in 1..j :
                 Used(read_ptr, notifs[l]) <= Used(read_ptr, notifs[j])
    <3>1. \A j \in 1..Len(notifs) : notifs[j] \in Ring  BY <1>2
    <3>2. \A j \in 1..Len(notifs) : Used(read_ptr, notifs[j]) \in Nat
      BY <1>2, <3>1, UsedType
    <3>. QED  BY <3>2 DEF OrderInv, NotifsInOrder
  <2>3. CASE i \in 1..Len(notifs)
    <3>1. \A j \in 1..i : j \in 1..Len(notifs)  BY <1>2, <2>3
    <3>2. Used(read_ptr, notifs[i]) <= Used(read_ptr, hw_ptr')
      BY <1>3, <1>7, <2>2, <2>3
    <3>. QED  BY <2>1, <2>2, <2>3, <3>1, <3>2
  <2>4. CASE i = Len(notifs) + 1
    <3>1. \A j \in 1..Len(notifs) :
             Used(read_ptr, notifs[j]) <= Used(read_ptr, hw_ptr')
      BY <1>3, <1>7, <2>2
    <3>2. Used(read_ptr, ReclaimedTo) <= Used(read_ptr, hw_ptr')  BY <1>3, <1>7
    <3>3. \A j \in 1..i : j \in 1..Len(notifs) \/ j = i  BY <1>2, <2>4
    <3>. QED  BY <1>7, <2>1, <2>4, <3>1, <3>2, <3>3
  <2>. QED  BY <1>2, <2>1, <2>3, <2>4
<1>. QED  BY <1>8, <1>9, <1>10 DEF OrderInv

\* The entries are freed.
LEMMA FreeInOrder == OrderInv /\ FreeEntries => OrderInv'
<1>. SUFFICES ASSUME OrderInv, FreeEntries PROVE OrderInv'
  OBVIOUS
<1>1. /\ rec = "free" /\ rec' = "relock" /\ r_ptr' = FreeTarget
      /\ UNCHANGED <<read_ptr, write_ptr, hw_ptr, notifs, tfd_num>>
  BY DEF FreeEntries, FreeTarget, device
<1>2. ReclaimedTo' = ReclaimedTo /\ FreeTarget = ReclaimedTo
  BY <1>1 DEF ReclaimedTo
<1>3. RingTypes'
  BY <1>1, <1>2, ReclaimedType DEF OrderInv, RingTypes, RecTypes
<1>4. PointersInOrder'  BY <1>1, <1>2 DEF OrderInv, PointersInOrder
<1>5. NotifsInOrder'  BY <1>1, <1>2 DEF OrderInv, NotifsInOrder
<1>. QED  BY <1>3, <1>4, <1>5 DEF OrderInv

\* The new read pointer is published.
LEMMA UpdateInOrder == OrderInv /\ UpdateReadPtr => OrderInv'
<1>. SUFFICES ASSUME OrderInv, UpdateReadPtr PROVE OrderInv'
  OBVIOUS
<1>1. /\ rec = "relock" /\ rec' \in {"overflow", "idle"} /\ read_ptr' = r_ptr
      /\ UNCHANGED <<write_ptr, hw_ptr, notifs, r_ptr, tfd_num>>
  BY DEF UpdateReadPtr, device, locals
<1>2. /\ read_ptr \in Ring /\ write_ptr \in Ring /\ hw_ptr \in Ring
      /\ r_ptr \in Ring /\ notifs \in Seq(Ring)
  BY DEF OrderInv, RingTypes
<1>3. ReclaimedTo = r_ptr /\ ReclaimedTo' = r_ptr  BY <1>1 DEF ReclaimedTo
<1>4. \A p \in Ring : Used(read_ptr, r_ptr) <= Used(read_ptr, p) =>
          /\ Used(read_ptr, p) = Used(read_ptr, r_ptr) + Used(r_ptr, p)
          /\ Used(r_ptr, p) \in Nat /\ Used(read_ptr, r_ptr) \in Nat
          /\ Used(read_ptr, p) \in Nat
  BY <1>2, UsedSplit, UsedType
<1>5. Used(r_ptr, r_ptr) = 0  BY <1>2, UsedType
<1>6. /\ Used(read_ptr, write_ptr) < NWindow
      /\ Used(read_ptr, hw_ptr) <= Used(read_ptr, write_ptr)
      /\ Used(read_ptr, r_ptr) <= Used(read_ptr, hw_ptr)
      /\ Used(read_ptr, r_ptr) <= Used(read_ptr, write_ptr)
  <2>1. /\ Used(read_ptr, write_ptr) < NWindow
        /\ Used(read_ptr, hw_ptr) <= Used(read_ptr, write_ptr)
        /\ Used(read_ptr, r_ptr) <= Used(read_ptr, hw_ptr)
    BY <1>3 DEF OrderInv, PointersInOrder
  <2>2. /\ Used(read_ptr, r_ptr) \in Nat /\ Used(read_ptr, hw_ptr) \in Nat
        /\ Used(read_ptr, write_ptr) \in Nat
    BY <1>2, UsedType
  <2>. QED  BY <2>1, <2>2
<1>7. RingTypes'  BY <1>1, <1>2 DEF OrderInv, RingTypes, RecTypes
<1>8. PointersInOrder'
  <2>1. /\ Used(r_ptr, write_ptr) < NWindow
        /\ Used(r_ptr, hw_ptr) <= Used(r_ptr, write_ptr)
        /\ 0 <= Used(r_ptr, hw_ptr)
    BY <1>2, <1>4, <1>6, Sizes
  <2>. QED  BY <1>1, <1>3, <1>5, <2>1 DEF PointersInOrder
<1>9. NotifsInOrder'
  <2>1. \A k \in 1..Len(notifs) :
           /\ notifs[k] \in Ring
           /\ Used(read_ptr, r_ptr) <= Used(read_ptr, notifs[k])
           /\ Used(read_ptr, notifs[k]) <= Used(read_ptr, hw_ptr)
           /\ \A j \in 1..k :
                 Used(read_ptr, notifs[j]) <= Used(read_ptr, notifs[k])
    BY <1>2, <1>3 DEF OrderInv, NotifsInOrder
  <2>. SUFFICES ASSUME NEW k \in 1..Len(notifs)
                PROVE  /\ 0 <= Used(r_ptr, notifs[k])
                       /\ Used(r_ptr, notifs[k]) <= Used(r_ptr, hw_ptr)
                       /\ \A j \in 1..k : Used(r_ptr, notifs[j])
                                            <= Used(r_ptr, notifs[k])
    BY <1>1, <1>3, <1>5 DEF NotifsInOrder
  <2>2. /\ 0 <= Used(r_ptr, notifs[k])
        /\ Used(r_ptr, notifs[k]) <= Used(r_ptr, hw_ptr)
    BY <1>2, <1>4, <1>6, <2>1
  <2>3. ASSUME NEW j \in 1..k
        PROVE  Used(r_ptr, notifs[j]) <= Used(r_ptr, notifs[k])
    <3>1. j \in 1..Len(notifs)  BY <1>2
    <3>2. /\ notifs[j] \in Ring /\ notifs[k] \in Ring
          /\ Used(read_ptr, r_ptr) <= Used(read_ptr, notifs[j])
          /\ Used(read_ptr, r_ptr) <= Used(read_ptr, notifs[k])
          /\ Used(read_ptr, notifs[j]) <= Used(read_ptr, notifs[k])
      BY <2>1, <3>1
    <3>3. /\ Used(read_ptr, notifs[j])
               = Used(read_ptr, r_ptr) + Used(r_ptr, notifs[j])
          /\ Used(read_ptr, notifs[k])
               = Used(read_ptr, r_ptr) + Used(r_ptr, notifs[k])
          /\ Used(r_ptr, notifs[j]) \in Nat /\ Used(r_ptr, notifs[k]) \in Nat
          /\ Used(read_ptr, r_ptr) \in Nat
      BY <1>4, <3>2
    <3>. QED  BY <3>2, <3>3
  <2>. QED  BY <2>2, <2>3
<1>. QED  BY <1>7, <1>8, <1>9 DEF OrderInv

\* Every step keeps the order.
LEMMA OrderStep ==
    OrderInv /\ [Next]_vars => OrderInv'
<1>. SUFFICES ASSUME OrderInv, [Next]_vars
              PROVE  OrderInv'
  OBVIOUS
<1>. USE DEF pointers, ring, locals, device, errors, wait
<1>s. UNCHANGED <<pointers, write_ptr, rec>> => OrderInv'  BY SameOrder
<1>t. /\ UNCHANGED <<pointers, write_ptr>>
      /\ rec \notin {"free", "relock"}
      /\ rec' \in {"overflow", "wake", "notfull", "end", "idle"}
      => OrderInv'
  BY SameOrder DEF RecTypes
<1>0. CASE UNCHANGED vars  BY <1>0, <1>s DEF vars
<1>1. ASSUME NEW t \in Threads, NEW n \in BurstSizes, Enqueue(t, n)
      PROVE  OrderInv'
  BY <1>1, <1>s DEF Enqueue, Goto
<1>2. ASSUME NEW c \in Ctx, Request(c) PROVE OrderInv'
  BY <1>2, <1>s DEF Request, Goto
<1>3. ASSUME NEW c \in Ctx, CheckFull(c) PROVE OrderInv'
  BY <1>3, <1>s DEF CheckFull, Goto
<1>4. ASSUME NEW c \in Ctx, Dequeue(c) PROVE OrderInv'
  BY <1>4, <1>s DEF Dequeue, Goto
<1>5. ASSUME NEW c \in Ctx, Tx(c) PROVE OrderInv'
  <2>1. CASE MustOverflow
    BY <1>5, <2>1, <1>s
       DEF Tx, Transmit, PutOnRing, PutOnOverflow, NextSeg, Goto
  <2>2. CASE ~MustOverflow
    BY <1>5, <2>2, PutInOrder
       DEF Tx, Transmit, PutOnRing, PutOnOverflow, NextSeg, Goto
  <2>. QED  BY <2>1, <2>2
<1>6. ASSUME NEW c \in Ctx, TxStop(c) PROVE OrderInv'  BY <1>6, <1>s DEF TxStop
<1>7. ASSUME NEW c \in Ctx, TxFull(c) PROVE OrderInv'
  <2>1. CASE MustOverflow
    BY <1>7, <2>1, <1>s
       DEF TxFull, Transmit, PutOnRing, PutOnOverflow, NextSeg, Goto
  <2>2. CASE ~MustOverflow
    BY <1>7, <2>2, PutInOrder
       DEF TxFull, Transmit, PutOnRing, PutOnOverflow, NextSeg, Goto
  <2>. QED  BY <2>1, <2>2
<1>8. ASSUME NEW c \in Ctx, TxFails(c) PROVE OrderInv'
  BY <1>8, <1>s DEF TxFails, BuildTfdFails, Goto
<1>9. ASSUME NEW c \in Ctx, DecRequest(c) PROVE OrderInv'
  BY <1>9, <1>s DEF DecRequest, Goto
<1>10. CASE DeviceReports  BY <1>10, DeviceInOrder
<1>11. CASE Reclaim  BY <1>11, ReclaimInOrder
<1>12. CASE FreeEntries  BY <1>12, FreeInOrder
<1>13. CASE UpdateReadPtr  BY <1>13, UpdateInOrder
<1>14. CASE OverflowTx
  <2>1. CASE MustOverflow
    BY <1>14, <2>1, <1>s DEF OverflowTx, Transmit, PutOnRing, PutOnOverflow
  <2>2. CASE ~MustOverflow
    BY <1>14, <2>2, PutInOrder
       DEF OverflowTx, Transmit, PutOnRing, PutOnOverflow
  <2>. QED  BY <2>1, <2>2
<1>15. CASE OverflowTxFails  BY <1>15, <1>s DEF OverflowTxFails, BuildTfdFails
<1>16. CASE CheckSpace  BY <1>16, <1>t DEF CheckSpace
<1>17. CASE WakeQueue  BY <1>17, <1>t DEF WakeQueue
<1>18. CASE NotFull  BY <1>18, <1>t DEF NotFull, Goto
<1>19. CASE EndReclaim  BY <1>19, <1>t DEF EndReclaim
<1>20. CASE FlushReclaim  BY <1>20, FlushInOrder
<1>21. CASE WaitStart  BY <1>21, <1>s DEF WaitStart
<1>22. CASE WaitSample  BY <1>22, <1>s DEF WaitSample
<1>23. CASE WaitCheck  BY <1>23, <1>s DEF WaitCheck
<1>24. CASE WaitTimeout  BY <1>24, <1>s DEF WaitTimeout
<1>25. CASE WaitReturn  BY <1>25, <1>s DEF WaitReturn
<1>. QED
  BY <1>0, <1>1, <1>2, <1>3, <1>4, <1>5, <1>6, <1>7, <1>8, <1>9, <1>10, <1>11,
     <1>12, <1>13, <1>14, <1>15, <1>16, <1>17, <1>18, <1>19, <1>20, <1>21,
     <1>22, <1>23, <1>24, <1>25
     DEF Next, TxFromTxq, ReclaimStep, Wait


----------------------------------------------------------------------------
(* The frames of the ring *)

\* The entries that hold frames are fewer than the window has.
LEMMA OldestType ==
    OrderInv =>
      /\ Oldest \in Ring
      /\ Used(Oldest, write_ptr) \in Nat
      /\ Used(Oldest, write_ptr) < NWindow
<1>. SUFFICES ASSUME OrderInv
              PROVE  /\ Oldest \in Ring
                     /\ Used(Oldest, write_ptr) \in Nat
                     /\ Used(Oldest, write_ptr) < NWindow
  OBVIOUS
<1>1. /\ read_ptr \in Ring /\ write_ptr \in Ring
      /\ r_ptr \in Ring /\ hw_ptr \in Ring
  BY DEF OrderInv, RingTypes
<1>2. /\ Used(read_ptr, write_ptr) < NWindow
      /\ Used(read_ptr, hw_ptr) <= Used(read_ptr, write_ptr)
      /\ Used(read_ptr, ReclaimedTo) <= Used(read_ptr, hw_ptr)
  BY DEF OrderInv, PointersInOrder
<1>3. CASE rec = "relock"
  <2>1. Oldest = r_ptr /\ ReclaimedTo = r_ptr  BY <1>3 DEF Oldest, ReclaimedTo
  <2>2. /\ Used(read_ptr, r_ptr) \in Nat /\ Used(read_ptr, hw_ptr) \in Nat
        /\ Used(read_ptr, write_ptr) \in Nat /\ Used(r_ptr, write_ptr) \in Nat
    BY <1>1, UsedType
  <2>3. Used(read_ptr, r_ptr) <= Used(read_ptr, write_ptr)  BY <1>2, <2>1, <2>2
  <2>4. Used(read_ptr, write_ptr)
          = Used(read_ptr, r_ptr) + Used(r_ptr, write_ptr)
    BY <1>1, <2>3, UsedSplit
  <2>5. Used(r_ptr, write_ptr) < NWindow  BY <1>2, <2>2, <2>4, Sizes
  <2>. QED  BY <1>1, <2>1, <2>2, <2>5
<1>4. CASE rec # "relock"  BY <1>1, <1>2, <1>4, UsedType DEF Oldest
<1>. QED  BY <1>3, <1>4

\* A frame that is put on the ring is one more.
LEMMA HeldGrows ==
    /\ OrderInv /\ write_ptr' = IncWrap(write_ptr)
    /\ UNCHANGED <<read_ptr, r_ptr, rec>>
    => /\ CmdIndex(write_ptr) \in 0..(NWindow - 1)
       /\ Held' = Held \union {CmdIndex(write_ptr)}
<1>. SUFFICES ASSUME OrderInv, write_ptr' = IncWrap(write_ptr),
                     UNCHANGED <<read_ptr, r_ptr, rec>>
              PROVE  /\ CmdIndex(write_ptr) \in 0..(NWindow - 1)
                     /\ Held' = Held \union {CmdIndex(write_ptr)}
  OBVIOUS
<1>. DEFINE x == CmdIndex(Oldest)
            y == CmdIndex(write_ptr)
            n == Used(Oldest, write_ptr)
<1>1. write_ptr \in Ring /\ Oldest \in Ring /\ Oldest' = Oldest
  BY OldestType DEF OrderInv, RingTypes, Oldest
<1>2. n \in Nat /\ n < NWindow /\ n <= NWindow  BY OldestType, Sizes
<1>3. Used(Oldest, write_ptr') = n + 1  BY <1>1, <1>2, UsedGrows
<1>4. /\ x \in 0..(NWindow - 1) /\ y \in 0..(NWindow - 1)
      /\ y = IF x + n < NWindow THEN x + n ELSE (x + n) - NWindow
  BY <1>1, <1>2, IndexAfter
<1>5. Held' = Window(x, n + 1) /\ Held = Window(x, n)
  BY <1>1, <1>3 DEF Held, Window
<1>. HIDE DEF x, y, n
<1>6. Window(x, n + 1) = Window(x, n) \union {y}
  <2>1. n \in 0..(NWindow - 1)  BY <1>2, Sizes
  <2>. QED  BY <1>4, <2>1, WindowGrows
<1>. QED  BY <1>4, <1>5, <1>6 DEF y

\* What the loop of iwl_pcie_reclaim frees is not held any more, and the rest
\* is.
LEMMA HeldShrinks ==
    ASSUME OrderInv, DOMAIN entries = 0..(NWindow - 1), FreeEntries
    PROVE  /\ Held' \subseteq Held
           /\ \A i \in Held' : entries'[i] = entries[i]
<1>. DEFINE x == CmdIndex(read_ptr)
            n == (tfd_num - CmdIndex(r_ptr)) % NWindow
            m == Used(read_ptr, write_ptr)
            y == CmdIndex(FreeTarget)
            freed == {(CmdIndex(r_ptr) + k) % NWindow : k \in 0..(n - 1)}
<1>1. /\ rec = "free" /\ rec' = "relock" /\ r_ptr' = FreeTarget
      /\ UNCHANGED <<read_ptr, write_ptr>>
      /\ entries' = [i \in DOMAIN entries |->
                        IF i \in freed THEN NULL ELSE entries[i]]
  BY DEF FreeEntries, FreeTarget
<1>2. /\ read_ptr \in Ring /\ write_ptr \in Ring /\ hw_ptr \in Ring
      /\ r_ptr = read_ptr /\ tfd_num \in 0..(NWindow - 1)
  BY <1>1 DEF OrderInv, RingTypes, PointersInOrder
<1>3. /\ ReclaimedTo = FreeTarget /\ FreeTarget \in Ring
      /\ Used(read_ptr, FreeTarget) \in Nat /\ m \in Nat /\ m < NWindow
      /\ Used(read_ptr, FreeTarget) <= m
  <2>1. ReclaimedTo = FreeTarget  BY <1>1 DEF ReclaimedTo
  <2>2. /\ Used(read_ptr, ReclaimedTo) <= Used(read_ptr, hw_ptr)
        /\ Used(read_ptr, hw_ptr) <= m /\ m < NWindow
    BY DEF OrderInv, PointersInOrder
  <2>3. /\ ReclaimedTo \in Ring /\ Used(read_ptr, ReclaimedTo) \in Nat
        /\ Used(read_ptr, hw_ptr) \in Nat /\ m \in Nat
    BY ReclaimedType
  <2>. HIDE DEF m
  <2>. QED  BY <2>1, <2>2, <2>3
<1>4. x \in 0..(NWindow - 1)
  <2>1. Used(read_ptr, read_ptr) = 0  BY <1>2, UsedType
  <2>. QED  BY <1>2, <2>1, IndexAfter, Sizes
<1>5. n \in 0..(NWindow - 1) /\ n \in 0..NWindow
  <2>1. n \in 0..(NWindow - 1)  BY <1>2, <1>4, Sizes, RingZero
  <2>. QED  BY <2>1, Sizes
<1>6. Used(read_ptr, FreeTarget) = n
  <2>1. FreeTarget = (read_ptr + n) % MaxTfd  BY <1>2 DEF FreeTarget
  <2>. HIDE DEF n
  <2>. QED  BY <1>2, <1>5, <2>1, UsedAdd
<1>7. Used(FreeTarget, write_ptr) = m - n
  <2>1. m = Used(read_ptr, FreeTarget) + Used(FreeTarget, write_ptr)
    BY <1>2, <1>3, UsedSplit
  <2>2. Used(FreeTarget, write_ptr) \in Nat  BY <1>2, <1>3, UsedType
  <2>. HIDE DEF m, n
  <2>. QED  BY <1>3, <1>5, <1>6, <2>1, <2>2
<1>8. y = IF x + n < NWindow THEN x + n ELSE (x + n) - NWindow
  <2>1. Used(read_ptr, FreeTarget) <= NWindow  BY <1>5, <1>6, Sizes
  <2>2. y = IF x + Used(read_ptr, FreeTarget) < NWindow
            THEN x + Used(read_ptr, FreeTarget)
            ELSE (x + Used(read_ptr, FreeTarget)) - NWindow
    BY <1>2, <1>3, <2>1, IndexAfter
  <2>. QED  BY <1>6, <2>2
<1>9. Held = Window(x, m) /\ Held' = Window(y, m - n)
  <2>1. Oldest = read_ptr /\ Oldest' = FreeTarget  BY <1>1 DEF Oldest
  <2>. QED  BY <1>1, <1>7, <2>1 DEF Held, Window
<1>10. freed = {(x + k) % NWindow : k \in 0..(n - 1)}  BY <1>2
<1>. HIDE DEF x, n, m, y, freed
<1>12. Window(y, m - n) \subseteq Window(x, m) \ Window(x, n)
  <2>1. m \in 0..NWindow /\ n \in 0..m  BY <1>3, <1>5, <1>6, Sizes
  <2>. QED  BY <1>4, <1>8, <2>1, WindowShrinks
<1>13. freed \subseteq Window(x, n)  BY <1>4, <1>5, <1>10, WindowCounted
<1>14. \A i \in Held' : i \in 0..(NWindow - 1) /\ i \notin freed
  BY <1>9, <1>12, <1>13 DEF Window
<1>15. Held' \subseteq Held  BY <1>9, <1>12
<1>. QED  BY <1>1, <1>14, <1>15

----------------------------------------------------------------------------
(* Types *)

Places == {"idle", "request", "loop", "dequeue", "tx", "dec"}
Windows == 0..(NWindow - 1)

\* Bursts are never empty.
BurstTypes ==
    /\ pc \in [Ctx -> Places] /\ segs \in [Ctx -> Seq(Frames)]
    /\ backlog \in Seq(Seq(Frames)) /\ enqueued \in 0..MaxFrames
    /\ \A c \in Ctx : pc[c] = "tx" => segs[c] # <<>>
    /\ \A k \in 1..Len(backlog) : backlog[k] # <<>>

FrameTypes ==
    /\ entries \in [Windows -> Frames \union {NULL}]
    /\ overflow_q \in Seq(Frames) /\ overflow_skbs \in Seq(Frames)
    /\ done \subseteq Frames /\ leaked \subseteq Frames

FlagTypes ==
    /\ overflow_tx \in BOOLEAN /\ stuck_timer \in BOOLEAN
    /\ queue_stopped \in BOOLEAN /\ stop_full \in BOOLEAN
    /\ flush \in BOOLEAN /\ wait_overflow \in BOOLEAN

WaitTypes ==
    /\ waiter \in {"idle", "sample", "check", "empty", "timedout", "warned",
                   "flush"}
    /\ wr_ptr \in 0..(MaxTfd - 1) \union {Unread}
    /\ dma_fails \in 0..MaxDmaFails
    /\ lock \in Ctx \union {None}

\* A thread that is in the loop of iwl_mld_tx_from_txq: there is one at most,
\* and tx_request counts it.  The reclaim only gets into the loop when it is
\* done with the queue, and whoever keeps txq->lock is about to place a frame.
Working(c) == pc[c] \in {"loop", "dequeue", "tx", "dec"}
WorkerInv ==
    /\ tx_request \in 0..2
    /\ \A c, d \in Ctx : Working(c) /\ Working(d) => c = d
    /\ tx_request # 0 <=> \E c \in Ctx : Working(c)
    /\ rec # "end" => pc[Reclaimer] = "idle"
    /\ lock # None => pc[lock] = "tx"

\* A new burst has frames, within the bound.
LEMMA BurstType ==
    ASSUME NEW n \in BurstSizes, enqueued \in Nat, enqueued + n <= MaxFrames
    PROVE  NewBurst(n) \in Seq(Frames) /\ NewBurst(n) # <<>>
<1>1. n \in Nat /\ n > 0 /\ MaxFrames \in Nat  BY BoundAssumption
<1>2. \A i \in 1..n : enqueued + i \in Frames  BY <1>1 DEF Frames
<1>3. NewBurst(n) \in [1..n -> Frames]  BY <1>2 DEF NewBurst
<1>4. NewBurst(n) \in Seq(Frames)  BY <1>1, <1>3
<1>5. Len(NewBurst(n)) = n  BY <1>1, <1>3, <1>4
<1>. QED  BY <1>1, <1>4, <1>5

\* A burst without its first frame.
LEMMA BurstTail ==
    ASSUME NEW s \in Seq(Frames), s # <<>>
    PROVE  /\ Head(s) \in Frames /\ Head(s) # NULL
           /\ Tail(s) \in Seq(Frames)
           /\ Len(s) \in Nat /\ Len(s) >= 1 /\ Len(Tail(s)) = Len(s) - 1
           /\ Len(s) # 1 => Tail(s) # <<>>
<1>1. /\ Head(s) \in Frames /\ Tail(s) \in Seq(Frames)
      /\ Len(s) \in Nat /\ Len(s) >= 1 /\ Len(Tail(s)) = Len(s) - 1
  OBVIOUS
<1>2. Head(s) # NULL  BY <1>1, BoundAssumption DEF Frames, NULL
<1>3. Len(s) # 1 => Tail(s) # <<>>
  <2>. DEFINE t == Tail(s)
  <2>1. Len(t) = Len(s) - 1  BY <1>1
  <2>. HIDE DEF t
  <2>2. Len(s) # 1 => t # <<>>  BY <1>1, <2>1
  <2>. QED  BY <2>2 DEF t
<1>. QED  BY <1>1, <1>2, <1>3

\* The entries that the loop frees are in the window.
LEMMA FreedIndices ==
    ASSUME OrderInv
    PROVE  {(CmdIndex(r_ptr) + k) % NWindow :
              k \in 0..(((tfd_num - CmdIndex(r_ptr)) % NWindow) - 1)}
             \subseteq Windows
<1>1. r_ptr \in Nat /\ tfd_num \in Nat  BY Sizes DEF OrderInv, RingTypes, Ring
<1>2. CmdIndex(r_ptr) \in Nat  BY <1>1, Sizes DEF CmdIndex
<1>3. (tfd_num - CmdIndex(r_ptr)) % NWindow \in Nat  BY <1>1, <1>2, Sizes
<1>. QED  BY <1>2, <1>3, Sizes DEF Windows

\* Bursts stay as they are until they are sent.
LEMMA BurstTypesStep ==
    BurstTypes /\ [Next]_vars => BurstTypes'
<1>. SUFFICES ASSUME BurstTypes, [Next]_vars
              PROVE  BurstTypes'
  OBVIOUS
<1>. USE DEF BurstTypes, Places, ring, locals, device, errors, wait
<1>0. CASE UNCHANGED vars  BY <1>0 DEF vars
<1>1. ASSUME NEW t \in Threads, NEW n \in BurstSizes, Enqueue(t, n)
      PROVE  BurstTypes'
  <2>1. enqueued \in Nat /\ enqueued + n <= MaxFrames /\ n \in Nat
    BY <1>1, BoundAssumption DEF Enqueue
  <2>2. NewBurst(n) \in Seq(Frames) /\ NewBurst(n) # <<>>  BY <2>1, BurstType
  <2>3. backlog' = Append(backlog, NewBurst(n)) /\ t \in Ctx
    BY <1>1 DEF Enqueue, Ctx
  <2>4. /\ backlog' \in Seq(Seq(Frames))
        /\ \A k \in 1..Len(backlog') : backlog'[k] # <<>>
    BY <2>2, <2>3
  <2>5. enqueued' \in 0..MaxFrames  BY <1>1, <2>1, BoundAssumption DEF Enqueue
  <2>. QED  BY <1>1, <2>3, <2>4, <2>5 DEF Enqueue, Goto
<1>2. ASSUME NEW c \in Ctx, Request(c) PROVE BurstTypes'
  BY <1>2 DEF Request, Goto
<1>3. ASSUME NEW c \in Ctx, CheckFull(c) PROVE BurstTypes'
  BY <1>3 DEF CheckFull, Goto
<1>4. ASSUME NEW c \in Ctx, Dequeue(c) PROVE BurstTypes'
  <2>1. CASE backlog = <<>>  BY <1>4, <2>1 DEF Dequeue, Goto
  <2>2. CASE backlog # <<>>
    <3>1. /\ Head(backlog) = backlog[1] /\ 1 \in 1..Len(backlog)
          /\ Head(backlog) \in Seq(Frames) /\ Head(backlog) # <<>>
      BY <2>2
    <3>2. /\ Tail(backlog) \in Seq(Seq(Frames))
          /\ \A k \in 1..Len(Tail(backlog)) : Tail(backlog)[k] # <<>>
      BY <2>2
    <3>. QED  BY <1>4, <2>2, <3>1, <3>2 DEF Dequeue, Goto
  <2>. QED  BY <2>1, <2>2
<1>5. ASSUME NEW c \in Ctx, Tx(c) PROVE BurstTypes'
  <2>1. NextSeg(c) /\ pc[c] = "tx" /\ UNCHANGED <<backlog, enqueued>>
    BY <1>5 DEF Tx
  <2>2. /\ Tail(segs[c]) \in Seq(Frames)
        /\ Len(segs[c]) # 1 => Tail(segs[c]) # <<>>
    BY <2>1, BurstTail
  <2>. QED  BY <2>1, <2>2 DEF NextSeg, Goto
<1>6. ASSUME NEW c \in Ctx, TxStop(c) PROVE BurstTypes'  BY <1>6 DEF TxStop
<1>7. ASSUME NEW c \in Ctx, TxFull(c) PROVE BurstTypes'
  <2>1. NextSeg(c) /\ pc[c] = "tx" /\ UNCHANGED <<backlog, enqueued>>
    BY <1>7 DEF TxFull
  <2>2. /\ Tail(segs[c]) \in Seq(Frames)
        /\ Len(segs[c]) # 1 => Tail(segs[c]) # <<>>
    BY <2>1, BurstTail
  <2>. QED  BY <2>1, <2>2 DEF NextSeg, Goto
<1>8. ASSUME NEW c \in Ctx, TxFails(c) PROVE BurstTypes'
  BY <1>8 DEF TxFails, BuildTfdFails, Goto
<1>9. ASSUME NEW c \in Ctx, DecRequest(c) PROVE BurstTypes'
  BY <1>9 DEF DecRequest, Goto
<1>10. CASE DeviceReports  BY <1>10 DEF DeviceReports
<1>11. CASE Reclaim  BY <1>11 DEF Reclaim, StartReclaim
<1>12. CASE FreeEntries  BY <1>12 DEF FreeEntries
<1>13. CASE UpdateReadPtr  BY <1>13 DEF UpdateReadPtr
<1>14. CASE OverflowTx
  BY <1>14 DEF OverflowTx, Transmit, PutOnRing, PutOnOverflow
<1>15. CASE OverflowTxFails  BY <1>15 DEF OverflowTxFails, BuildTfdFails
<1>16. CASE CheckSpace  BY <1>16 DEF CheckSpace
<1>17. CASE WakeQueue  BY <1>17 DEF WakeQueue
<1>18. CASE NotFull  BY <1>18 DEF NotFull, Goto, Ctx
<1>19. CASE EndReclaim  BY <1>19 DEF EndReclaim
<1>20. CASE FlushReclaim  BY <1>20 DEF FlushReclaim, StartReclaim
<1>21. CASE WaitStart  BY <1>21 DEF WaitStart
<1>22. CASE WaitSample  BY <1>22 DEF WaitSample
<1>23. CASE WaitCheck  BY <1>23 DEF WaitCheck
<1>24. CASE WaitTimeout  BY <1>24 DEF WaitTimeout
<1>25. CASE WaitReturn  BY <1>25 DEF WaitReturn
<1>. QED
  BY <1>0, <1>1, <1>2, <1>3, <1>4, <1>5, <1>6, <1>7, <1>8, <1>9, <1>10, <1>11,
     <1>12, <1>13, <1>14, <1>15, <1>16, <1>17, <1>18, <1>19, <1>20, <1>21,
     <1>22, <1>23, <1>24, <1>25
     DEF Next, TxFromTxq, ReclaimStep, Wait

\* Only frames get into the ring and the overflow queue.
LEMMA FrameTypesStep ==
    OrderInv /\ BurstTypes /\ FrameTypes /\ [Next]_vars => FrameTypes'
<1>. SUFFICES ASSUME OrderInv, BurstTypes, FrameTypes, [Next]_vars
              PROVE  FrameTypes'
  OBVIOUS
<1>. USE DEF BurstTypes, FrameTypes, ring, locals, device, errors, wait
<1>0. CASE UNCHANGED vars  BY <1>0 DEF vars
<1>1. ASSUME NEW t \in Threads, NEW n \in BurstSizes, Enqueue(t, n)
      PROVE  FrameTypes'
  BY <1>1 DEF Enqueue, Goto
<1>2. ASSUME NEW c \in Ctx, Request(c) PROVE FrameTypes'
  BY <1>2 DEF Request, Goto
<1>3. ASSUME NEW c \in Ctx, CheckFull(c) PROVE FrameTypes'
  BY <1>3 DEF CheckFull, Goto
<1>4. ASSUME NEW c \in Ctx, Dequeue(c) PROVE FrameTypes'
  BY <1>4 DEF Dequeue, Goto
<1>5. ASSUME NEW c \in Ctx, Tx(c) PROVE FrameTypes'
  <2>1. /\ Transmit(Head(segs[c])) /\ segs[c] # <<>>
        /\ UNCHANGED <<overflow_skbs, leaked>>
    BY <1>5 DEF Tx
  <2>2. Head(segs[c]) \in Frames /\ Tail(segs[c]) \in Seq(Frames)
    BY <2>1, BurstTail
  <2>3. CASE MustOverflow
    <3>1. /\ overflow_q' = Append(overflow_q, Head(segs[c]))
          /\ UNCHANGED <<entries, done>>
      BY <2>1, <2>3 DEF Transmit, PutOnOverflow
    <3>2. overflow_q' \in Seq(Frames)  BY <2>2, <3>1
    <3>. QED  BY <2>1, <2>2, <3>1, <3>2
  <2>4. CASE ~MustOverflow  BY <2>1, <2>2, <2>4 DEF Transmit, PutOnRing
  <2>. QED  BY <2>3, <2>4
<1>6. ASSUME NEW c \in Ctx, TxStop(c) PROVE FrameTypes'  BY <1>6 DEF TxStop
<1>7. ASSUME NEW c \in Ctx, TxFull(c) PROVE FrameTypes'
  <2>1. /\ Transmit(Head(segs[c])) /\ segs[c] # <<>>
        /\ UNCHANGED <<overflow_skbs, leaked>>
    BY <1>7 DEF TxFull
  <2>2. Head(segs[c]) \in Frames /\ Tail(segs[c]) \in Seq(Frames)
    BY <2>1, BurstTail
  <2>3. CASE MustOverflow
    <3>1. /\ overflow_q' = Append(overflow_q, Head(segs[c]))
          /\ UNCHANGED <<entries, done>>
      BY <2>1, <2>3 DEF Transmit, PutOnOverflow
    <3>2. overflow_q' \in Seq(Frames)  BY <2>2, <3>1
    <3>. QED  BY <2>1, <2>2, <3>1, <3>2
  <2>4. CASE ~MustOverflow  BY <2>1, <2>2, <2>4 DEF Transmit, PutOnRing
  <2>. QED  BY <2>3, <2>4
<1>8. ASSUME NEW c \in Ctx, TxFails(c) PROVE FrameTypes'
  <2>1. segs[c] \in Seq(Frames) /\ segs[c] # <<>>  BY <1>8 DEF TxFails
  <2>2. Head(segs[c]) \in Frames /\ ToSet(segs[c]) \subseteq Frames
    BY <2>1 DEF ToSet
  <2>. QED  BY <1>8, <2>2 DEF TxFails, BuildTfdFails
<1>9. ASSUME NEW c \in Ctx, DecRequest(c) PROVE FrameTypes'
  BY <1>9 DEF DecRequest, Goto
<1>10. CASE DeviceReports  BY <1>10 DEF DeviceReports
<1>11. CASE Reclaim  BY <1>11 DEF Reclaim, StartReclaim
<1>12. CASE FreeEntries
  <2>. DEFINE n == (tfd_num - CmdIndex(r_ptr)) % NWindow
              freed == {(CmdIndex(r_ptr) + k) % NWindow : k \in 0..(n - 1)}
  <2>1. /\ done' = done \union ({entries[i] : i \in freed} \ {NULL})
        /\ entries' = [i \in DOMAIN entries |->
                          IF i \in freed THEN NULL ELSE entries[i]]
        /\ UNCHANGED <<overflow_q, overflow_skbs, leaked>>
    BY <1>12 DEF FreeEntries
  <2>2. freed \subseteq Windows  BY FreedIndices
  <2>. HIDE DEF freed
  <2>. QED  BY <2>1, <2>2
<1>13. CASE UpdateReadPtr
  <2>1. ToSet(overflow_q) \subseteq Frames /\ <<>> \in Seq(Frames)
    BY DEF ToSet
  <2>. QED  BY <1>13, <2>1 DEF UpdateReadPtr
<1>14. CASE OverflowTx
  <2>1. /\ Transmit(Head(overflow_skbs)) /\ overflow_skbs # <<>>
        /\ overflow_skbs' = Tail(overflow_skbs) /\ leaked' = leaked
    BY <1>14 DEF OverflowTx
  <2>2. Head(overflow_skbs) \in Frames /\ Tail(overflow_skbs) \in Seq(Frames)
    BY <2>1, BurstTail
  <2>3. CASE MustOverflow
    <3>1. /\ overflow_q' = Append(overflow_q, Head(overflow_skbs))
          /\ UNCHANGED <<entries, done>>
      BY <2>1, <2>3 DEF Transmit, PutOnOverflow
    <3>2. overflow_q' \in Seq(Frames)  BY <2>2, <3>1
    <3>. QED  BY <2>1, <2>2, <3>1, <3>2
  <2>4. CASE ~MustOverflow  BY <2>1, <2>2, <2>4 DEF Transmit, PutOnRing
  <2>. QED  BY <2>3, <2>4
<1>15. CASE OverflowTxFails
  <2>1. overflow_skbs \in Seq(Frames) /\ overflow_skbs # <<>>
    BY <1>15 DEF OverflowTxFails
  <2>2. /\ Head(overflow_skbs) \in Frames
        /\ Tail(overflow_skbs) \in Seq(Frames)
    BY <2>1
  <2>. QED  BY <1>15, <2>2 DEF OverflowTxFails, BuildTfdFails
<1>16. CASE CheckSpace  BY <1>16 DEF CheckSpace
<1>17. CASE WakeQueue  BY <1>17 DEF WakeQueue
<1>18. CASE NotFull  BY <1>18 DEF NotFull, Goto
<1>19. CASE EndReclaim  BY <1>19 DEF EndReclaim
<1>20. CASE FlushReclaim  BY <1>20 DEF FlushReclaim, StartReclaim
<1>21. CASE WaitStart  BY <1>21 DEF WaitStart
<1>22. CASE WaitSample  BY <1>22 DEF WaitSample
<1>23. CASE WaitCheck  BY <1>23 DEF WaitCheck
<1>24. CASE WaitTimeout  BY <1>24 DEF WaitTimeout
<1>25. CASE WaitReturn  BY <1>25 DEF WaitReturn
<1>. QED
  BY <1>0, <1>1, <1>2, <1>3, <1>4, <1>5, <1>6, <1>7, <1>8, <1>9, <1>10, <1>11,
     <1>12, <1>13, <1>14, <1>15, <1>16, <1>17, <1>18, <1>19, <1>20, <1>21,
     <1>22, <1>23, <1>24, <1>25
     DEF Next, TxFromTxq, ReclaimStep, Wait

\* Flags stay flags.
LEMMA FlagTypesStep ==
    FlagTypes /\ [Next]_vars => FlagTypes'
<1>. SUFFICES ASSUME FlagTypes, [Next]_vars
              PROVE  FlagTypes'
  OBVIOUS
<1>. USE DEF FlagTypes, ring, locals, device, errors, wait
<1>0. CASE UNCHANGED vars  BY <1>0 DEF vars
<1>1. ASSUME NEW t \in Threads, NEW n \in BurstSizes, Enqueue(t, n)
      PROVE  FlagTypes'
  BY <1>1 DEF Enqueue, Goto
<1>2. ASSUME NEW c \in Ctx, Request(c) PROVE FlagTypes'
  BY <1>2 DEF Request, Goto
<1>3. ASSUME NEW c \in Ctx, CheckFull(c) PROVE FlagTypes'
  BY <1>3 DEF CheckFull, Goto
<1>4. ASSUME NEW c \in Ctx, Dequeue(c) PROVE FlagTypes'
  BY <1>4 DEF Dequeue, Goto
<1>5. ASSUME NEW c \in Ctx, Tx(c) PROVE FlagTypes'
  BY <1>5 DEF Tx, Transmit, PutOnRing, PutOnOverflow, NextSeg, Goto
<1>6. ASSUME NEW c \in Ctx, TxStop(c) PROVE FlagTypes'  BY <1>6 DEF TxStop
<1>7. ASSUME NEW c \in Ctx, TxFull(c) PROVE FlagTypes'
  BY <1>7 DEF TxFull, Transmit, PutOnRing, PutOnOverflow, NextSeg, Goto
<1>8. ASSUME NEW c \in Ctx, TxFails(c) PROVE FlagTypes'
  BY <1>8 DEF TxFails, BuildTfdFails, Goto
<1>9. ASSUME NEW c \in Ctx, DecRequest(c) PROVE FlagTypes'
  BY <1>9 DEF DecRequest, Goto
<1>10. CASE DeviceReports  BY <1>10 DEF DeviceReports
<1>11. CASE Reclaim  BY <1>11 DEF Reclaim, StartReclaim
<1>12. CASE FreeEntries  BY <1>12 DEF FreeEntries
<1>13. CASE UpdateReadPtr  BY <1>13 DEF UpdateReadPtr
<1>14. CASE OverflowTx
  BY <1>14 DEF OverflowTx, Transmit, PutOnRing, PutOnOverflow
<1>15. CASE OverflowTxFails  BY <1>15 DEF OverflowTxFails, BuildTfdFails
<1>16. CASE CheckSpace  BY <1>16 DEF CheckSpace
<1>17. CASE WakeQueue  BY <1>17 DEF WakeQueue
<1>18. CASE NotFull  BY <1>18 DEF NotFull, Goto
<1>19. CASE EndReclaim  BY <1>19 DEF EndReclaim
<1>20. CASE FlushReclaim  BY <1>20 DEF FlushReclaim, StartReclaim
<1>21. CASE WaitStart  BY <1>21 DEF WaitStart
<1>22. CASE WaitSample  BY <1>22 DEF WaitSample
<1>23. CASE WaitCheck  BY <1>23 DEF WaitCheck
<1>24. CASE WaitTimeout  BY <1>24 DEF WaitTimeout
<1>25. CASE WaitReturn  BY <1>25 DEF WaitReturn
<1>. QED
  BY <1>0, <1>1, <1>2, <1>3, <1>4, <1>5, <1>6, <1>7, <1>8, <1>9, <1>10, <1>11,
     <1>12, <1>13, <1>14, <1>15, <1>16, <1>17, <1>18, <1>19, <1>20, <1>21,
     <1>22, <1>23, <1>24, <1>25
     DEF Next, TxFromTxq, ReclaimStep, Wait

\* The wait and the lock keep their types.
LEMMA WaitTypesStep ==
    OrderInv /\ WaitTypes /\ [Next]_vars => WaitTypes'
<1>. SUFFICES ASSUME OrderInv, WaitTypes, [Next]_vars
              PROVE  WaitTypes'
  OBVIOUS
<1>. USE BoundAssumption
         DEF OrderInv, RingTypes, Ring, WaitTypes, ring, locals, device,
             errors, wait
<1>0. CASE UNCHANGED vars  BY <1>0 DEF vars
<1>1. ASSUME NEW t \in Threads, NEW n \in BurstSizes, Enqueue(t, n)
      PROVE  WaitTypes'
  BY <1>1 DEF Enqueue, Goto
<1>2. ASSUME NEW c \in Ctx, Request(c) PROVE WaitTypes'
  BY <1>2 DEF Request, Goto
<1>3. ASSUME NEW c \in Ctx, CheckFull(c) PROVE WaitTypes'
  BY <1>3 DEF CheckFull, Goto
<1>4. ASSUME NEW c \in Ctx, Dequeue(c) PROVE WaitTypes'
  BY <1>4 DEF Dequeue, Goto
<1>5. ASSUME NEW c \in Ctx, Tx(c) PROVE WaitTypes'
  BY <1>5 DEF Tx, Transmit, PutOnRing, PutOnOverflow, NextSeg, Goto
<1>6. ASSUME NEW c \in Ctx, TxStop(c) PROVE WaitTypes'  BY <1>6 DEF TxStop
<1>7. ASSUME NEW c \in Ctx, TxFull(c) PROVE WaitTypes'
  BY <1>7 DEF TxFull, Transmit, PutOnRing, PutOnOverflow, NextSeg, Goto
<1>8. ASSUME NEW c \in Ctx, TxFails(c) PROVE WaitTypes'
  BY <1>8 DEF TxFails, BuildTfdFails, Goto
<1>9. ASSUME NEW c \in Ctx, DecRequest(c) PROVE WaitTypes'
  BY <1>9 DEF DecRequest, Goto
<1>10. CASE DeviceReports  BY <1>10 DEF DeviceReports
<1>11. CASE Reclaim  BY <1>11 DEF Reclaim, StartReclaim
<1>12. CASE FreeEntries  BY <1>12 DEF FreeEntries
<1>13. CASE UpdateReadPtr  BY <1>13 DEF UpdateReadPtr
<1>14. CASE OverflowTx
  BY <1>14 DEF OverflowTx, Transmit, PutOnRing, PutOnOverflow
<1>15. CASE OverflowTxFails  BY <1>15 DEF OverflowTxFails, BuildTfdFails
<1>16. CASE CheckSpace  BY <1>16 DEF CheckSpace
<1>17. CASE WakeQueue  BY <1>17 DEF WakeQueue
<1>18. CASE NotFull  BY <1>18 DEF NotFull, Goto
<1>19. CASE EndReclaim  BY <1>19 DEF EndReclaim
<1>20. CASE FlushReclaim  BY <1>20 DEF FlushReclaim, StartReclaim
<1>21. CASE WaitStart  BY <1>21 DEF WaitStart
<1>22. CASE WaitSample  BY <1>22 DEF WaitSample
<1>23. CASE WaitCheck  BY <1>23 DEF WaitCheck
<1>24. CASE WaitTimeout  BY <1>24 DEF WaitTimeout
<1>25. CASE WaitReturn  BY <1>25 DEF WaitReturn
<1>. QED
  BY <1>0, <1>1, <1>2, <1>3, <1>4, <1>5, <1>6, <1>7, <1>8, <1>9, <1>10, <1>11,
     <1>12, <1>13, <1>14, <1>15, <1>16, <1>17, <1>18, <1>19, <1>20, <1>21,
     <1>22, <1>23, <1>24, <1>25
     DEF Next, TxFromTxq, ReclaimStep, Wait

\* One thread at most transmits, and it is counted.
LEMMA WorkerStep ==
    BurstTypes /\ WaitTypes /\ WorkerInv /\ [Next]_vars => WorkerInv'
<1>. SUFFICES ASSUME BurstTypes, WaitTypes, WorkerInv, [Next]_vars
              PROVE  WorkerInv'
  OBVIOUS
<1>. USE ReclaimerAssumption
         DEF BurstTypes, WaitTypes, WorkerInv, Working, Places, ring, locals,
             device, errors, wait
<1>0. CASE UNCHANGED vars  BY <1>0 DEF vars
<1>1. ASSUME NEW t \in Threads, NEW n \in BurstSizes, Enqueue(t, n)
      PROVE  WorkerInv'
  BY <1>1 DEF Enqueue, Goto
<1>2. ASSUME NEW c \in Ctx, Request(c) PROVE WorkerInv'
  BY <1>2 DEF Request, Goto
<1>3. ASSUME NEW c \in Ctx, CheckFull(c) PROVE WorkerInv'
  BY <1>3 DEF CheckFull, Goto
<1>4. ASSUME NEW c \in Ctx, Dequeue(c) PROVE WorkerInv'
  <2>1. PICK l \in {"dec", "tx"} : pc' = [pc EXCEPT ![c] = l]
    BY <1>4 DEF Dequeue, Goto
  <2>2. pc[c] = "dequeue" /\ UNCHANGED <<tx_request, rec, lock>>
    BY <1>4 DEF Dequeue
  <2>3. \A d \in Ctx : (Working(d))' <=> Working(d)  BY <2>1, <2>2
  <2>4. /\ tx_request' \in 0..2
        /\ \A d, e \in Ctx : (Working(d))' /\ (Working(e))' => d = e
        /\ tx_request' # 0 <=> \E d \in Ctx : (Working(d))'
    <3>. HIDE DEF Working
    <3>. QED  BY <2>2, <2>3
  <2>5. /\ rec' # "end" => pc'[Reclaimer] = "idle"
        /\ lock' # None => pc'[lock'] = "tx"
    BY <2>1, <2>2 DEF Ctx
  <2>. QED  BY <2>4, <2>5
<1>5. ASSUME NEW c \in Ctx, Tx(c) PROVE WorkerInv'
  BY <1>5 DEF Tx, Transmit, PutOnRing, PutOnOverflow, NextSeg, Goto
<1>6. ASSUME NEW c \in Ctx, TxStop(c) PROVE WorkerInv'  BY <1>6 DEF TxStop
<1>7. ASSUME NEW c \in Ctx, TxFull(c) PROVE WorkerInv'
  BY <1>7 DEF TxFull, Transmit, PutOnRing, PutOnOverflow, NextSeg, Goto
<1>8. ASSUME NEW c \in Ctx, TxFails(c) PROVE WorkerInv'
  BY <1>8 DEF TxFails, BuildTfdFails, Goto
<1>9. ASSUME NEW c \in Ctx, DecRequest(c) PROVE WorkerInv'
  BY <1>9 DEF DecRequest, Goto
<1>10. CASE DeviceReports  BY <1>10 DEF DeviceReports
<1>11. CASE Reclaim  BY <1>11 DEF Reclaim, StartReclaim
<1>12. CASE FreeEntries  BY <1>12 DEF FreeEntries
<1>13. CASE UpdateReadPtr  BY <1>13 DEF UpdateReadPtr
<1>14. CASE OverflowTx
  BY <1>14 DEF OverflowTx, Transmit, PutOnRing, PutOnOverflow
<1>15. CASE OverflowTxFails  BY <1>15 DEF OverflowTxFails, BuildTfdFails
<1>16. CASE CheckSpace  BY <1>16 DEF CheckSpace
<1>17. CASE WakeQueue  BY <1>17 DEF WakeQueue
<1>18. CASE NotFull  BY <1>18 DEF NotFull, Goto
<1>19. CASE EndReclaim  BY <1>19 DEF EndReclaim
<1>20. CASE FlushReclaim  BY <1>20 DEF FlushReclaim, StartReclaim
<1>21. CASE WaitStart  BY <1>21 DEF WaitStart
<1>22. CASE WaitSample  BY <1>22 DEF WaitSample
<1>23. CASE WaitCheck  BY <1>23 DEF WaitCheck
<1>24. CASE WaitTimeout  BY <1>24 DEF WaitTimeout
<1>25. CASE WaitReturn  BY <1>25 DEF WaitReturn
<1>. QED
  BY <1>0, <1>1, <1>2, <1>3, <1>4, <1>5, <1>6, <1>7, <1>8, <1>9, <1>10, <1>11,
     <1>12, <1>13, <1>14, <1>15, <1>16, <1>17, <1>18, <1>19, <1>20, <1>21,
     <1>22, <1>23, <1>24, <1>25
     DEF Next, TxFromTxq, ReclaimStep, Wait


----------------------------------------------------------------------------
(* The frames of the ring are there *)

\* A step that leaves the entries and the pointers alone.
LEMMA SameHeld ==
    FramesHeld /\ UNCHANGED <<entries, write_ptr>> /\ Oldest' = Oldest
    => FramesHeld'
  BY DEF FramesHeld, Held, Window

\* Every step keeps the frames of the ring.
LEMMA HeldStep ==
    OrderInv /\ BurstTypes /\ FrameTypes /\ FramesHeld /\ [Next]_vars
    => FramesHeld'
<1>. SUFFICES ASSUME OrderInv, BurstTypes, FrameTypes, FramesHeld, [Next]_vars
              PROVE  FramesHeld'
  OBVIOUS
<1>. USE DEF BurstTypes, FrameTypes, ring, locals, device, errors, wait
<1>s. UNCHANGED <<entries, write_ptr>> /\ Oldest' = Oldest => FramesHeld'
  BY SameHeld
<1>0. CASE UNCHANGED vars  BY <1>0, <1>s DEF vars, Oldest
<1>1. ASSUME NEW t \in Threads, NEW n \in BurstSizes, Enqueue(t, n)
      PROVE  FramesHeld'
  BY <1>1, <1>s DEF Enqueue, Goto, Oldest
<1>2. ASSUME NEW c \in Ctx, Request(c) PROVE FramesHeld'
  BY <1>2, <1>s DEF Request, Goto, Oldest
<1>3. ASSUME NEW c \in Ctx, CheckFull(c) PROVE FramesHeld'
  BY <1>3, <1>s DEF CheckFull, Goto, Oldest
<1>4. ASSUME NEW c \in Ctx, Dequeue(c) PROVE FramesHeld'
  BY <1>4, <1>s DEF Dequeue, Goto, Oldest
<1>5. ASSUME NEW c \in Ctx, Tx(c) PROVE FramesHeld'
  <2>1. Head(segs[c]) # NULL  BY <1>5, BurstTail DEF Tx
  <2>2. CASE MustOverflow
    BY <1>5, <2>2, <1>s
       DEF Tx, Transmit, PutOnRing, PutOnOverflow, NextSeg, Goto, Oldest
  <2>3. CASE ~MustOverflow
    <3>1. /\ write_ptr' = IncWrap(write_ptr)
          /\ entries' = [entries EXCEPT ![CmdIndex(write_ptr)] = Head(segs[c])]
          /\ UNCHANGED <<read_ptr, r_ptr, rec>>
      BY <1>5, <2>3 DEF Tx, Transmit, PutOnRing, PutOnOverflow, NextSeg, Goto
    <3>2. /\ CmdIndex(write_ptr) \in 0..(NWindow - 1)
          /\ Held' = Held \union {CmdIndex(write_ptr)}
      BY <3>1, HeldGrows
    <3>3. Held \subseteq Windows  BY DEF Held, Window, Windows
    <3>4. \A i \in Held' : entries'[i] # NULL
      BY <2>1, <3>1, <3>2, <3>3 DEF FramesHeld, Windows
    <3>. QED  BY <3>4 DEF FramesHeld
  <2>. QED  BY <2>2, <2>3
<1>6. ASSUME NEW c \in Ctx, TxStop(c) PROVE FramesHeld'
  BY <1>6, <1>s DEF TxStop, Oldest
<1>7. ASSUME NEW c \in Ctx, TxFull(c) PROVE FramesHeld'
  <2>1. Head(segs[c]) # NULL  BY <1>7, BurstTail DEF TxFull
  <2>2. CASE MustOverflow
    BY <1>7, <2>2, <1>s
       DEF TxFull, Transmit, PutOnRing, PutOnOverflow, NextSeg, Goto, Oldest
  <2>3. CASE ~MustOverflow
    <3>1. /\ write_ptr' = IncWrap(write_ptr)
          /\ entries' = [entries EXCEPT ![CmdIndex(write_ptr)] = Head(segs[c])]
          /\ UNCHANGED <<read_ptr, r_ptr, rec>>
      BY <1>7, <2>3
         DEF TxFull, Transmit, PutOnRing, PutOnOverflow, NextSeg, Goto
    <3>2. /\ CmdIndex(write_ptr) \in 0..(NWindow - 1)
          /\ Held' = Held \union {CmdIndex(write_ptr)}
      BY <3>1, HeldGrows
    <3>3. Held \subseteq Windows  BY DEF Held, Window, Windows
    <3>4. \A i \in Held' : entries'[i] # NULL
      BY <2>1, <3>1, <3>2, <3>3 DEF FramesHeld, Windows
    <3>. QED  BY <3>4 DEF FramesHeld
  <2>. QED  BY <2>2, <2>3
<1>8. ASSUME NEW c \in Ctx, TxFails(c) PROVE FramesHeld'
  <2>1. Head(segs[c]) # NULL  BY <1>8, BurstTail DEF TxFails
  <2>2. /\ UNCHANGED <<write_ptr, read_ptr, r_ptr, rec>>
        /\ entries' = [entries EXCEPT ![CmdIndex(write_ptr)] = Head(segs[c])]
    BY <1>8 DEF TxFails, BuildTfdFails, Goto
  <2>3. Held' = Held /\ Held \subseteq Windows
    BY <2>2 DEF Held, Oldest, Window, Windows
  <2>4. \A i \in Windows : entries'[i] = entries[i] \/ entries'[i] # NULL
    BY <2>1, <2>2
  <2>5. \A i \in Held : entries'[i] # NULL  BY <2>3, <2>4 DEF FramesHeld
  <2>. QED  BY <2>3, <2>5 DEF FramesHeld
<1>9. ASSUME NEW c \in Ctx, DecRequest(c) PROVE FramesHeld'
  BY <1>9, <1>s DEF DecRequest, Goto, Oldest
<1>10. CASE DeviceReports  BY <1>10, <1>s DEF DeviceReports, Oldest
<1>11. CASE Reclaim  BY <1>11, <1>s DEF Reclaim, StartReclaim, Oldest
<1>12. CASE FreeEntries
  <2>1. DOMAIN entries = 0..(NWindow - 1)  BY DEF Windows
  <2>2. Held' \subseteq Held /\ \A i \in Held' : entries'[i] = entries[i]
    BY <1>12, <2>1, HeldShrinks
  <2>. QED  BY <2>2 DEF FramesHeld
<1>13. CASE UpdateReadPtr  BY <1>13, <1>s DEF UpdateReadPtr, Oldest
<1>14. CASE OverflowTx
  <2>1. Head(overflow_skbs) # NULL  BY <1>14, BurstTail DEF OverflowTx
  <2>2. CASE MustOverflow
    BY <1>14, <2>2, <1>s
       DEF OverflowTx, Transmit, PutOnRing, PutOnOverflow, Oldest
  <2>3. CASE ~MustOverflow
    <3>1. /\ write_ptr' = IncWrap(write_ptr)
          /\ entries' = [entries EXCEPT
                           ![CmdIndex(write_ptr)] = Head(overflow_skbs)]
          /\ UNCHANGED <<read_ptr, r_ptr, rec>>
      BY <1>14, <2>3 DEF OverflowTx, Transmit, PutOnRing, PutOnOverflow
    <3>2. /\ CmdIndex(write_ptr) \in 0..(NWindow - 1)
          /\ Held' = Held \union {CmdIndex(write_ptr)}
      BY <3>1, HeldGrows
    <3>3. Held \subseteq Windows  BY DEF Held, Window, Windows
    <3>4. \A i \in Held' : entries'[i] # NULL
      BY <2>1, <3>1, <3>2, <3>3 DEF FramesHeld, Windows
    <3>. QED  BY <3>4 DEF FramesHeld
  <2>. QED  BY <2>2, <2>3
<1>15. CASE OverflowTxFails
  <2>1. Head(overflow_skbs) # NULL  BY <1>15, BurstTail DEF OverflowTxFails
  <2>2. /\ UNCHANGED <<write_ptr, read_ptr, r_ptr, rec>>
        /\ entries' = [entries EXCEPT
                         ![CmdIndex(write_ptr)] = Head(overflow_skbs)]
    BY <1>15 DEF OverflowTxFails, BuildTfdFails
  <2>3. Held' = Held /\ Held \subseteq Windows
    BY <2>2 DEF Held, Oldest, Window, Windows
  <2>4. \A i \in Windows : entries'[i] = entries[i] \/ entries'[i] # NULL
    BY <2>1, <2>2
  <2>5. \A i \in Held : entries'[i] # NULL  BY <2>3, <2>4 DEF FramesHeld
  <2>. QED  BY <2>3, <2>5 DEF FramesHeld
<1>16. CASE CheckSpace  BY <1>16, <1>s DEF CheckSpace, Oldest
<1>17. CASE WakeQueue  BY <1>17, <1>s DEF WakeQueue, Oldest
<1>18. CASE NotFull  BY <1>18, <1>s DEF NotFull, Goto, Oldest
<1>19. CASE EndReclaim  BY <1>19, <1>s DEF EndReclaim, Oldest
<1>20. CASE FlushReclaim  BY <1>20, <1>s DEF FlushReclaim, StartReclaim, Oldest
<1>21. CASE WaitStart  BY <1>21, <1>s DEF WaitStart, Oldest
<1>22. CASE WaitSample  BY <1>22, <1>s DEF WaitSample, Oldest
<1>23. CASE WaitCheck  BY <1>23, <1>s DEF WaitCheck, Oldest
<1>24. CASE WaitTimeout  BY <1>24, <1>s DEF WaitTimeout, Oldest
<1>25. CASE WaitReturn  BY <1>25, <1>s DEF WaitReturn, Oldest
<1>. QED
  BY <1>0, <1>1, <1>2, <1>3, <1>4, <1>5, <1>6, <1>7, <1>8, <1>9, <1>10, <1>11,
     <1>12, <1>13, <1>14, <1>15, <1>16, <1>17, <1>18, <1>19, <1>20, <1>21,
     <1>22, <1>23, <1>24, <1>25
     DEF Next, TxFromTxq, ReclaimStep, Wait


----------------------------------------------------------------------------
(* Waiting for the queue to get empty *)

\* Nothing is sent while the wait goes on, except frames that overflowed: the
\* reclaim holds them only as long as it says so in overflow_tx.
Waiting == waiter \in {"sample", "check", "empty", "timedout", "warned"}
WaitInv ==
    /\ Waiting => backlog = <<>> /\ \A c \in Ctx : pc[c] # "tx"
    /\ overflow_skbs # <<>> => rec = "overflow" /\ overflow_tx
    /\ waiter = "check" /\ ~wait_overflow =>
          overflow_q = <<>> /\ overflow_skbs = <<>>
    /\ WaitMeansEmpty

\* If the queue is empty, there is nothing to reclaim.
LEMMA EmptyStays ==
    OrderInv /\ read_ptr = write_ptr /\ rec = "relock" => r_ptr = write_ptr
<1>. SUFFICES ASSUME OrderInv, read_ptr = write_ptr, rec = "relock"
              PROVE  r_ptr = write_ptr
  OBVIOUS
<1>1. /\ read_ptr \in Ring /\ write_ptr \in Ring /\ hw_ptr \in Ring
      /\ r_ptr \in Ring
  BY DEF OrderInv, RingTypes
<1>2. /\ Used(read_ptr, hw_ptr) <= Used(read_ptr, write_ptr)
      /\ Used(read_ptr, r_ptr) <= Used(read_ptr, hw_ptr)
  BY DEF OrderInv, PointersInOrder, ReclaimedTo
<1>3. /\ Used(read_ptr, write_ptr) = 0 /\ Used(read_ptr, hw_ptr) \in Nat
      /\ Used(read_ptr, r_ptr) \in Nat
      /\ Used(read_ptr, r_ptr) = 0 <=> read_ptr = r_ptr
  BY <1>1, UsedType
<1>4. Used(read_ptr, r_ptr) = 0  BY <1>2, <1>3
<1>. QED  BY <1>3, <1>4

\* Every step of the others keeps what the wait relies on.
LEMMA WaitStep ==
    OrderInv /\ BurstTypes /\ FlagTypes /\ WaitTypes /\ WaitInv
      /\ [Next]_vars
    => WaitInv'
<1>. SUFFICES ASSUME OrderInv, BurstTypes, FlagTypes, WaitTypes, WaitInv,
                     [Next]_vars
              PROVE  WaitInv'
  OBVIOUS
<1>. USE DEF BurstTypes, FlagTypes, WaitTypes, WaitInv, WaitMeansEmpty, ring,
             locals, device, errors, wait
<1>0. CASE UNCHANGED vars  BY <1>0 DEF vars, Waiting
<1>1. ASSUME NEW t \in Threads, NEW n \in BurstSizes, Enqueue(t, n)
      PROVE  WaitInv'
  BY <1>1 DEF Enqueue, Goto, Waiting
<1>2. ASSUME NEW c \in Ctx, Request(c) PROVE WaitInv'
  BY <1>2 DEF Request, Goto, Waiting
<1>3. ASSUME NEW c \in Ctx, CheckFull(c) PROVE WaitInv'
  BY <1>3 DEF CheckFull, Goto, Waiting
<1>4. ASSUME NEW c \in Ctx, Dequeue(c) PROVE WaitInv'
  BY <1>4 DEF Dequeue, Goto, Waiting
<1>5. ASSUME NEW c \in Ctx, Tx(c) PROVE WaitInv'
  <2>1. /\ pc[c] = "tx"
        /\ UNCHANGED <<backlog, overflow_skbs, rec, overflow_tx, waiter>>
        /\ \A d \in Ctx : pc'[d] = "tx" => pc[d] = "tx"
    BY <1>5 DEF Tx, Transmit, PutOnRing, PutOnOverflow, NextSeg, Goto
  <2>2. ~Waiting  BY <1>5, <2>1
  <2>3. ~Waiting'  BY <2>1, <2>2 DEF Waiting
  <2>. QED  BY <2>1, <2>3 DEF Waiting
<1>6. ASSUME NEW c \in Ctx, TxStop(c) PROVE WaitInv'
  BY <1>6 DEF TxStop, Waiting
<1>7. ASSUME NEW c \in Ctx, TxFull(c) PROVE WaitInv'
  <2>1. /\ pc[c] = "tx"
        /\ UNCHANGED <<backlog, overflow_skbs, rec, overflow_tx, waiter>>
        /\ \A d \in Ctx : pc'[d] = "tx" => pc[d] = "tx"
    BY <1>7 DEF TxFull, Transmit, PutOnRing, PutOnOverflow, NextSeg, Goto
  <2>2. ~Waiting  BY <1>7, <2>1
  <2>3. ~Waiting'  BY <2>1, <2>2 DEF Waiting
  <2>. QED  BY <2>1, <2>3 DEF Waiting
<1>8. ASSUME NEW c \in Ctx, TxFails(c) PROVE WaitInv'
  <2>1. /\ pc[c] = "tx"
        /\ UNCHANGED <<backlog, overflow_skbs, rec, overflow_tx, waiter>>
        /\ \A d \in Ctx : pc'[d] = "tx" => pc[d] = "tx"
    BY <1>8 DEF TxFails, BuildTfdFails, Goto
  <2>2. ~Waiting  BY <1>8, <2>1
  <2>3. ~Waiting'  BY <2>1, <2>2 DEF Waiting
  <2>. QED  BY <2>1, <2>3 DEF Waiting
<1>9. ASSUME NEW c \in Ctx, DecRequest(c) PROVE WaitInv'
  BY <1>9 DEF DecRequest, Goto, Waiting
<1>10. CASE DeviceReports  BY <1>10 DEF DeviceReports, Waiting
<1>11. CASE Reclaim  BY <1>11 DEF Reclaim, StartReclaim, Waiting
<1>12. CASE FreeEntries  BY <1>12 DEF FreeEntries, Waiting
<1>13. CASE UpdateReadPtr
  <2>1. waiter = "empty" => r_ptr = write_ptr
    BY <1>13, EmptyStays DEF UpdateReadPtr
  <2>. QED  BY <1>13, <2>1 DEF UpdateReadPtr, Waiting
<1>14. CASE OverflowTx
  <2>1. /\ overflow_skbs # <<>>
        /\ UNCHANGED <<backlog, pc, rec, overflow_tx, waiter, wait_overflow>>
    BY <1>14 DEF OverflowTx, Transmit, PutOnRing, PutOnOverflow
  <2>2. waiter # "empty" /\ ~(waiter = "check" /\ ~wait_overflow)  BY <2>1
  <2>. QED  BY <2>1, <2>2 DEF Waiting
<1>15. CASE OverflowTxFails
  <2>1. /\ overflow_skbs # <<>>
        /\ UNCHANGED <<backlog, pc, rec, overflow_tx, waiter, wait_overflow>>
    BY <1>15 DEF OverflowTxFails, BuildTfdFails
  <2>2. waiter # "empty" /\ ~(waiter = "check" /\ ~wait_overflow)  BY <2>1
  <2>. QED  BY <2>1, <2>2 DEF Waiting
<1>16. CASE CheckSpace  BY <1>16 DEF CheckSpace, Waiting
<1>17. CASE WakeQueue  BY <1>17 DEF WakeQueue, Waiting
<1>18. CASE NotFull  BY <1>18 DEF NotFull, Goto, Waiting
<1>19. CASE EndReclaim  BY <1>19 DEF EndReclaim, Waiting
<1>20. CASE FlushReclaim  BY <1>20 DEF FlushReclaim, StartReclaim, Waiting
<1>21. CASE WaitStart  BY <1>21 DEF WaitStart, Waiting
<1>22. CASE WaitSample  BY <1>22 DEF WaitSample, Waiting
<1>23. CASE WaitCheck  BY <1>23 DEF WaitCheck, Waiting
<1>24. CASE WaitTimeout  BY <1>24 DEF WaitTimeout, Waiting
<1>25. CASE WaitReturn  BY <1>25 DEF WaitReturn, Waiting
<1>. QED
  BY <1>0, <1>1, <1>2, <1>3, <1>4, <1>5, <1>6, <1>7, <1>8, <1>9, <1>10, <1>11,
     <1>12, <1>13, <1>14, <1>15, <1>16, <1>17, <1>18, <1>19, <1>20, <1>21,
     <1>22, <1>23, <1>24, <1>25
     DEF Next, TxFromTxq, ReclaimStep, Wait

----------------------------------------------------------------------------
(* Stopping and waking the queue *)

\* The longest burst of which, once its first frame has stopped the queue, the
\* rest can be placed from more than LowMark free entries without overflowing.
Fit == (LowMark - HighMark) + 3
BurstsFit == \A n \in BurstSizes : n <= Fit

\* The bit in the transport, the lock and the place of the reclaim.
StopInv ==
    /\ lock # None => /\ queue_stopped
                      /\ rec \notin {"overflow", "wake", "notfull"}
    /\ rec \in {"overflow", "wake"} => queue_stopped
    /\ rec = "notfull" => ~queue_stopped
    /\ queue_stopped \/ rec = "notfull" => stop_full \/ lock # None

\* A burst starts with the queue open, and stops it at its first frame at the
\* earliest.
BurstInv ==
    /\ \A c \in Ctx : pc[c] = "dequeue" => ~stop_full
    /\ \A c \in Ctx : pc[c] = "tx" => /\ Len(segs[c]) <= Fit
                                      /\ stop_full => Len(segs[c]) < Fit
    /\ \A k \in 1..Len(backlog) : Len(backlog[k]) <= Fit

\* Between the test of the space and the wake-up there is room for the rest of
\* the burst that is being sent.
RoomInv ==
    /\ rec = "overflow" /\ overflow_q # <<>> => Space < HighMark
    /\ rec \in {"wake", "notfull"} =>
          /\ overflow_q = <<>>
          /\ \A c \in Ctx : pc[c] = "tx" =>
                Space >= (HighMark + Len(segs[c])) - 1

\* The space of the queue.
LEMMA SpaceLeft ==
    OrderInv => /\ Space \in Nat /\ Space >= 1
                /\ Space = NWindow - Used(read_ptr, write_ptr)
<1>. SUFFICES ASSUME OrderInv
              PROVE  /\ Space \in Nat /\ Space >= 1
                     /\ Space = NWindow - Used(read_ptr, write_ptr)
  OBVIOUS
<1>1. Used(read_ptr, write_ptr) \in Nat /\ Used(read_ptr, write_ptr) < NWindow
  BY ReclaimedType DEF OrderInv, PointersInOrder
<1>. QED  BY <1>1, Sizes DEF Space, SpaceFrom

\* What placing a frame does to it.
LEMMA PlaceFrame ==
    ASSUME OrderInv, NEW f, Transmit(f)
    PROVE  /\ Space' \in Nat /\ Space' <= Space
           /\ MustOverflow => /\ Space' = Space
                              /\ overflow_q' = Append(overflow_q, f)
           /\ ~MustOverflow => Space' = Space - 1 /\ overflow_q' = overflow_q
<1>1. CASE MustOverflow
  <2>1. /\ UNCHANGED <<read_ptr, write_ptr>>
        /\ overflow_q' = Append(overflow_q, f)
    BY <1>1 DEF Transmit, PutOnOverflow, ring
  <2>2. Space' = Space  BY <2>1 DEF Space, SpaceFrom
  <2>. QED  BY <1>1, <2>1, <2>2, SpaceLeft
<1>2. CASE ~MustOverflow
  <2>1. /\ read_ptr' = read_ptr /\ write_ptr' = IncWrap(write_ptr)
        /\ overflow_q' = overflow_q
    BY <1>2 DEF Transmit, PutOnRing
  <2>2. /\ Used(read_ptr, write_ptr) \in Nat
        /\ Used(read_ptr, write_ptr) < NWindow
        /\ read_ptr \in Ring /\ write_ptr \in Ring
    BY ReclaimedType DEF OrderInv, RingTypes, PointersInOrder
  <2>3. Used(read_ptr, write_ptr') = Used(read_ptr, write_ptr) + 1
    BY <2>1, <2>2, UsedGrows
  <2>4. Space' = NWindow - (Used(read_ptr, write_ptr) + 1)
    BY <2>1, <2>2, <2>3, Sizes DEF Space, SpaceFrom
  <2>. QED  BY <1>2, <2>1, <2>2, <2>4, SpaceLeft, Sizes
<1>. QED  BY <1>1, <1>2

\* A burst fits.
LEMMA FitType == Fit \in Nat /\ Fit >= 3  BY Marks DEF Fit

\* The bit, the lock and the reclaim stay in step.
LEMMA StopStep ==
    OrderInv /\ BurstTypes /\ FlagTypes /\ WaitTypes /\ StopInv /\ RoomInv
      /\ [Next]_vars
    => StopInv'
<1>. SUFFICES ASSUME OrderInv, BurstTypes, FlagTypes, WaitTypes, StopInv,
                     RoomInv, [Next]_vars
              PROVE  StopInv'
  OBVIOUS
<1>. USE ReclaimerAssumption
         DEF FlagTypes, WaitTypes, StopInv, ring, locals, device, errors, wait
<1>0. CASE UNCHANGED vars  BY <1>0 DEF vars
<1>1. ASSUME NEW t \in Threads, NEW n \in BurstSizes, Enqueue(t, n)
      PROVE  StopInv'
  BY <1>1 DEF Enqueue, Goto
<1>2. ASSUME NEW c \in Ctx, Request(c) PROVE StopInv'
  BY <1>2 DEF Request, Goto
<1>3. ASSUME NEW c \in Ctx, CheckFull(c) PROVE StopInv'
  BY <1>3 DEF CheckFull, Goto
<1>4. ASSUME NEW c \in Ctx, Dequeue(c) PROVE StopInv'
  BY <1>4 DEF Dequeue, Goto
<1>5. ASSUME NEW c \in Ctx, Tx(c) PROVE StopInv'
  BY <1>5 DEF Tx, Transmit, PutOnRing, PutOnOverflow, NextSeg, Goto
<1>6. ASSUME NEW c \in Ctx, TxStop(c) PROVE StopInv'
  <2>1. rec # "notfull"
    <3>1. pc[c] = "tx" /\ Space < HighMark  BY <1>6 DEF TxStop, MustStop
    <3>2. Len(segs[c]) \in Nat /\ Len(segs[c]) >= 1
      BY <3>1, BurstTail DEF BurstTypes
    <3>. QED  BY <3>1, <3>2, SpaceLeft, Marks DEF RoomInv
  <2>. QED  BY <1>6, <2>1 DEF TxStop, MustStop, None, Ctx
<1>7. ASSUME NEW c \in Ctx, TxFull(c) PROVE StopInv'
  BY <1>7 DEF TxFull, Transmit, PutOnRing, PutOnOverflow, NextSeg, Goto
<1>8. ASSUME NEW c \in Ctx, TxFails(c) PROVE StopInv'
  BY <1>8 DEF TxFails, BuildTfdFails, Goto
<1>9. ASSUME NEW c \in Ctx, DecRequest(c) PROVE StopInv'
  BY <1>9 DEF DecRequest, Goto
<1>10. CASE DeviceReports  BY <1>10 DEF DeviceReports
<1>11. CASE Reclaim  BY <1>11 DEF Reclaim, StartReclaim
<1>12. CASE FreeEntries  BY <1>12 DEF FreeEntries
<1>13. CASE UpdateReadPtr  BY <1>13 DEF UpdateReadPtr
<1>14. CASE OverflowTx
  BY <1>14 DEF OverflowTx, Transmit, PutOnRing, PutOnOverflow
<1>15. CASE OverflowTxFails  BY <1>15 DEF OverflowTxFails, BuildTfdFails
<1>16. CASE CheckSpace  BY <1>16 DEF CheckSpace
<1>17. CASE WakeQueue  BY <1>17 DEF WakeQueue
<1>18. CASE NotFull  BY <1>18 DEF NotFull, Goto
<1>19. CASE EndReclaim  BY <1>19 DEF EndReclaim
<1>20. CASE FlushReclaim  BY <1>20 DEF FlushReclaim, StartReclaim
<1>21. CASE WaitStart  BY <1>21 DEF WaitStart
<1>22. CASE WaitSample  BY <1>22 DEF WaitSample
<1>23. CASE WaitCheck  BY <1>23 DEF WaitCheck
<1>24. CASE WaitTimeout  BY <1>24 DEF WaitTimeout
<1>25. CASE WaitReturn  BY <1>25 DEF WaitReturn
<1>. QED
  BY <1>0, <1>1, <1>2, <1>3, <1>4, <1>5, <1>6, <1>7, <1>8, <1>9, <1>10, <1>11,
     <1>12, <1>13, <1>14, <1>15, <1>16, <1>17, <1>18, <1>19, <1>20, <1>21,
     <1>22, <1>23, <1>24, <1>25
     DEF Next, TxFromTxq, ReclaimStep, Wait

\* Bursts stop the queue while they are sent.
LEMMA BurstStep ==
    BurstTypes /\ WorkerInv /\ FlagTypes /\ BurstInv /\ BurstsFit
      /\ [Next]_vars
    => BurstInv'
<1>. SUFFICES ASSUME BurstTypes, WorkerInv, FlagTypes, BurstInv, BurstsFit,
                     [Next]_vars
              PROVE  BurstInv'
  OBVIOUS
<1>. USE DEF BurstTypes, FlagTypes, BurstInv, ring, locals, device, errors,
             wait
<1>0. CASE UNCHANGED vars  BY <1>0 DEF vars
<1>1. ASSUME NEW t \in Threads, NEW n \in BurstSizes, Enqueue(t, n)
      PROVE  BurstInv'
  <2>1. /\ backlog' = Append(backlog, NewBurst(n)) /\ t \in Ctx
        /\ pc' = [pc EXCEPT ![t] = "request"] /\ UNCHANGED <<segs, stop_full>>
    BY <1>1 DEF Enqueue, Goto, Ctx
  <2>2. n \in Nat /\ n <= Fit  BY BoundAssumption DEF BurstsFit
  <2>3. Len(NewBurst(n)) = n /\ NewBurst(n) \in Seq(Frames)
    <3>1. enqueued \in Nat /\ enqueued + n <= MaxFrames
      BY <1>1, BoundAssumption DEF Enqueue
    <3>2. NewBurst(n) \in Seq(Frames)  BY <3>1, BurstType
    <3>3. DOMAIN NewBurst(n) = 1..n  BY DEF NewBurst
    <3>. QED  BY <2>2, <3>2, <3>3
  <2>4. \A k \in 1..Len(backlog') : Len(backlog'[k]) <= Fit
    BY <2>1, <2>2, <2>3
  <2>. QED  BY <2>1, <2>4
<1>2. ASSUME NEW c \in Ctx, Request(c) PROVE BurstInv'
  BY <1>2 DEF Request, Goto
<1>3. ASSUME NEW c \in Ctx, CheckFull(c) PROVE BurstInv'
  BY <1>3 DEF CheckFull, Goto
<1>4. ASSUME NEW c \in Ctx, Dequeue(c) PROVE BurstInv'
  <2>1. CASE backlog = <<>>
    <3>1. /\ pc' = [pc EXCEPT ![c] = "dec"]
          /\ UNCHANGED <<backlog, segs, stop_full>>
      BY <1>4, <2>1 DEF Dequeue, Goto
    <3>. QED  BY <3>1
  <2>2. CASE backlog # <<>>
    <3>1. /\ Head(backlog) = backlog[1] /\ 1 \in 1..Len(backlog)
          /\ \A k \in 1..Len(Tail(backlog)) :
                /\ k + 1 \in 1..Len(backlog)
                /\ Tail(backlog)[k] = backlog[k + 1]
      BY <2>2
    <3>2. /\ pc[c] = "dequeue" /\ pc' = [pc EXCEPT ![c] = "tx"]
          /\ segs' = [segs EXCEPT ![c] = Head(backlog)]
          /\ backlog' = Tail(backlog) /\ stop_full' = stop_full
      BY <1>4, <2>2 DEF Dequeue, Goto
    <3>3. Len(Head(backlog)) <= Fit /\ ~stop_full  BY <3>1, <3>2
    <3>4. \A k \in 1..Len(backlog') : Len(backlog'[k]) <= Fit  BY <3>1, <3>2
    <3>. QED  BY <3>2, <3>3, <3>4
  <2>. QED  BY <2>1, <2>2
<1>5. ASSUME NEW c \in Ctx, Tx(c) PROVE BurstInv'
  <2>1. /\ pc[c] = "tx" /\ NextSeg(c) /\ backlog' = backlog
        /\ stop_full' = stop_full
    BY <1>5 DEF Tx
  <2>2. /\ segs[c] \in Seq(Frames) /\ Len(segs[c]) \in Nat
        /\ Len(segs[c]) >= 1 /\ Len(Tail(segs[c])) = Len(segs[c]) - 1
    BY <2>1, BurstTail
  <2>3. Len(segs[c]) <= Fit /\ Len(Tail(segs[c])) < Fit  BY <2>1, <2>2, FitType
  <2>4. \A d \in Ctx : d # c => pc[d] \notin {"tx", "dequeue"}
    BY <2>1 DEF WorkerInv, Working
  <2>5. /\ segs' = [segs EXCEPT ![c] = Tail(segs[c])]
        /\ pc' = [pc EXCEPT ![c] = IF Len(segs[c]) = 1 THEN "loop" ELSE "tx"]
    BY <2>1 DEF NextSeg, Goto
  <2>6. /\ \A d \in Ctx : pc'[d] = "dequeue" => ~stop_full'
        /\ \A d \in Ctx : pc'[d] = "tx" => d = c
        /\ Len(segs'[c]) <= Fit /\ Len(segs'[c]) < Fit
    BY <2>1, <2>2, <2>3, <2>4, <2>5, FitType
  <2>. QED  BY <2>1, <2>6
<1>6. ASSUME NEW c \in Ctx, TxStop(c) PROVE BurstInv'  BY <1>6 DEF TxStop
<1>7. ASSUME NEW c \in Ctx, TxFull(c) PROVE BurstInv'
  <2>1. /\ pc[c] = "tx" /\ NextSeg(c) /\ backlog' = backlog
        /\ stop_full'
    BY <1>7 DEF TxFull
  <2>2. /\ segs[c] \in Seq(Frames) /\ Len(segs[c]) \in Nat
        /\ Len(segs[c]) >= 1 /\ Len(Tail(segs[c])) = Len(segs[c]) - 1
    BY <2>1, BurstTail
  <2>3. Len(segs[c]) <= Fit /\ Len(Tail(segs[c])) < Fit  BY <2>1, <2>2, FitType
  <2>4. \A d \in Ctx : d # c => pc[d] \notin {"tx", "dequeue"}
    BY <2>1 DEF WorkerInv, Working
  <2>5. /\ segs' = [segs EXCEPT ![c] = Tail(segs[c])]
        /\ pc' = [pc EXCEPT ![c] = IF Len(segs[c]) = 1 THEN "loop" ELSE "tx"]
    BY <2>1 DEF NextSeg, Goto
  <2>6. /\ \A d \in Ctx : pc'[d] = "dequeue" => ~stop_full'
        /\ \A d \in Ctx : pc'[d] = "tx" => d = c
        /\ Len(segs'[c]) <= Fit /\ Len(segs'[c]) < Fit
    BY <2>1, <2>2, <2>3, <2>4, <2>5, FitType
  <2>. QED  BY <2>1, <2>6
<1>8. ASSUME NEW c \in Ctx, TxFails(c) PROVE BurstInv'
  BY <1>8 DEF TxFails, BuildTfdFails, Goto
<1>9. ASSUME NEW c \in Ctx, DecRequest(c) PROVE BurstInv'
  BY <1>9 DEF DecRequest, Goto
<1>10. CASE DeviceReports  BY <1>10 DEF DeviceReports
<1>11. CASE Reclaim  BY <1>11 DEF Reclaim, StartReclaim
<1>12. CASE FreeEntries  BY <1>12 DEF FreeEntries
<1>13. CASE UpdateReadPtr  BY <1>13 DEF UpdateReadPtr
<1>14. CASE OverflowTx
  BY <1>14 DEF OverflowTx, Transmit, PutOnRing, PutOnOverflow
<1>15. CASE OverflowTxFails  BY <1>15 DEF OverflowTxFails, BuildTfdFails
<1>16. CASE CheckSpace  BY <1>16 DEF CheckSpace
<1>17. CASE WakeQueue  BY <1>17 DEF WakeQueue
<1>18. CASE NotFull
  <2>1. /\ pc' = [pc EXCEPT ![Reclaimer] = "request"] /\ stop_full' = FALSE
        /\ UNCHANGED <<segs, backlog>> /\ Reclaimer \in Ctx
    BY <1>18 DEF NotFull, Goto, Ctx
  <2>. QED  BY <2>1
<1>19. CASE EndReclaim  BY <1>19 DEF EndReclaim
<1>20. CASE FlushReclaim  BY <1>20 DEF FlushReclaim, StartReclaim
<1>21. CASE WaitStart  BY <1>21 DEF WaitStart
<1>22. CASE WaitSample  BY <1>22 DEF WaitSample
<1>23. CASE WaitCheck  BY <1>23 DEF WaitCheck
<1>24. CASE WaitTimeout  BY <1>24 DEF WaitTimeout
<1>25. CASE WaitReturn  BY <1>25 DEF WaitReturn
<1>. QED
  BY <1>0, <1>1, <1>2, <1>3, <1>4, <1>5, <1>6, <1>7, <1>8, <1>9, <1>10, <1>11,
     <1>12, <1>13, <1>14, <1>15, <1>16, <1>17, <1>18, <1>19, <1>20, <1>21,
     <1>22, <1>23, <1>24, <1>25
     DEF Next, TxFromTxq, ReclaimStep, Wait

\* The room between the test and the wake-up is only used by the burst it is
\* for.
LEMMA RoomStep ==
    OrderInv /\ BurstTypes /\ WorkerInv /\ StopInv /\ BurstInv /\ RoomInv
      /\ [Next]_vars
    => RoomInv'
<1>. SUFFICES ASSUME OrderInv, BurstTypes, WorkerInv, StopInv, BurstInv,
                     RoomInv, [Next]_vars
              PROVE  RoomInv'
  OBVIOUS
<1>. USE DEF RoomInv, ring, locals, device, errors, wait
<1>s. UNCHANGED <<read_ptr, write_ptr>> => Space' = Space
  BY DEF Space, SpaceFrom
<1>0. CASE UNCHANGED vars  BY <1>0, <1>s DEF vars
<1>1. ASSUME NEW t \in Threads, NEW n \in BurstSizes, Enqueue(t, n)
      PROVE  RoomInv'
  <2>1. /\ rec' = rec /\ UNCHANGED <<read_ptr, write_ptr, overflow_q, segs>>
        /\ \A d \in Ctx : pc'[d] = "tx" => pc[d] = "tx"
    BY <1>1 DEF Enqueue, Goto, BurstTypes, Ctx
  <2>. QED  BY <2>1, <1>s
<1>2. ASSUME NEW c \in Ctx, Request(c) PROVE RoomInv'
  <2>1. /\ rec' = rec /\ UNCHANGED <<read_ptr, write_ptr, overflow_q, segs>>
        /\ \A d \in Ctx : pc'[d] = "tx" => pc[d] = "tx"
    BY <1>2 DEF Request, Goto, BurstTypes, Ctx
  <2>. QED  BY <2>1, <1>s
<1>3. ASSUME NEW c \in Ctx, CheckFull(c) PROVE RoomInv'
  <2>1. /\ rec' = rec /\ UNCHANGED <<read_ptr, write_ptr, overflow_q, segs>>
        /\ \A d \in Ctx : pc'[d] = "tx" => pc[d] = "tx"
    BY <1>3 DEF CheckFull, Goto, BurstTypes, Ctx
  <2>. QED  BY <2>1, <1>s
<1>4. ASSUME NEW c \in Ctx, Dequeue(c) PROVE RoomInv'
  <2>1. CASE rec \in {"wake", "notfull"}
    <3>1. pc[c] = "dequeue"  BY <1>4 DEF Dequeue
    <3>2. stop_full  BY <2>1 DEF StopInv
    <3>. QED  BY <3>1, <3>2 DEF BurstInv
  <2>2. CASE rec \notin {"wake", "notfull"}  BY <1>4, <2>2, <1>s DEF Dequeue
  <2>. QED  BY <2>1, <2>2
<1>5. ASSUME NEW c \in Ctx, Tx(c) PROVE RoomInv'
  <2>1. /\ pc[c] = "tx" /\ Transmit(Head(segs[c])) /\ NextSeg(c) /\ rec' = rec
    BY <1>5 DEF Tx
  <2>2. /\ Space' \in Nat /\ Space' <= Space /\ Space \in Nat
        /\ MustOverflow => Space' = Space
        /\ ~MustOverflow => Space' = Space - 1 /\ overflow_q' = overflow_q
    BY <2>1, PlaceFrame, SpaceLeft
  <2>3. /\ segs[c] \in Seq(Frames) /\ Len(segs[c]) \in Nat
        /\ Len(segs[c]) >= 1 /\ Len(Tail(segs[c])) = Len(segs[c]) - 1
    BY <2>1, BurstTail DEF BurstTypes
  <2>4. CASE rec = "overflow"  BY <2>1, <2>2, <2>4, Marks DEF MustOverflow
  <2>5. CASE rec \in {"wake", "notfull"}
    <3>1. Space >= (HighMark + Len(segs[c])) - 1 /\ overflow_q = <<>>
      BY <2>1, <2>5
    <3>2. ~MustOverflow  BY <2>2, <2>3, <3>1, Marks DEF MustOverflow
    <3>3. /\ Space' >= (HighMark + Len(Tail(segs[c]))) - 1
          /\ overflow_q' = <<>>
      BY <2>2, <2>3, <3>1, <3>2, Marks
    <3>4. segs'[c] = Tail(segs[c])  BY <2>1 DEF NextSeg, BurstTypes
    <3>5. \A d \in Ctx : pc'[d] = "tx" => d = c
      BY <2>1 DEF NextSeg, Goto, WorkerInv, Working, BurstTypes
    <3>. QED  BY <2>1, <2>5, <3>3, <3>4, <3>5
  <2>6. CASE rec \notin {"overflow", "wake", "notfull"}  BY <2>1, <2>6
  <2>. QED  BY <2>4, <2>5, <2>6
<1>6. ASSUME NEW c \in Ctx, TxStop(c) PROVE RoomInv'  BY <1>6, <1>s DEF TxStop
<1>7. ASSUME NEW c \in Ctx, TxFull(c) PROVE RoomInv'
  <2>1. /\ pc[c] = "tx" /\ Transmit(Head(segs[c])) /\ NextSeg(c) /\ rec' = rec
    BY <1>7 DEF TxFull
  <2>2. /\ Space' \in Nat /\ Space' <= Space /\ Space \in Nat
        /\ MustOverflow => Space' = Space
        /\ ~MustOverflow => Space' = Space - 1 /\ overflow_q' = overflow_q
    BY <2>1, PlaceFrame, SpaceLeft
  <2>3. /\ segs[c] \in Seq(Frames) /\ Len(segs[c]) \in Nat
        /\ Len(segs[c]) >= 1 /\ Len(Tail(segs[c])) = Len(segs[c]) - 1
    BY <2>1, BurstTail DEF BurstTypes
  <2>4. CASE rec = "overflow"  BY <2>1, <2>2, <2>4, Marks DEF MustOverflow
  <2>5. CASE rec \in {"wake", "notfull"}
    <3>1. Space >= (HighMark + Len(segs[c])) - 1 /\ overflow_q = <<>>
      BY <2>1, <2>5
    <3>2. ~MustOverflow  BY <2>2, <2>3, <3>1, Marks DEF MustOverflow
    <3>3. /\ Space' >= (HighMark + Len(Tail(segs[c]))) - 1
          /\ overflow_q' = <<>>
      BY <2>2, <2>3, <3>1, <3>2, Marks
    <3>4. segs'[c] = Tail(segs[c])  BY <2>1 DEF NextSeg, BurstTypes
    <3>5. \A d \in Ctx : pc'[d] = "tx" => d = c
      BY <2>1 DEF NextSeg, Goto, WorkerInv, Working, BurstTypes
    <3>. QED  BY <2>1, <2>5, <3>3, <3>4, <3>5
  <2>6. CASE rec \notin {"overflow", "wake", "notfull"}  BY <2>1, <2>6
  <2>. QED  BY <2>4, <2>5, <2>6
<1>8. ASSUME NEW c \in Ctx, TxFails(c) PROVE RoomInv'
  <2>1. /\ rec' = rec /\ UNCHANGED <<read_ptr, write_ptr, overflow_q>>
        /\ \A d \in Ctx : pc'[d] = "tx" => pc[d] = "tx" /\ segs'[d] = segs[d]
    BY <1>8 DEF TxFails, BuildTfdFails, Goto, BurstTypes
  <2>. QED  BY <2>1, <1>s
<1>9. ASSUME NEW c \in Ctx, DecRequest(c) PROVE RoomInv'
  <2>1. /\ rec' = rec /\ UNCHANGED <<read_ptr, write_ptr, overflow_q, segs>>
        /\ \A d \in Ctx : pc'[d] = "tx" => pc[d] = "tx"
    BY <1>9 DEF DecRequest, Goto, BurstTypes, Ctx
  <2>. QED  BY <2>1, <1>s
<1>10. CASE DeviceReports  BY <1>10, <1>s DEF DeviceReports
<1>11. CASE Reclaim  BY <1>11, <1>s DEF Reclaim, StartReclaim
<1>12. CASE FreeEntries  BY <1>12, <1>s DEF FreeEntries
<1>13. CASE UpdateReadPtr  BY <1>13, <1>s DEF UpdateReadPtr
<1>14. CASE OverflowTx
  <2>1. rec = "overflow" /\ rec' = rec /\ Transmit(Head(overflow_skbs))
    BY <1>14 DEF OverflowTx
  <2>2. /\ Space' \in Nat /\ Space' <= Space /\ Space \in Nat
        /\ MustOverflow => Space' = Space
        /\ ~MustOverflow => Space' = Space - 1 /\ overflow_q' = overflow_q
    BY <2>1, PlaceFrame, SpaceLeft
  <2>. QED  BY <2>1, <2>2, Marks DEF MustOverflow
<1>15. CASE OverflowTxFails  BY <1>15, <1>s DEF OverflowTxFails, BuildTfdFails
<1>16. CASE CheckSpace
  <2>1. CASE Space > LowMark
    <3>1. /\ rec = "overflow" /\ rec' = "wake"
          /\ UNCHANGED <<read_ptr, write_ptr, overflow_q, pc, segs>>
      BY <1>16, <2>1 DEF CheckSpace
    <3>2. overflow_q = <<>>  BY <2>1, <3>1, SpaceLeft, Marks
    <3>3. stop_full  BY <3>1 DEF StopInv
    <3>4. ASSUME NEW c \in Ctx, pc[c] = "tx"
          PROVE  Space >= (HighMark + Len(segs[c])) - 1
      <4>1. Len(segs[c]) \in Nat /\ Len(segs[c]) < Fit
        BY <3>3, <3>4, BurstTail DEF BurstInv, BurstTypes
      <4>. QED  BY <2>1, <4>1, SpaceLeft, Marks DEF Fit
    <3>. QED  BY <3>1, <3>2, <3>4, <1>s
  <2>2. CASE ~(Space > LowMark)  BY <1>16, <2>2 DEF CheckSpace
  <2>. QED  BY <2>1, <2>2
<1>17. CASE WakeQueue  BY <1>17, <1>s DEF WakeQueue
<1>18. CASE NotFull  BY <1>18 DEF NotFull
<1>19. CASE EndReclaim  BY <1>19, <1>s DEF EndReclaim
<1>20. CASE FlushReclaim  BY <1>20, <1>s DEF FlushReclaim, StartReclaim
<1>21. CASE WaitStart  BY <1>21, <1>s DEF WaitStart
<1>22. CASE WaitSample  BY <1>22, <1>s DEF WaitSample
<1>23. CASE WaitCheck  BY <1>23, <1>s DEF WaitCheck
<1>24. CASE WaitTimeout  BY <1>24, <1>s DEF WaitTimeout
<1>25. CASE WaitReturn  BY <1>25, <1>s DEF WaitReturn
<1>. QED
  BY <1>0, <1>1, <1>2, <1>3, <1>4, <1>5, <1>6, <1>7, <1>8, <1>9, <1>10, <1>11,
     <1>12, <1>13, <1>14, <1>15, <1>16, <1>17, <1>18, <1>19, <1>20, <1>21,
     <1>22, <1>23, <1>24, <1>25
     DEF Next, TxFromTxq, ReclaimStep, Wait

\* A queue that is stopped will be woken.
LEMMA WakeStep ==
    OrderInv /\ FlagTypes /\ WaitTypes /\ StopInv /\ RoomInv
      /\ StopIsWakeable /\ [Next]_vars
    => StopIsWakeable'
<1>. SUFFICES ASSUME OrderInv, FlagTypes, WaitTypes, StopInv, RoomInv,
                     StopIsWakeable, [Next]_vars
              PROVE  StopIsWakeable'
  OBVIOUS
<1>. USE ReclaimerAssumption
         DEF FlagTypes, StopIsWakeable, ring, locals, device, errors, wait
<1>0. CASE UNCHANGED vars  BY <1>0 DEF vars
<1>1. ASSUME NEW t \in Threads, NEW n \in BurstSizes, Enqueue(t, n)
      PROVE  StopIsWakeable'
  BY <1>1 DEF Enqueue, Goto
<1>2. ASSUME NEW c \in Ctx, Request(c) PROVE StopIsWakeable'
  BY <1>2 DEF Request, Goto
<1>3. ASSUME NEW c \in Ctx, CheckFull(c) PROVE StopIsWakeable'
  BY <1>3 DEF CheckFull, Goto
<1>4. ASSUME NEW c \in Ctx, Dequeue(c) PROVE StopIsWakeable'
  BY <1>4 DEF Dequeue, Goto
<1>5. ASSUME NEW c \in Ctx, Tx(c) PROVE StopIsWakeable'
  <2>1. /\ Transmit(Head(segs[c])) /\ UNCHANGED <<rec, queue_stopped>>
        /\ ~MustStop /\ stop_full' = stop_full
    BY <1>5 DEF Tx, None, Ctx
  <2>2. ~MustOverflow => overflow_q' = overflow_q  BY <2>1, PlaceFrame
  <2>. QED  BY <2>1, <2>2 DEF MustStop, MustOverflow, StopInv
<1>6. ASSUME NEW c \in Ctx, TxStop(c) PROVE StopIsWakeable'  BY <1>6 DEF TxStop
<1>7. ASSUME NEW c \in Ctx, TxFull(c) PROVE StopIsWakeable'
  <2>1. /\ Transmit(Head(segs[c])) /\ UNCHANGED <<rec, queue_stopped>>
        /\ lock = c /\ c # None
    BY <1>7 DEF TxFull, None, Ctx
  <2>2. ~MustOverflow => overflow_q' = overflow_q  BY <2>1, PlaceFrame
  <2>. QED  BY <2>1, <2>2 DEF MustStop, MustOverflow, StopInv
<1>8. ASSUME NEW c \in Ctx, TxFails(c) PROVE StopIsWakeable'
  BY <1>8 DEF TxFails, BuildTfdFails, Goto
<1>9. ASSUME NEW c \in Ctx, DecRequest(c) PROVE StopIsWakeable'
  BY <1>9 DEF DecRequest, Goto
<1>10. CASE DeviceReports  BY <1>10 DEF DeviceReports
<1>11. CASE Reclaim  BY <1>11 DEF Reclaim, StartReclaim
<1>12. CASE FreeEntries  BY <1>12 DEF FreeEntries
<1>13. CASE UpdateReadPtr  BY <1>13 DEF UpdateReadPtr
<1>14. CASE OverflowTx
  <2>1. rec = "overflow" /\ UNCHANGED <<rec, queue_stopped, stop_full>>
    BY <1>14 DEF OverflowTx
  <2>. QED  BY <2>1 DEF StopInv
<1>15. CASE OverflowTxFails  BY <1>15 DEF OverflowTxFails, BuildTfdFails
<1>16. CASE CheckSpace  BY <1>16 DEF CheckSpace
<1>17. CASE WakeQueue  BY <1>17 DEF WakeQueue, StopInv, RoomInv
<1>18. CASE NotFull  BY <1>18 DEF NotFull, StopInv, RoomInv
<1>19. CASE EndReclaim  BY <1>19 DEF EndReclaim
<1>20. CASE FlushReclaim  BY <1>20 DEF FlushReclaim, StartReclaim
<1>21. CASE WaitStart  BY <1>21 DEF WaitStart
<1>22. CASE WaitSample  BY <1>22 DEF WaitSample
<1>23. CASE WaitCheck  BY <1>23 DEF WaitCheck
<1>24. CASE WaitTimeout  BY <1>24 DEF WaitTimeout
<1>25. CASE WaitReturn  BY <1>25 DEF WaitReturn
<1>. QED
  BY <1>0, <1>1, <1>2, <1>3, <1>4, <1>5, <1>6, <1>7, <1>8, <1>9, <1>10, <1>11,
     <1>12, <1>13, <1>14, <1>15, <1>16, <1>17, <1>18, <1>19, <1>20, <1>21,
     <1>22, <1>23, <1>24, <1>25
     DEF Next, TxFromTxq, ReclaimStep, Wait


----------------------------------------------------------------------------
(* The theorems *)

TypeInv == BurstTypes /\ FrameTypes /\ FlagTypes /\ WaitTypes
RingInv == OrderInv /\ TypeInv /\ WorkerInv /\ FramesHeld /\ WaitInv

\* A new queue is empty.
LEMMA RingInit == Init => RingInv
<1>. SUFFICES ASSUME Init PROVE RingInv
  OBVIOUS
<1>1. /\ read_ptr = FirstTfd /\ write_ptr = FirstTfd /\ hw_ptr = FirstTfd
      /\ FirstTfd \in Ring /\ Used(FirstTfd, FirstTfd) = 0
  <2>1. FirstTfd \in Ring  BY SizeAssumption DEF Ring
  <2>. QED  BY <2>1, UsedType DEF Init
<1>2. RingTypes  BY <1>1, Sizes DEF Init, RingTypes, RecTypes, Ring
<1>3. PointersInOrder
  <2>1. ReclaimedTo = FirstTfd  BY <1>1 DEF Init, ReclaimedTo
  <2>. QED  BY <1>1, <2>1, Sizes DEF Init, PointersInOrder
<1>4. NotifsInOrder  BY DEF Init, NotifsInOrder
<1>5. BurstTypes  BY BoundAssumption DEF Init, BurstTypes, Places
<1>6. FrameTypes  BY DEF Init, FrameTypes, Windows
<1>7. FlagTypes  BY DEF Init, FlagTypes
<1>8. WaitTypes  BY BoundAssumption DEF Init, WaitTypes
<1>9. WorkerInv  BY DEF Init, WorkerInv, Working, Ctx
<1>10. FramesHeld
  <2>1. Used(Oldest, write_ptr) = 0 /\ Oldest \in Ring
    BY <1>1 DEF Init, Oldest
  <2>2. CmdIndex(Oldest) \in 0..(NWindow - 1)
    BY <2>1, <1>1, IndexAfter, Sizes DEF Init, Oldest
  <2>3. Held = {}  BY <2>1, <2>2, Sizes DEF Held, Window, Dist
  <2>. QED  BY <2>3 DEF FramesHeld
<1>11. WaitInv  BY DEF Init, WaitInv, Waiting, WaitMeansEmpty
<1>. QED
  BY <1>2, <1>3, <1>4, <1>5, <1>6, <1>7, <1>8, <1>9, <1>10, <1>11
     DEF RingInv, OrderInv, TypeInv

\* The ring's invariant is kept.
LEMMA RingStep == RingInv /\ [Next]_vars => RingInv'
  BY OrderStep, BurstTypesStep, FrameTypesStep, FlagTypesStep, WaitTypesStep,
     WorkerStep, HeldStep, WaitStep
     DEF RingInv, TypeInv

\* The invariant of the ring: pointers, device and reclaim follow each other,
\* what is between them holds frames, and one thread at most fills it.
THEOREM TxQueueInvariant == Spec => []RingInv
  BY RingInit, RingStep, PTL DEF Spec

\* Type correctness of the queue, of the threads that fill it and of the
\* reclaim.
THEOREM TxTypeCorrect == Spec => []TypeOK
<1>1. RingInv => TypeOK
  BY DEF RingInv, OrderInv, RingTypes, RecTypes, Ring, TypeInv, BurstTypes,
         Places, FrameTypes, Windows, FlagTypes, WaitTypes, WorkerInv, TypeOK
<1>. QED  BY <1>1, TxQueueInvariant, PTL

\* Every entry between the pointers has its frame, and the window of n_window
\* entries never fills up, whatever the sizes, the number of threads and the
\* bursts.
THEOREM TxRingHoldsFrames == Spec => []RingHoldsFrames
<1>1. RingInv => RingHoldsFrames
  <2>. SUFFICES ASSUME RingInv PROVE RingHoldsFrames
    OBVIOUS
  <2>1. Used(read_ptr, write_ptr) < NWindow
    BY DEF RingInv, OrderInv, PointersInOrder
  <2>2. ASSUME NEW p \in Slots(Oldest, write_ptr)
        PROVE  entries[CmdIndex(p)] # NULL
    <3>1. /\ Oldest \in Ring /\ Used(Oldest, write_ptr) \in Nat
          /\ Used(Oldest, write_ptr) < NWindow
      BY OldestType DEF RingInv
    <3>2. PICK k \in 0..(Used(Oldest, write_ptr) - 1) :
              p = (Oldest + k) % MaxTfd
      BY DEF Slots
    <3>3. k \in 0..NWindow /\ k < NWindow /\ k < Used(Oldest, write_ptr)
      BY <3>1, Sizes
    <3>4. p \in Ring /\ Used(Oldest, p) = k  BY <3>1, <3>2, <3>3, UsedAdd
    <3>5. /\ Dist(NWindow, CmdIndex(Oldest), CmdIndex(p)) = k
          /\ CmdIndex(p) \in 0..(NWindow - 1)
      BY <3>1, <3>3, <3>4, IndexDistance, IndexAfter, Sizes
    <3>6. CmdIndex(p) \in Held  BY <3>3, <3>5 DEF Held, Window
    <3>. QED  BY <3>6 DEF RingInv, FramesHeld
  <2>. QED  BY <2>1, <2>2 DEF RingHoldsFrames
<1>. QED  BY <1>1, TxQueueInvariant, PTL

\* iwl_pcie_reclaim, which works with indices masked by n_window, never frees
\* a frame that the device has still to send.
THEOREM TxNoEarlyFree == Spec => []NoEarlyFree
<1>1. RingInv => NoEarlyFree
  BY DEF RingInv, OrderInv, PointersInOrder, ReclaimedTo, NoEarlyFree
<1>. QED  BY <1>1, TxQueueInvariant, PTL

\* When iwl_trans_pcie_wait_txq_empty says so the queue is empty, although the
\* frames that overflowed are in no queue while they are sent again.
THEOREM TxWaitMeansEmpty == Spec => []WaitMeansEmpty
<1>1. RingInv => WaitMeansEmpty  BY DEF RingInv, WaitInv
<1>. QED  BY <1>1, TxQueueInvariant, PTL

\* If no burst is longer than what fits between the two marks, a queue that is
\* closed for mac80211, and the frames that overflowed, will be woken: the
\* test of the space before the wake-up is not under txq->lock.
THEOREM TxStopIsWakeable ==
    ASSUME BurstsFit
    PROVE  Spec => []StopIsWakeable
<1>. DEFINE Inv == StopInv /\ BurstInv /\ RoomInv /\ StopIsWakeable
<1>1. Init => Inv  BY DEF Init, StopInv, BurstInv, RoomInv, StopIsWakeable
<1>2. RingInv /\ Inv /\ [Next]_vars => Inv'
  BY BurstsFit, StopStep, BurstStep, RoomStep, WakeStep DEF RingInv, TypeInv
<1>3. Inv => StopIsWakeable  OBVIOUS
<1>. HIDE DEF Inv
<1>. QED  BY <1>1, <1>2, <1>3, TxQueueInvariant, PTL DEF Spec
============================================================================
