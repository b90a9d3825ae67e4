------------------------------ MODULE TxQueue ------------------------------
(***************************************************************************)
(* One data TX queue of a gen2 PCIe device (pcie/gen1_2/tx-gen2.c and      *)
(* tx.c), fed by the mld op-mode (mld/tx.c, mld/mld.c).                    *)
(*                                                                         *)
(* Actors: the threads that mac80211 calls wake_tx_queue from, the RX      *)
(* context that reclaims transmitted frames, the device, and a thread in   *)
(* iwl_trans_pcie_wait_txq_empty.  txq->lock covers single TX calls and    *)
(* parts of the reclaim, which drops it to free frames and to transmit the *)
(* overflow queue; reclaim_lock makes reclaims exclude each other.         *)
(*                                                                         *)
(* A frame is its number in the order mac80211 got them, 0 is NULL.  A     *)
(* GSO skb is a burst of several frames: iwl_mld_tx_tso sends all of them  *)
(* without looking at stop_full in between.                                *)
(***************************************************************************)
EXTENDS Integers, Sequences, SequencesExt, FiniteSets

CONSTANTS
    Threads,        \* contexts calling iwl_mld_tx_from_txq
    Reclaimer,      \* the RX context, which transmits as well
    MaxTfd,         \* max_tfd_queue_size
    NWindow,        \* n_window
    FirstTfd,       \* the firmware says where a new queue starts
    BurstSizes,     \* frames in the bursts of mac80211: 1, more with GSO
    MaxFrames,      \* bound: frames handed to the queue
    MaxNotifs,      \* bound: TX responses on their way
    MaxDmaFails     \* bound: frames iwl_txq_gen2_build_tfd fails to map

ASSUME SizeAssumption ==
    /\ NWindow \in Nat /\ MaxTfd \in Nat /\ NWindow >= 8
    /\ MaxTfd % NWindow = 0
    /\ NWindow < MaxTfd
    /\ FirstTfd \in 0..(MaxTfd - 1)
ASSUME BoundAssumption ==
    /\ BurstSizes \subseteq Nat \ {0}
    /\ MaxFrames \in Nat /\ MaxNotifs \in Nat \ {0}
    /\ MaxDmaFails \in Nat
ASSUME ReclaimerAssumption ==
    Reclaimer \notin Threads /\ "none" \notin Threads \union {Reclaimer}

VARIABLES
    read_ptr, write_ptr, entries, overflow_q,   \* struct iwl_txq
    overflow_tx, stuck_timer,
    lock,           \* the holder of txq->lock across two steps, or None
    queue_stopped,  \* the bit in trans_pcie->txqs.queue_stopped
    stop_full,      \* mld_txq->status.stop_full
    tx_request,     \* mld_txq->tx_request
    backlog,        \* mac80211's txq: the bursts waiting
    enqueued,       \* how many frames it got so far
    pc, segs,       \* each context's place in tx_from_txq and its burst
    rec,            \* the reclaimer's place in iwl_pcie_reclaim
    r_ptr, tfd_num, flush, overflow_skbs,       \* and its locals
    hw_ptr, notifs, \* the device: first TFD not sent, responses under way
    done, leaked,   \* frames given back to mac80211, and never given back
    dma_fails,      \* how many frames could not be mapped
    waiter, wait_overflow, wr_ptr   \* iwl_trans_pcie_wait_txq_empty

ring == <<read_ptr, write_ptr, entries, stuck_timer>>
locals == <<r_ptr, tfd_num, flush>>
device == <<hw_ptr, notifs>>
errors == <<leaked, dma_fails>>
wait == <<waiter, wait_overflow, wr_ptr>>
vars == <<ring, overflow_q, overflow_tx, lock, queue_stopped, stop_full,
          tx_request, backlog, enqueued, pc, segs, rec, locals, overflow_skbs,
          device, done, errors, wait>>

NULL == 0
None == "none"
Unread == -1
Ctx == Threads \union {Reclaimer}
Frames == 1..MaxFrames
Max2(a, b) == IF a >= b THEN a ELSE b

\* iwl_queue_init
LowMark == Max2(NWindow \div 4, 4)
HighMark == Max2(NWindow \div 8, 2)

\* iwl_txq_get_cmd_index, iwl_txq_inc_wrap, iwl_txq_dec_wrap
CmdIndex(i) == i % NWindow
IncWrap(i) == (i + 1) % MaxTfd
DecWrap(i) == (i - 1) % MaxTfd

\* iwl_txq_space, for n_window < max_tfd_queue_size
Used(r, w) == (w - r) % MaxTfd
SpaceFrom(r, w) == IF Used(r, w) > NWindow THEN 0 ELSE NWindow - Used(r, w)
Space == SpaceFrom(read_ptr, write_ptr)

\* iwl_txq_used
TxqUsed(i, rp, wp) ==
    LET index == CmdIndex(i)
        r == CmdIndex(rp)
        w == CmdIndex(wp)
    IN  IF w >= r THEN index >= r /\ index < w
                  ELSE ~(index < r /\ index >= w)

\* The ring positions from r up to w, excluded.
Slots(r, w) == {(r + k) % MaxTfd : k \in 0..(Used(r, w) - 1)}

\* The next burst of n frames.
NewBurst(n) == [i \in 1..n |-> enqueued + i]

Init ==
    /\ read_ptr = FirstTfd /\ write_ptr = FirstTfd /\ hw_ptr = FirstTfd
    /\ entries = [i \in 0..(NWindow - 1) |-> NULL]
    /\ overflow_q = <<>> /\ overflow_skbs = <<>>
    /\ overflow_tx = FALSE /\ stuck_timer = FALSE
    /\ lock = None
    /\ queue_stopped = FALSE /\ stop_full = FALSE
    /\ tx_request = 0
    /\ backlog = <<>> /\ enqueued = 0
    /\ pc = [c \in Ctx |-> "idle"]
    /\ segs = [c \in Ctx |-> <<>>]
    /\ rec = "idle" /\ r_ptr = 0 /\ tfd_num = 0 /\ flush = FALSE
    /\ notifs = <<>>
    /\ done = {} /\ leaked = {} /\ dma_fails = 0
    /\ waiter = "idle" /\ wait_overflow = FALSE /\ wr_ptr = Unread

Goto(c, l) == pc' = [pc EXCEPT ![c] = l]

----------------------------------------------------------------------------
(* iwl_txq_gen2_tx, with txq->lock held *)

\* The frame goes on the ring and the device is told.
PutOnRing(f) ==
    /\ entries' = [entries EXCEPT ![CmdIndex(write_ptr)] = f]
    /\ stuck_timer' = (stuck_timer \/ read_ptr = write_ptr)
    /\ write_ptr' = IncWrap(write_ptr)
    /\ UNCHANGED <<read_ptr, overflow_q, done>>

\* iwl_txq_gen2_build_tfd fails: the caller gets an error.
BuildTfdFails(f) ==
    /\ dma_fails < MaxDmaFails
    /\ dma_fails' = dma_fails + 1
    /\ entries' = [entries EXCEPT ![CmdIndex(write_ptr)] = f]
    /\ UNCHANGED <<read_ptr, write_ptr, stuck_timer, overflow_q>>

\* There is no room: the frame waits in the overflow queue.
PutOnOverflow(f) ==
    /\ overflow_q' = Append(overflow_q, f)
    /\ UNCHANGED <<ring, done>>

MustOverflow == Space < HighMark /\ Space < 3

Transmit(f) ==
    IF MustOverflow THEN PutOnOverflow(f) ELSE PutOnRing(f)

\* iwl_txq_stop is about to set the bit and call queue_full
MustStop == Space < HighMark /\ ~queue_stopped

----------------------------------------------------------------------------
(* mld: iwl_mld_tx_from_txq and iwl_mld_tx_tso *)

\* mac80211 puts a burst in its txq and calls wake_tx_queue.
Enqueue(t, n) ==
    /\ pc[t] = "idle"
    /\ waiter = "idle"          \* mac80211 stops its queues to flush
    /\ enqueued + n <= MaxFrames
    /\ enqueued' = enqueued + n
    /\ backlog' = Append(backlog, NewBurst(n))
    /\ Goto(t, "request")
    /\ UNCHANGED <<ring, overflow_q, overflow_tx, lock, queue_stopped,
                   stop_full, tx_request, segs, rec, locals, overflow_skbs,
                   device, done, errors, wait>>

\* Mutant: the request count is not capped at 2.
RequestUncapped(c) ==
    /\ pc[c] = "request"
    /\ tx_request' = tx_request + 1
    /\ Goto(c, IF tx_request = 0 THEN "loop" ELSE "idle")
    /\ UNCHANGED <<ring, overflow_q, overflow_tx, lock, queue_stopped,
                   stop_full, backlog, enqueued, segs, rec, locals,
                   overflow_skbs, device, done, errors, wait>>

\* atomic_fetch_add_unless(&mld_txq->tx_request, 1, 2)
Request(c) ==
    /\ pc[c] = "request"
    /\ tx_request' = IF tx_request = 2 THEN 2 ELSE tx_request + 1
    /\ Goto(c, IF tx_request = 0 THEN "loop" ELSE "idle")
    /\ UNCHANGED <<ring, overflow_q, overflow_tx, lock, queue_stopped,
                   stop_full, backlog, enqueued, segs, rec, locals,
                   overflow_skbs, device, done, errors, wait>>

CheckFull(c) ==
    /\ pc[c] = "loop"
    /\ Goto(c, IF stop_full THEN "dec" ELSE "dequeue")
    /\ UNCHANGED <<ring, overflow_q, overflow_tx, lock, queue_stopped,
                   stop_full, tx_request, backlog, enqueued, segs, rec, locals,
                   overflow_skbs, device, done, errors, wait>>

\* ieee80211_tx_dequeue
Dequeue(c) ==
    /\ pc[c] = "dequeue"
    /\ IF backlog = <<>>
       THEN Goto(c, "dec") /\ UNCHANGED <<backlog, segs>>
       ELSE /\ Goto(c, "tx")
            /\ backlog' = Tail(backlog)
            /\ segs' = [segs EXCEPT ![c] = Head(backlog)]
    /\ UNCHANGED <<ring, overflow_q, overflow_tx, lock, queue_stopped,
                   stop_full, tx_request, enqueued, rec, locals,
                   overflow_skbs, device, done, errors, wait>>

\* The burst goes on after a frame.
NextSeg(c) ==
    /\ segs' = [segs EXCEPT ![c] = Tail(@)]
    /\ Goto(c, IF Len(segs[c]) = 1 THEN "loop" ELSE "tx")

Tx(c) ==
    /\ pc[c] = "tx" /\ lock = None
    /\ ~MustStop
    /\ Transmit(Head(segs[c]))
    /\ NextSeg(c)
    /\ UNCHANGED <<overflow_tx, lock, queue_stopped, stop_full, tx_request,
                   backlog, enqueued, rec, locals, overflow_skbs, device,
                   errors, wait>>

\* Mutant: queue_full is called without the bit being set.
TxStopNoBit(c) ==
    /\ pc[c] = "tx" /\ lock = None
    /\ MustStop
    /\ lock' = c
    /\ UNCHANGED <<ring, overflow_q, overflow_tx, queue_stopped, stop_full,
                   tx_request, backlog, enqueued, pc, segs, rec, locals,
                   overflow_skbs, device, done, errors, wait>>

\* iwl_txq_stop: test_and_set_bit found the bit clear ...
TxStop(c) ==
    /\ pc[c] = "tx" /\ lock = None
    /\ MustStop
    /\ queue_stopped' = TRUE
    /\ lock' = c
    /\ UNCHANGED <<ring, overflow_q, overflow_tx, stop_full, tx_request,
                   backlog, enqueued, pc, segs, rec, locals, overflow_skbs,
                   device, done, errors, wait>>

\* ... and queue_full is called, before the frame is placed.
TxFull(c) ==
    /\ pc[c] = "tx" /\ lock = c
    /\ stop_full' = TRUE
    /\ lock' = None
    /\ Transmit(Head(segs[c]))
    /\ NextSeg(c)
    /\ UNCHANGED <<overflow_tx, queue_stopped, tx_request, backlog, enqueued,
                   rec, locals, overflow_skbs, device, errors, wait>>

\* A frame that cannot be mapped is freed with the rest of its burst.
TxFails(c) ==
    /\ pc[c] = "tx" /\ lock = None
    /\ ~MustStop /\ ~MustOverflow
    /\ BuildTfdFails(Head(segs[c]))
    /\ done' = done \union ToSet(segs[c])
    /\ segs' = [segs EXCEPT ![c] = <<>>]
    /\ Goto(c, "loop")
    /\ UNCHANGED <<overflow_tx, lock, queue_stopped, stop_full, tx_request,
                   backlog, enqueued, rec, locals, overflow_skbs, device,
                   leaked, wait>>

\* while (atomic_dec_return(&mld_txq->tx_request))
DecRequest(c) ==
    /\ pc[c] = "dec"
    /\ tx_request' = tx_request - 1
    /\ Goto(c, IF tx_request = 1 THEN "idle" ELSE "loop")
    /\ UNCHANGED <<ring, overflow_q, overflow_tx, lock, queue_stopped,
                   stop_full, backlog, enqueued, segs, rec, locals,
                   overflow_skbs, device, done, errors, wait>>

----------------------------------------------------------------------------
(* The device *)

\* The device sends some of the TFDs and reports how far it got; responses
\* arrive in order.
DeviceReports ==
    /\ Len(notifs) < MaxNotifs
    /\ hw_ptr' \in Slots(IncWrap(hw_ptr), IncWrap(write_ptr))
    /\ notifs' = Append(notifs, hw_ptr')
    /\ UNCHANGED <<ring, overflow_q, overflow_tx, lock, queue_stopped,
                   stop_full, tx_request, backlog, enqueued, pc, segs, rec,
                   locals, overflow_skbs, done, errors, wait>>

----------------------------------------------------------------------------
(* iwl_pcie_reclaim, under reclaim_lock *)

\* The checks on ssn, against a snapshot of the pointers: frames up to ssn,
\* excluded, are to be freed, and the one before it must be in use.
Frees(ssn) ==
    /\ CmdIndex(read_ptr) # CmdIndex(ssn)
    /\ TxqUsed(DecWrap(CmdIndex(ssn)), read_ptr, write_ptr)

\* Mutant: the frame at ssn is freed as well.
StartReclaimIncluded(ssn, is_flush) ==
    /\ rec = "idle" /\ lock = None
    /\ rec' = IF Frees(ssn) THEN "free" ELSE "idle"
    /\ r_ptr' = read_ptr
    /\ tfd_num' = CmdIndex(IF ssn = write_ptr THEN ssn ELSE ssn + 1)
    /\ flush' = is_flush
    /\ UNCHANGED <<ring, overflow_q, overflow_tx, lock, queue_stopped,
                   stop_full, tx_request, backlog, enqueued, pc, segs,
                   overflow_skbs, done>>

StartReclaim(ssn, is_flush) ==
    /\ rec = "idle" /\ lock = None
    /\ rec' = IF Frees(ssn) THEN "free" ELSE "idle"
    /\ r_ptr' = read_ptr
    /\ tfd_num' = CmdIndex(ssn)
    /\ flush' = is_flush
    /\ UNCHANGED <<ring, overflow_q, overflow_tx, lock, queue_stopped,
                   stop_full, tx_request, backlog, enqueued, pc, segs,
                   overflow_skbs, done>>

\* A TX response or block-ack notification is handled.
Reclaim ==
    /\ notifs # <<>>
    /\ notifs' = Tail(notifs)
    /\ UNCHANGED <<hw_ptr, errors, wait>>
    /\ StartReclaim(Head(notifs), FALSE)

\* iwl_mld_flush_link_sta_txqs: the firmware drops what it has and says how
\* far; all earlier responses were handled, and nothing is being sent.
FlushReclaim ==
    /\ waiter = "idle"
    /\ notifs = <<>>
    /\ \A c \in Ctx : pc[c] = "idle"
    /\ write_ptr # read_ptr
    /\ hw_ptr' = write_ptr
    /\ UNCHANGED <<notifs, errors, wait_overflow, wr_ptr>>
    /\ waiter' = "flush"
    /\ StartReclaim(write_ptr, TRUE)

\* Mutant: the loop runs one entry too far, the read pointer does not.
FreeEntriesOneMore ==
    /\ rec = "free"
    /\ LET n == (tfd_num - CmdIndex(r_ptr)) % NWindow
           freed == {(CmdIndex(r_ptr) + k) % NWindow : k \in 0..n}
       IN  /\ done' = done \union ({entries[i] : i \in freed} \ {NULL})
           /\ entries' = [i \in DOMAIN entries |->
                             IF i \in freed THEN NULL ELSE entries[i]]
           /\ r_ptr' = (r_ptr + n) % MaxTfd
    /\ rec' = "relock"
    /\ UNCHANGED <<read_ptr, write_ptr, stuck_timer, overflow_q, overflow_tx,
                   lock, queue_stopped, stop_full, tx_request, backlog,
                   enqueued, pc, segs, tfd_num, flush, overflow_skbs, device,
                   errors, wait>>

\* The loop that frees the entries, without txq->lock.  Nobody else touches
\* them: one step.
FreeEntries ==
    /\ rec = "free"
    /\ LET n == (tfd_num - CmdIndex(r_ptr)) % NWindow
           freed == {(CmdIndex(r_ptr) + k) % NWindow : k \in 0..(n - 1)}
       IN  /\ done' = done \union ({entries[i] : i \in freed} \ {NULL})
           /\ entries' = [i \in DOMAIN entries |->
                             IF i \in freed THEN NULL ELSE entries[i]]
           /\ r_ptr' = (r_ptr + n) % MaxTfd
    /\ rec' = "relock"
    /\ UNCHANGED <<read_ptr, write_ptr, stuck_timer, overflow_q, overflow_tx,
                   lock, queue_stopped, stop_full, tx_request, backlog,
                   enqueued, pc, segs, tfd_num, flush, overflow_skbs, device,
                   errors, wait>>

\* Mutant: overflow_tx is not remembered.
UpdateReadPtrSilently ==
    /\ rec = "relock" /\ lock = None
    /\ read_ptr' = r_ptr
    /\ stuck_timer' = (r_ptr # write_ptr)
    /\ IF SpaceFrom(r_ptr, write_ptr) > LowMark /\ queue_stopped
       THEN /\ overflow_skbs' = IF flush THEN <<>> ELSE overflow_q
            /\ done' = IF flush THEN done \union ToSet(overflow_q) ELSE done
            /\ overflow_q' = <<>>
            /\ rec' = "overflow"
       ELSE rec' = "idle" /\ UNCHANGED <<overflow_skbs, done, overflow_q>>
    /\ UNCHANGED <<write_ptr, entries, overflow_tx, lock, queue_stopped,
                   stop_full, tx_request, backlog, enqueued, pc, segs, locals,
                   device, errors, wait>>

\* With txq->lock again: the new read pointer, iwl_txq_progress and, if the
\* queue was stopped and has room, the overflow queue is taken over.
UpdateReadPtr ==
    /\ rec = "relock" /\ lock = None
    /\ read_ptr' = r_ptr
    /\ stuck_timer' = (r_ptr # write_ptr)
    /\ IF SpaceFrom(r_ptr, write_ptr) > LowMark /\ queue_stopped
       THEN /\ overflow_skbs' = IF flush THEN <<>> ELSE overflow_q
            /\ done' = IF flush THEN done \union ToSet(overflow_q) ELSE done
            /\ overflow_q' = <<>>
            /\ overflow_tx' = TRUE
            /\ rec' = "overflow"
       ELSE /\ rec' = "idle"
            /\ UNCHANGED <<overflow_skbs, done, overflow_q, overflow_tx>>
    /\ UNCHANGED <<write_ptr, entries, lock, queue_stopped, stop_full,
                   tx_request, backlog, enqueued, pc, segs, locals, device,
                   errors, wait>>

\* iwl_trans_tx of the next frame of the overflow queue.  The queue is
\* stopped already: only this context clears the bit.
OverflowTx ==
    /\ rec = "overflow" /\ lock = None
    /\ overflow_skbs # <<>>
    /\ overflow_skbs' = Tail(overflow_skbs)
    /\ Transmit(Head(overflow_skbs))
    /\ UNCHANGED <<overflow_tx, lock, queue_stopped, stop_full, tx_request,
                   backlog, enqueued, pc, segs, rec, locals, device, errors,
                   wait>>

\* The error iwl_trans_tx returns is ignored.
OverflowTxFails ==
    /\ rec = "overflow" /\ lock = None
    /\ overflow_skbs # <<>>
    /\ ~MustOverflow
    /\ overflow_skbs' = Tail(overflow_skbs)
    /\ BuildTfdFails(Head(overflow_skbs))
    /\ leaked' = leaked \union {Head(overflow_skbs)}
    /\ UNCHANGED <<overflow_tx, lock, queue_stopped, stop_full, tx_request,
                   backlog, enqueued, pc, segs, rec, locals, device, done,
                   wait>>

\* The unlocked test whether to wake the queue.
CheckSpace ==
    /\ rec = "overflow"
    /\ overflow_skbs = <<>>
    /\ rec' = IF Space > LowMark THEN "wake" ELSE "end"
    /\ UNCHANGED <<ring, overflow_q, overflow_tx, lock, queue_stopped,
                   stop_full, tx_request, backlog, enqueued, pc, segs, locals,
                   overflow_skbs, device, done, errors, wait>>

\* iwl_trans_pcie_wake_queue: test_and_clear_bit ...
WakeQueue ==
    /\ rec = "wake"
    /\ queue_stopped' = FALSE
    /\ rec' = IF queue_stopped THEN "notfull" ELSE "end"
    /\ UNCHANGED <<ring, overflow_q, overflow_tx, lock, stop_full, tx_request,
                   backlog, enqueued, pc, segs, locals, overflow_skbs, device,
                   done, errors, wait>>

\* Mutant: the queue is marked as open, but nobody transmits from it.
NotFullNoTx ==
    /\ rec = "notfull"
    /\ stop_full' = FALSE
    /\ rec' = "end"
    /\ UNCHANGED <<ring, overflow_q, overflow_tx, lock, queue_stopped,
                   tx_request, backlog, enqueued, pc, segs, locals,
                   overflow_skbs, device, done, errors, wait>>

\* ... and queue_not_full, which goes on to transmit in this context.
NotFull ==
    /\ rec = "notfull"
    /\ stop_full' = FALSE
    /\ Goto(Reclaimer, "request")
    /\ rec' = "end"
    /\ UNCHANGED <<ring, overflow_q, overflow_tx, lock, queue_stopped,
                   tx_request, backlog, enqueued, segs, locals, overflow_skbs,
                   device, done, errors, wait>>

EndReclaim ==
    /\ rec = "end" /\ lock = None
    /\ pc[Reclaimer] = "idle"
    /\ overflow_tx' = FALSE
    /\ rec' = "idle"
    /\ UNCHANGED <<ring, overflow_q, lock, queue_stopped, stop_full,
                   tx_request, backlog, enqueued, pc, segs, locals,
                   overflow_skbs, device, done, errors, wait>>

----------------------------------------------------------------------------
(* iwl_trans_pcie_wait_txq_empty, called with no TX from the op-mode *)

WaitStart ==
    /\ waiter = "idle"
    /\ backlog = <<>>
    /\ \A c \in Ctx : pc[c] = "idle"
    /\ waiter' = "sample"
    /\ UNCHANGED <<ring, overflow_q, overflow_tx, lock, queue_stopped,
                   stop_full, tx_request, backlog, enqueued, pc, segs, rec,
                   locals, overflow_skbs, device, done, errors,
                   wait_overflow, wr_ptr>>

\* With txq->lock: is there, or will there be, overflow to send?
WaitSample ==
    /\ waiter = "sample" /\ lock = None
    /\ wait_overflow' = (overflow_tx \/ overflow_q # <<>>)
    /\ waiter' = "check"
    /\ UNCHANGED <<ring, overflow_q, overflow_tx, lock, queue_stopped,
                   stop_full, tx_request, backlog, enqueued, pc, segs, rec,
                   locals, overflow_skbs, device, done, errors, wr_ptr>>

\* The loop condition; the body sleeps and samples again, unless the write
\* pointer moved although no overflow was expected.
WaitCheck ==
    /\ waiter = "check"
    /\ IF read_ptr = write_ptr /\ ~wait_overflow
       THEN waiter' = "empty" /\ UNCHANGED wr_ptr
       ELSE /\ waiter' = IF wr_ptr \notin {Unread, write_ptr} /\ ~wait_overflow
                         THEN "warned" ELSE "sample"
            /\ wr_ptr' = write_ptr
    /\ UNCHANGED <<ring, overflow_q, overflow_tx, lock, queue_stopped,
                   stop_full, tx_request, backlog, enqueued, pc, segs, rec,
                   locals, overflow_skbs, device, done, errors, wait_overflow>>

\* IWL_FLUSH_WAIT_MS are over: only the pointers decide.
WaitTimeout ==
    /\ waiter = "check"
    /\ waiter' = IF read_ptr # write_ptr THEN "idle" ELSE "timedout"
    /\ wr_ptr' = Unread
    /\ UNCHANGED <<ring, overflow_q, overflow_tx, lock, queue_stopped,
                   stop_full, tx_request, backlog, enqueued, pc, segs, rec,
                   locals, overflow_skbs, device, done, errors, wait_overflow>>

\* The caller of the wait or of the flush goes on.
WaitReturn ==
    /\ waiter \in {"empty", "timedout", "warned", "flush"}
    /\ waiter = "flush" => rec = "idle"
    /\ waiter' = "idle"
    /\ wr_ptr' = Unread
    /\ UNCHANGED <<ring, overflow_q, overflow_tx, lock, queue_stopped,
                   stop_full, tx_request, backlog, enqueued, pc, segs, rec,
                   locals, overflow_skbs, device, done, errors, wait_overflow>>

----------------------------------------------------------------------------
TxFromTxq(c) ==
    \/ Request(c) \/ CheckFull(c) \/ Dequeue(c) \/ Tx(c) \/ TxStop(c)
    \/ TxFull(c) \/ TxFails(c) \/ DecRequest(c)

ReclaimStep ==
    \/ Reclaim \/ FreeEntries \/ UpdateReadPtr \/ OverflowTx
    \/ OverflowTxFails \/ CheckSpace \/ WakeQueue \/ NotFull \/ EndReclaim

Wait == WaitStart \/ WaitSample \/ WaitCheck \/ WaitTimeout \/ WaitReturn

Next ==
    \/ \E t \in Threads, n \in BurstSizes : Enqueue(t, n)
    \/ \E c \in Ctx : TxFromTxq(c)
    \/ DeviceReports
    \/ ReclaimStep \/ FlushReclaim
    \/ Wait

Spec == Init /\ [][Next]_vars

\* Every thread runs, the device sends what it is given and reports it, and
\* notifications are handled.
FairSpec ==
    /\ Spec
    /\ \A c \in Ctx : WF_vars(TxFromTxq(c))
    /\ WF_vars(DeviceReports) /\ WF_vars(ReclaimStep)
----------------------------------------------------------------------------
TypeOK ==
    /\ read_ptr \in 0..(MaxTfd - 1) /\ write_ptr \in 0..(MaxTfd - 1)
    /\ hw_ptr \in 0..(MaxTfd - 1) /\ r_ptr \in 0..(MaxTfd - 1)
    /\ tfd_num \in 0..(NWindow - 1)
    /\ entries \in [0..(NWindow - 1) -> Frames \union {NULL}]
    /\ overflow_q \in Seq(Frames) /\ overflow_skbs \in Seq(Frames)
    /\ overflow_tx \in BOOLEAN /\ stuck_timer \in BOOLEAN
    /\ queue_stopped \in BOOLEAN /\ stop_full \in BOOLEAN /\ flush \in BOOLEAN
    /\ tx_request \in 0..2
    /\ lock \in Ctx \union {None}
    /\ backlog \in Seq(Seq(Frames)) /\ enqueued \in 0..MaxFrames
    /\ pc \in [Ctx -> {"idle", "request", "loop", "dequeue", "tx", "dec"}]
    /\ segs \in [Ctx -> Seq(Frames)]
    /\ rec \in {"idle", "free", "relock", "overflow", "wake", "notfull",
                "end"}
    /\ notifs \in Seq(0..(MaxTfd - 1))
    /\ done \subseteq Frames /\ leaked \subseteq Frames
    /\ dma_fails \in 0..MaxDmaFails
    /\ waiter \in {"idle", "sample", "check", "empty", "timedout", "warned",
                  "flush"}
    /\ wait_overflow \in BOOLEAN
    /\ wr_ptr \in 0..(MaxTfd - 1) \union {Unread}

\* Where the ring's frames start: behind the ones being freed.
Oldest == IF rec = "relock" THEN r_ptr ELSE read_ptr

\* Every entry of the ring has its frame ("no SKB at"), although entries are
\* freed and filled under different locks, and the window never fills up: the
\* indices masked with n_window that iwl_pcie_reclaim works with could not tell
\* a full queue from an empty one.
RingHoldsFrames ==
    /\ Used(read_ptr, write_ptr) < NWindow
    /\ \A p \in Slots(Oldest, write_ptr) : entries[CmdIndex(p)] # NULL

\* The reclaim never frees a frame that the device has still to send.
NoEarlyFree ==
    /\ Used(read_ptr, hw_ptr) <= Used(read_ptr, write_ptr)
    /\ rec = "relock" => Used(read_ptr, r_ptr) <= Used(read_ptr, hw_ptr)

\* mac80211's side is only held back while somebody will wake it: the bit in
\* the transport is set, or is just being handed over.  "Note that we can very
\* well be overflowing again. In that case, iwl_txq_space will be small again
\* and we won't wake mac80211's queue": frames that overflowed keep the queue
\* stopped, and so their own rescue.
StopIsWakeable ==
    /\ stop_full => queue_stopped \/ rec = "notfull"
    /\ overflow_q # <<>> => queue_stopped

\* When the wait says the queue is empty, no frame is left in it.
WaitMeansEmpty ==
    waiter = "empty" => /\ read_ptr = write_ptr
                        /\ overflow_q = <<>> /\ overflow_skbs = <<>>

\* Every frame is sent and given back in the end, or, if it overflowed and
\* could not be mapped, is lost: iwl_pcie_reclaim neither sends nor frees it.
EventuallyDrained == <>[](backlog = <<>> /\ done \union leaked = 1..enqueued)
============================================================================
