--------------------------- MODULE ReorderBuffer ---------------------------
(***************************************************************************)
(* One receive block-ack session of the mld op-mode (mld/agg.c) over the   *)
(* RX queues of the device, and the synchronisation of these queues        *)
(* (mld/rx.c) that ends it.                                                *)
(*                                                                         *)
(* Every queue is polled by a context of its own, in the order of its      *)
(* fifo, and has a reorder buffer of its own.  The firmware keeps the      *)
(* window of the session, spreads frames over the queues and writes NSSN,  *)
(* the first sequence number it still waits for, into each descriptor.     *)
(* Queues that did not get the frame learn NSSN from release               *)
(* notifications.                                                          *)
(*                                                                         *)
(* MPDUs are numbered from 0 in the order the peer first sends them; the   *)
(* driver sees the number modulo SnMod.  A frame is <<number, subframe>>:  *)
(* the device splits A-MSDUs.                                              *)
(***************************************************************************)
EXTENDS Integers, Sequences, FiniteSets, SequencesExt

CONSTANTS
    Queues,         \* num_rxqs
    SnMod,          \* IEEE80211_SN_MODULO
    BufSize,        \* of the ADDBA request
    FirstSn,        \* start_seq_num of the ADDBA request
    MaxMpdus,       \* bound: MPDUs from there on; the one before is old
    Amsdu,          \* those of them with two subframes
    MaxFifo,        \* bound: messages on one queue
    MaxSyncs,       \* bound: synchronisations, the last one ends the session
    MaxCopies       \* bound: retransmissions of MPDUs received already

ASSUME SnAssumption ==
    /\ SnMod \in Nat /\ BufSize \in Nat \ {0} /\ 2 * BufSize < SnMod
    /\ FirstSn \in Nat \ {0}
ASSUME ReorderBounds ==
    /\ MaxMpdus \in Nat /\ Amsdu \subseteq Nat
    /\ MaxFifo \in Nat \ {0} /\ MaxSyncs \in Nat \ {0} /\ MaxCopies \in Nat
    /\ IsFiniteSet(Queues) /\ Queues # {}

VARIABLES
    session,        \* "idle", "fw", "up", "stop", "flush" or "closed"
    head_sn, num_stored, valid,     \* struct iwl_mld_reorder_buffer, per queue
    entries,        \* per queue and index: the list of skbs
    sync_state, cookie,     \* mld->rxq_sync: queues to respond, cookie
    syncing,        \* what iwl_mld_sync_rx_queues waits for: a type, or None
    dup_data,       \* per queue: the sequence number and subframe seen last
    in_hw_restart,
    win, got, copies,       \* the firmware: NSSN, MPDUs received beyond it
    fifo,           \* per queue: frames and notifications under way
    delivered,      \* per queue: frames passed to mac80211
    purged          \* frames freed with the session

buffers == <<head_sn, num_stored, valid, entries, delivered>>
sync == <<sync_state, cookie, syncing>>
fw == <<win, got, copies, in_hw_restart>>
vars == <<session, buffers, dup_data, sync, fw, fifo, purged>>

None == "none"
LastMpdu == FirstSn + MaxMpdus - 1
Mpdus == (FirstSn - 1)..LastMpdu
Subframes(n) == IF n \in Amsdu THEN {1, 2} ELSE {1}
Frames == UNION {{n} \X Subframes(n) : n \in Mpdus}
LastOf(n) == IF n \in Amsdu THEN 2 ELSE 1
LastSubframe(f) == f[2] = LastOf(f[1])

SnLess(a, b) == ((a - b) % SnMod) > SnMod \div 2
\* Mutant: the sum is not masked.
SnAddUnmasked(a, b) == a + b
SnAdd(a, b) == (a + b) % SnMod
Sn(n) == n % SnMod

Index(sn) == sn % BufSize

Mpdu(n, sub, nssn, old, dup) ==
    [type |-> "mpdu", frame |-> <<n, sub>>, nssn |-> nssn, old |-> old,
     dup |-> dup]
ReleaseNotif(nssn) == [type |-> "release", nssn |-> nssn]
SyncNotif(t, c) == [type |-> "sync", sync |-> t, cookie |-> c]

Init ==
    /\ session = "idle"
    /\ head_sn = [q \in Queues |-> 0] /\ num_stored = [q \in Queues |-> 0]
    /\ valid = [q \in Queues |-> FALSE]
    /\ entries = [q \in Queues |-> [i \in 0..(BufSize - 1) |-> <<>>]]
    /\ sync_state = {} /\ cookie = 0 /\ syncing = None
    /\ dup_data = [q \in Queues |-> <<-1, 0>>]
    /\ in_hw_restart = FALSE
    /\ win = FirstSn /\ got = {} /\ copies = 0
    /\ fifo = [q \in Queues |-> <<>>]
    /\ delivered = [q \in Queues |-> <<>>]
    /\ purged = {}

----------------------------------------------------------------------------
(* The firmware *)

\* The first MPDU from w on that has not been received.
Advance(w, received) ==
    CHOOSE x \in w..(LastMpdu + 1) :
        x \notin received /\ \A y \in w..(x - 1) : y \in received

\* NSSN is now w; the queues that do not see it in a descriptor are told.
MoveWindow(w, received, msgs, seen) ==
    LET nssn == Advance(w, received)
        news(q) == IF nssn = win \/ q \in seen THEN <<>>
                   ELSE <<ReleaseNotif(nssn)>>
    IN  /\ win' = nssn
        /\ got' = {n \in received : n > nssn}
        /\ fifo' = [q \in Queues |-> fifo[q] \o msgs[q] \o news(q)]
        /\ \A q \in Queues : Len(fifo'[q]) <= MaxFifo

\* An MPDU of the window arrives; its subframes go to the queues "to" says.
\* (One beyond the window makes the firmware give up holes first: FwSkips.)
\* From the ADDBA request to the response the peer holds back new MPDUs.
FwReceives(n, to) ==
    LET old == n < win
        dup == n \in got
        again == IF old \/ dup THEN 1 ELSE 0
        received == IF old THEN got ELSE got \union {n}
        msgs == [q \in Queues |->
                   [k \in 1..Cardinality({s \in Subframes(n) : to[s] = q}) |->
                      LET s == IF to[1] = q THEN k ELSE 2
                      IN  Mpdu(n, s, Advance(win, received), old, dup)]]
    IN  /\ session \in {"fw", "up"} /\ ~in_hw_restart
        /\ n < win + BufSize
        /\ session = "fw" => n < FirstSn
        /\ n < FirstSn => win = FirstSn /\ got = {}
        /\ copies' = copies + again /\ copies' <= MaxCopies
        /\ MoveWindow(win, received, msgs, {to[LastOf(n)]})
        /\ UNCHANGED <<session, buffers, dup_data, sync, in_hw_restart,
                       purged>>

\* A hole is given up: after the reorder time-out, for an MPDU beyond the
\* window, or because a BAR says so.
FwSkips(n) ==
    /\ session = "up" /\ ~in_hw_restart
    /\ n > win /\ n <= win + BufSize
    /\ MoveWindow(n, got, [q \in Queues |-> <<>>], {})
    /\ UNCHANGED <<session, buffers, dup_data, sync, copies, in_hw_restart,
                   purged>>

\* The firmware fails: what is on the queues is lost.
FwDies ==
    /\ session \in {"up", "stop", "flush"} /\ ~in_hw_restart
    /\ in_hw_restart' = TRUE
    /\ fifo' = [q \in Queues |-> <<>>]
    /\ UNCHANGED <<session, buffers, dup_data, sync, win, got, copies, purged>>

----------------------------------------------------------------------------
(* iwl_mld_reorder_release_frames *)

\* Mutant: the loop ends one sequence number early.
StepsShort(q, nssn) ==
    IF SnLess(head_sn[q], nssn) THEN ((nssn - head_sn[q]) % SnMod) - 1
    ELSE 0

\* The lists the loop visits.
Steps(q, nssn) ==
    IF SnLess(head_sn[q], nssn) THEN (nssn - head_sn[q]) % SnMod ELSE 0
Visited(q, nssn) ==
    [k \in 1..Steps(q, nssn) |-> Index(SnAdd(head_sn[q], k - 1))]

\* The frames it takes out of the lists, and the lists afterwards.
TakenOut(q, lists, nssn) ==
    LET v == Visited(q, nssn)
    IN  FlattenSeq([k \in DOMAIN v |->
            IF \E j \in 1..(k - 1) : v[j] = v[k] THEN <<>> ELSE lists[v[k]]])
Emptied(q, lists, nssn) ==
    LET v == Visited(q, nssn)
    IN  [i \in DOMAIN lists |->
            IF \E k \in DOMAIN v : v[k] = i THEN <<>> ELSE lists[i]]

ReleaseFrames(q, lists, stored, nssn) ==
    LET out == TakenOut(q, lists, nssn)
    IN  /\ delivered' = [delivered EXCEPT ![q] = @ \o out]
        /\ entries' = [entries EXCEPT ![q] = Emptied(q, lists, nssn)]
        /\ num_stored' = [num_stored EXCEPT ![q] = stored - Len(out)]
        /\ head_sn' = [head_sn EXCEPT ![q] = nssn]
----------------------------------------------------------------------------
(* iwl_mld_rx_mpdu and iwl_mld_reorder *)

Published == session \in {"up", "stop", "flush"}    \* fw_id_to_ba[baid] is set

\* iwl_mld_is_dup: a retransmission of the frame seen last.
IsDup(q, m) ==
    /\ m.old \/ m.dup
    /\ dup_data[q][1] = Sn(m.frame[1])
    /\ dup_data[q][2] >= m.frame[2]

Pass(q, f) == delivered' = [delivered EXCEPT ![q] = Append(@, f)]
Drop == UNCHANGED buffers

\* Released immediately, with the new head.
PassAndMove(q, f, sn) ==
    /\ Pass(q, f)
    /\ head_sn' = [head_sn EXCEPT ![q] = IF LastSubframe(f) THEN sn ELSE @]
    /\ UNCHANGED <<num_stored, entries>>

\* Mutant: NSSN is trusted for every subframe.
StoreTrusting(q, f, nssn) ==
    LET i == Index(Sn(f[1]))
        lists == [entries[q] EXCEPT ![i] = Append(@, f)]
    IN  ReleaseFrames(q, lists, num_stored[q] + 1, nssn)

\* Put in the reorder buffer.
Store(q, f, nssn) ==
    LET i == Index(Sn(f[1]))
        lists == [entries[q] EXCEPT ![i] = Append(@, f)]
    IN  IF LastSubframe(f)
        THEN ReleaseFrames(q, lists, num_stored[q] + 1, nssn)
        ELSE /\ entries' = [entries EXCEPT ![q] = lists]
             /\ num_stored' = [num_stored EXCEPT ![q] = @ + 1]
             /\ head_sn' = [head_sn EXCEPT
                              ![q] = IF num_stored[q] = 0 THEN nssn ELSE @]
             /\ UNCHANGED delivered

Reorder(q, m) ==
    LET sn == Sn(m.frame[1])
        nssn == Sn(m.nssn)
    IN  IF ~Published \/ (~valid[q] /\ m.old)
        THEN Pass(q, m.frame)
             /\ UNCHANGED <<head_sn, num_stored, valid, entries>>
        ELSE /\ valid' = [valid EXCEPT ![q] = TRUE]
             /\ IF m.dup \/ m.old
                THEN UNCHANGED <<head_sn, num_stored, entries, delivered>>
                ELSE IF num_stored[q] = 0 /\ SnLess(sn, nssn)
                THEN PassAndMove(q, m.frame, nssn)
                ELSE IF num_stored[q] = 0 /\ sn = head_sn[q]
                THEN PassAndMove(q, m.frame, SnAdd(sn, 1))
                ELSE Store(q, m.frame, nssn)

Take(q, type) ==
    /\ fifo[q] # <<>>
    /\ Head(fifo[q]).type = type
    /\ fifo' = [fifo EXCEPT ![q] = Tail(@)]

RxMpdu(q) ==
    /\ Take(q, "mpdu")
    /\ LET m == Head(fifo[q])
       IN  IF in_hw_restart \/ IsDup(q, m)
           THEN Drop /\ UNCHANGED dup_data
           ELSE /\ Reorder(q, m)
                /\ dup_data' = [dup_data EXCEPT
                                  ![q] = <<Sn(m.frame[1]), m.frame[2]>>]
    /\ UNCHANGED <<session, sync, fw, purged>>

\* iwl_mld_release_frames_from_notif, for frame and BAR release notifications
RxRelease(q) ==
    /\ Take(q, "release")
    /\ IF Published
       THEN /\ ReleaseFrames(q, entries[q], num_stored[q],
                          Sn(Head(fifo[q]).nssn))
            /\ UNCHANGED valid
       ELSE Drop
    /\ UNCHANGED <<session, dup_data, sync, fw, purged>>

----------------------------------------------------------------------------
(* iwl_mld_sync_rx_queues and iwl_mld_handle_rx_queues_sync_notif *)

\* Mutant: responses of an earlier synchronisation count.
AnyCookie(q, m) == TRUE
ThisCookie(q, m) == cookie = m.cookie

\* iwl_mld_del_ba: all of this queue's buffer goes up.
DelBa(q) ==
    IF Published
    THEN /\ ReleaseFrames(q, entries[q], num_stored[q],
                          SnAdd(head_sn[q], BufSize))
         /\ UNCHANGED valid
    ELSE Drop

RxSync(q) ==
    /\ Take(q, "sync")
    /\ LET m == Head(fifo[q])
       IN  IF ThisCookie(q, m)
           THEN /\ IF m.sync = "del_ba" THEN DelBa(q) ELSE Drop
                /\ sync_state' = sync_state \ {q}
           ELSE Drop /\ UNCHANGED sync_state
    /\ UNCHANGED <<session, dup_data, cookie, syncing, fw, purged>>

\* The command: the firmware sends the message to all queues.
StartSync(type) ==
    /\ syncing = None /\ ~in_hw_restart
    /\ \A q \in Queues : Len(fifo[q]) < MaxFifo
    /\ syncing' = type
    /\ sync_state' = Queues
    /\ fifo' = [q \in Queues |-> Append(fifo[q], SyncNotif(type, cookie))]
    /\ UNCHANGED cookie

\* The wait is over: all queues responded, or SYNC_RX_QUEUE_TIMEOUT passed.
EndSync(type) ==
    /\ syncing = type
    /\ sync_state' = {}
    /\ cookie' = cookie + 1
    /\ syncing' = None

\* The command cannot be sent to a dead firmware.
FailSync ==
    /\ syncing = None /\ in_hw_restart
    /\ cookie' = cookie + 1
    /\ UNCHANGED <<sync_state, syncing>>

\* iwl_mld_mac80211_sync_rx_queues
SyncEmpty ==
    /\ session = "up" /\ cookie + 1 < MaxSyncs
    /\ StartSync("empty")
    /\ UNCHANGED <<session, buffers, dup_data, fw, purged>>

SyncEmptyFails ==
    /\ session = "up" /\ cookie + 1 < MaxSyncs
    /\ FailSync
    /\ UNCHANGED <<session, buffers, dup_data, fw, fifo, purged>>

SyncEmptyEnds ==
    /\ EndSync("empty")
    /\ UNCHANGED <<session, buffers, dup_data, fw, fifo, purged>>

----------------------------------------------------------------------------
(* iwl_mld_ampdu_rx_start and iwl_mld_ampdu_rx_stop *)

\* iwl_mld_start_ba_in_fw
StartBaInFw ==
    /\ session = "idle"
    /\ session' = "fw"
    /\ UNCHANGED <<buffers, dup_data, sync, fw, fifo, purged>>

\* iwl_mld_init_reorder_buffer, and the pointer is published.
InitReorderBuffer ==
    /\ session = "fw"
    /\ session' = "up"
    /\ head_sn' = [q \in Queues |-> Sn(FirstSn)]
    /\ UNCHANGED <<num_stored, valid, entries, delivered, dup_data, sync, fw,
                   fifo, purged>>

\* iwl_mld_stop_ba_in_fw, unless the firmware restarts.
StopBaInFw ==
    /\ session = "up" /\ syncing = None
    /\ session' = "stop"
    /\ UNCHANGED <<buffers, dup_data, sync, fw, fifo, purged>>

\* iwl_mld_free_reorder_buffer: the queues are told to flush ...
FlushBuffers ==
    /\ session = "stop"
    /\ session' = "flush"
    /\ StartSync("del_ba")
    /\ UNCHANGED <<buffers, dup_data, fw, purged>>

\* ... and what they have not released is purged with the session.
Purge ==
    /\ session' = "closed"
    /\ purged' = UNION {ToSet(entries[q][i]) : q \in {r \in Queues :
                            num_stored[r] # 0}, i \in 0..(BufSize - 1)}
    /\ entries' = [q \in Queues |-> [i \in 0..(BufSize - 1) |-> <<>>]]
    /\ num_stored' = [q \in Queues |-> 0]
    /\ UNCHANGED <<head_sn, valid, delivered, dup_data, fw, fifo>>

FreeBuffers ==
    /\ session = "flush"
    /\ sync_state = {} /\ EndSync("del_ba")
    /\ Purge

FreeBuffersTimedOut ==
    /\ session = "flush"
    /\ sync_state # {} /\ EndSync("del_ba")
    /\ Purge

FreeBuffersNoSync ==
    /\ session = "stop"
    /\ FailSync
    /\ Purge

----------------------------------------------------------------------------
Poll(q) == RxMpdu(q) \/ RxRelease(q) \/ RxSync(q)

Session ==
    \/ StartBaInFw \/ InitReorderBuffer \/ StopBaInFw \/ FlushBuffers
    \/ FreeBuffers \/ FreeBuffersTimedOut \/ FreeBuffersNoSync
    \/ SyncEmpty \/ SyncEmptyFails \/ SyncEmptyEnds

Firmware ==
    \/ \E n \in Mpdus : \E to \in [Subframes(n) -> Queues] : FwReceives(n, to)
    \/ \E n \in FirstSn..(LastMpdu + 1) : FwSkips(n)
    \/ FwDies

Next == (\E q \in Queues : Poll(q)) \/ Session \/ Firmware

Spec == Init /\ [][Next]_vars
----------------------------------------------------------------------------
TypeOK ==
    /\ session \in {"idle", "fw", "up", "stop", "flush", "closed"}
    /\ head_sn \in [Queues -> 0..(SnMod - 1)]
    /\ num_stored \in [Queues -> 0..(2 * (MaxMpdus + 1))]
    /\ valid \in [Queues -> BOOLEAN]
    /\ entries \in [Queues -> [0..(BufSize - 1) -> Seq(Frames)]]
    /\ sync_state \subseteq Queues
    /\ cookie \in Nat /\ syncing \in {None, "empty", "del_ba"}
    /\ in_hw_restart \in BOOLEAN
    /\ win \in Nat /\ got \subseteq Mpdus
    /\ delivered \in [Queues -> Seq(Frames)]
    /\ purged \subseteq Frames

Held(q) == UNION {ToSet(entries[q][i]) : i \in 0..(BufSize - 1)}

\* A queue that has handled all its messages keeps only frames for which the
\* firmware still waits for an earlier one: none is stranded behind NSSN.
NothingStranded ==
    \A q \in Queues :
        session = "up" /\ ~in_hw_restart /\ fifo[q] = <<>>
            => \A f \in Held(q) : f[1] >= win

\* "This shouldn't happen in regular DELBA": when all queues responded,
\* nothing is left to be purged.
SyncFlushes ==
    [][FreeBuffers => purged' = {}]_vars

\* In-order delivery, whatever the order of arrival and the queue; a queue has
\* started when its buffer is valid.
InOrder == INSTANCE InOrderDelivery
    WITH open <- session \in {"fw", "up", "stop", "flush"},
         started <- valid,
         held <- [q \in Queues |-> Held(q)]
DeliversInOrder == InOrder!Spec

============================================================================
