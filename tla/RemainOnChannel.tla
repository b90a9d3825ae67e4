-------------------------- MODULE RemainOnChannel --------------------------
(***************************************************************************)
(* Remain-on-channel (ROC) periods: the list mac80211 keeps of them        *)
(* (mac80211/offchannel.c, drivers with remain_on_channel), the sessions   *)
(* the op-mode has in the firmware (mld/roc.c), the notifications between  *)
(* the two (mld/notif.c), and what else waits for the list: a scan, a      *)
(* hardware restart, an interface that goes down.                          *)
(*                                                                         *)
(* Everything but the firmware runs under the wiphy lock, so a request or  *)
(* a work is one step; its operator composes the functions the code calls, *)
(* each from a state of the device to a state of the device.               *)
(***************************************************************************)
EXTENDS Integers, Sequences, SequencesExt, FiniteSetsExt

CONSTANTS
    P2pVifs, StaVifs,   \* P2P devices, stations
    Channels,
    Durations,
    MaxRocs,            \* bound: periods userspace asks for
    MaxScans,           \* bound: scans
    MaxRestarts,        \* bound: firmware crashes
    MaxCloses           \* bound: interfaces that go down

ASSUME RocBounds ==
    /\ P2pVifs \intersect StaVifs = {}
    /\ Durations \subseteq Nat \ {0}
    /\ {MaxRocs, MaxScans, MaxRestarts, MaxCloses} \subseteq Nat

VARIABLES
    m,                          \* the device
    restart_work,               \* ieee80211_restart_work is queued
    scans, restarts, closes     \* how often each has happened

vars == <<m, restart_work, scans, restarts, closes>>

Vifs == P2pVifs \union StaVifs
Rocs == 1 .. MaxRocs            \* cookies
None == "none"
Over == -1                      \* a time before now
Activities == {"p2p_disc", "p2p_neg", "hotspot"}

Activity(v, mgmt) ==
    IF v \in StaVifs THEN "hotspot" ELSE IF mgmt THEN "p2p_neg" ELSE "p2p_disc"

Init ==
    /\ m = [list |-> <<>>,          \* local->roc_list
            works |-> <<>>,         \* the queued wiphy works
            scan |-> "no",          \* scan_req and scanning
            in_reconfig |-> FALSE,
            act |-> [v \in Vifs |-> None],      \* mld_vif->roc_activity
            notifs |-> <<>>,        \* mld->async_handlers_list
            fw |-> [a \in Activities |-> "idle"],
            dead |-> FALSE,         \* the firmware has crashed
            told |-> [r \in Rocs |-> "new"],    \* what userspace knows
            last |-> [vif |-> None, chan |-> None, begun |-> FALSE],
                                    \* the last session the firmware accepted
            warned |-> {}]          \* what went wrong so far: WARN_ONs and others
    /\ restart_work = FALSE
    /\ scans = 0 /\ restarts = 0 /\ closes = 0

----------------------------------------------------------------------------
(* Works, and the two ends of a period *)

Queue(s, w) == IF Contains(s.works, w) THEN s
               ELSE [s EXCEPT !.works = Append(@, w)]

Warn(s, what, cond) == IF cond THEN [s EXCEPT !.warned = @ \union {what}] ELSE s

\* ieee80211_roc_notify_destroy for the periods in S
NotifyDestroy(s, S) ==
    [s EXCEPT !.list = SelectSeq(@, LAMBDA r : r.id \notin S),
              !.told = [r \in Rocs |-> IF r \in S THEN "expired" ELSE @[r]]]

\* The positions every loop over "started" periods visits: it stops at the first
\* that is not.
Started(list) == {i \in DOMAIN list : \A j \in 1 .. i : list[j].started}

EndFinishedRocs(s) ==
    NotifyDestroy(s, {s.list[i].id : i \in {i \in Started(s.list) :
                         s.list[i].abort \/ s.list[i].begun \/ s.list[i].left <= 0}})

\* The firmware is, or was, on the period's channel for it.
Served(s, r) == s.last = [vif |-> r.vif, chan |-> r.chan, begun |-> TRUE]

\* ieee80211_handle_roc_started for the periods at the positions P.
HandleStarted(s, P) ==
    LET new == {i \in P : ~s.list[i].notified}
        ids == {s.list[i].id : i \in new}
        begun == [s EXCEPT
            !.list = [i \in DOMAIN @ |->
                IF i \in new
                THEN [@[i] EXCEPT !.started = TRUE, !.notified = TRUE,
                                  !.left = s.list[i].dur]
                ELSE @[i]],
            !.told = [r \in Rocs |-> IF r \in ids THEN "ready" ELSE @[r]]]
    IN  Warn(Warn(begun, "notified", new # P),
             "stale", \E i \in new : ~Served(s, s.list[i]))

HwRocStart(s) ==
    LET P == Started(s.list)
    IN  HandleStarted([s EXCEPT !.list = [i \in DOMAIN @ |->
                          IF i \in P THEN [@[i] EXCEPT !.begun = TRUE] ELSE @[i]]], P)

----------------------------------------------------------------------------
(* The op-mode *)

\* iwl_mld_start_roc succeeds: there is no session of this activity, the
\* firmware takes the station and the command (ok).
MldCanStart(s, v, mgmt, ok) ==
    ok /\ ~s.dead /\ \A w \in Vifs : s.act[w] # Activity(v, mgmt)

MldStart(s, v, chan, mgmt) ==
    [s EXCEPT !.act[v] = Activity(v, mgmt), !.fw[Activity(v, mgmt)] = "scheduled",
              !.last = [vif |-> v, chan |-> chan, begun |-> FALSE]]

\* What a bug would do: leave the notifications that are waiting.
MldCancelOnly(s, v) ==
    IF s.act[v] = None THEN s
    ELSE [s EXCEPT !.act[v] = None, !.fw[s.act[v]] = "idle"]

MldCancel(s, v) ==
    IF s.act[v] = None THEN s
    ELSE [s EXCEPT !.act[v] = None, !.fw[s.act[v]] = "idle",
                   !.notifs = SelectSeq(@, LAMBDA n : n.act # s.act[v])]

HandleRocNotif(s, n) ==
    LET owners == {v \in Vifs : s.act[v] = n.act}
        v == CHOOSE v \in owners : TRUE
    IN  IF owners = {} THEN s
        ELSE CASE n.kind = "started" -> Queue(s, "start")
               [] n.kind = "failed"  -> Queue(MldCancel(s, v), "done")
               [] n.kind = "ended"   -> Queue([s EXCEPT !.act[v] = None], "done")

AsyncHandlers(s) == FoldLeft(HandleRocNotif, [s EXCEPT !.notifs = <<>>], s.notifs)

----------------------------------------------------------------------------
(* The next period *)

RunDeferredScan(s) == IF s.scan = "deferred" THEN Queue(s, "scan") ELSE s

\* The first periods of the list that are on one interface and channel.
Group(list) == {i \in DOMAIN list : \A j \in 1 .. i :
                   list[j].vif = list[1].vif /\ list[j].chan = list[1].chan}

BeginNextRoc(s, ok) ==
    LET G == Group(s.list)
        head == s.list[1]
        mgmt == \E i \in G : s.list[i].mgmt
        busy == \E v \in Vifs : s.act[v] = Activity(head.vif, mgmt)
        can == MldCanStart(s, head.vif, mgmt, ok)
        marked == [s EXCEPT !.list = [i \in DOMAIN @ |->
                      IF i \in G THEN [@[i] EXCEPT !.started = TRUE, !.abort = @ \/ ~can]
                      ELSE @[i]]]
    IN  IF can THEN MldStart(marked, head.vif, head.chan, mgmt)
        ELSE Warn(Queue(marked, "done"), "busy", busy)

StartNextRoc(s, ok) ==
    IF s.list = <<>> THEN RunDeferredScan(s)
    ELSE IF s.in_reconfig THEN s
    ELSE IF s.list[1].started THEN Warn(s, "started", TRUE)
    ELSE BeginNextRoc(s, ok)

HwRocDone(s, ok) == StartNextRoc(EndFinishedRocs(s), ok)

\* What a bug would do: forget the periods that were asked for during the scan.
ScanCompletedOnly(s, ok) == [s EXCEPT !.scan = "no"]

\* __ieee80211_scan_completed
ScanCompleted(s, ok) ==
    LET was_scanning == s.scan \in {"running", "completed"}
        done == [s EXCEPT !.scan = "no"]
    IN  IF was_scanning THEN StartNextRoc(done, ok) ELSE done

\* ieee80211_scan_work: a scan that is complete, or cannot start, ends; one that
\* was deferred starts or waits on.
ScanWork(s, ok) ==
    IF s.scan = "no" THEN s
    ELSE IF s.scan = "completed" \/ s.in_reconfig \/ (s.dead /\ s.list = <<>>)
    THEN ScanCompleted(s, ok)
    ELSE IF s.list = <<>> THEN [s EXCEPT !.scan = "running"] ELSE s

\* The first queued work runs.
RunFirst(s, ok) ==
    LET t == [s EXCEPT !.works = Tail(@)]
        w == Head(s.works)
    IN  CASE w = "async" -> AsyncHandlers(t)
          [] w = "start" -> HwRocStart(t)
          [] w = "done"  -> HwRocDone(t, ok)
          [] w = "scan"  -> ScanWork(t, ok)

\* wiphy_work_flush: the works up to w, if w is queued.
Flush(s, w, ok) ==
    LET before == {i \in DOMAIN s.works : \E j \in i .. Len(s.works) : s.works[j] = w}
    IN  FoldLeft(LAMBDA t, i : RunFirst(t, ok), s, [i \in before |-> i])

\* All works, and those they queue.
FlushAll(s, ok) ==
    FoldLeft(LAMBDA t, i : IF t.works = <<>> THEN t ELSE RunFirst(t, ok), s,
             [i \in 1 .. 8 |-> i])

----------------------------------------------------------------------------
(* Userspace *)

NewRoc(r, v, chan, dur, mgmt) ==
    [id |-> r, vif |-> v, chan |-> chan, dur |-> dur, mgmt |-> mgmt,
     started |-> FALSE, begun |-> FALSE, notified |-> FALSE, abort |-> FALSE,
     left |-> Over]

\* ieee80211_coalesce_hw_started_roc accepts: the time that is left is computed
\* without a sign, so a time that has passed is longer than any other.
Coalesces(roc, cur) ==
    /\ cur.begun \/ roc.dur <= cur.dur
    /\ cur.left < 0 \/ roc.dur <= cur.left

\* Where the list has a period to combine with, or 0.
Partner(list, roc) ==
    LET same == {i \in DOMAIN list : list[i].chan = roc.chan /\ list[i].vif = roc.vif}
        started == {i \in same : list[i].started}
        fits == (same \ started) \union {i \in started : i = Min(started) /\ Coalesces(roc, list[i])}
    IN  IF fits = {} THEN 0 ELSE Min(fits)

\* What a bug would do: not append a period that cannot be combined.
QueueIfCombined(s, roc) ==
    LET p == Partner(s.list, roc)
    IN  [s EXCEPT !.list = IF p = 0 THEN @ ELSE InsertAt(@, p + 1, roc),
                  !.told[roc.id] = "queued"]

QueueRoc(s, roc) ==
    LET p == Partner(s.list, roc)
        at == IF p = 0 THEN Len(s.list) + 1 ELSE p + 1
        begun == p # 0 /\ s.list[p].started /\ s.list[p].begun
        queued == [s EXCEPT !.list = InsertAt(@, at, [roc EXCEPT !.begun = begun]),
                            !.told[roc.id] = "queued"]
    IN  IF begun THEN HandleStarted(queued, {at}) ELSE queued

Unused == {r \in Rocs : m.told[r] = "new"}

\* ieee80211_start_roc_work
Request(v, chan, dur, mgmt, ok) ==
    /\ Unused # {}
    /\ LET roc == NewRoc(Min(Unused), v, chan, dur, mgmt)
       IN  IF m.list = <<>> /\ m.scan \in {"no", "deferred"}
           THEN /\ MldCanStart(m, v, mgmt, ok)
                /\ m' = [MldStart(m, v, chan, mgmt) EXCEPT
                            !.list = <<[roc EXCEPT !.started = TRUE]>>,
                            !.told[roc.id] = "queued"]
           ELSE m' = QueueRoc(m, roc)
    /\ UNCHANGED <<restart_work, scans, restarts, closes>>

\* What a bug would do: leave the work that ends the period queued.
CancelStartedOnly(s, roc, ok) ==
    LET t == MldCancel(s, roc.vif)
    IN  StartNextRoc(NotifyDestroy(t, {t.list[i].id : i \in Started(t.list)}), ok)

CancelStarted(s, roc, ok) ==
    LET t == [MldCancel(s, roc.vif) EXCEPT
                 !.works = SelectSeq(@, LAMBDA w : w # "done")]
        ids == {t.list[i].id : i \in Started(t.list)}
    IN  Warn(StartNextRoc(NotifyDestroy(t, ids), ok), "kept", roc.id \notin ids)

\* ieee80211_cancel_roc
Cancel(r, ok) ==
    /\ m.told[r] \in {"queued", "ready"}
    /\ LET s == Flush(m, "start", ok)
           found == {i \in DOMAIN s.list : s.list[i].id = r}
           roc == s.list[CHOOSE i \in found : TRUE]
       IN  m' = IF found = {} THEN s
                ELSE IF ~roc.started THEN NotifyDestroy(s, {r})
                ELSE CancelStarted(s, roc, ok)
    /\ UNCHANGED <<restart_work, scans, restarts, closes>>

\* ieee80211_roc_purge, for an interface that goes down.  It may leave the works
\* of a period that is gone, and a period or a scan that waited for it.
Close(v) ==
    /\ closes < MaxCloses
    /\ closes' = closes + 1
    /\ LET own == {i \in DOMAIN m.list : m.list[i].vif = v}
           running == \E i \in own : m.list[i].started
           s == NotifyDestroy(IF running THEN MldCancel(m, v) ELSE m,
                              {m.list[i].id : i \in own})
           left == s.list # <<>> \/ s.scan = "deferred"
                   \/ Contains(s.works, "start") \/ Contains(s.works, "done")
       IN  m' = Warn([s EXCEPT !.act[v] = None], "purged", running /\ left)
    /\ UNCHANGED <<restart_work, scans, restarts>>

\* __ieee80211_start_scan
StartScan ==
    /\ m.scan = "no" /\ ~m.dead /\ scans < MaxScans
    /\ scans' = scans + 1
    /\ m' = [m EXCEPT !.scan = IF m.list = <<>> THEN "running" ELSE "deferred"]
    /\ UNCHANGED <<restart_work, restarts, closes>>

RunWork(ok) ==
    /\ m.works # <<>>
    /\ m' = RunFirst(m, ok)
    /\ UNCHANGED <<restart_work, scans, restarts, closes>>

----------------------------------------------------------------------------
(* The firmware; its notifications wait for iwl_mld_async_handlers_wk *)

RxNotif(s, a, kind) ==
    Queue([s EXCEPT !.notifs = Append(@, [act |-> a, kind |-> kind])], "async")

Began(s, a) ==
    s.last.vif # None /\ a \in {Activity(s.last.vif, mgmt) : mgmt \in BOOLEAN}

FwStart(a) ==
    /\ ~m.dead /\ m.fw[a] = "scheduled"
    /\ m' = RxNotif([m EXCEPT !.fw[a] = "running", !.last.begun = @ \/ Began(m, a)],
                    a, "started")
    /\ UNCHANGED <<restart_work, scans, restarts, closes>>

\* The period could not start: the firmware keeps the session, or has given it up.
FwFail(a, kind) ==
    /\ ~m.dead /\ m.fw[a] = "scheduled"
    /\ m' = RxNotif([m EXCEPT !.fw[a] = IF kind = "failed" THEN "failed" ELSE "idle"],
                    a, kind)
    /\ UNCHANGED <<restart_work, scans, restarts, closes>>

FwEnd(a) ==
    /\ ~m.dead /\ m.fw[a] = "running"
    /\ m' = RxNotif([m EXCEPT !.fw[a] = "idle"], a, "ended")
    /\ UNCHANGED <<restart_work, scans, restarts, closes>>

\* ieee80211_scan_completed, for a scan that is complete or dies with the firmware
ReportScan(s) ==
    IF s.scan = "running" THEN Queue([s EXCEPT !.scan = "completed"], "scan") ELSE s

FwScanEnds ==
    /\ m.scan = "running"
    /\ m' = ReportScan(m)
    /\ UNCHANGED <<restart_work, scans, restarts, closes>>

\* Time passes for the periods that have begun.
Tick ==
    /\ \E i \in DOMAIN m.list : m.list[i].left >= 0
    /\ m' = [m EXCEPT !.list = [i \in DOMAIN @ |->
                [@[i] EXCEPT !.left = Max({Over, @ - 1})]]]
    /\ UNCHANGED <<restart_work, scans, restarts, closes>>

----------------------------------------------------------------------------
(* A firmware crash and the restart *)

FwCrash ==
    /\ ~m.dead /\ restarts < MaxRestarts
    /\ restarts' = restarts + 1
    /\ m' = [ReportScan(m) EXCEPT !.dead = TRUE, !.fw = [a \in Activities |-> "idle"]]
    /\ UNCHANGED <<restart_work, scans, closes>>

\* ieee80211_restart_hw
RestartHw ==
    /\ m.dead /\ ~m.in_reconfig
    /\ m' = [m EXCEPT !.in_reconfig = TRUE]
    /\ restart_work' = TRUE
    /\ UNCHANGED <<scans, restarts, closes>>

\* iwl_mld_stop_fw and iwl_mld_cleanup_vif, before the firmware is started
MldRestartCleanup(s) ==
    LET t == [s EXCEPT !.notifs = <<>>, !.act = [v \in Vifs |-> None], !.dead = FALSE,
                       !.works = SelectSeq(@, LAMBDA w : w # "async")]
    IN  IF \E v \in Vifs : s.act[v] # None THEN Queue(t, "done") ELSE t

ReconfigRoc(s, ok) ==
    LET t == Flush(Flush(s, "start", ok), "done", ok)
        ended == NotifyDestroy(t, {t.list[i].id : i \in {i \in Started(t.list) :
                                                            t.list[i].begun}})
        again == {t.list[i].id : i \in {i \in Started(t.list) : ~t.list[i].begun}}
        reset == [ended EXCEPT !.list = [i \in DOMAIN @ |->
                     IF @[i].id \in again THEN [@[i] EXCEPT !.started = FALSE] ELSE @[i]]]
    IN  StartNextRoc(reset, ok)

\* ieee80211_scan_cancel: only a deferred scan is left
ScanCancel(s) ==
    IF s.scan # "deferred" THEN s
    ELSE [s EXCEPT !.scan = "no", !.works = SelectSeq(@, LAMBDA w : w # "scan")]

\* ieee80211_restart_work
RestartWork(ok) ==
    /\ restart_work
    /\ restart_work' = FALSE
    /\ LET s == ScanCancel(FlushAll(m, ok))
           t == MldRestartCleanup(Flush(s, "done", ok))
       IN  m' = ReconfigRoc([t EXCEPT !.in_reconfig = FALSE], ok)
    /\ UNCHANGED <<scans, restarts, closes>>

----------------------------------------------------------------------------
\* Only on a P2P device does the type of a period make a difference.
Types(v) == IF v \in P2pVifs THEN BOOLEAN ELSE {FALSE}

UserNext ==
    \/ \E v \in Vifs, c \in Channels, d \in Durations, ok \in BOOLEAN :
          \E mgmt \in Types(v) : Request(v, c, d, mgmt, ok)
    \/ \E r \in Rocs, ok \in BOOLEAN : Cancel(r, ok)
    \/ \E v \in Vifs : Close(v)
    \/ StartScan

Work == \E ok \in BOOLEAN : RunWork(ok)
FwSession(a) == FwStart(a) \/ FwEnd(a) \/ \E k \in {"failed", "ended"} : FwFail(a, k)

Next ==
    \/ UserNext \/ Work \/ RestartHw \/ \E ok \in BOOLEAN : RestartWork(ok)
    \/ \E a \in Activities : FwSession(a)
    \/ FwScanEnds \/ FwCrash \/ Tick

Spec == Init /\ [][Next]_vars

\* RestartWork, which is the only step that does this
RestartWorkRuns == restart_work /\ restart_work' = FALSE

\* Weak fairness of Work, which can be taken whenever a work is queued
WorkFair == []<>(m.works = <<>>) \/ []<><<Work>>_vars

\* Queued works run, a crashed firmware is restarted, and the firmware starts and
\* ends what it accepted; nothing is assumed of userspace.
FairSpec ==
    /\ Spec
    /\ WorkFair /\ WF_vars(RestartHw) /\ WF_restart_work(RestartWorkRuns)
    /\ WF_vars(FwScanEnds) /\ \A a \in Activities : WF_vars(FwSession(a))

----------------------------------------------------------------------------
(* Properties *)

Waiting(r) == m.told[r] \in {"queued", "ready"}

\* Types; and the list holds each period userspace waits for, once.
TypeOK ==
    /\ m.list \in Seq([id : Rocs, vif : Vifs, chan : Channels, dur : Durations,
                       mgmt : BOOLEAN, started : BOOLEAN, begun : BOOLEAN,
                       notified : BOOLEAN, abort : BOOLEAN,
                       left : Over .. Max(Durations)])
    /\ m.works \in Seq({"async", "start", "done", "scan"}) /\ IsInjective(m.works)
    /\ m.scan \in {"no", "deferred", "running", "completed"}
    /\ m.in_reconfig \in BOOLEAN /\ m.dead \in BOOLEAN /\ restart_work \in BOOLEAN
    /\ m.act \in [Vifs -> Activities \union {None}]
    /\ m.notifs \in Seq([act : Activities, kind : {"started", "failed", "ended"}])
    /\ m.fw \in [Activities -> {"idle", "scheduled", "running", "failed"}]
    /\ m.told \in [Rocs -> {"new", "queued", "ready", "expired"}]
    /\ m.warned \subseteq {"notified", "stale", "busy", "started", "kept", "purged"}
    /\ IsInjective([i \in DOMAIN m.list |-> m.list[i].id])
    /\ {m.list[i].id : i \in DOMAIN m.list} = {r \in Rocs : Waiting(r)}

\* No interface was closed at a bad moment, and no restart has asked the op-mode
\* for a period twice.  The code does not provide for either.
Regular == {"busy", "purged"} \intersect m.warned = {}

\* "must call back to ieee80211_ready_on_channel() when on that channel":
\* userspace is told that a period has begun, once, and only if the last session
\* the firmware accepted is on its interface and channel and has begun.  A report
\* for an earlier session, still queued as a notification or as a work, is lost
\* on the way.
NoStaleReady == Regular => {"stale", "notified", "started"} \intersect m.warned = {}

\* "mac80211 will think that this second roc has ended prematurely": as long as
\* the op-mode has a session, it serves the first period of the list, and
\* mac80211 knows that this period was started.
SessionOwned ==
    Regular => \A v \in Vifs : m.act[v] # None =>
        m.list # <<>> /\ m.list[1].started /\ m.list[1].vif = v

\* Every period ends, with its interface or by its time, whatever else is asked
\* for, cancelled, scanned or restarted meanwhile; and a scan that waits for the
\* periods starts or is given up.
RequestsEnd ==
    /\ \A r \in Rocs : Waiting(r) ~> (~Waiting(r) \/ ~Regular)
    /\ m.scan = "deferred" ~> (m.scan # "deferred" \/ ~Regular)

\* "wait for the work to finish/time out": a scan that finds a period on the list
\* starts, or is given up, when the periods are over.
DeferredScanRuns == m.scan = "deferred" ~> m.scan # "deferred"
============================================================================
