---------------------------- MODULE TxBaSession ----------------------------
(***************************************************************************)
(* The transmit block-ack session of one station and TID: mac80211's state *)
(* machine (agg-tx.c, ht.c), its intermediate queue (txq) and the mvm      *)
(* op-mode below it (mvm/sta.c, mvm/tx.c, mvm/rs.c).                       *)
(*                                                                         *)
(* What holds the wiphy lock (the session work, management frames, a rekey)*)
(* is one thread, "pc".  Transmissions, rate scaling and timers run beside *)
(* it; synchronize_net waits for the first two, timer_delete_sync for the  *)
(* last.  The peer may answer a request late, twice, differently or never. *)
(***************************************************************************)
EXTENDS Naturals, FiniteSets

CONSTANTS
    Threads,        \* contexts that transmit
    MaxSessions,    \* bound: dialog tokens
    MaxBacklog,     \* bound: frames on the txq
    MaxHw           \* frames of the TID that fill the hardware queue

ASSUME BaBounds ==
    /\ {MaxSessions, MaxBacklog, MaxHw} \subseteq Nat \ {0}
    /\ IsFiniteSet(Threads) /\ "rs" \notin Threads

VARIABLES
    start_tx,       \* tid_start_tx: the token of a requested session, or 0
    tid_tx,         \* the token of the session, or 0
    state,          \* bits of tid_tx->state
    token,          \* dialog_token_allocator
    timer, owner,   \* tid_tx's timers: "off", "armed" or "running", and whose
    blocked,        \* WLAN_STA_BLOCK_BA
    work,           \* ampdu_mlme.work is queued
    pc, cont,       \* the thread with the wiphy lock, and what a stop returns to
    waitfor,        \* readers that synchronize_net waits for
    txq_stop, txq_ampdu,    \* flags of the txq
    frags,          \* fragments in txqi->frags
    backlog,        \* frames on the txq
    tx,             \* per thread: where it is in iwl_mvm_mac_itxq_xmit
    tx_request,     \* mvm: mvmtxq->tx_request
    full,           \* mvm: IWL_MVM_TXQ_STATE_STOP_FULL
    drv,            \* mvm: tid_data->state
    hwq,            \* mvm: frames sent and not reclaimed
    rs,             \* mvm: rs_tl_turn_on_agg
    asked           \* tokens of the ADDBA requests sent

session == <<start_tx, tid_tx, state, token>>
timers == <<timer, owner>>
mlme == <<pc, cont, waitfor>>
txq == <<txq_stop, txq_ampdu, frags>>
xmit == <<tx, tx_request, backlog, full>>
vars == <<session, timers, blocked, work, mlme, txq, xmit, drv, hwq, rs, asked>>

Bits == {"START_CB", "STOP_CB", "WANT_STOP", "DRV_READY", "SENT_ADDBA",
         "RESPONSE_RECEIVED", "OPERATIONAL", "STOPPING"}
Timers == {"resp", "session"}

Init ==
    /\ start_tx = 0 /\ tid_tx = 0 /\ state = {} /\ token = 0
    /\ timer = [k \in Timers |-> "off"] /\ owner = [k \in Timers |-> 0]
    /\ blocked = FALSE /\ work = FALSE
    /\ pc = "idle" /\ cont = "idle" /\ waitfor = {}
    /\ txq_stop = FALSE /\ txq_ampdu = FALSE /\ frags = 0
    /\ tx = [t \in Threads |-> "out"] /\ tx_request = 0
    /\ backlog = 0 /\ full = FALSE
    /\ drv = "off" /\ hwq = 0 /\ rs = "idle"
    /\ asked = {}

----------------------------------------------------------------------------
(* RCU: readers are transmissions and rate scaling, in softirq context *)

Readers == {t \in Threads : tx[t] # "out"} \union
           (IF rs # "idle" THEN {"rs"} ELSE {})
Leave(r) == waitfor' = waitfor \ {r}
Synchronized == waitfor = {}

----------------------------------------------------------------------------
(* iwl_mvm_mac_itxq_xmit, ieee80211_tx_dequeue and iwl_mvm_tx_mpdu *)

noTx == <<session, timers, blocked, work, pc, cont, drv, rs, asked>>

\* A frame is put on the txq, and the driver is woken.
Enqueue(t) ==
    /\ tx[t] = "out" /\ backlog < MaxBacklog
    /\ backlog' = backlog + 1
    /\ tx' = [tx EXCEPT ![t] = "enter"]
    /\ UNCHANGED <<noTx, waitfor, txq, tx_request, full, hwq>>

\* Mutant: requests are counted without a limit.
EnterUncapped(t) ==
    /\ tx[t] = "enter"
    /\ tx_request' = tx_request + 1
    /\ IF tx_request = 0
       THEN tx' = [tx EXCEPT ![t] = "loop"] /\ UNCHANGED waitfor
       ELSE tx' = [tx EXCEPT ![t] = "out"] /\ Leave(t)
    /\ UNCHANGED <<noTx, txq, backlog, full, hwq>>

\* tx_request: the first taker does the work of all.
Enter(t) ==
    /\ tx[t] = "enter"
    /\ tx_request' = IF tx_request < 2 THEN tx_request + 1 ELSE tx_request
    /\ IF tx_request = 0
       THEN tx' = [tx EXCEPT ![t] = "loop"] /\ UNCHANGED waitfor
       ELSE tx' = [tx EXCEPT ![t] = "out"] /\ Leave(t)
    /\ UNCHANGED <<noTx, txq, backlog, full, hwq>>

\* Fragments come first, even when the txq is stopped.
Dequeue(t) ==
    /\ tx[t] = "loop"
    /\ LET fragment == ~full /\ frags > 0
           frame == ~full /\ frags = 0 /\ ~txq_stop /\ backlog > 0
       IN  /\ tx' = [tx EXCEPT ![t] = IF fragment THEN "plain" ELSE
                                     IF frame THEN "taken" ELSE "empty"]
           /\ frags' = IF fragment THEN frags - 1 ELSE frags
           /\ backlog' = IF frame THEN backlog - 1 ELSE backlog
    /\ UNCHANGED <<noTx, waitfor, txq_stop, txq_ampdu, tx_request, full, hwq>>

\* IEEE80211_TX_CTL_AMPDU, or else the frame may be fragmented.
Classify(t) ==
    /\ tx[t] = "taken"
    /\ tx' = [tx EXCEPT ![t] = IF txq_ampdu THEN "ampdu" ELSE "plain"]
    /\ frags' \in IF txq_ampdu THEN {frags} ELSE {frags, frags + 1}
    /\ UNCHANGED <<noTx, waitfor, txq_stop, txq_ampdu, tx_request, backlog,
                   full, hwq>>

\* The driver refuses a frame of an A-MPDU without a session, and may fail.
DriverTx(t) ==
    /\ tx[t] \in {"ampdu", "plain"}
    /\ tx' = [tx EXCEPT ![t] = "loop"]
    /\ hwq' \in {hwq} \union (IF tx[t] = "ampdu" /\ drv # "on" THEN {} ELSE {hwq + 1})
    /\ full' = (hwq' = MaxHw)
    /\ UNCHANGED <<noTx, waitfor, txq, tx_request, backlog>>

\* Mutant: a request made meanwhile is forgotten.
LastForgetful(t) ==
    /\ tx[t] = "empty"
    /\ tx_request' = 0
    /\ tx' = [tx EXCEPT ![t] = "out"] /\ Leave(t)
    /\ UNCHANGED <<noTx, txq, backlog, full, hwq>>

\* Whoever came meanwhile left its frames to this thread.
Last(t) ==
    /\ tx[t] = "empty"
    /\ tx_request' = tx_request - 1
    /\ IF tx_request = 1
       THEN tx' = [tx EXCEPT ![t] = "out"] /\ Leave(t)
       ELSE tx' = [tx EXCEPT ![t] = "loop"] /\ UNCHANGED waitfor
    /\ UNCHANGED <<noTx, txq, backlog, full, hwq>>

\* iwl_mvm_check_ratid_empty, and ieee80211_start_tx_ba_cb_irqsafe
RatidEmpty ==
    IF hwq = 1 /\ drv = "emptying"
    THEN /\ drv' = "starting"
         /\ IF tid_tx # 0
            THEN state' = state \union {"START_CB"} /\ work' = TRUE
            ELSE UNCHANGED <<state, work>>
    ELSE UNCHANGED <<drv, state, work>>

\* A sent frame is reclaimed; a full queue is woken by the same context.
Reclaim ==
    /\ hwq > 0
    /\ hwq' = hwq - 1
    /\ full' = FALSE
    /\ IF full
       THEN \E t \in Threads : tx[t] = "out" /\ tx' = [tx EXCEPT ![t] = "enter"]
       ELSE UNCHANGED tx
    /\ RatidEmpty
    /\ UNCHANGED <<start_tx, tid_tx, token, timers, blocked, mlme, txq,
                   tx_request, backlog, rs, asked>>

----------------------------------------------------------------------------
(* ieee80211_start_tx_ba_session and ieee80211_stop_tx_ba_session *)

\* rs_tl_turn_on_agg, and the checks before sta->lock is taken
RsCheck ==
    /\ rs = "idle" /\ drv = "off" /\ ~blocked /\ token < MaxSessions
    /\ rs' = "checked"
    /\ UNCHANGED <<session, timers, blocked, work, mlme, txq, xmit, drv, hwq, asked>>

\* Mutant: a session in progress is not noticed.
SessionIdleUnlessRequested == start_tx = 0
SessionIdle == tid_tx = 0 /\ start_tx = 0

RsStart ==
    /\ rs = "checked"
    /\ IF SessionIdle
       THEN /\ token' = token + 1
            /\ start_tx' = token + 1
            /\ work' = TRUE
            /\ rs' = "queued"
       ELSE /\ rs' = "again"
            /\ UNCHANGED <<token, start_tx, work>>
    /\ UNCHANGED <<tid_tx, state, timers, blocked, mlme, txq, xmit, drv, hwq, asked>>

\* The session was accepted: IWL_AGG_QUEUED.
RsQueued ==
    /\ rs = "queued"
    /\ rs' = "idle"
    /\ drv' = "queued"
    /\ Leave("rs")
    /\ UNCHANGED <<session, timers, blocked, work, pc, cont, txq, xmit, hwq, asked>>

WantStop ==
    IF tid_tx # 0 /\ "STOPPING" \notin state
    THEN state' = state \union {"WANT_STOP"} /\ work' = TRUE
    ELSE UNCHANGED <<state, work>>

\* -EAGAIN: "driver and mac80211 is out of sync"
RsAgain ==
    /\ rs = "again"
    /\ rs' = "idle"
    /\ WantStop
    /\ Leave("rs")
    /\ UNCHANGED <<start_tx, tid_tx, token, timers, blocked, pc, cont, txq, xmit,
                   drv, hwq, asked>>

----------------------------------------------------------------------------
(* The timers of the session *)

Arm(k) ==
    /\ timer' = [timer EXCEPT ![k] = "armed"]
    /\ owner' = [owner EXCEPT ![k] = tid_tx]

Fire(k) ==
    /\ timer[k] = "armed"
    /\ timer' = [timer EXCEPT ![k] = "running"]
    /\ UNCHANGED <<session, owner, blocked, work, mlme, txq, xmit, drv, hwq, rs, asked>>

\* sta_addba_resp_timer_expired
RespExpired ==
    /\ timer["resp"] = "running"
    /\ timer' = [timer EXCEPT !["resp"] = "off"]
    /\ IF "RESPONSE_RECEIVED" \in state THEN UNCHANGED <<state, work>>
       ELSE WantStop
    /\ UNCHANGED <<start_tx, tid_tx, token, owner, blocked, mlme, txq, xmit, drv,
                   hwq, rs, asked>>

\* sta_tx_agg_session_timer_expired: nothing was sent for a while, ...
SessionExpired ==
    /\ timer["session"] = "running"
    /\ timer' = [timer EXCEPT !["session"] = "off"]
    /\ WantStop
    /\ UNCHANGED <<start_tx, tid_tx, token, owner, blocked, mlme, txq, xmit, drv,
                   hwq, rs, asked>>

\* ... or something was.
SessionExtended ==
    /\ timer["session"] = "running"
    /\ timer' = [timer EXCEPT
                   !["session"] = IF "STOPPING" \in state THEN "off" ELSE "armed"]
    /\ UNCHANGED <<session, owner, blocked, work, mlme, txq, xmit, drv, hwq, rs, asked>>

----------------------------------------------------------------------------
(* __ieee80211_stop_tx_ba_session *)

\* Up to the unlock of sta->lock; then the thread goes on with "next".
BeginStop(bits, next) ==
    /\ start_tx' = 0
    /\ IF tid_tx = 0 \/ "STOPPING" \in bits
       THEN /\ state' = bits
            /\ pc' = next
            /\ UNCHANGED <<txq_stop, cont>>
       ELSE /\ state' = bits \union {"STOPPING"}
            /\ txq_stop' = TRUE
            /\ pc' = "stop_timers" /\ cont' = next

\* Mutant: timers that run are not waited for.
StopTimersAsync ==
    /\ pc = "stop_timers"
    /\ timer' = [k \in Timers |-> IF timer[k] = "running" THEN "running" ELSE "off"]
    /\ state' = state \ {"OPERATIONAL"}
    /\ pc' = "stop_sync" /\ waitfor' = Readers
    /\ UNCHANGED <<start_tx, tid_tx, token, owner, blocked, work, cont, txq, xmit,
                   drv, hwq, rs, asked>>

StopTimers ==
    /\ pc = "stop_timers"
    /\ \A k \in Timers : timer[k] # "running"
    /\ timer' = [k \in Timers |-> "off"]
    /\ state' = state \ {"OPERATIONAL"}
    /\ pc' = "stop_sync" /\ waitfor' = Readers
    /\ UNCHANGED <<start_tx, tid_tx, token, owner, blocked, work, cont, txq, xmit,
                   drv, hwq, rs, asked>>

\* Mutant: the driver is told while frames are on their way to it.
StopDriverAtOnce ==
    /\ pc = "stop_sync"
    /\ pc' = cont
    /\ drv' = "off"
    /\ state' = state \union {"STOP_CB"} /\ work' = TRUE
    /\ UNCHANGED <<start_tx, tid_tx, token, timers, blocked, cont, waitfor, txq,
                   xmit, hwq, rs, asked>>

\* iwl_mvm_sta_tx_agg_stop, and ieee80211_stop_tx_ba_cb_irqsafe
StopDriver ==
    /\ pc = "stop_sync" /\ Synchronized
    /\ pc' = cont
    /\ IF drv \in {"on", "starting", "emptying"}
       THEN /\ drv' = "off"
            /\ state' = state \union {"STOP_CB"} /\ work' = TRUE
       ELSE UNCHANGED <<drv, state, work>>
    /\ UNCHANGED <<start_tx, tid_tx, token, timers, blocked, cont, waitfor, txq,
                   xmit, hwq, rs, asked>>

----------------------------------------------------------------------------
(* ieee80211_ba_session_work *)

\* A requested session goes live once no fragment is left, ...
WorkStart ==
    /\ pc = "idle" /\ work /\ start_tx # 0 /\ ~blocked
    /\ work' = FALSE
    /\ txq_stop' = TRUE
    /\ waitfor' = Readers
    /\ IF frags > 0
       THEN /\ pc' = "frag_sync"
            /\ UNCHANGED <<start_tx, tid_tx, state>>
       ELSE /\ pc' = "start_sync"
            /\ start_tx' = 0
            /\ tid_tx' = IF tid_tx # 0 THEN tid_tx ELSE start_tx
            /\ UNCHANGED state
    /\ UNCHANGED <<token, timers, blocked, cont, txq_ampdu, frags, xmit, drv, hwq,
                   rs, asked>>

\* ... otherwise it is tried again.
WorkRetry ==
    /\ pc = "frag_sync" /\ Synchronized
    /\ pc' = "idle"
    /\ work' = TRUE
    /\ UNCHANGED <<session, timers, blocked, cont, waitfor, txq, xmit, drv, hwq,
                   rs, asked>>

WorkOther ==
    /\ pc = "idle" /\ work /\ (start_tx = 0 \/ blocked)
    /\ work' = FALSE
    /\ pc' = IF tid_tx # 0 THEN "start_cb" ELSE "idle"
    /\ UNCHANGED <<session, timers, blocked, cont, waitfor, txq, xmit, drv, hwq,
                   rs, asked>>

\* ieee80211_send_addba_with_timeout
SendAddba(bits) ==
    IF bits \intersect {"STOPPING", "WANT_STOP"} # {}
    THEN /\ state' = bits
         /\ UNCHANGED <<timers, asked>>
    ELSE /\ state' = bits \union {"SENT_ADDBA"}
         /\ Arm("resp")
         /\ asked' = asked \union {tid_tx}

\* ieee80211_tx_ba_session_handle_start and iwl_mvm_sta_tx_agg_start
StartImmediate ==
    /\ pc = "start_sync" /\ Synchronized
    /\ drv \in {"off", "queued"} /\ hwq = 0
    /\ drv' = "starting"
    /\ SendAddba(state \union {"DRV_READY"})
    /\ pc' = "idle"
    /\ UNCHANGED <<start_tx, tid_tx, token, blocked, work, cont, waitfor, txq,
                   xmit, hwq, rs>>

StartDelayed ==
    /\ pc = "start_sync" /\ Synchronized
    /\ drv \in {"off", "queued"} /\ hwq > 0
    /\ drv' = "emptying"
    /\ pc' = "idle"
    /\ UNCHANGED <<session, timers, blocked, work, cont, waitfor, txq, xmit, hwq,
                   rs, asked>>

\* There is no queue for the session.
StartDenied ==
    /\ pc = "start_sync" /\ Synchronized
    /\ tid_tx' = 0 /\ state' = {}
    /\ txq_ampdu' = FALSE
    /\ pc' = "start_txq" /\ cont' = "idle"
    /\ UNCHANGED <<start_tx, token, timers, blocked, work, waitfor, txq_stop,
                   frags, xmit, drv, hwq, rs, asked>>

\* ieee80211_agg_start_txq, after IEEE80211_TXQ_AMPDU was set or cleared
StartTxq ==
    /\ pc = "start_txq"
    /\ txq_stop' = FALSE
    /\ pc' = cont
    /\ \E t \in Threads : tx[t] = "out" /\ tx' = [tx EXCEPT ![t] = "enter"]
    /\ UNCHANGED <<session, timers, blocked, work, cont, waitfor, txq_ampdu,
                   frags, tx_request, backlog, full, drv, hwq, rs, asked>>

\* ieee80211_agg_tx_operational and iwl_mvm_sta_tx_agg_oper
Operational(bits, next) ==
    /\ drv' = "on"
    /\ state' = bits \union {"OPERATIONAL"}
    /\ txq_ampdu' = TRUE
    /\ pc' = "start_txq" /\ cont' = next

\* ieee80211_start_tx_ba_cb: the hardware queue is empty now.
StartCb ==
    /\ pc = "start_cb"
    /\ LET called == ~blocked /\ "START_CB" \in state
           ready == called /\ "DRV_READY" \notin state
           bits == (state \ (IF called THEN {"START_CB"} ELSE {})) \union
                   (IF called THEN {"DRV_READY"} ELSE {})
           goes_on == ready /\ state \intersect {"STOPPING", "WANT_STOP"} = {}
       IN  \/ /\ goes_on /\ "SENT_ADDBA" \notin state
              /\ SendAddba(bits)
              /\ pc' = "want_stop"
              /\ UNCHANGED <<cont, drv, txq_ampdu>>
           \/ /\ goes_on /\ {"SENT_ADDBA", "RESPONSE_RECEIVED"} \subseteq state
              /\ Operational(bits, "want_stop")
              /\ UNCHANGED <<timers, asked>>
           \/ /\ ~goes_on \/ state \intersect {"SENT_ADDBA", "RESPONSE_RECEIVED"} = {"SENT_ADDBA"}
              /\ state' = bits
              /\ pc' = "want_stop"
              /\ UNCHANGED <<timers, asked, cont, drv, txq_ampdu>>
    /\ UNCHANGED <<start_tx, tid_tx, token, blocked, work, waitfor, txq_stop,
                   frags, xmit, hwq, rs>>

WorkStop ==
    /\ pc = "want_stop"
    /\ IF "WANT_STOP" \in state
       THEN BeginStop(state \ {"WANT_STOP"}, "stop_cb")
       ELSE /\ pc' = "stop_cb"
            /\ UNCHANGED <<start_tx, state, txq_stop, cont>>
    /\ UNCHANGED <<tid_tx, token, timers, blocked, work, waitfor, txq_ampdu,
                   frags, xmit, drv, hwq, rs, asked>>

\* Mutant: the txq stays stopped.
StopCbNoStart ==
    /\ pc = "stop_cb"
    /\ IF {"STOP_CB", "STOPPING"} \subseteq state
       THEN tid_tx' = 0 /\ state' = {} /\ txq_ampdu' = FALSE
       ELSE UNCHANGED <<tid_tx, state, txq_ampdu>>
    /\ pc' = "idle"
    /\ UNCHANGED <<start_tx, token, timers, blocked, work, cont, waitfor,
                   txq_stop, frags, xmit, drv, hwq, rs, asked>>

\* ieee80211_stop_tx_ba_cb and ieee80211_remove_tid_tx
StopCb ==
    /\ pc = "stop_cb" /\ cont' = "idle"
    /\ IF {"STOP_CB", "STOPPING"} \subseteq state
       THEN /\ tid_tx' = 0 /\ state' = {}
            /\ txq_ampdu' = FALSE
            /\ pc' = "start_txq"
       ELSE /\ state' = state \ {"STOP_CB"}
            /\ pc' = "idle"
            /\ UNCHANGED <<tid_tx, txq_ampdu>>
    /\ UNCHANGED <<start_tx, token, timers, blocked, work, waitfor, txq_stop,
                   frags, xmit, drv, hwq, rs, asked>>

----------------------------------------------------------------------------
(* Frames of the peer, and a rekey *)

\* ieee80211_process_addba_resp
AddbaResp(ok) ==
    /\ pc = "idle" /\ tid_tx \in asked /\ timer["resp"] # "running"
    /\ IF state \intersect {"WANT_STOP", "STOPPING"} # {}
            \/ (ok /\ "RESPONSE_RECEIVED" \in state)
       THEN /\ timer' = [timer EXCEPT !["resp"] = "off"]
            /\ UNCHANGED <<owner, start_tx, state, txq_stop, txq_ampdu, pc,
                           cont, drv>>
       ELSE IF ok
       THEN /\ \/ /\ timer' = [timer EXCEPT !["resp"] = "off", !["session"] = "armed"]
                  /\ owner' = [owner EXCEPT !["session"] = tid_tx]
               \/ /\ timer' = [timer EXCEPT !["resp"] = "off"]
                  /\ UNCHANGED owner
            /\ IF "DRV_READY" \in state
               THEN Operational(state \union {"RESPONSE_RECEIVED"}, "idle")
               ELSE /\ state' = state \union {"RESPONSE_RECEIVED"}
                    /\ UNCHANGED <<drv, txq_ampdu, pc, cont>>
            /\ UNCHANGED <<start_tx, txq_stop>>
       ELSE /\ timer' = [timer EXCEPT !["resp"] = "off"]
            /\ BeginStop(state, "idle")
            /\ UNCHANGED <<owner, txq_ampdu, drv>>
    /\ UNCHANGED <<tid_tx, token, blocked, work, waitfor, frags, xmit, hwq, rs, asked>>

\* ieee80211_process_delba, from the recipient
Delba ==
    /\ pc = "idle"
    /\ BeginStop(state, "idle")
    /\ UNCHANGED <<tid_tx, token, timers, blocked, work, waitfor, txq_ampdu,
                   frags, xmit, drv, hwq, rs, asked>>

\* ieee80211_pairwise_rekey
Rekey ==
    /\ pc = "idle" /\ ~blocked
    /\ blocked' = TRUE
    /\ BeginStop(state, "idle")
    /\ UNCHANGED <<tid_tx, token, timers, work, waitfor, txq_ampdu, frags, xmit,
                   drv, hwq, rs, asked>>

\* _ieee80211_set_tx_key
SetTxKey ==
    /\ pc = "idle" /\ blocked
    /\ blocked' = FALSE
    /\ UNCHANGED <<session, timers, work, mlme, txq, xmit, drv, hwq, rs, asked>>

----------------------------------------------------------------------------
TxStep(t) == Enter(t) \/ Dequeue(t) \/ Classify(t) \/ DriverTx(t) \/ Last(t)
RsStep == RsStart \/ RsQueued \/ RsAgain
TimerStep == RespExpired \/ SessionExpired \/ SessionExtended
MlmeStep ==
    \/ StopTimers \/ StopDriver
    \/ WorkStart \/ WorkRetry \/ WorkOther \/ StartCb \/ WorkStop \/ StopCb
    \/ StartImmediate \/ StartDelayed \/ StartDenied \/ StartTxq
Peer == (\E ok \in BOOLEAN : AddbaResp(ok)) \/ Delba
User == RsCheck \/ Rekey \/ SetTxKey

Next ==
    \/ \E t \in Threads : Enqueue(t) \/ TxStep(t)
    \/ \E k \in Timers : Fire(k)
    \/ RsStep \/ TimerStep \/ MlmeStep \/ Reclaim \/ Peer \/ User

Spec == Init /\ [][Next]_vars

\* The session work and the softirqs run, timers expire, and the device sends
\* what it has.  Nothing is assumed of the peer.
FairSpec ==
    /\ Spec
    /\ \A t \in Threads : WF_vars(TxStep(t))
    /\ WF_vars(Fire("resp")) /\ WF_vars(TimerStep)
    /\ WF_vars(RsStep) /\ WF_vars(MlmeStep) /\ WF_vars(Reclaim)

----------------------------------------------------------------------------
TypeOK ==
    /\ token \in 0..MaxSessions
    /\ start_tx \in 0..token /\ tid_tx \in 0..token /\ asked \subseteq 1..token
    /\ state \subseteq Bits
    /\ timer \in [Timers -> {"off", "armed", "running"}]
    /\ owner \in [Timers -> 0..token]
    /\ {blocked, work, txq_stop, txq_ampdu} \subseteq BOOLEAN
    /\ pc \in {"idle", "frag_sync", "start_sync", "start_cb", "want_stop",
               "stop_cb", "stop_timers", "stop_sync", "start_txq"}
    /\ cont \in {"idle", "want_stop", "stop_cb"}
    /\ waitfor \subseteq Threads \union {"rs"}
    /\ frags \in 0..1 /\ hwq \in 0..MaxHw /\ backlog \in 0..MaxBacklog
    /\ tx \in [Threads -> {"out", "enter", "loop", "taken", "ampdu", "plain", "empty"}]
    /\ tx_request \in 0..2 /\ full \in BOOLEAN
    /\ drv \in {"off", "queued", "emptying", "starting", "on"}
    /\ rs \in {"idle", "checked", "queued", "again"}

\* "could there be a race?": when a requested session goes live there is never
\* another one, which would be started a second time in its place.
NoStartRace == start_tx = 0 \/ tid_tx = 0

\* "Make sure no packets are being processed", "Wait for all currently running
\* TX paths to finish before telling the driver": no frame that is marked as
\* part of an A-MPDU meets a driver without a session, and none but fragments
\* is under way when the session gets its starting sequence number.
TxPathsFinished ==
    /\ \A t \in Threads : tx[t] = "ampdu" => drv = "on"
    /\ pc = "start_sync" /\ Synchronized
          => \A t \in Threads : tx[t] \notin {"taken", "ampdu"}

\* "in order to not leave any TX hanging in the queue": a frame that may be sent
\* has a thread that will look at the queue again, or the queue will be woken.
NoTxHangs ==
    (frags > 0 \/ (backlog > 0 /\ ~txq_stop)) =>
        (full /\ hwq > 0) \/ \E t \in Threads : tx[t] # "out"

\* "Timers should be stopped": neither armed nor running for a session that is
\* gone, where it would use freed memory and stop another session.
TimersBelongToSession ==
    \A k \in Timers : timer[k] # "off" => tid_tx # 0 /\ owner[k] = tid_tx

\* Every start and stop of a session ends and lets the queue transmit again,
\* however the peer, the timers and the driver's callbacks interleave.
SessionsSettle == tid_tx # 0 /\ txq_stop ~> ~txq_stop

\* The stop of the queue is temporary: "Fragmented Tx is ongoing, wait for it to
\* finish.  Reschedule worker to retry later."
TxqResumes == txq_stop ~> ~txq_stop
============================================================================
