---------------------------- MODULE TransRestart ----------------------------
(***************************************************************************)
(* Recovery from firmware errors: iwl-trans.h and iwl-trans.c decide when  *)
(* and how the device is reset, the mld op-mode (mld/mld.c, mld/fw.c,      *)
(* mld/mac80211.c) dumps, stops and restarts it, mac80211 (main.c, util.c) *)
(* reconfigures it.                                                        *)
(*                                                                         *)
(* Actors: whoever detects an error (the interrupt thread), the restart    *)
(* work, the work that reprobes or removes the device, and mac80211, which *)
(* opens and closes interfaces and runs its restart work with the wiphy    *)
(* lock held.  The restart work needs that lock only for the dump.         *)
(***************************************************************************)
EXTENDS Integers, Sequences

CONSTANTS
    TopSupported,   \* iwl_trans_is_top_reset_supported
    MaxErrors,      \* bound: errors reported
    MaxOpens        \* bound: times the user opens a probed device

ASSUME RestartAssumption ==
    TopSupported \in BOOLEAN /\ MaxErrors \in Nat /\ MaxOpens \in Nat

VARIABLES
    trans_dead, reset_in_progress,      \* the STATUS_* bits
    reset_pending, in_sw_reset, fw_error,
    enabled,                \* the device runs and may interrupt
    mode_type, context,     \* trans->restart.mode
    during_reset, request_top_reset, do_top_reset,
    restart_count, backoff, \* struct iwl_trans_dev_restart_data
    recent,                 \* last_error is not IWL_TRANS_RESET_OK_TIME ago
    wk, wq,                 \* the restart work: its place, its queue state
    reprobe,                \* a reprobe or a PCI removal is scheduled
    det, err_type,          \* the detecting thread and its error
    op, reason,             \* mac80211: op # "idle" holds the wiphy lock
    up,                     \* local->open_count # 0
    restart_hw,             \* local->restart_work is queued
    running, in_hw_restart, \* mld->fw_status
    restart_required,       \* trans->dbg.restart_required
    dumped,                 \* history: the last error raised has a dump
    errors, opens

bits == <<trans_dead, in_sw_reset, enabled>>
mode == <<mode_type, context>>
top == <<request_top_reset, do_top_reset>>
data == <<restart_count, backoff, recent>>
detector == <<det, err_type, errors>>
mac == <<op, reason, up, restart_hw, opens>>
vars == <<bits, reset_in_progress, reset_pending, fw_error, mode,
          during_reset, top, data, wk, wq, reprobe, detector, mac, running,
          in_hw_restart, restart_required, dumped>>

\* Mutant: the list ends with the special backoff value.
EscalationWithBackoff == <<"sw", "reprobe", "reprobe", "func", "backoff">>

\* escalation_list_old and escalation_list_top
Escalation ==
    IF TopSupported
    THEN <<"sw", "reprobe", "reprobe", "func", "top", "prod", "top", "prod",
           "top", "prod">>
    ELSE <<"sw", "reprobe", "reprobe", "func", "prod">>

Init ==
    /\ trans_dead = FALSE /\ reset_in_progress = FALSE
    /\ reset_pending = FALSE /\ in_sw_reset = FALSE /\ fw_error = FALSE
    /\ enabled = FALSE
    /\ mode_type = "fw" /\ context = "worker" /\ during_reset = FALSE
    /\ request_top_reset = FALSE /\ do_top_reset = FALSE
    /\ restart_count = 0 /\ backoff = FALSE /\ recent = FALSE
    /\ wk = "idle" /\ wq = "no" /\ reprobe = FALSE
    /\ det = "idle" /\ err_type = "fw" /\ errors = 0
    /\ op = "idle" /\ reason = "open" /\ up = FALSE /\ opens = 0
    /\ restart_hw = FALSE
    /\ running = FALSE /\ in_hw_restart = FALSE /\ restart_required = FALSE
    /\ dumped = FALSE

----------------------------------------------------------------------------
(* Errors are detected *)

Detects(type, next) ==
    /\ det = "idle" /\ enabled
    /\ errors < MaxErrors
    /\ errors' = errors + 1
    /\ err_type' = type
    /\ det' = next
    /\ UNCHANGED <<bits, reset_in_progress, reset_pending, mode, during_reset,
                   do_top_reset, data, wk, wq, reprobe, mac, running,
                   in_hw_restart, restart_required, dumped>>

\* iwl_trans_fw_error: "prevent double restarts due to the same erroneous FW"
FwError ==
    /\ ~fw_error
    /\ fw_error' = TRUE
    /\ Detects("fw", "nic_error")
    /\ UNCHANGED request_top_reset

\* iwl_pcie_irq_msix_handler: a TOP fatal error
TopFatal ==
    /\ TopSupported
    /\ request_top_reset' = TRUE
    /\ Detects("top_fatal", "nic_error")
    /\ UNCHANGED fw_error

\* iwl_pcie_irq_handle_reset_interrupt: the BT driver resets the TOP
TopByBt ==
    /\ TopSupported
    /\ Detects("top_by_bt", "schedule")
    /\ UNCHANGED <<fw_error, request_top_reset>>

\* iwl_mld_nic_error
NicError ==
    /\ det = "nic_error"
    /\ det' = "schedule"
    /\ in_hw_restart' = (in_hw_restart \/ running)
    /\ UNCHANGED <<bits, reset_in_progress, reset_pending, fw_error, mode,
                   during_reset, top, data, wk, wq, reprobe, err_type, errors,
                   mac, running, restart_required, dumped>>

\* iwl_trans_schedule_reset: one reset at a time ...
ScheduleReset ==
    /\ det = "schedule"
    /\ IF trans_dead \/ reset_in_progress
       THEN det' = "idle" /\ UNCHANGED <<reset_in_progress, mode>>
       ELSE /\ det' = "pending"
            /\ reset_in_progress' = TRUE
            /\ mode_type' = err_type
            /\ context' = "worker"
    /\ UNCHANGED <<bits, reset_pending, fw_error, during_reset, top, data, wk,
                   wq, reprobe, err_type, errors, mac, running, in_hw_restart,
                   restart_required, dumped>>

\* Mutant: during_reset is not kept.
SetPendingOnly ==
    /\ det = "pending"
    /\ det' = "queue"
    /\ reset_pending' = TRUE
    /\ dumped' = FALSE
    /\ UNCHANGED <<bits, reset_in_progress, fw_error, mode, during_reset, top,
                   data, wk, wq, reprobe, err_type, errors, mac, running,
                   in_hw_restart, restart_required>>

\* ... the reset is requested ...
SetPending ==
    /\ det = "pending"
    /\ det' = "queue"
    /\ reset_pending' = TRUE
    /\ during_reset' = in_sw_reset
    /\ dumped' = FALSE
    /\ UNCHANGED <<bits, reset_in_progress, fw_error, mode, top, data, wk, wq,
                   reprobe, err_type, errors, mac, running, in_hw_restart,
                   restart_required>>

\* Mutant: work that is running is not queued again.
QueueUnlessRunning ==
    /\ det = "queue"
    /\ det' = "idle"
    /\ wq' = IF wq = "no" /\ wk = "idle" THEN "now" ELSE wq
    /\ UNCHANGED <<bits, reset_in_progress, reset_pending, fw_error, mode,
                   during_reset, top, data, wk, reprobe, err_type, errors, mac,
                   running, in_hw_restart, restart_required, dumped>>

\* ... and the work is queued, unless it is waiting already.
QueueWork ==
    /\ det = "queue"
    /\ det' = "idle"
    /\ wq' = IF wq = "no" THEN "now" ELSE wq
    /\ UNCHANGED <<bits, reset_in_progress, reset_pending, fw_error, mode,
                   during_reset, top, data, wk, reprobe, err_type, errors, mac,
                   running, in_hw_restart, restart_required, dumped>>

----------------------------------------------------------------------------
(* iwl_trans_restart_wk *)

\* An error of BT's making waits for the reprobe, a dead device for nothing.
WorkStart ==
    /\ wk = "idle" /\ wq = "now"
    /\ wq' = "no"
    /\ reprobe' = (reprobe \/ mode_type = "top_by_bt")
    /\ wk' = IF mode_type = "top_by_bt" \/ trans_dead THEN "idle" ELSE "dump"
    /\ UNCHANGED <<bits, reset_in_progress, reset_pending, fw_error, mode,
                   during_reset, top, data, detector, mac, running,
                   in_hw_restart, restart_required, dumped>>

\* IWL_TRANS_RESET_DELAY is over.
DelayOver ==
    /\ wq = "delayed"
    /\ wq' = "now"
    /\ UNCHANGED <<bits, reset_in_progress, reset_pending, fw_error, mode,
                   during_reset, top, data, wk, reprobe, detector, mac,
                   running, in_hw_restart, restart_required, dumped>>

\* Mutant: the worker leaves the dump to the op-mode.
DumpErrorFromOpmodeOnly ==
    /\ wk = "dump" /\ op = "idle"
    /\ wk' = "clear"
    /\ UNCHANGED <<bits, reset_in_progress, reset_pending, fw_error, mode,
                   during_reset, top, data, wq, reprobe, detector, mac,
                   running, in_hw_restart, dumped, restart_required>>

\* iwl_mld_dump_error, with the wiphy lock.  The debug configuration asks
\* for a firmware reload with the dump of an assert.
DumpError ==
    /\ wk = "dump" /\ op = "idle"
    /\ wk' = "clear"
    /\ IF context = "abort"
       THEN UNCHANGED <<dumped, restart_required>>
       ELSE dumped' = TRUE /\ restart_required' = TRUE
    /\ UNCHANGED <<bits, reset_in_progress, reset_pending, fw_error, mode,
                   during_reset, top, data, wq, reprobe, detector, mac,
                   running, in_hw_restart>>

\* "If the opmode stopped the device while we were trying to dump and reset
\* ... make sure that in such a case we won't attempt to do any resets now".
ClearPending ==
    /\ wk = "clear"
    /\ reset_pending' = FALSE
    /\ wk' = IF reset_pending THEN "mode" ELSE "idle"
    /\ UNCHANGED <<bits, reset_in_progress, fw_error, mode, during_reset, top,
                   data, wq, reprobe, detector, mac, running, in_hw_restart,
                   restart_required, dumped>>

\* iwl_trans_determine_restart_mode: an error that is not the TOP's
Count == IF ~backoff /\ ~recent THEN 0 ELSE restart_count
Escalates == mode_type # "top_failed" /\ ~request_top_reset
TooMany == Count >= Len(Escalation)

RestartMode ==
    IF mode_type = "top_failed" THEN "prod"
    ELSE IF request_top_reset THEN IF TopSupported THEN "top" ELSE "prod"
    ELSE LET m == Escalation[IF TooMany THEN Len(Escalation) ELSE Count + 1]
         IN  IF during_reset /\ m = "sw" THEN "reprobe" ELSE m

\* IWL_RESET_MODE_BACKOFF
Backoff ==
    /\ wk = "mode"
    /\ Escalates /\ TooMany /\ ~backoff
    /\ backoff' = TRUE
    /\ wk' = "idle"
    /\ wq' = IF wq = "no" THEN "delayed" ELSE wq
    /\ UNCHANGED <<bits, reset_in_progress, reset_pending, fw_error, mode,
                   during_reset, top, restart_count, recent, reprobe, detector,
                   mac, running, in_hw_restart, restart_required, dumped>>

\* The mode is chosen and iwl_trans_inc_restart_count called.  Counts past
\* the list are alike.
ChooseMode ==
    /\ wk = "mode"
    /\ ~(Escalates /\ TooMany /\ ~backoff)
    /\ wk' = RestartMode
    /\ LET n == IF Escalates THEN Count ELSE restart_count
       IN  restart_count' = IF n < Len(Escalation) THEN n + 1 ELSE n
    /\ backoff' = (backoff /\ ~(Escalates /\ TooMany))
    /\ request_top_reset' = (request_top_reset /\ mode_type = "top_failed")
    /\ recent' = TRUE
    /\ UNCHANGED <<bits, reset_in_progress, reset_pending, fw_error, mode,
                   during_reset, do_top_reset, wq, reprobe, detector, mac,
                   running, in_hw_restart, restart_required, dumped>>

\* IWL_RESET_MODE_TOP_RESET is a SW reset with do_top_reset.
TopReset ==
    /\ wk = "top"
    /\ do_top_reset' = TRUE
    /\ wk' = "sw"
    /\ UNCHANGED <<bits, reset_in_progress, reset_pending, fw_error, mode,
                   during_reset, request_top_reset, data, wq, reprobe,
                   detector, mac, running, in_hw_restart, restart_required,
                   dumped>>

\* iwl_trans_opmode_sw_reset, iwl_mld_sw_reset: no lock is held.
SwReset ==
    /\ wk = "sw"
    /\ wk' = "sw_reset"
    /\ in_sw_reset' = TRUE
    /\ in_hw_restart' = TRUE
    /\ UNCHANGED <<trans_dead, enabled, reset_in_progress, reset_pending,
                   fw_error, mode, during_reset, top, data, wq, reprobe,
                   detector, mac, running, restart_required, dumped>>

\* iwl_mld_restart_nic, or nothing to restart
RestartNic ==
    /\ wk = "sw_reset"
    /\ wk' = "idle"
    /\ IF running /\ restart_required
       THEN /\ restart_hw' = TRUE
            /\ restart_required' = FALSE
            /\ UNCHANGED in_sw_reset
       ELSE in_sw_reset' = FALSE /\ UNCHANGED <<restart_hw, restart_required>>
    /\ UNCHANGED <<trans_dead, enabled, reset_in_progress, reset_pending,
                   fw_error, mode, during_reset, top, data, wq, reprobe,
                   detector, op, reason, up, opens, running, in_hw_restart,
                   dumped>>

ScheduleReprobe ==
    /\ wk = "reprobe"
    /\ wk' = "idle"
    /\ reprobe' = TRUE
    /\ UNCHANGED <<bits, reset_in_progress, reset_pending, fw_error, mode,
                   during_reset, top, data, wq, detector, mac, running,
                   in_hw_restart, restart_required, dumped>>

\* iwl_trans_pcie_reset
PcieReset ==
    /\ wk \in {"func", "prod"}
    /\ wk' = "idle"
    /\ trans_dead' = TRUE
    /\ reprobe' = TRUE
    /\ UNCHANGED <<in_sw_reset, enabled, reset_in_progress, reset_pending,
                   fw_error, mode, during_reset, top, data, wq, detector, mac,
                   running, in_hw_restart, restart_required, dumped>>

\* The device is removed and probed again: iwl_trans_op_mode_leave waits for
\* the restart work, ieee80211_unregister_hw for mac80211's.  Only the
\* restart data survives.
Reprobe ==
    /\ reprobe /\ op = "idle" /\ wk = "idle" /\ det = "idle"
    /\ trans_dead' = FALSE /\ reset_in_progress' = FALSE
    /\ reset_pending' = FALSE /\ in_sw_reset' = FALSE /\ fw_error' = FALSE
    /\ enabled' = FALSE
    /\ mode_type' = "fw" /\ context' = "worker" /\ during_reset' = FALSE
    /\ request_top_reset' = FALSE /\ do_top_reset' = FALSE
    /\ wq' = "no" /\ reprobe' = FALSE
    /\ up' = FALSE /\ opens' = 0 /\ restart_hw' = FALSE
    /\ running' = FALSE /\ in_hw_restart' = FALSE /\ restart_required' = FALSE
    /\ UNCHANGED <<data, wk, detector, op, reason, dumped>>

\* IWL_TRANS_RESET_OK_TIME passes.
TimePasses ==
    /\ recent
    /\ recent' = FALSE
    /\ UNCHANGED <<bits, reset_in_progress, reset_pending, fw_error, mode,
                   during_reset, top, restart_count, backoff, wk, wq, reprobe,
                   detector, mac, running, in_hw_restart, restart_required,
                   dumped>>

----------------------------------------------------------------------------
(* mac80211 and mld, with the wiphy lock *)

\* What the steps below leave alone.
transport == <<trans_dead, during_reset, request_top_reset, data, wk, wq,
               reprobe>>

\* iwl_mld_mac80211_start, called by mac80211 to open the device or to
\* reconfigure it: after an error the firmware is stopped first.
DrvStart(why) ==
    /\ op' = IF in_hw_restart THEN "pre_clear" ELSE "start_hw"
    /\ reason' = why
    /\ UNCHANGED <<transport, in_sw_reset, enabled, reset_in_progress,
                   reset_pending, fw_error, mode, do_top_reset, detector, up,
                   running, in_hw_restart, restart_required, dumped>>

Open ==
    /\ op = "idle" /\ ~up /\ opens < MaxOpens
    /\ opens' = opens + 1
    /\ UNCHANGED restart_hw
    /\ DrvStart("open")

\* ieee80211_restart_work; ieee80211_reconfig has nothing to do if nothing
\* is open.
RestartWork ==
    /\ op = "idle" /\ restart_hw /\ up
    /\ restart_hw' = FALSE
    /\ UNCHANGED opens
    /\ DrvStart("restart")

RestartWorkClosed ==
    /\ op = "idle" /\ restart_hw /\ ~up
    /\ restart_hw' = FALSE
    /\ UNCHANGED <<bits, reset_in_progress, reset_pending, fw_error, mode,
                   during_reset, top, data, wk, wq, reprobe, detector, op,
                   reason, up, opens, running, in_hw_restart, restart_required,
                   dumped>>

\* iwl_mld_mac80211_stop.  With the last open used up nobody closes: that
\* is the bound of the runs without a user.
Close ==
    /\ op = "idle" /\ up
    /\ opens < MaxOpens
    /\ op' = "clear" /\ reason' = "close"
    /\ UNCHANGED <<bits, reset_in_progress, reset_pending, fw_error, mode,
                   during_reset, top, data, wk, wq, reprobe, detector, up,
                   restart_hw, opens, running, in_hw_restart, restart_required,
                   dumped>>

\* iwl_trans_stop_device: a pending reset is dropped, its dump taken here.
StopClear ==
    /\ op \in {"pre_clear", "clear"}
    /\ op' = IF op = "clear" THEN "stop" ELSE "pre_stop"
    /\ reset_pending' = FALSE
    /\ IF reset_pending
       THEN /\ context' = "abort"
            /\ dumped' = TRUE /\ restart_required' = TRUE
       ELSE UNCHANGED <<context, dumped, restart_required>>
    /\ UNCHANGED <<transport, in_sw_reset, enabled, reset_in_progress,
                   mode_type, fw_error, do_top_reset, detector, reason, up,
                   restart_hw, opens, running, in_hw_restart>>

\* The device is stopped and its interrupts are waited for.
StopDevice ==
    /\ op \in {"pre_stop", "stop"}
    /\ det = "idle"
    /\ op' = IF op = "stop" THEN "stopped" ELSE "pre_stopped"
    /\ enabled' = FALSE
    /\ UNCHANGED <<transport, in_sw_reset, reset_in_progress, reset_pending,
                   mode, fw_error, do_top_reset, detector, reason, up,
                   restart_hw, opens, running, in_hw_restart, restart_required,
                   dumped>>

\* The firmware is marked as not running; a restart goes on with the start.
PreStopped ==
    /\ op = "pre_stopped"
    /\ op' = "start_hw"
    /\ running' = FALSE
    /\ UNCHANGED <<transport, in_sw_reset, enabled, reset_in_progress,
                   reset_pending, mode, fw_error, do_top_reset, detector,
                   reason, up, restart_hw, opens, in_hw_restart,
                   restart_required, dumped>>

\* "Clear in_hw_restart flag when stopping the hw, as mac80211 won't execute
\* the restart"; the same after a start that failed.
Stopped ==
    /\ op = "stopped"
    /\ op' = "idle"
    /\ running' = FALSE /\ in_hw_restart' = FALSE /\ up' = FALSE
    /\ UNCHANGED <<transport, in_sw_reset, enabled, reset_in_progress,
                   reset_pending, mode, fw_error, do_top_reset, detector,
                   reason, restart_hw, opens, restart_required, dumped>>

\* Mutant: the reset is not marked as over.
StartHwKeepsProgress ==
    /\ op = "start_hw"
    /\ op' = "start_fw"
    /\ UNCHANGED <<transport, in_sw_reset, enabled, reset_in_progress,
                   reset_pending, mode, fw_error, do_top_reset, detector,
                   reason, up, restart_hw, opens, running, in_hw_restart,
                   restart_required, dumped>>

\* iwl_trans_start_hw
StartHw ==
    /\ op = "start_hw"
    /\ op' = "start_fw"
    /\ reset_in_progress' = FALSE
    /\ UNCHANGED <<transport, in_sw_reset, enabled, reset_pending, mode,
                   fw_error, do_top_reset, detector, reason, up, restart_hw,
                   opens, running, in_hw_restart, restart_required, dumped>>

\* iwl_trans_start_fw
StartFw ==
    /\ op = "start_fw"
    /\ op' = IF do_top_reset THEN "top" ELSE "alive"
    /\ fw_error' = FALSE
    /\ enabled' = TRUE
    /\ UNCHANGED <<transport, in_sw_reset, reset_in_progress, reset_pending,
                   mode, do_top_reset, detector, reason, up, restart_hw, opens,
                   running, in_hw_restart, restart_required, dumped>>

\* The TOP reset succeeds, or the op-mode and the worker are told.
TopResetDone ==
    /\ op = "top"
    /\ do_top_reset' = FALSE
    /\ \/ op' = "alive" /\ UNCHANGED detector
       \/ /\ det = "idle" /\ errors < MaxErrors
          /\ op' = "top_failed"
          /\ det' = "nic_error" /\ err_type' = "top_failed"
          /\ errors' = errors + 1
    /\ UNCHANGED <<transport, in_sw_reset, enabled, reset_in_progress,
                   reset_pending, mode, fw_error, reason, up, restart_hw,
                   opens, running, in_hw_restart, restart_required, dumped>>

\* iwl_mld_load_fw or iwl_mld_config_fw fails: iwl_mld_stop_fw
StartFails ==
    /\ op \in {"start_hw", "start_fw", "alive", "top_failed"}
    /\ op = "top_failed" => det = "idle"
    /\ op' = "clear"
    /\ UNCHANGED <<transport, in_sw_reset, enabled, reset_in_progress,
                   reset_pending, mode, fw_error, do_top_reset, detector,
                   reason, up, restart_hw, opens, running, in_hw_restart,
                   restart_required, dumped>>

\* The firmware is alive and configured.
Started ==
    /\ op = "alive" /\ ~fw_error
    /\ op' = IF reason = "restart" THEN "reconfig" ELSE "idle"
    /\ running' = TRUE /\ up' = TRUE
    /\ UNCHANGED <<transport, in_sw_reset, enabled, reset_in_progress,
                   reset_pending, mode, fw_error, do_top_reset, detector,
                   reason, restart_hw, opens, in_hw_restart, restart_required,
                   dumped>>

\* Mutant: the reset is marked as over once more.
ReconfigEndsReset ==
    /\ op = "reconfig"
    /\ op' = "idle"
    /\ in_hw_restart' = FALSE
    /\ in_sw_reset' = FALSE
    /\ reset_in_progress' = FALSE
    /\ UNCHANGED <<transport, enabled, reset_pending, mode, fw_error,
                   do_top_reset, detector, reason, up, restart_hw, opens,
                   running, restart_required, dumped>>

\* iwl_mld_mac80211_reconfig_complete
ReconfigComplete ==
    /\ op = "reconfig"
    /\ op' = "idle"
    /\ in_hw_restart' = FALSE
    /\ in_sw_reset' = FALSE
    /\ UNCHANGED <<transport, enabled, reset_in_progress, reset_pending, mode,
                   fw_error, do_top_reset, detector, reason, up, restart_hw,
                   opens, running, restart_required, dumped>>

----------------------------------------------------------------------------
Detect == NicError \/ ScheduleReset \/ SetPending \/ QueueWork

Work ==
    \/ WorkStart \/ DumpError \/ ClearPending \/ Backoff \/ ChooseMode
    \/ TopReset \/ SwReset \/ RestartNic \/ ScheduleReprobe \/ PcieReset

Mac80211 ==
    \/ RestartWork \/ RestartWorkClosed \/ StopClear \/ StopDevice
    \/ PreStopped \/ Stopped \/ StartHw \/ StartFw \/ TopResetDone
    \/ StartFails \/ Started \/ ReconfigComplete

Next ==
    \/ FwError \/ TopFatal \/ TopByBt \/ Detect
    \/ Work \/ DelayOver \/ Reprobe \/ TimePasses
    \/ Open \/ Close \/ Mac80211

Spec == Init /\ [][Next]_vars

\* Threads and works run, and timers expire; nobody has to open or close the
\* device, and no error has to happen.
FairSpec ==
    /\ Spec
    /\ WF_vars(Detect) /\ WF_vars(Work) /\ WF_vars(DelayOver)
    /\ WF_vars(Reprobe) /\ WF_vars(Mac80211)

----------------------------------------------------------------------------
TypeOK ==
    /\ {trans_dead, reset_in_progress, reset_pending, in_sw_reset, fw_error,
        enabled, during_reset, request_top_reset, do_top_reset, backoff,
        recent, reprobe, up, restart_hw, running, in_hw_restart,
        restart_required, dumped} \subseteq BOOLEAN
    /\ mode_type \in {"fw", "top_fatal", "top_failed", "top_by_bt"}
    /\ err_type \in {"fw", "top_fatal", "top_failed", "top_by_bt"}
    /\ context \in {"worker", "abort"}
    /\ restart_count \in 0..Len(Escalation)
    /\ wk \in {"idle", "dump", "clear", "mode", "sw", "sw_reset", "top",
               "reprobe", "func", "prod"}
    /\ wq \in {"no", "now", "delayed"}
    /\ det \in {"idle", "nic_error", "schedule", "pending", "queue"}
    /\ op \in {"idle", "pre_clear", "pre_stop", "pre_stopped", "clear", "stop",
               "stopped", "start_hw", "start_fw", "top", "top_failed", "alive",
               "reconfig"}
    /\ reason \in {"open", "restart", "close"}
    /\ errors \in 0..MaxErrors /\ opens \in 0..MaxOpens

\* A reset that was requested has a worker that will see the request, although
\* work is not queued twice, unless the device goes away anyway.
PendingHasWorker ==
    reset_pending =>
        \/ wq # "no" \/ wk \in {"dump", "clear"} \/ det = "queue"
        \/ reprobe \/ trans_dead

\* An open device whose firmware failed has its reset scheduled: a stale error
\* bit or a stale reset in progress would hide the failure for good.
FailureIsClaimed ==
    fw_error /\ up /\ op = "idle" =>
        reset_in_progress \/ det # "idle" \/ trans_dead

\* "reset worker was scheduled, but didn't dump the firmware state yet": a
\* reset is only attempted once the firmware that failed has been dumped.
DumpBeforeReset == wk \in {"mode", "sw", "top", "reprobe"} => dumped

\* An error in a SW reset is not answered with another SW reset, which would
\* go on forever.
NoSwResetLoop == [][wk = "mode" /\ wk' = "sw" => ~in_sw_reset]_vars

\* A failed firmware is replaced in the end, or the device closed.
RecoveryHappens == (fw_error /\ up) ~> (~fw_error \/ ~up)
============================================================================
