------------------------------ MODULE HostCmd ------------------------------
(***************************************************************************)
(* Host commands: iwl_trans_send_cmd, the command queue and the handling   *)
(* of the firmware's answers (iwl-trans.c, pcie/gen1_2/tx.c, tx-gen2.c and *)
(* rx.c).                                                                  *)
(*                                                                         *)
(* Actors: the thread that sends synchronous commands (one, it holds the   *)
(* wiphy lock), contexts that send asynchronous ones, the RX context that  *)
(* completes commands, the interrupt thread that reports firmware errors   *)
(* and the RF-kill switch, the firmware, and the restart of the device.    *)
(* Only the queue is protected by txq->lock: the sender waits for, and     *)
(* gives up on, an answer without it.                                      *)
(*                                                                         *)
(* A command is a number; 0 is no command.                                 *)
(***************************************************************************)
EXTENDS Integers, Sequences, FiniteSets

CONSTANTS
    MaxTfd,         \* max_tfd_queue_size
    NWindow,        \* n_window of the command queue
    SendInRfkill,   \* the op-mode sets CMD_SEND_IN_RFKILL, as mld does
    MaxCmds         \* bound: commands sent

ASSUME CmdAssumption ==
    /\ NWindow \in Nat \ {0} /\ MaxTfd \in Nat
    /\ MaxTfd % NWindow = 0 /\ NWindow < MaxTfd
    /\ SendInRfkill \in BOOLEAN /\ MaxCmds \in Nat

VARIABLES
    read_ptr, write_ptr,    \* struct iwl_txq
    entries,                \* each entry's meta: source, flags
    sync_active, fw_error, rfkill,  \* STATUS_SYNC_HCMD_ACTIVE, FW_ERROR,
                            \* RFKILL_OPMODE
    reset,                  \* a reset of the device is scheduled
    spc, cmd, want_skb,     \* iwl_trans_pcie_send_hcmd_sync: its place, its
    cmd_idx, resp_pkt,      \* cmd with flag and answer, its entry
    answered,               \* history: cmd's answer was handled
    rx, rx_idx,             \* iwl_pcie_hcmd_complete: its place, its entry
    irq,                    \* the interrupt thread: about to wake the sender
    fw, fw_ptr, answers,    \* the firmware, next TFD, answers under way
    sent

queue == <<read_ptr, write_ptr, entries>>
status == <<fw_error, rfkill, reset>>
sender == <<spc, cmd, want_skb, cmd_idx>>
device == <<fw, fw_ptr, answers>>
vars == <<queue, sync_active, status, sender, resp_pkt, answered, rx, rx_idx,
          irq, device, sent>>

NULL == 0
NoFlags == [source |-> NULL, async |-> FALSE, want_skb |-> FALSE]

\* iwl_txq_get_cmd_index, iwl_txq_inc_wrap, iwl_txq_space
CmdIndex(i) == i % NWindow
IncWrap(i) == (i + 1) % MaxTfd
Used(r, w) == (w - r) % MaxTfd
Space == IF Used(read_ptr, write_ptr) > NWindow THEN 0
         ELSE NWindow - Used(read_ptr, write_ptr)

\* iwl_txq_used
TxqUsed(i) ==
    LET index == CmdIndex(i)
        r == CmdIndex(read_ptr)
        w == CmdIndex(write_ptr)
    IN  IF w >= r THEN index >= r /\ index < w
                  ELSE ~(index < r /\ index >= w)

lock == rx # "idle"     \* only iwl_pcie_hcmd_complete holds txq->lock for long

EmptyEntries == [i \in 0..(NWindow - 1) |-> NoFlags]

Init ==
    /\ read_ptr = 0 /\ write_ptr = 0 /\ entries = EmptyEntries
    /\ sync_active = FALSE /\ fw_error = FALSE /\ rfkill = FALSE
    /\ reset = FALSE
    /\ spc = "idle" /\ cmd = NULL /\ want_skb = FALSE /\ cmd_idx = 0
    /\ resp_pkt = NULL /\ answered = FALSE
    /\ rx = "idle" /\ rx_idx = 0 /\ irq = "idle"
    /\ fw = "alive" /\ fw_ptr = 0 /\ answers = <<>>
    /\ sent = 0

----------------------------------------------------------------------------
(* Sending *)

\* The checks of iwl_trans_send_cmd and iwl_trans_pcie_send_hcmd.
Refused == fw_error \/ (rfkill /\ ~SendInRfkill)

\* The bound, with a command that was accepted.
MaySend ==
    sent + (IF spc \in {"activate", "enqueue"} THEN 1 ELSE 0) < MaxCmds

\* iwl_pcie_gen2_enqueue_hcmd, with room for the command
Enqueue(id, meta) ==
    /\ entries' = [entries EXCEPT ![CmdIndex(write_ptr)] = meta]
    /\ write_ptr' = IncWrap(write_ptr)
    /\ sent' = id
    /\ UNCHANGED read_ptr

\* Mutant: nobody checks for room.
RoomForAll(async) == TRUE

\* One entry is left for a synchronous command.
RoomFor(async) == Space >= (IF async THEN 2 ELSE 1)

\* An asynchronous command: its sender does not wait.
SendAsync ==
    /\ ~Refused /\ ~lock /\ MaySend
    /\ RoomFor(TRUE)
    /\ Enqueue(sent + 1,
               [source |-> NULL, async |-> TRUE, want_skb |-> FALSE])
    /\ UNCHANGED <<sync_active, status, sender, resp_pkt, answered, rx,
                   rx_idx, irq, device>>

\* -ENOSPC: the op-mode is told and a reset is scheduled.
SendAsyncFails ==
    /\ ~Refused /\ ~lock /\ MaySend
    /\ ~RoomFor(TRUE)
    /\ reset' = TRUE
    /\ UNCHANGED <<queue, sync_active, fw_error, rfkill, sender, resp_pkt,
                   answered, rx, rx_idx, irq, device, sent>>

\* A synchronous command is accepted.
SendSync(want) ==
    /\ spc = "idle" /\ ~Refused /\ MaySend
    /\ spc' = "activate"
    /\ want_skb' = want
    /\ UNCHANGED <<queue, sync_active, status, cmd, cmd_idx, resp_pkt,
                   answered, rx, rx_idx, irq, device, sent>>

\* test_and_set_bit(STATUS_SYNC_HCMD_ACTIVE)
Activate ==
    /\ spc = "activate"
    /\ spc' = IF sync_active THEN "idle" ELSE "enqueue"
    /\ sync_active' = TRUE
    /\ UNCHANGED <<queue, status, cmd, want_skb, cmd_idx, resp_pkt, answered,
                   rx, rx_idx, irq, device, sent>>

EnqueueSync ==
    /\ spc = "enqueue" /\ ~lock
    /\ RoomFor(FALSE)
    /\ Enqueue(sent + 1, [source |-> IF want_skb THEN sent + 1 ELSE NULL,
                          async |-> FALSE, want_skb |-> want_skb])
    /\ cmd' = sent + 1
    /\ cmd_idx' = CmdIndex(write_ptr)
    /\ answered' = FALSE /\ resp_pkt' = NULL
    /\ spc' = "wait"
    /\ UNCHANGED <<sync_active, status, want_skb, rx, rx_idx, irq, device>>

\* -ENOMEM: the command cannot be mapped.
EnqueueSyncUnmapped ==
    /\ spc = "enqueue" /\ ~lock
    /\ RoomFor(FALSE)
    /\ sync_active' = FALSE
    /\ spc' = "idle"
    /\ UNCHANGED <<queue, status, cmd, want_skb, cmd_idx, resp_pkt, answered,
                   rx, rx_idx, irq, device, sent>>

\* -ENOSPC
EnqueueSyncFails ==
    /\ spc = "enqueue" /\ ~lock
    /\ ~RoomFor(FALSE)
    /\ reset' = TRUE
    /\ sync_active' = FALSE
    /\ spc' = "idle"
    /\ UNCHANGED <<queue, fw_error, rfkill, cmd, want_skb, cmd_idx, resp_pkt,
                   answered, rx, rx_idx, irq, device, sent>>

----------------------------------------------------------------------------
(* Waiting for the answer *)

\* wait_event_timeout sees the bit clear.
Woken ==
    /\ spc = "wait" /\ ~sync_active
    /\ spc' = "check"
    /\ UNCHANGED <<queue, sync_active, status, cmd, want_skb, cmd_idx,
                   resp_pkt, answered, rx, rx_idx, irq, device, sent>>

\* Mutant: the wait has no limit once the firmware has failed.
TimeoutUnlessError ==
    /\ spc = "wait" /\ sync_active /\ ~fw_error
    /\ spc' = "timeout"
    /\ UNCHANGED <<queue, sync_active, status, cmd, want_skb, cmd_idx,
                   resp_pkt, answered, rx, rx_idx, irq, device, sent>>

\* HOST_COMPLETE_TIMEOUT is over.
Timeout ==
    /\ spc = "wait" /\ sync_active
    /\ spc' = "timeout"
    /\ UNCHANGED <<queue, sync_active, status, cmd, want_skb, cmd_idx,
                   resp_pkt, answered, rx, rx_idx, irq, device, sent>>

TimeoutClear ==
    /\ spc = "timeout"
    /\ sync_active' = FALSE
    /\ spc' = "nmi"
    /\ UNCHANGED <<queue, status, cmd, want_skb, cmd_idx, resp_pkt, answered,
                   rx, rx_idx, irq, device, sent>>

\* Mutant: the firmware is left alone.
NoNmi ==
    /\ spc = "nmi"
    /\ spc' = "cancel"
    /\ UNCHANGED <<queue, sync_active, status, cmd, want_skb, cmd_idx,
                   resp_pkt, answered, rx, rx_idx, irq, device, sent>>

\* iwl_trans_sync_nmi stops the firmware and calls iwl_trans_fw_error; the
\* error interrupt may still come if the wait for it was too short.
SyncNmi ==
    /\ spc = "nmi"
    /\ fw' \in {"dead", "failed"}
    /\ fw_error' = TRUE /\ reset' = TRUE
    /\ spc' = "cancel"
    /\ UNCHANGED <<queue, sync_active, rfkill, cmd, want_skb, cmd_idx,
                   resp_pkt, answered, rx, rx_idx, irq, fw_ptr, answers, sent>>

\* The sender was woken, by the answer or by an interrupt.
Failed ==
    \/ fw_error
    \/ rfkill /\ ~SendInRfkill
    \/ want_skb /\ resp_pkt = NULL

Return ==
    /\ spc = "check" /\ ~Failed
    /\ spc' = "idle" /\ cmd' = NULL
    /\ resp_pkt' = NULL         \* the caller's from now on
    /\ UNCHANGED <<queue, sync_active, status, want_skb, cmd_idx, answered,
                   rx, rx_idx, irq, device, sent>>

Fail ==
    /\ spc = "check" /\ Failed
    /\ spc' = "cancel"
    /\ UNCHANGED <<queue, sync_active, status, cmd, want_skb, cmd_idx,
                   resp_pkt, answered, rx, rx_idx, irq, device, sent>>

\* Mutant: the entry is left as it is.
CancelNothing ==
    /\ spc = "cancel"
    /\ spc' = "free"
    /\ UNCHANGED <<queue, sync_active, status, cmd, want_skb, cmd_idx,
                   resp_pkt, answered, rx, rx_idx, irq, device, sent>>

\* CMD_WANT_SKB is taken back, without txq->lock.
Cancel ==
    /\ spc = "cancel"
    /\ entries' = [entries EXCEPT ![cmd_idx].want_skb = FALSE]
    /\ spc' = "free"
    /\ UNCHANGED <<read_ptr, write_ptr, sync_active, status, cmd,
                   want_skb, cmd_idx, resp_pkt, answered, rx, rx_idx, irq,
                   device, sent>>

\* The error is returned; an answer that came meanwhile is freed.
FreeResp ==
    /\ spc = "free"
    /\ resp_pkt' = NULL
    /\ spc' = "idle" /\ cmd' = NULL
    /\ UNCHANGED <<queue, sync_active, status, want_skb, cmd_idx, answered,
                   rx, rx_idx, irq, device, sent>>

----------------------------------------------------------------------------
(* iwl_pcie_hcmd_complete, with txq->lock held *)

\* An answer is handled: does its command want it?
HcmdComplete ==
    /\ rx = "idle" /\ answers # <<>>
    /\ answers' = Tail(answers)
    /\ rx_idx' = Head(answers)
    /\ rx' = IF entries[CmdIndex(Head(answers))].want_skb THEN "skb"
                                                         ELSE "reclaim"
    /\ UNCHANGED <<queue, sync_active, status, sender, resp_pkt, answered,
                   irq, fw, fw_ptr, sent>>

\* meta->source->resp_pkt = pkt; the command of a sender that has returned
\* meanwhile is no part of the state, and the write lost.
GiveSkb ==
    /\ rx = "skb"
    /\ resp_pkt' = IF entries[CmdIndex(rx_idx)].source = cmd
                   THEN cmd ELSE resp_pkt
    /\ rx' = "reclaim"
    /\ UNCHANGED <<queue, sync_active, status, sender, answered, rx_idx, irq,
                   device, sent>>

\* iwl_pcie_cmdq_reclaim: the loop compares indices masked to the window.
CmdqReclaim(i) ==
    LET n == ((CmdIndex(i) + 1) - CmdIndex(read_ptr)) % MaxTfd
    IN  read_ptr' = IF TxqUsed(i) THEN (read_ptr + n) % MaxTfd ELSE read_ptr

\* The entry is free, and the sender of a synchronous command woken.
Complete ==
    /\ rx = "reclaim"
    /\ CmdqReclaim(rx_idx)
    /\ sync_active' = (sync_active /\ entries[CmdIndex(rx_idx)].async)
    /\ answered' = (answered \/ (cmd # NULL /\ CmdIndex(rx_idx) = cmd_idx
                                 /\ ~entries[cmd_idx].async))
    /\ entries' = [entries EXCEPT ![CmdIndex(rx_idx)] = NoFlags]
    /\ rx' = "idle"
    /\ UNCHANGED <<write_ptr, status, sender, resp_pkt, rx_idx, irq,
                   device, sent>>

----------------------------------------------------------------------------
(* Interrupts *)

\* Mutant: the sender is woken before the error is recorded.
WakeFirst ==
    /\ fw = "failed"
    /\ \/ /\ irq = "idle"
          /\ sync_active' = FALSE /\ irq' = "wake"
          /\ UNCHANGED <<fw_error, reset, fw>>
       \/ /\ irq = "wake"
          /\ fw_error' = TRUE /\ reset' = TRUE /\ irq' = "idle"
          /\ fw' = "dead"
          /\ UNCHANGED sync_active
    /\ UNCHANGED <<queue, rfkill, sender, resp_pkt, answered, rx, rx_idx,
                   fw_ptr, answers, sent>>

\* iwl_pcie_irq_handle_error: first iwl_trans_fw_error ...
HandleError ==
    /\ irq = "idle" /\ fw = "failed"
    /\ fw_error' = TRUE /\ reset' = TRUE
    /\ irq' = "wake"
    /\ fw' = "dead"
    /\ UNCHANGED <<queue, sync_active, rfkill, sender, resp_pkt, answered, rx,
                   rx_idx, fw_ptr, answers, sent>>

\* iwl_pcie_handle_rfkill_irq: the radio is switched off, maybe again.
HandleRfkill ==
    /\ irq = "idle"
    /\ rfkill' = TRUE
    /\ irq' = "wake"
    /\ UNCHANGED <<queue, sync_active, fw_error, reset, sender, resp_pkt,
                   answered, rx, rx_idx, device, sent>>

\* ... then the sender is woken.
Wake ==
    /\ irq = "wake"
    /\ sync_active' = FALSE
    /\ irq' = "idle"
    /\ UNCHANGED <<queue, status, sender, resp_pkt, answered, rx, rx_idx,
                   device, sent>>

----------------------------------------------------------------------------
(* The firmware and the device *)

\* The firmware executes the next command and answers it.
FwAnswers ==
    /\ fw = "alive" /\ fw_ptr # write_ptr
    /\ answers' = Append(answers, fw_ptr)
    /\ fw_ptr' = IncWrap(fw_ptr)
    /\ UNCHANGED <<queue, sync_active, status, sender, resp_pkt, answered, rx,
                   rx_idx, irq, fw, sent>>

FwFails ==
    /\ fw = "alive"
    /\ fw' = "failed"
    /\ UNCHANGED <<queue, sync_active, status, sender, resp_pkt, answered, rx,
                   rx_idx, irq, fw_ptr, answers, sent>>

\* The op-mode, with the wiphy lock, stops the device, which waits for the
\* RX context and the interrupt thread and frees the queue, and starts it.
Restart ==
    /\ reset \/ rfkill
    /\ spc = "idle" /\ rx = "idle" /\ irq = "idle"
    /\ read_ptr' = 0 /\ write_ptr' = 0 /\ entries' = EmptyEntries
    /\ sync_active' = FALSE /\ fw_error' = FALSE /\ rfkill' = FALSE
    /\ reset' = FALSE
    /\ fw' = "alive" /\ fw_ptr' = 0 /\ answers' = <<>>
    /\ UNCHANGED <<sender, resp_pkt, answered, rx, rx_idx, irq, sent>>

----------------------------------------------------------------------------
SyncStep ==
    \/ Activate \/ EnqueueSync \/ EnqueueSyncUnmapped \/ EnqueueSyncFails
    \/ Woken \/ Timeout \/ TimeoutClear \/ SyncNmi \/ Return \/ Fail \/ Cancel \/ FreeResp

RxStep == HcmdComplete \/ GiveSkb \/ Complete

Next ==
    \/ \E want \in BOOLEAN : SendSync(want)
    \/ SyncStep \/ RxStep
    \/ SendAsync \/ SendAsyncFails
    \/ HandleError \/ HandleRfkill \/ Wake
    \/ FwAnswers \/ FwFails
    \/ Restart

Spec == Init /\ [][Next]_vars

\* The sender and the RX context run, and timers expire.
FairSpec == Spec /\ WF_vars(SyncStep) /\ WF_vars(RxStep)

----------------------------------------------------------------------------
TypeOK ==
    /\ read_ptr \in 0..(MaxTfd - 1) /\ write_ptr \in 0..(MaxTfd - 1)
    /\ fw_ptr \in 0..(MaxTfd - 1) /\ rx_idx \in 0..(MaxTfd - 1)
    /\ cmd_idx \in 0..(NWindow - 1)
    /\ entries \in [0..(NWindow - 1) ->
          [source : 0..MaxCmds, async : BOOLEAN, want_skb : BOOLEAN]]
    /\ {sync_active, fw_error, rfkill, reset, want_skb, answered}
          \subseteq BOOLEAN
    /\ spc \in {"idle", "activate", "enqueue", "wait", "timeout", "nmi",
                "check", "cancel", "free"}
    /\ cmd \in 0..MaxCmds /\ resp_pkt \in 0..MaxCmds
    /\ rx \in {"idle", "skb", "reclaim"} /\ irq \in {"idle", "wake"}
    /\ fw \in {"alive", "failed", "dead"}
    /\ answers \in Seq(0..(MaxTfd - 1)) /\ Len(answers) <= NWindow
    /\ sent \in 0..MaxCmds

\* A synchronous command only succeeds once the firmware has answered it:
\* whoever else clears the bit the sender waits for has made sure that the
\* sender sees why.
SyncMeansAnswered == [][spc = "check" /\ spc' = "idle" => answered]_vars

\* An answer wakes the sender of its own command only, never that of a later
\* one, although senders give up on answers that are still to come.
NoStaleCompletion ==
    [][rx = "reclaim" /\ rx' = "idle" /\ sync_active /\ ~sync_active'
            => cmd # NULL /\ CmdIndex(rx_idx) = cmd_idx]_vars

\* "Otherwise in case the cmd comes in later, it will possibly set an invalid
\* address (cmd->meta.source)": an entry that wants the answer's buffer points
\* to the command of a sender that has not returned.
SourceIsLive ==
    \A i \in DOMAIN entries :
        entries[i].want_skb => cmd # NULL /\ entries[i].source = cmd

\* Every synchronous command returns, even if the firmware failed between the
\* check and the wait and nothing will wake the sender.
CommandsReturn == (spc # "idle") ~> (spc = "idle")
============================================================================
