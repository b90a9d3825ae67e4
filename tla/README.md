# Verification of the iwlwifi driver and the mac80211 paths it depends on

The repository is Intel's Wi-Fi stack for Android: the `iwlwifi` driver (PCIe
transport, firmware interface, the op-modes `mld`, `mvm` and `xvt`) and the
`mac80211` stack it plugs into. This directory holds TLA+ models of its
concurrent core (receive buffers, transmit queue, host commands and error
recovery of the transport; block-ack reordering; transmit block-ack sessions;
the station's connection; remain-on-channel periods), the TLC runs that check
them on small instances, and machine-checked TLAPS proofs, for every size, of
the safety of the transport (receive buffers, transmit queue, host commands,
error recovery), of transmit block-ack sessions and of the station's connection.

Contents: [inventory](#1-the-system), [modules](#2-the-models),
[runs](#3-what-the-runs-check-and-show), [bounds and fairness](#4-bounds-and-fairness),
[findings](#5-disagreements-between-the-code-and-its-comments),
[proofs](#6-what-is-proved), [limits](#7-what-is-not-modelled),
[plan](#8-plan). Paths are relative to `src/`.

## 1. The system

### Parts, their state and their operations

| Part | State it keeps | Operations | Correct means |
|---|---|---|---|
| RX buffers (`iwlwifi/pcie/gen1_2/rx.c`) | per queue: ring of posted RBDs, `rx_free`, `rx_used`, `used_count`; shared allocator: `rbd_empty`, `rbd_allocated`, `req_pending`, `req_ready` | NAPI poll, hand-over to and claim from the allocator, allocator work, restock, init, stop | the allocator never runs out of RBDs, claims find what they were promised, rings never fill, reception never stops |
| Data TX queue (`pcie/gen1_2/tx.c`, `tx-gen2.c`, `mld/tx.c`, `mld/mld.c`) | ring with read and write pointers, `overflow_q`, `overflow_tx`, stopped bits on both sides, `tx_request` | dequeue from mac80211, transmit, stop, reclaim, overflow transmission, wake, flush, wait for empty | no frame lost, freed early or twice; a stopped queue is woken; "empty" means empty |
| Host commands (`iwl-trans.c`, `pcie/gen1_2/tx.c`, `tx-gen2.c`, `rx.c`) | command queue, per-entry meta data, `STATUS_SYNC_HCMD_ACTIVE`, the sender's command | send (synchronous, asynchronous), complete, time out, cancel, error and RF-kill interrupts | success means answered; answers reach their own command and no other |
| Error recovery (`iwl-trans.[ch]`, `mld/mld.c`, `mld/fw.c`, `mac80211/main.c`, `util.c`) | `STATUS_*` bits, `restart.mode`, restart count per device, `in_hw_restart` | error report, restart work, dump, escalation, back-off, stop, start, reconfiguration, reprobe | every failure is dumped and recovered from; no reset loop; no stale restart state |
| Driver core, NVM and firmware files (`iwl-drv.c`, `iwl-nvm-parse.c`) | firmware image, device tables | request, parse, bind the op-mode | parsing of data, sequential |
| Firmware runtime and debug (`iwlwifi/fw/`) | dump triggers, regulatory tables, paging | collect, configure | mostly data; notification waits are concurrent |
| Block-ack reordering (`mld/agg.c`, `mld/rx.c`) | per session and RX queue: `head_sn`, the lists of held frames; queue-sync cookie and state | frame, frame release and BAR notification, start, stop, queue sync and its time-out | frames of a queue are delivered in order and once; none is left behind |
| TX block-ack sessions (`mac80211/agg-tx.c`, `ht.c`; `mvm/sta.c`, `tx.c`, `rs.c`) | `tid_start_tx`, `tid_tx` with its state bits and timers, the txq flags, `tid_data->state` | request, session work, ADDBA response, DELBA, rekey, time-outs, transmit loop | sessions start and stop one at a time and settle; the driver sees no A-MPDU frame outside one; the txq goes on |
| Station management (`mac80211/mlme.c`) | `auth_data`, `assoc_data`, the AP, one timer, TX status, poll state | authenticate, associate, frames, TX status, timer, beacon loss, deauthenticate, stop | every attempt ends; stack, driver and userspace agree on the phase |
| Remain on channel (`mac80211/offchannel.c`, `scan.c`; `mld/roc.c`, `notif.c`) | `roc_list`, two works, the op-mode's `roc_activity`, queued notifications, the deferred scan | request, combine, cancel, start and end reports, scan, restart, interface down | reports reach the period they are for; every period and deferred scan ends |
| rest of the `mld` op-mode | stations, links, scans, protection sessions, async notifications | mac80211 callbacks, firmware notifications | driver and firmware agree on every object, also across restarts |
| `mvm`, `xvt` op-modes | the same for older devices; test tool | | as `mld` |
| rest of mac80211: TX, RX, stations, software scan, channel contexts, keys, interfaces | one structure per object, under the wiphy lock, RCU, or its own locks | cfg80211 callbacks, timers, frames, driver callbacks | per object; see the plan |

`PROJECT.json` lists all of them with their files, modelled or not.

### How they interact

mac80211 calls the op-mode under the wiphy lock (configuration), in softirq
context (TX) and from works. The op-mode sends host commands through the
transport, and data frames through one TX queue per station and TID. The
device answers and reports everything through RX buffers: the NAPI poll of the
default queue completes host commands and hands notifications to the op-mode,
which reclaims TX queues from there. Error, RF-kill and reset interrupts are
handled in a thread of their own, concurrent with the polls. The allocator
work and the restart work run on work queues. So five kinds of context touch
the transport at once; `txq->lock`, `reclaim_lock`, `rxq->lock` and `rba->lock`
protect parts of it, the `STATUS_*` bits are atomic and protected by nothing.

### What is hard here

* Locks are dropped in the middle: the reclaim frees frames, and sends the
  overflow queue, without `txq->lock`; the poll drops `rxq->lock` to allocate.
* Counters and bits are read and acted upon later: `req_ready`, `stop_full`,
  `STATUS_RESET_PENDING`, `STATUS_SYNC_HCMD_ACTIVE`.
* Resources are handed over in batches whose sizes only fit together globally
  (2 RBDs posted, 8 claimed, 6 per queue in the pool).
* Rings are indexed by masked pointers that cannot tell full from empty.
* Firmware fails at any time, also while it is being restarted, stopped or
  waited for; answers come after the sender gave up.

* Peers and access points answer late, twice, differently or never, and TX
  status overtakes or follows the answer.
* mac80211 lets works of one object run after the object changed: reports of an
  earlier period, timers of an earlier session, a scan put off for a poll that
  is over.

The hazards that matter most, each at its line, are in `PROJECT.json`.

## 2. The models

Every module keeps the source's names for state and, where possible, for
actions; the map in `PROJECT.json` gives the lines of each definition. An
action is one critical section, or one access to shared state outside of one;
what a thread does between two such points is one step.

**`RxAllocator`** models the circulation of receive buffers on multi-queue
hardware. RBDs are interchangeable, so lists are their lengths; `rx_used` is
split into the RBDs that `used_count` counts and those it does not
(`rx_emerg`). Each poller has a program counter (`pc[q]`) over
`iwl_pcie_rx_handle` and the functions it calls, the allocator work another
(`apc`). The device closes a buffer on any queue. `StopDevice`/`StartDevice`
flush and re-initialise the lists.

**`TxQueue`** models one gen2 data queue: threads in `iwl_mld_tx_from_txq`
(the reclaiming context is one of them when it wakes the queue), the reclaim
in six steps between its locks, the device, a flush, and a thread in
`iwl_trans_pcie_wait_txq_empty`. A frame is its number; a GSO skb is a burst of
frames that are sent without looking at `stop_full` in between. The watchdog
is the bit `stuck_timer`. `leaked` records frames that the overflow
transmission loses when their DMA mapping fails (the error of
`iwl_trans_tx` is ignored there).

**`HostCmd`** models the command queue of a gen2 device and the life of a
synchronous command from the checks of `iwl_trans_send_cmd` to its return,
with `iwl_pcie_hcmd_complete` in three steps (under `txq->lock`), the two
interrupts that end a wait early, the time-out, and asynchronous commands from
any context. `SendInRfkill` says whether the op-mode sets
`CMD_SEND_IN_RFKILL`; `mld` sets it on every command.

**`TransRestart`** models the status bits and the four parties of a recovery:
whoever reports an error, the restart work with its escalation list and
back-off, the work that reprobes or removes the device, and mac80211 with the
op-mode, which stop and start the device under the wiphy lock (`op # "idle"`).
`recent` abstracts the clock: whether the last reset was less than
`IWL_TRANS_RESET_OK_TIME` ago. `restart_required` is set by a dump, as the
usual debug configuration asks for. `dumped` is a history variable.

**`InOrderDelivery`** says what a receive block-ack session promises the stack,
and **`ReorderBuffer`** models how `mld` keeps it and is checked to implement it
(`held` is what the lists of a queue hold, `open` is the life of the session,
`started` is `valid`). `ReorderBufferProofs` proves it.
Every RX queue has a context, a fifo and a reorder buffer of its own; the
firmware keeps the window and writes NSSN into each descriptor. Of the firmware
it is assumed that it sends the release to every queue when NSSN moves, before
any frame beyond the window, and of the peer that it holds new MPDUs back
between the start in the firmware and the ADDBA response. Sequence numbers are
compared modulo `SnMod`, and `2 * BufSize < SnMod` is what makes the comparison
meaningful. The numbers of the model are not modulo `SnMod`, and neither is the
firmware's NSSN; the driver sees both modulo `SnMod` (`Sn`). A repeated frame
with an old number that meets a queue whose buffer is not `valid` yet passes a
second time, or after later ones; the packet-number check of the decryption
catches it, and the abstract queue promises order only from its first new frame
(`started`) on: nothing is held before that, what is handed over after it comes
in order and after everything handed over earlier.

**`TxBaSession`** models one station and TID with the `mvm` op-mode below. What
holds the wiphy lock is one thread (`pc`), with a step for each wait of
`synchronize_net` or `timer_delete_sync`; transmissions, rate scaling and the two
timers run beside it, and RCU readers and running timers are what these waits
wait for. The transmit loop of the txq with its `tx_request` counter is part of
the model.

**`StationMlme`** models the connection of a station interface as `iwlwifi`
configures mac80211 (`CONNECTION_MONITOR`, `REPORTS_TX_ACK_STATUS`). Everything
but TX status, driver events and the timer runs under the wiphy lock, so an
operation is one step: the state of the interface is one record `m`, each
function of the code an operator on it, and a request or work their
composition. Times are counted down in ticks. Works run in the order they were
queued. The TX status of requests is remembered once, as in the code, and may
never come. The wait for an SAE retry and the wait for userspace to associate
share one length.

**`RemainOnChannel`** models the periods userspace asks for, for drivers with
hardware support: `roc_list` and the two works in `offchannel.c`, the sessions of
`mld/roc.c`, the list of asynchronous notifications between them, hardware scans
that wait for periods and periods that wait for scans, a crash with
`ieee80211_restart_work`, and an interface going down. The form is that of
`StationMlme`. A `start_time` that is not set lies before now (`Over`), and the
unsigned `remaining` of `ieee80211_coalesce_hw_started_roc` takes a time that has
passed for a very long one. `warned` is a history of the `WARN_ON`s the code
reaches and of two more events: a report that was not meant for the period
(`"stale"`) and a purge that leaves something behind (`"purged"`). `Regular`
excludes the two situations of section 5 in which the code goes wrong; the
safety properties are about the rest. `WorkFair` and `RestartWorkRuns` are weak
fairness with the enabling condition written out.

`Counting` and the modules named `*Proofs` hold the proofs (section 6). The
`MC*` modules exist for the configurations to refer to.

## 3. What the runs check and show

| Run | Configuration | Result |
|---|---|---|
| `rx_allocator` | one queue, ring of 16, batches 2/4, stop and start; fair | the `BUG_ON` of the allocator never fires (`LocalEmptyCoversRequest`), claims are covered (`ClaimsAreCovered`), rings do not fill (`RingsNeverFull`), a device without buffers gets some (`StarvedDeviceRestocked`); no deadlock |
| `tx_queue` | two threads and the reclaim, window of 8, four bursts of 3 frames, a DMA error, flush, wait; fair | the ring holds the frames between its pointers and never fills (`RingHoldsFrames`), none is freed early (`NoEarlyFree`), a stop can be undone (`StopIsWakeable`), "empty" means empty (`WaitMeansEmpty`), everything is sent (`EventuallyDrained`) |
| `hcmd` | window of 4 in a ring of 8, five commands, errors, RF-kill, time-outs, restarts; commands not sent in RF-kill; fair | success means answered (`SyncMeansAnswered`), answers complete their own command (`NoStaleCompletion`) and do not touch one that is gone (`SourceIsLive`), senders return (`CommandsReturn`) |
| `restart` | old escalation list, seven errors, three openings | a requested reset has a worker (`PendingHasWorker`), a failure has a reset under way (`FailureIsClaimed`) |
| `restart_recovery` | list with TOP reset, five errors, device not closed; fair | `DumpBeforeReset`, `NoSwResetLoop`, `RecoveryHappens` |
| `restart_backoff` | old list, six errors; fair | `RecoveryHappens` **violated** |
| `reorder` | two RX queues, buffer of 4, numbers wrapping at 16, three MPDUs with an A-MSDU, copies, two syncs, firmware death | implements `InOrderDelivery` (`DeliversInOrder`), a queue that is up to date holds nothing behind NSSN (`NothingStranded`), a sync that succeeds leaves nothing to purge (`SyncFlushes`) |
| `tx_ba` | two sessions, two threads, rekey, DELBA, late and repeated answers; fair | `NoStartRace`, `TxPathsFinished`, `NoTxHangs`, `TimersBelongToSession`, `SessionsSettle` |
| `tx_ba_frag` | the same with fragments; fair | `TxqResumes` **violated** |
| `mlme` | two requests to two APs, open or SAE, everything lost or late, polls, scans, interface down; fair | `NothingStuck`, `PhaseAgrees`, `AttemptsEnd`, and the limits on tries in `TypeOK` |
| `roc` | three periods on a P2P device and a station, a scan, a crash, a close; fair | reports reach the period they are for (`NoStaleReady`), a session serves the first period (`SessionOwned`), periods and deferred scans end (`RequestsEnd`) |
| `roc_close` | two periods, a scan, a close; fair | `DeferredScanRuns` **violated** |

Each module's type invariant is checked by one of its runs. The comments at
the definitions say what each property means for the code. Each property of a
passing run has a mutant: a plausible bug in the modelled code (defined beside
the original, and named in `PROJECT.json`) for which TLC finds it violated.

## 4. Bounds and fairness

* **RX.** Batches 2/4 (the driver: 2/8) and a ring of 16 keep the arithmetic
  the same and the emergency mode reachable. The interplay of several queues is
  covered by the proofs, which hold for every number of queues and all sizes;
  the run adds liveness. That depends on sizes: with `n` queues roughly
  `QueueSize/2 + n * ((CLAIM - 1) + (WrAlign - 1))` buffers must be fewer than
  `QueueSize - 1`, or all may be held back as remainders. It holds with the
  driver's (at least 512 buffers, batches of 8, 16 queues); a ring of 16 with
  one queue is the small instance with the same slack.
* **TX.** A window of 8 has the marks 4 and 2 that `iwl_queue_init` gives any
  small queue. Seven frames fit before the third burst overflows, and the
  fourth waits in mac80211 behind the stop: twelve frames make stop, overflow,
  reclaim, overflow transmission, wake and the transmission that follows it
  happen, in all interleavings. One frame that cannot be mapped
  (`MaxDmaFails`) reaches both places that handle the error. The device sends
  and reports in one step: frames it sent without a report are frames the
  driver does not know to be sent. Start index 7 makes pointers wrap at both sizes. One
  assumption matters to `StopIsWakeable`: a burst is not longer than
  `low_mark - high_mark + 3` frames (5 with a window of 8). The theorem of
  section 6 needs no more, and less is not enough: bursts of 6 with a window of
  8, or of 8 with a window of 32 (bound 7), violate it. With the 1024 entries
  and more of HE stations the bound is 131 or above, and GSO bursts (some 45
  frames) are within it; with the 256 entries of older stations it is 35, and
  only bursts up to that are covered.
* **Host commands.** A window of 4 needs four commands to fill; the fifth finds
  it so.
* **Recovery.** The old list has five steps, so seven errors go past it and
  through the back-off; the list with TOP reset gets its TOP steps, reprobes
  and the TOP interrupts with five. `MaxOpens = 1` means that the user does
  not close the device.
  That restriction is real: with a close and reopen while the restart work
  waits for the wiphy lock, the work can reset a new failure without a dump,
  and an error seven seconds later in the reopened device can be answered by
  a second SW reset.

* **Reordering.** The window starts at 14 of 16, so numbers and list indices wrap
  inside the run. Three MPDUs, one an A-MSDU, on two queues give holes, frames
  beyond a hole, the release through the other queue, and a stored sub-frame
  behind an NSSN that moved. Two copies: one after another on a queue, or one
  on each. Two syncs: one that times out and the one that ends the session. The
  proofs of section 6 have no such bounds.
* **TX sessions.** Two sessions let the end of one meet the request for the
  next, and its late timers and answers. Two transmitters are needed for one to
  leave its frame to the other; two frames fill the hardware queue, so that a
  start is delayed.
* **MLME.** Two requests to two APs: repeating, replacing and following a
  connection. Two tries reach both the retry and giving up.
* **Periods.** Three periods: one running, one combined with it or queued, one
  asked for later; on two interfaces, one of them with two activities. One
  duration: which of two is longer only decides about combining, and the model
  decides both ways as time passes. A scan, a crash and a close may fall
  anywhere. The scan is of an interface that is not closed.

Fairness is weak fairness of threads, works, pollers and timers: the kernel
runs what is runnable, and a 2-second wait ends. The device is assumed to send
frames it was given and to report them (`TxQueue`); nothing is assumed about
when buffers are closed (`RxAllocator`), whether the firmware answers
(`HostCmd`), or whether the user opens or closes anything (`TransRestart`).
`TxBaSession` assumes the session work, softirqs, expiring timers and the
reclaim, nothing of the peer; `StationMlme` that time passes, the timer fires and
works run, nothing of the APs; `RemainOnChannel` that works run, a crash leads
to a restart, and the firmware starts and ends the sessions and scans it
accepted, which is its contract, and nothing of userspace.

`CHECK_DEADLOCK FALSE` is set where behaviours end because a bound on frames,
commands or errors is used up. `RxAllocator` has no such bound and is checked
for deadlock.

## 5. Disagreements between the code and its comments

Each of the first three is a run that must fail; `PROJECT.json` quotes the lines.

1. **`restart_backoff`**: `iwl_trans_restart_wk` clears `STATUS_RESET_PENDING`
   before it decides to back off and re-queue itself; the delayed run finds
   the bit clear and returns. The reset is not delayed but dropped, and
   `STATUS_TRANS_RESET_IN_PROGRESS` stays set.
2. **`tx_ba_frag`**: the session work stops the txq for a request it then puts
   off because of fragments; a DELBA or a rekey drops the request, and nobody
   starts the txq again.
3. **`roc_close`**: `ieee80211_roc_purge` ends a running hardware period without
   starting what waits for it. A deferred scan, and a period of another
   interface, wait until some later period ends; new scans get `-EBUSY`.

Met on the way, with no run of their own:

* Host commands: when all `n_window` entries are used, `iwl_txq_used` cannot tell
  that from none (`tx.c:1075`) and `iwl_pcie_cmdq_reclaim` reclaims nothing until
  the device is reset, although `tx-gen2.c:532` says that no entry needs to be
  kept free. The RF-kill interrupt wakes the sender of any command (`rx.c:1858`);
  with `SendInRfkill = TRUE`, as `mld` sends, `SyncMeansAnswered` fails: the
  command succeeds unanswered. `iwl_pcie_hcmd_complete` may have tested
  `CMD_WANT_SKB` just before the sender takes it back and returns (`tx.c:2643`).
* RX: a failed atomic allocation at the end of an emergency poll leaves RBDs
  that no counter tracks (`rx.c:1647`).
* TX: a wait for an empty queue that times out looks at the pointers only and
  may report success while overflowed frames wait (`trans.c:2637`). The segments
  of a GSO skb go on the ring while the reclaim sends the overflow queue,
  against "We stopped tx, so we can't have tx as well". The error of
  `iwl_trans_tx` for an overflowed frame is ignored and the frame is lost. The
  reclaim tests the space and wakes the queue without `txq->lock` in between;
  a burst longer than `low_mark - high_mark + 3` frames, sent by another thread
  between the two, can leave frames in the overflow queue of a queue that
  is not marked as stopped, where no reclaim looks for them before the queue is
  stopped again.
* Recovery: an error reported while the device is stopped makes
  `iwl_mld_sw_reset` set `in_hw_restart` after the stop cleared it
  (`mld.c:767`); the next start is then taken for a restart.
* Reordering: the list of a frame is `sn % buf_size` (`agg.c:295`), and `buf_size`
  is what the peer asked for. If it does not divide 4096, two numbers of one
  window share a list when numbers wrap, and the release of one takes the other
  along: with `BufSize = 3`, `DeliversInOrder` fails. Hence the hypothesis
  `Aligned` of the proofs.
* TX sessions: rate scaling writes `IWL_AGG_QUEUED` after its request was dropped
  or denied, nothing resets it, and the TID never aggregates again
  (`rs.c:603`). A request made while a rekey blocks sessions waits for some
  other cause to run the work.
* MLME: continuing an authentication while a restart is pending fails after
  `auth_data` was dropped with its station kept (`mlme.c:9379`; set
  `ContFails = TRUE` and `PhaseAgrees` fails). A beacon loss overwrites a
  connection loss that was not handled yet, and `driver_disconnect` can be left
  over for the next one (`mlme.c:4657`). A late TX status shortens the wait of an
  authentication that is complete (`mlme.c:8483`). The come-back time is compared
  in milliseconds with jiffies (`mlme.c:6634`).
* Periods: in a restart, the flush of `hw_roc_done` in `ieee80211_reconfig_roc`
  may start the next period, the loop behind it marks it as not started and
  asks for it again; `iwl_mld_start_roc` warns and refuses, and a firmware session
  stays without an owner. A purge leaves `hw_roc_start` and `hw_roc_done` queued,
  which then report or end the next period. A period combined with one that is
  scheduled but has not begun stays unstarted between started ones, against the
  comment in `ieee80211_coalesce_hw_started_roc`, so that cancelling a later one
  reaches `WARN_ON(found)`, "that really must not happen". `Regular` excludes the
  first two; the third is in the model (`"kept"`).

## 6. What is proved

`RxAllocatorProofs` proves, for any finite set of queues, any ring and batch
sizes (`0 < RX_POST_REQ_ALLOC < RX_CLAIM_REQ_ALLOC`) and with allocation
failures allowed:

* `RxTypeCorrect`: no list is taken from when it is empty;
* `RxNeverOutOfRbds`: the allocator's `BUG_ON` never fires;
* `RxClaimsAreCovered`: `list_first_entry` in `iwl_pcie_rx_allocator_get`
  always finds an entry;
* `RxRingsNeverFull`: restocking needs no space check.

None of these is inductive. The invariant `IInv` is an account of RBDs:

* `PollerInv`, `WorkInv`: what each program counter says about the locals, and
  about the local list of the allocator;
* `GroupInv`: how many RBDs of its current group of `CLAIM` a queue still
  keeps; a queue that has handed over `POST` of them has posted a request;
* `CreditInv`: the empty RBDs owned by the allocator cover `CLAIM` for each
  pending request, plus `Slack`, what each queue may still ask for in advance
  of handing it over. This is why the pool holds `CLAIM - POST` per queue;
* `ReadyInv`: `rbd_allocated` covers the requests counted in `req_ready`, the
  pollers between their decrement and the lock, and the batch about to be
  counted;
* `CirculationInv`: the RBDs outside the allocator never number more than
  `QueueSize - 1`.

`Slack` and the circulation are sums over queues; `Counting` defines such a sum
as the cardinality of a set of tokens, which needs no recursion, and proves
how it changes with one or two summands, with the facts about remainders that
the groups of `CLAIM` need. The assumptions are the named `ASSUME`s of
`RxAllocator`, which TLC evaluates in every RX run. `IInv` itself was checked
with TLC before it was proved.

`TxQueueProofs` proves, for any window of 8 or more that divides a larger
ring, any number of threads and of frames:

* `TxTypeCorrect`, `TxRingHoldsFrames`: the pointers keep apart by less than
  the window, and every entry between them holds a frame;
* `TxNoEarlyFree`: the reclaim frees nothing the device has not sent;
* `TxWaitMeansEmpty`: a wait that reports success saw an empty queue;
* `TxStopIsWakeable`, if no burst exceeds `Fit = LowMark - HighMark + 3`: mac80211
  is held back, and frames wait in the overflow queue, only while the bit that
  makes the reclaim wake the queue is set (section 4 on why the hypothesis is
  needed, and exact).

The invariant `RingInv` orders the five pointers around the ring: what is
reclaimed, the responses under way, the device's pointer and `write_ptr` follow
each other from `read_ptr` (`PointersInOrder`, `NotifsInOrder`). That the
reclaim may compare indices masked with `n_window` follows from the distance
being smaller than the window. `WorkerInv` says that one thread at a time
drains mac80211's queue, `FramesHeld` that the part of the ring not yet freed
holds frames, `WaitInv` what the waiting thread has seen. For stops, `StopInv`
relates the bits of the two sides, `BurstInv` what is left of a burst to the
space it started with, and `RoomInv` how much room there is between the
unlocked test of the reclaim and its wake-up.

`HostCmdProofs` proves, for any ring, window and number of commands:

* `CmdTypeCorrect` and `CmdQueueInvariant`: host, firmware and completion
  follow each other around the ring, answers under way are in order;
* `CmdSourceIsLive`: no answer is written to a sender's command that is gone;
* `CmdSyncMeansAnswered`, `CmdNoStaleCompletion` (action properties): success
  means answered, and an answer wakes nobody else's sender.

The last three assume `[]RfkillSeen`: with `CMD_SEND_IN_RFKILL` the radio stays
on. Without it they are false (section 5); an op-mode that does not set the flag
satisfies it trivially. The entries not yet answered are a stretch of the
window (`Outstanding`) that grows at `write_ptr` and shrinks where the RX
context is. `SenderInv` allows one synchronous command in it, `OwnInv` says that
this is the sender's own unless firmware or radio have stopped, and `WakeInv`
what a sender that is woken may conclude.

`TransRestartProofs` proves, for any number of errors and openings and for both
escalation lists, `RestartTypeCorrect` (the list is not read past its end),
`ResetIsNotForgotten` (`PendingHasWorker`) and `FailureIsNotHidden`
(`FailureIsClaimed`, from `FailureInv`, which covers the phases of a start in
which the new firmware may fail already). For a device that is not closed and
reopened (`MaxOpens <= 1`, section 4) it proves `DumpPrecedesReset` and
`SwResetsDoNotLoop`, an action property. `OwnershipInv` is the argument: the reset
in progress has one owner, which is the reporting thread, the queued work,
the running work, mac80211's queued restart, or its stop and start.

`TxBaSessionProofs` proves, for any number of transmitting contexts, sessions
and queue lengths, `TxBaTypeCorrect`, `TxBaNoStartRace`, `TxBaPathsFinished` (what
`synchronize_net` is there for), `TxBaTimers` and `TxBaNoTxHangs` (three values of
`tx_request` suffice). The invariant `IInv` joins them with `WorkerInv` (one thread
drains the txq), `SessionInv` (the order in which a session's bits are set),
`TimerInv` (timers are off at its beginning and end), `DriverInv` (the driver's
session lies inside mac80211's), `FlightInv` (who `synchronize_net` waits for)
and `HangInv` (nobody leaves a queue that could be served).

`StationMlmeProofs` proves, for any set of APs and any limits on tries, times
and requests, `MlmeTypeCorrect` (the limits on tries hold), `MlmeNothingStuck`
(whatever waits has the shared timer or a queued work) and, if continuing an
authentication cannot fail (`~ContFails`, section 5), `MlmePhaseAgrees`. Since
each function of the code is an operator on the state of the interface, there is
one lemma for each: it leaves the interface `Calm` (one phase at most, a poll only
of a connection, a scan put off only for a poll, userspace informed) and the
stations in agreement if they were before (`Keeps`). `Awake`, that an attempt has
something to wake it, does not hold between the functions of a work, since each
phase that ends deletes the timer they share; `StaWorkKeeps` shows that the work as
a whole restores it from nothing. The invariant `IInv` is `Calm` and `Awake`.

`ReorderBufferProofs` proves, for any number of queues, any window that fits
twice into the sequence numbers, any run of MPDUs with any of them A-MSDUs, and
any number of retransmissions and synchronisations:

* `TypeCorrect`: `head_sn` stays a sequence number, and `num_stored` counts the
  frames in the lists;
* `NoFrameStranded`: a queue without messages to handle keeps nothing behind
  NSSN, although the release loop visits only the lists from `head_sn` to NSSN
  and NSSN moves for frames on other queues;
* `FlushIsComplete` (an action property): a synchronisation that ends the
  session and succeeds leaves nothing to purge;
* `Refinement`: every behaviour is one of `InOrderDelivery`.

All of them assume `Aligned`, that `BufSize` divides `SnMod`: two numbers of one
window then never share a list (`IndexSn`, `SlotsDiffer`). Windows of 64, 256 or 1024
satisfy it; the driver does not ask for it, and without it the refinement is
false (section 5). What a queue needs to know is in its future: a message
that will move its head, the frames that come before it, and the NSSN that
earlier messages promised. So `QueueOK` says that there is a sequence `hs`
of heads, one for each message under way and one for the end: the first is the
number that `head_sn` stands for, the last is the firmware's NSSN, each
message moves one to the next and is legal where it is (`MessageOK`), the lists
hold the window from the first on (`Window`), and what was delivered lies before
it (`InLine`). Numbers in `hs` are not modulo `SnMod`; `SnSteps` shows that
the code's comparison modulo `SnMod` agrees with them a window apart. `QueueInv`
says until when this holds: to the flush of the queue, or the death of the
firmware. `Released` and the lemmas before it show what the loop hands over:
`FlattenSeq` is unfolded by induction over a set (`SetInduction`, from the
well-foundedness of the natural numbers, since an operator cannot be a
parameter).

`Counting` also holds the arithmetic of rings, `Dist` and how it changes when a
pointer advances, which the queues share. The only assumptions are the named
`ASSUME`s of the modules, which TLC evaluates, and the hypotheses above. Each
inductive invariant was first checked by TLC on the instance of its run.

Only model-checked: all liveness (fairness and `ENABLED` are out of the
prover's reach); and `RemainOnChannel` with its `TypeOK`, `NoStaleReady` and
`SessionOwned`. Its works and flushes are folds of a step that is itself an
operator, over the queued works and notifications, and what one of them leaves
for the next is an invariant of the fold: that is induction over data for every
operation the device has, and not done.

## 7. What is not modelled

* RX: the single-queue ring of old devices and its deferred pointer update;
  the contents of buffers.
* TX: allocation and removal of queues, the watchdog firing, frozen queues,
  TFD contents, the gen1 transmission. A flush is answered after the earlier
  notifications; mac80211 stops its queues during a flush or wait; the station
  exists when its queue is woken.
* Host commands: layout, `CMD_BLOCK_TXQS`, a firmware that skips an answer
  ("HCMD skipped"), suspend.
* Recovery: suspend and resume, debugfs triggers, `fw_restart=0`, failing module
  references and allocations, the firmware load of the op-mode's start, dumps'
  contents, op-modes other than `mld`, two errors reported by two threads at
  once.
* Reordering: the session timer, changes of the station mask, decryption and
  rate reports, liveness of held frames (the firmware decides).
* TX sessions: destruction of the station, reconfiguration, suspend, the pending
  queue of drivers without txqs, the limit on retries, shared hardware queues.
* MLME: channel switch, MLO links and TTLM, TSPECs, TDLS, shared-key
  authentication, suspend, hardware without TX status or connection monitor,
  failing allocations, a hardware restart while connecting.
* Periods: the software implementation, EMLSR blocking and the auxiliary station
  (part of whether a start succeeds), failing atomic allocations of
  notifications, a scan whose interface is closed, session protection.
* The components marked `not_modelled` in `PROJECT.json`: register and bus I/O,
  file and table parsing, data layouts, debugging aids; and those planned.

The repository has some 260,000 lines. By far the most are register sequences,
command and element layouts, device, rate and regulatory tables, parsers,
debugfs and dump formatting, and three generations of op-modes that build
commands from configuration; there is no state machine in them that a model
could be about. What is modelled here is a selection of those that there are,
and the mapped lines are a few per cent of the total.

## 8. Plan

Done: `RxAllocator`, `TxQueue`, `TransRestart`, `HostCmd`, `TxBaSession`,
`StationMlme` and `ReorderBuffer` with proofs of all their safety properties, the
last with its refinement of `InOrderDelivery`; `RemainOnChannel`, model-checked.

Next, in this order: `NotifWait` (`fw/notif-wait.c`, with the firmware load of
`mld/fw.c`); session protection and scan status of `mld` against late firmware
events, composed with `RemainOnChannel`; `QueueStop` (stop reasons of
`mac80211/util.c`); stations with power save; channel contexts.

Theorem to prove next: `SessionOwned` of `RemainOnChannel`, from an invariant of
its `m` that each function of the code keeps, as in `StationMlmeProofs`, with one
induction for `FlushAll` and one for `AsyncHandlers`.
