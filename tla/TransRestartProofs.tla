------------------------- MODULE TransRestartProofs -------------------------
(***************************************************************************)
(* Proofs about TransRestart, for every bound on errors and opens and with *)
(* or without the TOP.                                                     *)
(*                                                                         *)
(* TypeOK needs that the escalation index stays in the list.               *)
(* PendingHasWorker is inductive with the types; FailureIsClaimed needs    *)
(* FailureInv, which also speaks of the phases of a start in which the     *)
(* new firmware may already fail.  DumpBeforeReset and NoSwResetLoop, of a *)
(* device nobody closes, need an account of who owns the reset in          *)
(* progress: the detecting thread, the queued work, the running work, the  *)
(* queued restart of mac80211, or mac80211's stop and start (OwnershipInv).*)
(***************************************************************************)
EXTENDS TransRestart, TLAPS

\* Both escalation lists have entries and hold modes of the restart work.
LEMMA EscalationFacts ==
    /\ Len(Escalation) \in Nat \ {0}
    /\ \A i \in 1..Len(Escalation) :
          Escalation[i] \in {"sw", "reprobe", "func", "prod", "top"}
<1>1. CASE TopSupported  BY <1>1 DEF Escalation
<1>2. CASE ~TopSupported
  BY <1>2 DEF Escalation
<1>. QED  BY <1>1, <1>2

\* iwl_trans_determine_restart_mode never reads past the list.
LEMMA RestartModeType ==
    TypeOK => RestartMode \in {"sw", "reprobe", "func", "prod", "top"}
<1>. SUFFICES ASSUME TypeOK
              PROVE  RestartMode \in {"sw", "reprobe", "func", "prod", "top"}
  OBVIOUS
<1>. DEFINE i == IF TooMany THEN Len(Escalation) ELSE Count + 1
<1>1. i \in 1..Len(Escalation)
  BY EscalationFacts DEF TooMany, Count, TypeOK
<1>2. Escalation[i] \in {"sw", "reprobe", "func", "prod", "top"}
  BY <1>1, EscalationFacts
<1>. QED  BY <1>2 DEF RestartMode

\* TypeOK, the flags one by one and in groups.
TransFlags ==
    /\ trans_dead \in BOOLEAN /\ reset_in_progress \in BOOLEAN
    /\ reset_pending \in BOOLEAN /\ in_sw_reset \in BOOLEAN
    /\ fw_error \in BOOLEAN /\ enabled \in BOOLEAN

RestartFlags ==
    /\ during_reset \in BOOLEAN /\ request_top_reset \in BOOLEAN
    /\ do_top_reset \in BOOLEAN /\ backoff \in BOOLEAN
    /\ recent \in BOOLEAN /\ reprobe \in BOOLEAN

MacFlags ==
    /\ up \in BOOLEAN /\ restart_hw \in BOOLEAN
    /\ running \in BOOLEAN /\ in_hw_restart \in BOOLEAN
    /\ restart_required \in BOOLEAN /\ dumped \in BOOLEAN

Flags == TransFlags /\ RestartFlags /\ MacFlags

\* The rest of TypeOK.
Fields ==
    /\ mode_type \in {"fw", "top_fatal", "top_failed", "top_by_bt"}
    /\ err_type \in {"fw", "top_fatal", "top_failed", "top_by_bt"}
    /\ context \in {"worker", "abort"}
    /\ restart_count \in 0..Len(Escalation)
    /\ wk \in {"idle", "dump", "clear", "mode", "sw", "sw_reset", "top",
               "reprobe", "func", "prod"}
    /\ wq \in {"no", "now", "delayed"}
    /\ det \in {"idle", "nic_error", "schedule", "pending", "queue"}
    /\ op \in {"idle", "pre_clear", "pre_stop", "pre_stopped", "clear", "stop",
               "stopped", "start_hw", "start_fw", "top", "top_failed", "alive",
               "reconfig"}
    /\ reason \in {"open", "restart", "close"}
    /\ errors \in 0..MaxErrors /\ opens \in 0..MaxOpens

\* TypeOK in the form the provers take.
LEMMA TypeOKFlags == TypeOK <=> Flags /\ Fields
<1>1. Flags <=>
        {trans_dead, reset_in_progress, reset_pending, in_sw_reset, fw_error,
         enabled, during_reset, request_top_reset, do_top_reset, backoff,
         recent, reprobe, up, restart_hw, running, in_hw_restart,
         restart_required, dumped} \subseteq BOOLEAN
  BY Zenon DEF Flags, TransFlags, RestartFlags, MacFlags
<1>. QED  BY <1>1, Zenon DEF TypeOK, Fields

\* The initial state is typed.
LEMMA TypeInit == Init => TypeOK
<1>1. Init => Flags  BY DEF Init, Flags, TransFlags, RestartFlags, MacFlags
<1>2. Init => Fields  BY RestartAssumption, EscalationFacts DEF Init, Fields
<1>. QED  BY <1>1, <1>2, TypeOKFlags

\* Every step keeps the types, ChooseMode because the index is in the list.
LEMMA TypeStep == TypeOK /\ [Next]_vars => TypeOK'
<1>1. Flags /\ [Next]_vars => Flags'
  <2>. SUFFICES ASSUME Flags, [Next]_vars PROVE Flags'
    OBVIOUS
  <2>. USE DEF Flags, TransFlags, RestartFlags, MacFlags, bits, mode, top,
               data, detector, mac, transport
  <2>0. CASE UNCHANGED vars  BY <2>0 DEF vars
  <2>1. CASE FwError  BY <2>1 DEF FwError, Detects
  <2>2. CASE TopFatal  BY <2>2 DEF TopFatal, Detects
  <2>3. CASE TopByBt  BY <2>3 DEF TopByBt, Detects
  <2>4. CASE NicError  BY <2>4 DEF NicError
  <2>5. CASE ScheduleReset
    <3>1. TransFlags'  BY <2>5 DEF ScheduleReset
    <3>2. RestartFlags'  BY <2>5 DEF ScheduleReset
    <3>3. MacFlags'  BY <2>5 DEF ScheduleReset
    <3>. QED  BY <3>1, <3>2, <3>3
  <2>6. CASE SetPending
    <3>1. TransFlags'  BY <2>6 DEF SetPending
    <3>2. RestartFlags'  BY <2>6 DEF SetPending
    <3>3. MacFlags'  BY <2>6 DEF SetPending
    <3>. QED  BY <3>1, <3>2, <3>3
  <2>7. CASE QueueWork  BY <2>7 DEF QueueWork
  <2>8. CASE WorkStart  BY <2>8 DEF WorkStart
  <2>9. CASE DumpError
    <3>1. TransFlags'  BY <2>9 DEF DumpError
    <3>2. RestartFlags'  BY <2>9 DEF DumpError
    <3>3. MacFlags'  BY <2>9 DEF DumpError
    <3>. QED  BY <3>1, <3>2, <3>3
  <2>10. CASE ClearPending
    <3>1. TransFlags'  BY <2>10 DEF ClearPending
    <3>2. RestartFlags'  BY <2>10 DEF ClearPending
    <3>3. MacFlags'  BY <2>10 DEF ClearPending
    <3>. QED  BY <3>1, <3>2, <3>3
  <2>11. CASE Backoff  BY <2>11 DEF Backoff
  <2>12. CASE ChooseMode  BY <2>12 DEF ChooseMode
  <2>13. CASE TopReset  BY <2>13 DEF TopReset
  <2>14. CASE SwReset  BY <2>14 DEF SwReset
  <2>15. CASE RestartNic
    <3>1. TransFlags'  BY <2>15 DEF RestartNic
    <3>2. RestartFlags'  BY <2>15 DEF RestartNic
    <3>3. MacFlags'  BY <2>15 DEF RestartNic
    <3>. QED  BY <3>1, <3>2, <3>3
  <2>16. CASE ScheduleReprobe  BY <2>16 DEF ScheduleReprobe
  <2>17. CASE PcieReset  BY <2>17 DEF PcieReset
  <2>18. CASE DelayOver  BY <2>18 DEF DelayOver
  <2>19. CASE Reprobe  BY <2>19 DEF Reprobe
  <2>20. CASE TimePasses
    <3>1. TransFlags'  BY <2>20 DEF TimePasses
    <3>2. RestartFlags'  BY <2>20 DEF TimePasses
    <3>3. MacFlags'  BY <2>20 DEF TimePasses
    <3>. QED  BY <3>1, <3>2, <3>3
  <2>21. CASE Open  BY <2>21 DEF Open, DrvStart
  <2>22. CASE Close
    <3>1. TransFlags'  BY <2>22 DEF Close
    <3>2. RestartFlags'  BY <2>22 DEF Close
    <3>3. MacFlags'  BY <2>22 DEF Close
    <3>. QED  BY <3>1, <3>2, <3>3
  <2>23. CASE RestartWork
    <3>1. TransFlags'  BY <2>23 DEF RestartWork, DrvStart
    <3>2. RestartFlags'  BY <2>23 DEF RestartWork, DrvStart
    <3>3. MacFlags'  BY <2>23 DEF RestartWork, DrvStart
    <3>. QED  BY <3>1, <3>2, <3>3
  <2>24. CASE RestartWorkClosed
    <3>1. TransFlags'  BY <2>24 DEF RestartWorkClosed
    <3>2. RestartFlags'  BY <2>24 DEF RestartWorkClosed
    <3>3. MacFlags'  BY <2>24 DEF RestartWorkClosed
    <3>. QED  BY <3>1, <3>2, <3>3
  <2>25. CASE StopClear
    <3>1. TransFlags'  BY <2>25 DEF StopClear
    <3>2. RestartFlags'  BY <2>25 DEF StopClear
    <3>3. MacFlags'  BY <2>25 DEF StopClear
    <3>. QED  BY <3>1, <3>2, <3>3
  <2>26. CASE StopDevice
    <3>1. TransFlags'  BY <2>26 DEF StopDevice
    <3>2. RestartFlags'  BY <2>26 DEF StopDevice
    <3>3. MacFlags'  BY <2>26 DEF StopDevice
    <3>. QED  BY <3>1, <3>2, <3>3
  <2>27. CASE PreStopped
    <3>1. TransFlags'  BY <2>27 DEF PreStopped
    <3>2. RestartFlags'  BY <2>27 DEF PreStopped
    <3>3. MacFlags'  BY <2>27 DEF PreStopped
    <3>. QED  BY <3>1, <3>2, <3>3
  <2>28. CASE Stopped
    <3>1. TransFlags'  BY <2>28 DEF Stopped
    <3>2. RestartFlags'  BY <2>28 DEF Stopped
    <3>3. MacFlags'  BY <2>28 DEF Stopped
    <3>. QED  BY <3>1, <3>2, <3>3
  <2>29. CASE StartHw
    <3>1. TransFlags'  BY <2>29 DEF StartHw
    <3>2. RestartFlags'  BY <2>29 DEF StartHw
    <3>3. MacFlags'  BY <2>29 DEF StartHw
    <3>. QED  BY <3>1, <3>2, <3>3
  <2>30. CASE StartFw
    <3>1. TransFlags'  BY <2>30 DEF StartFw
    <3>2. RestartFlags'  BY <2>30 DEF StartFw
    <3>3. MacFlags'  BY <2>30 DEF StartFw
    <3>. QED  BY <3>1, <3>2, <3>3
  <2>31. CASE TopResetDone
    <3>1. TransFlags'  BY <2>31 DEF TopResetDone
    <3>2. RestartFlags'  BY <2>31 DEF TopResetDone
    <3>3. MacFlags'  BY <2>31 DEF TopResetDone
    <3>. QED  BY <3>1, <3>2, <3>3
  <2>32. CASE StartFails  BY <2>32 DEF StartFails
  <2>33. CASE Started  BY <2>33 DEF Started
  <2>34. CASE ReconfigComplete
    <3>1. TransFlags'  BY <2>34 DEF ReconfigComplete
    <3>2. RestartFlags'  BY <2>34 DEF ReconfigComplete
    <3>3. MacFlags'  BY <2>34 DEF ReconfigComplete
    <3>. QED  BY <3>1, <3>2, <3>3
  <2>. QED
    BY <2>0, <2>1, <2>2, <2>3, <2>4, <2>5, <2>6, <2>7, <2>8, <2>9, <2>10,
       <2>11, <2>12, <2>13, <2>14, <2>15, <2>16, <2>17, <2>18, <2>19, <2>20,
       <2>21, <2>22, <2>23, <2>24, <2>25, <2>26, <2>27, <2>28, <2>29, <2>30,
       <2>31, <2>32, <2>33, <2>34
       DEF Next, Detect, Work, Mac80211
<1>2. TypeOK /\ Fields /\ [Next]_vars => Fields'
  <2>. SUFFICES ASSUME TypeOK, Fields, [Next]_vars PROVE Fields'
    OBVIOUS
  <2>. USE RestartAssumption
       DEF Fields, bits, mode, top, data, detector, mac, transport
  <2>0. CASE UNCHANGED vars  BY <2>0 DEF vars
  <2>1. CASE FwError  BY <2>1 DEF FwError, Detects
  <2>2. CASE TopFatal  BY <2>2 DEF TopFatal, Detects
  <2>3. CASE TopByBt  BY <2>3 DEF TopByBt, Detects
  <2>4. CASE NicError  BY <2>4 DEF NicError
  <2>5. CASE ScheduleReset  BY <2>5 DEF ScheduleReset
  <2>6. CASE SetPending  BY <2>6 DEF SetPending
  <2>7. CASE QueueWork  BY <2>7 DEF QueueWork
  <2>8. CASE WorkStart  BY <2>8 DEF WorkStart
  <2>9. CASE DumpError  BY <2>9 DEF DumpError
  <2>10. CASE ClearPending  BY <2>10 DEF ClearPending
  <2>11. CASE Backoff  BY <2>11 DEF Backoff
  <2>12. CASE ChooseMode
    <3>1. wk' \in {"sw", "reprobe", "func", "prod", "top"}
      BY <2>12, RestartModeType DEF ChooseMode
    <3>2. restart_count' \in 0..Len(Escalation)
      BY <2>12, EscalationFacts DEF ChooseMode, Count
    <3>. QED  BY <2>12, <3>1, <3>2 DEF ChooseMode
  <2>13. CASE TopReset  BY <2>13 DEF TopReset
  <2>14. CASE SwReset  BY <2>14 DEF SwReset
  <2>15. CASE RestartNic  BY <2>15 DEF RestartNic
  <2>16. CASE ScheduleReprobe  BY <2>16 DEF ScheduleReprobe
  <2>17. CASE PcieReset  BY <2>17 DEF PcieReset
  <2>18. CASE DelayOver  BY <2>18 DEF DelayOver
  <2>19. CASE Reprobe  BY <2>19 DEF Reprobe
  <2>20. CASE TimePasses  BY <2>20 DEF TimePasses
  <2>21. CASE Open  BY <2>21 DEF Open, DrvStart
  <2>22. CASE Close  BY <2>22 DEF Close
  <2>23. CASE RestartWork  BY <2>23 DEF RestartWork, DrvStart
  <2>24. CASE RestartWorkClosed  BY <2>24 DEF RestartWorkClosed
  <2>25. CASE StopClear  BY <2>25 DEF StopClear
  <2>26. CASE StopDevice  BY <2>26 DEF StopDevice
  <2>27. CASE PreStopped  BY <2>27 DEF PreStopped
  <2>28. CASE Stopped  BY <2>28 DEF Stopped
  <2>29. CASE StartHw  BY <2>29 DEF StartHw
  <2>30. CASE StartFw  BY <2>30 DEF StartFw
  <2>31. CASE TopResetDone  BY <2>31 DEF TopResetDone
  <2>32. CASE StartFails  BY <2>32 DEF StartFails
  <2>33. CASE Started  BY <2>33 DEF Started
  <2>34. CASE ReconfigComplete  BY <2>34 DEF ReconfigComplete
  <2>. QED
    BY <2>0, <2>1, <2>2, <2>3, <2>4, <2>5, <2>6, <2>7, <2>8, <2>9, <2>10,
       <2>11, <2>12, <2>13, <2>14, <2>15, <2>16, <2>17, <2>18, <2>19, <2>20,
       <2>21, <2>22, <2>23, <2>24, <2>25, <2>26, <2>27, <2>28, <2>29, <2>30,
       <2>31, <2>32, <2>33, <2>34
       DEF Next, Detect, Work, Mac80211
<1>. QED  BY <1>1, <1>2, TypeOKFlags, PTL

----------------------------------------------------------------------------
\* The state of the recovery has its types; in particular the restart count
\* stays an index of the escalation list, whatever the order of errors.
THEOREM RestartTypeCorrect == Spec => []TypeOK
  BY TypeInit, TypeStep, PTL DEF Spec

\* Whoever gives a request away leaves it to somebody else.
LEMMA PendingStep ==
    TypeOK /\ PendingHasWorker /\ [Next]_vars => PendingHasWorker'
<1>. SUFFICES ASSUME Fields, PendingHasWorker, [Next]_vars
              PROVE  PendingHasWorker'
  BY TypeOKFlags
<1>. USE DEF Fields, PendingHasWorker, bits, mode, top, data, detector, mac,
    transport
<1>0. CASE UNCHANGED vars  BY <1>0 DEF vars
<1>1. CASE FwError \/ TopFatal \/ TopByBt
  BY <1>1 DEF FwError, TopFatal, TopByBt, Detects
<1>2. CASE Detect
  BY <1>2 DEF Detect, NicError, ScheduleReset, SetPending, QueueWork
<1>3. CASE Work
  BY <1>3 DEF Work, WorkStart, DumpError, ClearPending, Backoff, ChooseMode,
              TopReset, SwReset, RestartNic, ScheduleReprobe, PcieReset
<1>4. CASE DelayOver \/ Reprobe \/ TimePasses
  BY <1>4 DEF DelayOver, Reprobe, TimePasses
<1>5. CASE Open \/ Close  BY <1>5 DEF Open, Close, DrvStart
<1>6. CASE Mac80211
  BY <1>6 DEF Mac80211, DrvStart, RestartWork, RestartWorkClosed, StopClear,
              StopDevice, PreStopped, Stopped, StartHw, StartFw, TopResetDone,
              StartFails, Started, ReconfigComplete
<1>. QED  BY <1>0, <1>1, <1>2, <1>3, <1>4, <1>5, <1>6 DEF Next

\* A reset that was requested always has a worker that will see it, or the
\* device goes away: no request is lost although work is not queued twice.
THEOREM ResetIsNotForgotten == Spec => []PendingHasWorker
<1>1. Init => PendingHasWorker  BY DEF Init, PendingHasWorker
<1>. QED  BY <1>1, PendingStep, RestartTypeCorrect, PTL DEF Spec

\* A firmware that failed since it was last started has its reset claimed: the
\* reset is in progress, or the detecting thread has not asked for it yet.
\* Before StartFw the error bit may be stale, and so may the reset be over.
FailureInv ==
    fw_error /\ (op \in {"top", "top_failed", "alive", "reconfig"}
                    \/ (op = "idle" /\ up)) =>
        reset_in_progress \/ det \in {"nic_error", "schedule"} \/ trans_dead

\* StartHw ends the reset only where the error bit is about to be cleared.
LEMMA FailureStep == TypeOK /\ FailureInv /\ [Next]_vars => FailureInv'
<1>. SUFFICES ASSUME Fields, FailureInv, [Next]_vars PROVE FailureInv'
  BY TypeOKFlags
<1>. USE DEF Fields, FailureInv, bits, mode, top, data, detector, mac,
    transport
<1>0. CASE UNCHANGED vars  BY <1>0 DEF vars
<1>1. CASE FwError \/ TopFatal \/ TopByBt
  BY <1>1 DEF FwError, TopFatal, TopByBt, Detects
<1>2. CASE Detect
  BY <1>2 DEF Detect, NicError, ScheduleReset, SetPending, QueueWork
<1>3. CASE Work
  BY <1>3 DEF Work, WorkStart, DumpError, ClearPending, Backoff, ChooseMode,
              TopReset, SwReset, RestartNic, ScheduleReprobe, PcieReset
<1>4. CASE DelayOver \/ Reprobe \/ TimePasses
  BY <1>4 DEF DelayOver, Reprobe, TimePasses
<1>5. CASE Open \/ Close  BY <1>5 DEF Open, Close, DrvStart
<1>6. CASE Mac80211
  BY <1>6 DEF Mac80211, DrvStart, RestartWork, RestartWorkClosed, StopClear,
              StopDevice, PreStopped, Stopped, StartHw, StartFw, TopResetDone,
              StartFails, Started, ReconfigComplete
<1>. QED  BY <1>0, <1>1, <1>2, <1>3, <1>4, <1>5, <1>6 DEF Next

\* An open device whose firmware failed has its reset scheduled: no order of
\* errors, opens, closes and restarts leaves a stale bit that hides a failure.
THEOREM FailureIsNotHidden == Spec => []FailureIsClaimed
<1>1. Init => FailureInv  BY DEF Init, FailureInv
<1>2. FailureInv => FailureIsClaimed  BY DEF FailureInv, FailureIsClaimed
<1>. QED  BY <1>1, <1>2, FailureStep, RestartTypeCorrect, PTL DEF Spec

----------------------------------------------------------------------------
(* A device nobody closes: MaxOpens <= 1 *)

\* mac80211 stops the firmware and is about to start it.
Restarting == op \in {"pre_clear", "pre_stop", "pre_stopped", "start_hw"}

\* The detecting thread owns the reset.
Requested == det \in {"pending", "queue"}

\* A reset in progress has one owner at a time.
OneOwner ==
    /\ Requested => wq = "no"
    /\ Requested \/ wq # "no" => wk = "idle"
    /\ Requested \/ wq # "no" \/ wk # "idle" => ~restart_hw
    /\ Requested \/ wq # "no" \/ wk # "idle" \/ restart_hw => ~Restarting

\* Nothing of a reset is left when none is in progress; a start ends the reset
\* it belongs to, or comes before every error; a request is only made when no
\* earlier one is left; and a device not opened yet has nothing going on.
OwnerInv ==
    /\ ~reset_in_progress =>
          ~Requested /\ wq = "no" /\ wk = "idle" /\ ~restart_hw
    /\ Restarting => reset_in_progress \/ (det = "idle" /\ ~enabled)
    /\ reset_pending =>
          /\ reset_in_progress /\ det # "pending" /\ ~restart_hw
          /\ ~Restarting /\ wk \in {"idle", "dump", "clear"}
    /\ opens = 0 =>
          op = "idle" /\ ~up /\ ~enabled /\ det = "idle" /\ ~reset_in_progress

\* A request that still stands when the dump was made has its dump.
DumpInv ==
    /\ reset_pending \/ det = "pending" => context = "worker"
    /\ wk = "clear" /\ reset_pending => dumped
    /\ wk \in {"mode", "sw", "top", "reprobe"} => dumped

\* A request on its way knows whether it was made during a SW reset.
DuringInv ==
    det = "queue" \/ wq # "no" \/ wk \in {"dump", "clear", "mode"} =>
        (in_sw_reset => during_reset)

\* The inductive invariant of a device nobody closes.
OwnershipInv == OneOwner /\ OwnerInv /\ DumpInv /\ DuringInv

\* Each step hands the reset on, and only StartHw and a reprobe end it.
LEMMA OwnershipStep ==
    ASSUME MaxOpens <= 1
    PROVE  TypeOK /\ OwnershipInv /\ [Next]_vars => OwnershipInv'
<1>. SUFFICES ASSUME Fields, OwnershipInv, [Next]_vars
              PROVE  OwnershipInv'
  BY TypeOKFlags
<1>. USE RestartAssumption
     DEF Fields, OwnershipInv, OneOwner, OwnerInv, DumpInv, DuringInv,
         Restarting, Requested, bits, mode, top, data, detector, mac, transport
<1>0. CASE UNCHANGED vars  BY <1>0 DEF vars
<1>1. CASE FwError  BY <1>1 DEF FwError, Detects
<1>2. CASE TopFatal  BY <1>2 DEF TopFatal, Detects
<1>3. CASE TopByBt  BY <1>3 DEF TopByBt, Detects
<1>4. CASE NicError  BY <1>4 DEF NicError
<1>5. CASE ScheduleReset  BY <1>5 DEF ScheduleReset
<1>6. CASE SetPending  BY <1>6 DEF SetPending
<1>7. CASE QueueWork  BY <1>7 DEF QueueWork
<1>8. CASE WorkStart  BY <1>8 DEF WorkStart
<1>9. CASE DumpError  BY <1>9 DEF DumpError
<1>10. CASE ClearPending  BY <1>10 DEF ClearPending
<1>11. CASE Backoff  BY <1>11 DEF Backoff
<1>12. CASE ChooseMode  BY <1>12 DEF ChooseMode
<1>13. CASE TopReset  BY <1>13 DEF TopReset
<1>14. CASE SwReset  BY <1>14 DEF SwReset
<1>15. CASE RestartNic  BY <1>15 DEF RestartNic
<1>16. CASE ScheduleReprobe  BY <1>16 DEF ScheduleReprobe
<1>17. CASE PcieReset  BY <1>17 DEF PcieReset
<1>18. CASE DelayOver  BY <1>18 DEF DelayOver
<1>19. CASE Reprobe  BY <1>19 DEF Reprobe
<1>20. CASE TimePasses  BY <1>20 DEF TimePasses
<1>21. CASE Open  BY <1>21 DEF Open, DrvStart
<1>22. CASE Close  BY <1>22 DEF Close
<1>23. CASE RestartWork  BY <1>23 DEF RestartWork, DrvStart
<1>24. CASE RestartWorkClosed  BY <1>24 DEF RestartWorkClosed
<1>25. CASE StopClear  BY <1>25 DEF StopClear
<1>26. CASE StopDevice  BY <1>26 DEF StopDevice
<1>27. CASE PreStopped  BY <1>27 DEF PreStopped
<1>28. CASE Stopped  BY <1>28 DEF Stopped
<1>29. CASE StartHw  BY <1>29 DEF StartHw
<1>30. CASE StartFw  BY <1>30 DEF StartFw
<1>31. CASE TopResetDone  BY <1>31 DEF TopResetDone
<1>32. CASE StartFails  BY <1>32 DEF StartFails
<1>33. CASE Started  BY <1>33 DEF Started
<1>34. CASE ReconfigComplete  BY <1>34 DEF ReconfigComplete
<1>. QED
  BY <1>0, <1>1, <1>2, <1>3, <1>4, <1>5, <1>6, <1>7, <1>8, <1>9, <1>10, <1>11,
     <1>12, <1>13, <1>14, <1>15, <1>16, <1>17, <1>18, <1>19, <1>20, <1>21,
     <1>22, <1>23, <1>24, <1>25, <1>26, <1>27, <1>28, <1>29, <1>30, <1>31,
     <1>32, <1>33, <1>34
     DEF Next, Detect, Work, Mac80211

\* The account of the owners is an invariant.
LEMMA OwnershipInvariant ==
    ASSUME MaxOpens <= 1
    PROVE  Spec => []OwnershipInv
<1>1. Init => OwnershipInv
  BY DEF Init, OwnershipInv, OneOwner, OwnerInv, DumpInv, DuringInv,
         Restarting, Requested
<1>. QED  BY <1>1, OwnershipStep, RestartTypeCorrect, PTL DEF Spec

\* As long as nobody closes the device, the restart work attempts a reset only
\* after the firmware that failed has been dumped.
THEOREM DumpPrecedesReset ==
    ASSUME MaxOpens <= 1
    PROVE  Spec => []DumpBeforeReset
<1>1. OwnershipInv => DumpBeforeReset
  BY DEF OwnershipInv, DumpInv, DumpBeforeReset
<1>. QED  BY <1>1, OwnershipInvariant, PTL

\* As long as nobody closes the device, an error in a SW reset is not answered
\* with another SW reset: during_reset is never stale.
THEOREM SwResetsDoNotLoop ==
    ASSUME MaxOpens <= 1
    PROVE  Spec => NoSwResetLoop
<1>1. OwnershipInv /\ TypeOK /\ [Next]_vars =>
        [wk = "mode" /\ wk' = "sw" => ~in_sw_reset]_vars
  <2>. SUFFICES ASSUME DuringInv, Fields, Next, wk = "mode", wk' = "sw"
                PROVE  ~in_sw_reset
    BY TypeOKFlags DEF OwnershipInv
  <2>1. ChooseMode
    BY DEF Next, Detect, Work, Mac80211, FwError, TopFatal, TopByBt, NicError,
           ScheduleReset, SetPending, QueueWork, WorkStart, DumpError,
           ClearPending, Backoff, TopReset, SwReset, RestartNic,
           ScheduleReprobe, PcieReset, DelayOver, Reprobe, TimePasses, Open,
           Close, RestartWork, RestartWorkClosed, StopClear, StopDevice,
           PreStopped, Stopped, StartHw, StartFw, TopResetDone, StartFails,
           Started, ReconfigComplete, Detects, DrvStart, bits, mode, top, data,
           detector, mac, transport
  <2>2. ~during_reset
    BY <2>1 DEF ChooseMode, RestartMode
  <2>. QED  BY <2>2 DEF DuringInv
<1>. QED
  BY <1>1, OwnershipInvariant, RestartTypeCorrect, PTL
     DEF Spec, NoSwResetLoop
=============================================================================
