------------------------- MODULE TxBaSessionProofs -------------------------
(***************************************************************************)
(* Proofs about TxBaSession, for any number of transmitting contexts, any  *)
(* number of sessions and any queue lengths.                               *)
(*                                                                         *)
(* The inductive invariant joins the properties with what they rest on:    *)
(* only one thread drains the txq (WorkerInv), the bits of a session are   *)
(* set in an order (SessionInv), timers are off around its beginning and   *)
(* end (TimerInv), the driver's session is inside mac80211's (DriverInv),  *)
(* whatever synchronize_net is there for is being waited for (FlightInv),  *)
(* and nobody leaves a queue that could be served (HangInv).               *)
(***************************************************************************)
EXTENDS TxBaSession, TLAPS

\* A thread that took tx_request from 0 transmits for all the others, ...
Working(t) == tx[t] \in {"loop", "taken", "ampdu", "plain", "empty"}

\* ... alone, and takes a frame only while the hardware queue has room for it
\* and no fragment is left.
WorkerInv ==
    /\ \A t, u \in Threads : Working(t) /\ Working(u) => t = u
    /\ tx_request # 0 <=> \E t \in Threads : Working(t)
    /\ \A t \in Threads :
          /\ tx[t] = "taken" => frags = 0
          /\ tx[t] \in {"taken", "ampdu", "plain"} => hwq < MaxHw
    /\ full <=> hwq = MaxHw

\* The thread with the wiphy lock has a session where it uses one; a session's
\* bits go with it; the driver's stop is confirmed only after it was asked for.
SessionInv ==
    /\ rs = "checked" => token < MaxSessions
    /\ pc \in {"start_sync", "start_cb", "stop_timers", "stop_sync"}
          => tid_tx # 0
    /\ tid_tx = 0 => state = {}
    /\ pc = "start_sync" => state \subseteq {"WANT_STOP"}
    /\ pc \in {"stop_timers", "stop_sync"}
          => "STOPPING" \in state /\ "STOP_CB" \notin state
    /\ "STOP_CB" \in state => "STOPPING" \in state

\* No timer runs before the session is started and after its stop began to
\* wait for the TX paths.
TimersOff == \A k \in Timers : timer[k] = "off"
TimerInv ==
    pc \in {"start_sync", "stop_sync"} \/ "STOP_CB" \in state => TimersOff

\* The driver has no session of its own without one of mac80211's, and rate
\* scaling is done with the old one before the new one starts.
DriverInv ==
    /\ tid_tx = 0 \/ pc = "start_sync" \/ "STOP_CB" \in state
          => drv \in {"off", "queued"}
    /\ rs = "queued" => tid_tx = 0 \/ (pc = "start_sync" /\ "rs" \in waitfor)

\* Frames that may become part of an A-MPDU are waited for while the txq is
\* stopped, and none is left when the txq's A-MPDU flag outlives the session.
InFlight(t) == tx[t] \in {"taken", "ampdu"}
FlightInv ==
    /\ \A t \in Threads : tx[t] = "ampdu" => drv = "on"
    /\ pc \in {"start_sync", "stop_timers", "stop_sync"} => txq_stop
    /\ pc \in {"start_sync", "stop_sync"}
          => \A t \in Threads : InFlight(t) => t \in waitfor
    /\ txq_ampdu /\ drv # "on" =>
          /\ "STOP_CB" \in state /\ txq_stop /\ pc # "start_txq"
          /\ \A t \in Threads : ~InFlight(t)

\* If nobody is about to look at the queue, nothing there can be sent.
Quiet ==
    \A t \in Threads : tx[t] = "out" \/ (tx[t] = "empty" /\ tx_request = 1)
Drained == full \/ (frags = 0 /\ (backlog = 0 \/ txq_stop))
HangInv == Quiet => Drained

\* The inductive invariant.
IInv ==
    /\ TypeOK /\ WorkerInv /\ SessionInv /\ NoStartRace
    /\ TimersBelongToSession /\ TimerInv /\ DriverInv /\ FlightInv /\ HangInv

----------------------------------------------------------------------------
\* TypeOK in parts.
SessionTypes ==
    /\ token \in 0..MaxSessions
    /\ start_tx \in 0..token /\ tid_tx \in 0..token /\ asked \subseteq 1..token
    /\ timer \in [Timers -> {"off", "armed", "running"}]
    /\ owner \in [Timers -> 0..token]

MlmeTypes ==
    /\ state \subseteq Bits
    /\ blocked \in BOOLEAN /\ work \in BOOLEAN
    /\ pc \in {"idle", "frag_sync", "start_sync", "start_cb", "want_stop",
               "stop_cb", "stop_timers", "stop_sync", "start_txq"}
    /\ cont \in {"idle", "want_stop", "stop_cb"}
    /\ waitfor \subseteq Threads \union {"rs"}
    /\ drv \in {"off", "queued", "emptying", "starting", "on"}
    /\ rs \in {"idle", "checked", "queued", "again"}

TxTypes ==
    /\ txq_stop \in BOOLEAN /\ txq_ampdu \in BOOLEAN
    /\ frags \in 0..1 /\ hwq \in 0..MaxHw /\ backlog \in 0..MaxBacklog
    /\ tx \in [Threads -> {"out", "enter", "loop", "taken", "ampdu", "plain",
                           "empty"}]
    /\ tx_request \in 0..2 /\ full \in BOOLEAN

\* The parts make up the type invariant.
LEMMA TypeParts == TypeOK <=> SessionTypes /\ MlmeTypes /\ TxTypes
  BY DEF TypeOK, SessionTypes, MlmeTypes, TxTypes

\* Tokens stay within the bound, and only a session that exists is asked for.
LEMMA SessionTypesStep ==
    SessionTypes /\ SessionInv /\ [Next]_vars => SessionTypes'
<1>. SUFFICES ASSUME SessionTypes, SessionInv, [Next]_vars
              PROVE  SessionTypes'
  OBVIOUS
<1>. USE BaBounds
         DEF SessionTypes, SessionInv, Timers, session, timers, mlme, txq,
             xmit, noTx
<1>0. CASE UNCHANGED vars  BY <1>0 DEF vars
<1>1. ASSUME NEW t \in Threads, Enqueue(t) PROVE SessionTypes'
  BY <1>1 DEF Enqueue
<1>2. ASSUME NEW t \in Threads, Enter(t) PROVE SessionTypes'
  BY <1>2 DEF Enter, Leave
<1>3. ASSUME NEW t \in Threads, Dequeue(t) PROVE SessionTypes'
  BY <1>3 DEF Dequeue
<1>4. ASSUME NEW t \in Threads, Classify(t) PROVE SessionTypes'
  BY <1>4 DEF Classify
<1>5. ASSUME NEW t \in Threads, DriverTx(t) PROVE SessionTypes'
  BY <1>5 DEF DriverTx
<1>6. ASSUME NEW t \in Threads, Last(t) PROVE SessionTypes'
  BY <1>6 DEF Last, Leave
<1>7. ASSUME NEW k \in Timers, Fire(k) PROVE SessionTypes'  BY <1>7 DEF Fire
<1>8. CASE RsStart  BY <1>8 DEF RsStart, SessionIdle
<1>9. CASE RsQueued  BY <1>9 DEF RsQueued, Leave
<1>10. CASE RsAgain  BY <1>10 DEF RsAgain, Leave, WantStop
<1>11. CASE RespExpired  BY <1>11 DEF RespExpired, WantStop
<1>12. CASE SessionExpired  BY <1>12 DEF SessionExpired, WantStop
<1>13. CASE SessionExtended  BY <1>13 DEF SessionExtended
<1>14. CASE StopTimers  BY <1>14 DEF StopTimers, Readers
<1>15. CASE StopDriver  BY <1>15 DEF StopDriver, Synchronized
<1>16. CASE WorkStart  BY <1>16 DEF WorkStart, Readers
<1>17. CASE WorkRetry  BY <1>17 DEF WorkRetry, Synchronized
<1>18. CASE WorkOther  BY <1>18 DEF WorkOther
<1>19. CASE StartCb
  <2>1. tid_tx \in 1..token  BY <1>19 DEF StartCb
  <2>2. UNCHANGED <<start_tx, tid_tx, token>>  BY <1>19 DEF StartCb
  <2>3. \/ UNCHANGED <<timer, owner, asked>>
        \/ Arm("resp") /\ asked' = asked \union {tid_tx}
    BY <1>19 DEF StartCb, SendAddba, Operational
  <2>. QED  BY <2>1, <2>2, <2>3 DEF Arm
<1>20. CASE WorkStop  BY <1>20 DEF WorkStop, BeginStop
<1>21. CASE StopCb  BY <1>21 DEF StopCb
<1>22. CASE StartImmediate
  <2>1. tid_tx \in 1..token  BY <1>22 DEF StartImmediate
  <2>2. UNCHANGED <<start_tx, tid_tx, token>>  BY <1>22 DEF StartImmediate
  <2>3. \/ UNCHANGED <<timer, owner, asked>>
        \/ Arm("resp") /\ asked' = asked \union {tid_tx}
    BY <1>22 DEF StartImmediate, SendAddba
  <2>. QED  BY <2>1, <2>2, <2>3 DEF Arm
<1>23. CASE StartDelayed  BY <1>23 DEF StartDelayed, Synchronized
<1>24. CASE StartDenied  BY <1>24 DEF StartDenied, Synchronized
<1>25. CASE StartTxq  BY <1>25 DEF StartTxq
<1>26. CASE Reclaim  BY <1>26 DEF Reclaim, RatidEmpty
<1>27. ASSUME NEW ok \in BOOLEAN, AddbaResp(ok) PROVE SessionTypes'
  BY <1>27 DEF AddbaResp, Operational, BeginStop
<1>28. CASE Delba  BY <1>28 DEF Delba, BeginStop
<1>29. CASE RsCheck  BY <1>29 DEF RsCheck
<1>30. CASE Rekey  BY <1>30 DEF Rekey, BeginStop
<1>31. CASE SetTxKey  BY <1>31 DEF SetTxKey
<1>. QED
  BY <1>0, <1>1, <1>2, <1>3, <1>4, <1>5, <1>6, <1>7, <1>8, <1>9, <1>10, <1>11,
     <1>12, <1>13, <1>14, <1>15, <1>16, <1>17, <1>18, <1>19, <1>20, <1>21,
     <1>22, <1>23, <1>24, <1>25, <1>26, <1>27, <1>28, <1>29, <1>30, <1>31
     DEF Next, TxStep, RsStep, TimerStep, MlmeStep, Peer, User

\* The state machine stays within its states.
LEMMA MlmeTypesStep ==
    MlmeTypes /\ [Next]_vars => MlmeTypes'
<1>. SUFFICES ASSUME MlmeTypes, [Next]_vars
              PROVE  MlmeTypes'
  OBVIOUS
<1>. USE DEF MlmeTypes, Bits, session, timers, mlme, txq, xmit, noTx
<1>0. CASE UNCHANGED vars  BY <1>0 DEF vars
<1>1. ASSUME NEW t \in Threads, Enqueue(t) PROVE MlmeTypes'
  BY <1>1 DEF Enqueue
<1>2. ASSUME NEW t \in Threads, Enter(t) PROVE MlmeTypes'
  BY <1>2 DEF Enter, Leave
<1>3. ASSUME NEW t \in Threads, Dequeue(t) PROVE MlmeTypes'
  BY <1>3 DEF Dequeue
<1>4. ASSUME NEW t \in Threads, Classify(t) PROVE MlmeTypes'
  BY <1>4 DEF Classify
<1>5. ASSUME NEW t \in Threads, DriverTx(t) PROVE MlmeTypes'
  BY <1>5 DEF DriverTx
<1>6. ASSUME NEW t \in Threads, Last(t) PROVE MlmeTypes'
  BY <1>6 DEF Last, Leave
<1>7. ASSUME NEW k \in Timers, Fire(k) PROVE MlmeTypes'  BY <1>7 DEF Fire
<1>8. CASE RsStart  BY <1>8 DEF RsStart, SessionIdle
<1>9. CASE RsQueued  BY <1>9 DEF RsQueued, Leave
<1>10. CASE RsAgain  BY <1>10 DEF RsAgain, Leave, WantStop
<1>11. CASE RespExpired  BY <1>11 DEF RespExpired, WantStop
<1>12. CASE SessionExpired  BY <1>12 DEF SessionExpired, WantStop
<1>13. CASE SessionExtended  BY <1>13 DEF SessionExtended
<1>14. CASE StopTimers  BY <1>14 DEF StopTimers, Readers
<1>15. CASE StopDriver  BY <1>15 DEF StopDriver, Synchronized
<1>16. CASE WorkStart  BY <1>16 DEF WorkStart, Readers
<1>17. CASE WorkRetry  BY <1>17 DEF WorkRetry, Synchronized
<1>18. CASE WorkOther  BY <1>18 DEF WorkOther
<1>19. CASE StartCb  BY <1>19 DEF StartCb, SendAddba, Arm, Operational
<1>20. CASE WorkStop  BY <1>20 DEF WorkStop, BeginStop
<1>21. CASE StopCb  BY <1>21 DEF StopCb
<1>22. CASE StartImmediate
  BY <1>22 DEF StartImmediate, SendAddba, Arm, Synchronized
<1>23. CASE StartDelayed  BY <1>23 DEF StartDelayed, Synchronized
<1>24. CASE StartDenied  BY <1>24 DEF StartDenied, Synchronized
<1>25. CASE StartTxq  BY <1>25 DEF StartTxq
<1>26. CASE Reclaim  BY <1>26 DEF Reclaim, RatidEmpty
<1>27. ASSUME NEW ok \in BOOLEAN, AddbaResp(ok) PROVE MlmeTypes'
  BY <1>27 DEF AddbaResp, Operational, BeginStop
<1>28. CASE Delba  BY <1>28 DEF Delba, BeginStop
<1>29. CASE RsCheck  BY <1>29 DEF RsCheck
<1>30. CASE Rekey  BY <1>30 DEF Rekey, BeginStop
<1>31. CASE SetTxKey  BY <1>31 DEF SetTxKey
<1>. QED
  BY <1>0, <1>1, <1>2, <1>3, <1>4, <1>5, <1>6, <1>7, <1>8, <1>9, <1>10, <1>11,
     <1>12, <1>13, <1>14, <1>15, <1>16, <1>17, <1>18, <1>19, <1>20, <1>21,
     <1>22, <1>23, <1>24, <1>25, <1>26, <1>27, <1>28, <1>29, <1>30, <1>31
     DEF Next, TxStep, RsStep, TimerStep, MlmeStep, Peer, User

\* The queues stay within their limits: the only worker checked for room, and
\* only a txq without fragments gets a new one.
LEMMA TxTypesStep ==
    TxTypes /\ WorkerInv /\ [Next]_vars => TxTypes'
<1>. SUFFICES ASSUME TxTypes, WorkerInv, [Next]_vars
              PROVE  TxTypes'
  OBVIOUS
<1>. USE BaBounds
         DEF TxTypes, WorkerInv, Working, session, timers, mlme, txq, xmit,
             noTx
<1>0. CASE UNCHANGED vars  BY <1>0 DEF vars
<1>1. ASSUME NEW t \in Threads, Enqueue(t) PROVE TxTypes'  BY <1>1 DEF Enqueue
<1>2. ASSUME NEW t \in Threads, Enter(t) PROVE TxTypes'
  BY <1>2 DEF Enter, Leave
<1>3. ASSUME NEW t \in Threads, Dequeue(t) PROVE TxTypes'  BY <1>3 DEF Dequeue
<1>4. ASSUME NEW t \in Threads, Classify(t) PROVE TxTypes'
  BY <1>4 DEF Classify
<1>5. ASSUME NEW t \in Threads, DriverTx(t) PROVE TxTypes'
  BY <1>5 DEF DriverTx
<1>6. ASSUME NEW t \in Threads, Last(t) PROVE TxTypes'  BY <1>6 DEF Last, Leave
<1>7. ASSUME NEW k \in Timers, Fire(k) PROVE TxTypes'  BY <1>7 DEF Fire
<1>8. CASE RsStart  BY <1>8 DEF RsStart, SessionIdle
<1>9. CASE RsQueued  BY <1>9 DEF RsQueued, Leave
<1>10. CASE RsAgain  BY <1>10 DEF RsAgain, Leave, WantStop
<1>11. CASE RespExpired  BY <1>11 DEF RespExpired, WantStop
<1>12. CASE SessionExpired  BY <1>12 DEF SessionExpired, WantStop
<1>13. CASE SessionExtended  BY <1>13 DEF SessionExtended
<1>14. CASE StopTimers  BY <1>14 DEF StopTimers, Readers
<1>15. CASE StopDriver  BY <1>15 DEF StopDriver, Synchronized
<1>16. CASE WorkStart  BY <1>16 DEF WorkStart, Readers
<1>17. CASE WorkRetry  BY <1>17 DEF WorkRetry, Synchronized
<1>18. CASE WorkOther  BY <1>18 DEF WorkOther
<1>19. CASE StartCb  BY <1>19 DEF StartCb, SendAddba, Arm, Operational
<1>20. CASE WorkStop  BY <1>20 DEF WorkStop, BeginStop
<1>21. CASE StopCb  BY <1>21 DEF StopCb
<1>22. CASE StartImmediate
  BY <1>22 DEF StartImmediate, SendAddba, Arm, Synchronized
<1>23. CASE StartDelayed  BY <1>23 DEF StartDelayed, Synchronized
<1>24. CASE StartDenied  BY <1>24 DEF StartDenied, Synchronized
<1>25. CASE StartTxq  BY <1>25 DEF StartTxq
<1>26. CASE Reclaim
  <2>1. hwq' \in 0..MaxHw /\ full' = FALSE  BY <1>26 DEF Reclaim
  <2>2. tx' \in [Threads -> {"out", "enter", "loop", "taken", "ampdu",
                             "plain", "empty"}]
    BY <1>26 DEF Reclaim
  <2>3. UNCHANGED <<txq_stop, txq_ampdu, frags, backlog, tx_request>>
    BY <1>26 DEF Reclaim
  <2>. QED  BY <2>1, <2>2, <2>3
<1>27. ASSUME NEW ok \in BOOLEAN, AddbaResp(ok) PROVE TxTypes'
  BY <1>27 DEF AddbaResp, Operational, BeginStop
<1>28. CASE Delba  BY <1>28 DEF Delba, BeginStop
<1>29. CASE RsCheck  BY <1>29 DEF RsCheck
<1>30. CASE Rekey  BY <1>30 DEF Rekey, BeginStop
<1>31. CASE SetTxKey  BY <1>31 DEF SetTxKey
<1>. QED
  BY <1>0, <1>1, <1>2, <1>3, <1>4, <1>5, <1>6, <1>7, <1>8, <1>9, <1>10, <1>11,
     <1>12, <1>13, <1>14, <1>15, <1>16, <1>17, <1>18, <1>19, <1>20, <1>21,
     <1>22, <1>23, <1>24, <1>25, <1>26, <1>27, <1>28, <1>29, <1>30, <1>31
     DEF Next, TxStep, RsStep, TimerStep, MlmeStep, Peer, User

\* tx_request admits one worker at a time.
LEMMA WorkerStep ==
    TxTypes /\ WorkerInv /\ [Next]_vars => WorkerInv'
<1>. SUFFICES ASSUME TxTypes, WorkerInv, [Next]_vars
              PROVE  WorkerInv'
  OBVIOUS
<1>. USE BaBounds
         DEF TxTypes, WorkerInv, Working, session, timers, mlme, txq, xmit,
             noTx
<1>0. CASE UNCHANGED vars  BY <1>0 DEF vars
<1>1. ASSUME NEW t \in Threads, Enqueue(t) PROVE WorkerInv'
  BY <1>1 DEF Enqueue
<1>2. ASSUME NEW t \in Threads, Enter(t) PROVE WorkerInv'
  BY <1>2 DEF Enter, Leave
<1>3. ASSUME NEW t \in Threads, Dequeue(t) PROVE WorkerInv'
  BY <1>3 DEF Dequeue
<1>4. ASSUME NEW t \in Threads, Classify(t) PROVE WorkerInv'
  BY <1>4 DEF Classify
<1>5. ASSUME NEW t \in Threads, DriverTx(t) PROVE WorkerInv'
  <2>1. hwq' \in 0..MaxHw /\ tx' = [tx EXCEPT ![t] = "loop"]
    BY <1>5 DEF DriverTx
  <2>2. full' <=> hwq' = MaxHw  BY <1>5 DEF DriverTx
  <2>3. UNCHANGED <<tx_request, frags>>  BY <1>5 DEF DriverTx
  <2>4. \A u \in Threads : u # t => ~Working(u) /\ tx'[u] = tx[u]
    BY <1>5, <2>1 DEF DriverTx
  <2>5. \E u \in Threads : Working(u)  BY <1>5 DEF DriverTx
  <2>6. ~(\E u \in Threads : u # t /\ Working(u)') /\ Working(t)'
    BY <2>1, <2>4
  <2>. QED  BY <2>1, <2>2, <2>3, <2>4, <2>5, <2>6
<1>6. ASSUME NEW t \in Threads, Last(t) PROVE WorkerInv'
  BY <1>6 DEF Last, Leave
<1>7. ASSUME NEW k \in Timers, Fire(k) PROVE WorkerInv'  BY <1>7 DEF Fire
<1>8. CASE RsStart  BY <1>8 DEF RsStart, SessionIdle
<1>9. CASE RsQueued  BY <1>9 DEF RsQueued, Leave
<1>10. CASE RsAgain  BY <1>10 DEF RsAgain, Leave, WantStop
<1>11. CASE RespExpired  BY <1>11 DEF RespExpired, WantStop
<1>12. CASE SessionExpired  BY <1>12 DEF SessionExpired, WantStop
<1>13. CASE SessionExtended  BY <1>13 DEF SessionExtended
<1>14. CASE StopTimers  BY <1>14 DEF StopTimers, Readers
<1>15. CASE StopDriver  BY <1>15 DEF StopDriver, Synchronized
<1>16. CASE WorkStart  BY <1>16 DEF WorkStart, Readers
<1>17. CASE WorkRetry  BY <1>17 DEF WorkRetry, Synchronized
<1>18. CASE WorkOther  BY <1>18 DEF WorkOther
<1>19. CASE StartCb  BY <1>19 DEF StartCb, SendAddba, Arm, Operational
<1>20. CASE WorkStop  BY <1>20 DEF WorkStop, BeginStop
<1>21. CASE StopCb  BY <1>21 DEF StopCb
<1>22. CASE StartImmediate
  BY <1>22 DEF StartImmediate, SendAddba, Arm, Synchronized
<1>23. CASE StartDelayed  BY <1>23 DEF StartDelayed, Synchronized
<1>24. CASE StartDenied  BY <1>24 DEF StartDenied, Synchronized
<1>25. CASE StartTxq  BY <1>25 DEF StartTxq
<1>26. CASE Reclaim  BY <1>26 DEF Reclaim, RatidEmpty
<1>27. ASSUME NEW ok \in BOOLEAN, AddbaResp(ok) PROVE WorkerInv'
  BY <1>27 DEF AddbaResp, Operational, BeginStop
<1>28. CASE Delba  BY <1>28 DEF Delba, BeginStop
<1>29. CASE RsCheck  BY <1>29 DEF RsCheck
<1>30. CASE Rekey  BY <1>30 DEF Rekey, BeginStop
<1>31. CASE SetTxKey  BY <1>31 DEF SetTxKey
<1>. QED
  BY <1>0, <1>1, <1>2, <1>3, <1>4, <1>5, <1>6, <1>7, <1>8, <1>9, <1>10, <1>11,
     <1>12, <1>13, <1>14, <1>15, <1>16, <1>17, <1>18, <1>19, <1>20, <1>21,
     <1>22, <1>23, <1>24, <1>25, <1>26, <1>27, <1>28, <1>29, <1>30, <1>31
     DEF Next, TxStep, RsStep, TimerStep, MlmeStep, Peer, User

\* A session is requested only where there is none, and the request is gone
\* when the session is there.
LEMMA RaceStep ==
    NoStartRace /\ [Next]_vars => NoStartRace'
<1>. SUFFICES ASSUME NoStartRace, [Next]_vars
              PROVE  NoStartRace'
  OBVIOUS
<1>. USE DEF NoStartRace, session, timers, mlme, txq, xmit, noTx
<1>0. CASE UNCHANGED vars  BY <1>0 DEF vars
<1>1. ASSUME NEW t \in Threads, Enqueue(t) PROVE NoStartRace'
  BY <1>1 DEF Enqueue
<1>2. ASSUME NEW t \in Threads, Enter(t) PROVE NoStartRace'
  BY <1>2 DEF Enter, Leave
<1>3. ASSUME NEW t \in Threads, Dequeue(t) PROVE NoStartRace'
  BY <1>3 DEF Dequeue
<1>4. ASSUME NEW t \in Threads, Classify(t) PROVE NoStartRace'
  BY <1>4 DEF Classify
<1>5. ASSUME NEW t \in Threads, DriverTx(t) PROVE NoStartRace'
  BY <1>5 DEF DriverTx
<1>6. ASSUME NEW t \in Threads, Last(t) PROVE NoStartRace'
  BY <1>6 DEF Last, Leave
<1>7. ASSUME NEW k \in Timers, Fire(k) PROVE NoStartRace'  BY <1>7 DEF Fire
<1>8. CASE RsStart  BY <1>8 DEF RsStart, SessionIdle
<1>9. CASE RsQueued  BY <1>9 DEF RsQueued, Leave
<1>10. CASE RsAgain  BY <1>10 DEF RsAgain, Leave, WantStop
<1>11. CASE RespExpired  BY <1>11 DEF RespExpired, WantStop
<1>12. CASE SessionExpired  BY <1>12 DEF SessionExpired, WantStop
<1>13. CASE SessionExtended  BY <1>13 DEF SessionExtended
<1>14. CASE StopTimers  BY <1>14 DEF StopTimers, Readers
<1>15. CASE StopDriver  BY <1>15 DEF StopDriver, Synchronized
<1>16. CASE WorkStart  BY <1>16 DEF WorkStart, Readers
<1>17. CASE WorkRetry  BY <1>17 DEF WorkRetry, Synchronized
<1>18. CASE WorkOther  BY <1>18 DEF WorkOther
<1>19. CASE StartCb  BY <1>19 DEF StartCb, SendAddba, Arm, Operational
<1>20. CASE WorkStop  BY <1>20 DEF WorkStop, BeginStop
<1>21. CASE StopCb  BY <1>21 DEF StopCb
<1>22. CASE StartImmediate
  BY <1>22 DEF StartImmediate, SendAddba, Arm, Synchronized
<1>23. CASE StartDelayed  BY <1>23 DEF StartDelayed, Synchronized
<1>24. CASE StartDenied  BY <1>24 DEF StartDenied, Synchronized
<1>25. CASE StartTxq  BY <1>25 DEF StartTxq
<1>26. CASE Reclaim  BY <1>26 DEF Reclaim, RatidEmpty
<1>27. ASSUME NEW ok \in BOOLEAN, AddbaResp(ok) PROVE NoStartRace'
  BY <1>27 DEF AddbaResp, Operational, BeginStop
<1>28. CASE Delba  BY <1>28 DEF Delba, BeginStop
<1>29. CASE RsCheck  BY <1>29 DEF RsCheck
<1>30. CASE Rekey  BY <1>30 DEF Rekey, BeginStop
<1>31. CASE SetTxKey  BY <1>31 DEF SetTxKey
<1>. QED
  BY <1>0, <1>1, <1>2, <1>3, <1>4, <1>5, <1>6, <1>7, <1>8, <1>9, <1>10, <1>11,
     <1>12, <1>13, <1>14, <1>15, <1>16, <1>17, <1>18, <1>19, <1>20, <1>21,
     <1>22, <1>23, <1>24, <1>25, <1>26, <1>27, <1>28, <1>29, <1>30, <1>31
     DEF Next, TxStep, RsStep, TimerStep, MlmeStep, Peer, User

\* The order of the bits.  A late callback of the driver cannot reach a session
\* that has not been started, because the driver has none then.
LEMMA SessionStep ==
    TypeOK /\ NoStartRace /\ SessionInv /\ DriverInv /\ [Next]_vars
    => SessionInv'
<1>. SUFFICES ASSUME TypeOK, NoStartRace, SessionInv, DriverInv, [Next]_vars
              PROVE  SessionInv'
  OBVIOUS
<1>. USE DEF TypeOK, NoStartRace, SessionInv, DriverInv, session, timers, mlme,
             txq, xmit, noTx
<1>0. CASE UNCHANGED vars  BY <1>0 DEF vars
<1>1. ASSUME NEW t \in Threads, Enqueue(t) PROVE SessionInv'
  BY <1>1 DEF Enqueue
<1>2. ASSUME NEW t \in Threads, Enter(t) PROVE SessionInv'
  BY <1>2 DEF Enter, Leave
<1>3. ASSUME NEW t \in Threads, Dequeue(t) PROVE SessionInv'
  BY <1>3 DEF Dequeue
<1>4. ASSUME NEW t \in Threads, Classify(t) PROVE SessionInv'
  BY <1>4 DEF Classify
<1>5. ASSUME NEW t \in Threads, DriverTx(t) PROVE SessionInv'
  BY <1>5 DEF DriverTx
<1>6. ASSUME NEW t \in Threads, Last(t) PROVE SessionInv'
  BY <1>6 DEF Last, Leave
<1>7. ASSUME NEW k \in Timers, Fire(k) PROVE SessionInv'  BY <1>7 DEF Fire
<1>8. CASE RsStart  BY <1>8 DEF RsStart, SessionIdle
<1>9. CASE RsQueued  BY <1>9 DEF RsQueued, Leave
<1>10. CASE RsAgain  BY <1>10 DEF RsAgain, Leave, WantStop
<1>11. CASE RespExpired  BY <1>11 DEF RespExpired, WantStop
<1>12. CASE SessionExpired  BY <1>12 DEF SessionExpired, WantStop
<1>13. CASE SessionExtended  BY <1>13 DEF SessionExtended
<1>14. CASE StopTimers  BY <1>14 DEF StopTimers, Readers
<1>15. CASE StopDriver  BY <1>15 DEF StopDriver, Synchronized
<1>16. CASE WorkStart
  <2>1. CASE frags > 0  BY <1>16, <2>1 DEF WorkStart, Readers
  <2>2. CASE ~(frags > 0)  BY <1>16, <2>2 DEF WorkStart, Readers
  <2>. QED  BY <2>1, <2>2
<1>17. CASE WorkRetry  BY <1>17 DEF WorkRetry, Synchronized
<1>18. CASE WorkOther  BY <1>18 DEF WorkOther
<1>19. CASE StartCb  BY <1>19 DEF StartCb, SendAddba, Arm, Operational
<1>20. CASE WorkStop  BY <1>20 DEF WorkStop, BeginStop
<1>21. CASE StopCb  BY <1>21 DEF StopCb
<1>22. CASE StartImmediate
  BY <1>22 DEF StartImmediate, SendAddba, Arm, Synchronized
<1>23. CASE StartDelayed  BY <1>23 DEF StartDelayed, Synchronized
<1>24. CASE StartDenied  BY <1>24 DEF StartDenied, Synchronized
<1>25. CASE StartTxq  BY <1>25 DEF StartTxq
<1>26. CASE Reclaim  BY <1>26 DEF Reclaim, RatidEmpty
<1>27. ASSUME NEW ok \in BOOLEAN, AddbaResp(ok) PROVE SessionInv'
  BY <1>27 DEF AddbaResp, Operational, BeginStop
<1>28. CASE Delba  BY <1>28 DEF Delba, BeginStop
<1>29. CASE RsCheck  BY <1>29 DEF RsCheck
<1>30. CASE Rekey  BY <1>30 DEF Rekey, BeginStop
<1>31. CASE SetTxKey  BY <1>31 DEF SetTxKey
<1>. QED
  BY <1>0, <1>1, <1>2, <1>3, <1>4, <1>5, <1>6, <1>7, <1>8, <1>9, <1>10, <1>11,
     <1>12, <1>13, <1>14, <1>15, <1>16, <1>17, <1>18, <1>19, <1>20, <1>21,
     <1>22, <1>23, <1>24, <1>25, <1>26, <1>27, <1>28, <1>29, <1>30, <1>31
     DEF Next, TxStep, RsStep, TimerStep, MlmeStep, Peer, User

\* Once the timers are deleted nobody arms them: every path that would checks
\* for the stop first.
LEMMA TimersOffStep ==
    TypeOK /\ NoStartRace /\ SessionInv /\ TimersBelongToSession
      /\ TimerInv /\ [Next]_vars
    => TimerInv'
<1>. SUFFICES ASSUME TypeOK, NoStartRace, SessionInv, TimersBelongToSession,
                     TimerInv, [Next]_vars
              PROVE  TimerInv'
  OBVIOUS
<1>. USE DEF TypeOK, NoStartRace, SessionInv, TimersBelongToSession, TimerInv,
             TimersOff, Timers, session, timers, mlme, txq, xmit, noTx
<1>0. CASE UNCHANGED vars  BY <1>0 DEF vars
<1>1. ASSUME NEW t \in Threads, Enqueue(t) PROVE TimerInv'  BY <1>1 DEF Enqueue
<1>2. ASSUME NEW t \in Threads, Enter(t) PROVE TimerInv'
  BY <1>2 DEF Enter, Leave
<1>3. ASSUME NEW t \in Threads, Dequeue(t) PROVE TimerInv'  BY <1>3 DEF Dequeue
<1>4. ASSUME NEW t \in Threads, Classify(t) PROVE TimerInv'
  BY <1>4 DEF Classify
<1>5. ASSUME NEW t \in Threads, DriverTx(t) PROVE TimerInv'
  BY <1>5 DEF DriverTx
<1>6. ASSUME NEW t \in Threads, Last(t) PROVE TimerInv'
  BY <1>6 DEF Last, Leave
<1>7. ASSUME NEW k \in Timers, Fire(k) PROVE TimerInv'  BY <1>7 DEF Fire
<1>8. CASE RsStart  BY <1>8 DEF RsStart, SessionIdle
<1>9. CASE RsQueued  BY <1>9 DEF RsQueued, Leave
<1>10. CASE RsAgain  BY <1>10 DEF RsAgain, Leave, WantStop
<1>11. CASE RespExpired  BY <1>11 DEF RespExpired, WantStop
<1>12. CASE SessionExpired  BY <1>12 DEF SessionExpired, WantStop
<1>13. CASE SessionExtended  BY <1>13 DEF SessionExtended
<1>14. CASE StopTimers  BY <1>14 DEF StopTimers, Readers
<1>15. CASE StopDriver  BY <1>15 DEF StopDriver, Synchronized
<1>16. CASE WorkStart  BY <1>16 DEF WorkStart, Readers
<1>17. CASE WorkRetry  BY <1>17 DEF WorkRetry, Synchronized
<1>18. CASE WorkOther  BY <1>18 DEF WorkOther
<1>19. CASE StartCb  BY <1>19 DEF StartCb, SendAddba, Arm, Operational
<1>20. CASE WorkStop  BY <1>20 DEF WorkStop, BeginStop
<1>21. CASE StopCb  BY <1>21 DEF StopCb
<1>22. CASE StartImmediate
  BY <1>22 DEF StartImmediate, SendAddba, Arm, Synchronized
<1>23. CASE StartDelayed  BY <1>23 DEF StartDelayed, Synchronized
<1>24. CASE StartDenied  BY <1>24 DEF StartDenied, Synchronized
<1>25. CASE StartTxq  BY <1>25 DEF StartTxq
<1>26. CASE Reclaim  BY <1>26 DEF Reclaim, RatidEmpty
<1>27. ASSUME NEW ok \in BOOLEAN, AddbaResp(ok) PROVE TimerInv'
  BY <1>27 DEF AddbaResp, Operational, BeginStop
<1>28. CASE Delba  BY <1>28 DEF Delba, BeginStop
<1>29. CASE RsCheck  BY <1>29 DEF RsCheck
<1>30. CASE Rekey  BY <1>30 DEF Rekey, BeginStop
<1>31. CASE SetTxKey  BY <1>31 DEF SetTxKey
<1>. QED
  BY <1>0, <1>1, <1>2, <1>3, <1>4, <1>5, <1>6, <1>7, <1>8, <1>9, <1>10, <1>11,
     <1>12, <1>13, <1>14, <1>15, <1>16, <1>17, <1>18, <1>19, <1>20, <1>21,
     <1>22, <1>23, <1>24, <1>25, <1>26, <1>27, <1>28, <1>29, <1>30, <1>31
     DEF Next, TxStep, RsStep, TimerStep, MlmeStep, Peer, User

\* A session goes away with its timers off.
LEMMA OwnerStep ==
    TypeOK /\ NoStartRace /\ SessionInv /\ TimersBelongToSession
      /\ TimerInv /\ [Next]_vars
    => TimersBelongToSession'
<1>. SUFFICES ASSUME TypeOK, NoStartRace, SessionInv, TimersBelongToSession,
                     TimerInv, [Next]_vars
              PROVE  TimersBelongToSession'
  OBVIOUS
<1>. USE DEF TypeOK, NoStartRace, SessionInv, TimersBelongToSession, TimerInv,
             TimersOff, Timers, session, timers, mlme, txq, xmit, noTx
<1>0. CASE UNCHANGED vars  BY <1>0 DEF vars
<1>1. ASSUME NEW t \in Threads, Enqueue(t) PROVE TimersBelongToSession'
  BY <1>1 DEF Enqueue
<1>2. ASSUME NEW t \in Threads, Enter(t) PROVE TimersBelongToSession'
  BY <1>2 DEF Enter, Leave
<1>3. ASSUME NEW t \in Threads, Dequeue(t) PROVE TimersBelongToSession'
  BY <1>3 DEF Dequeue
<1>4. ASSUME NEW t \in Threads, Classify(t) PROVE TimersBelongToSession'
  BY <1>4 DEF Classify
<1>5. ASSUME NEW t \in Threads, DriverTx(t) PROVE TimersBelongToSession'
  BY <1>5 DEF DriverTx
<1>6. ASSUME NEW t \in Threads, Last(t) PROVE TimersBelongToSession'
  BY <1>6 DEF Last, Leave
<1>7. ASSUME NEW k \in Timers, Fire(k) PROVE TimersBelongToSession'
  BY <1>7 DEF Fire
<1>8. CASE RsStart  BY <1>8 DEF RsStart, SessionIdle
<1>9. CASE RsQueued  BY <1>9 DEF RsQueued, Leave
<1>10. CASE RsAgain  BY <1>10 DEF RsAgain, Leave, WantStop
<1>11. CASE RespExpired  BY <1>11 DEF RespExpired, WantStop
<1>12. CASE SessionExpired  BY <1>12 DEF SessionExpired, WantStop
<1>13. CASE SessionExtended  BY <1>13 DEF SessionExtended
<1>14. CASE StopTimers  BY <1>14 DEF StopTimers, Readers
<1>15. CASE StopDriver  BY <1>15 DEF StopDriver, Synchronized
<1>16. CASE WorkStart  BY <1>16 DEF WorkStart, Readers
<1>17. CASE WorkRetry  BY <1>17 DEF WorkRetry, Synchronized
<1>18. CASE WorkOther  BY <1>18 DEF WorkOther
<1>19. CASE StartCb  BY <1>19 DEF StartCb, SendAddba, Arm, Operational
<1>20. CASE WorkStop  BY <1>20 DEF WorkStop, BeginStop
<1>21. CASE StopCb  BY <1>21 DEF StopCb
<1>22. CASE StartImmediate
  BY <1>22 DEF StartImmediate, SendAddba, Arm, Synchronized
<1>23. CASE StartDelayed  BY <1>23 DEF StartDelayed, Synchronized
<1>24. CASE StartDenied  BY <1>24 DEF StartDenied, Synchronized
<1>25. CASE StartTxq  BY <1>25 DEF StartTxq
<1>26. CASE Reclaim  BY <1>26 DEF Reclaim, RatidEmpty
<1>27. ASSUME NEW ok \in BOOLEAN, AddbaResp(ok) PROVE TimersBelongToSession'
  BY <1>27 DEF AddbaResp, Operational, BeginStop
<1>28. CASE Delba  BY <1>28 DEF Delba, BeginStop
<1>29. CASE RsCheck  BY <1>29 DEF RsCheck
<1>30. CASE Rekey  BY <1>30 DEF Rekey, BeginStop
<1>31. CASE SetTxKey  BY <1>31 DEF SetTxKey
<1>. QED
  BY <1>0, <1>1, <1>2, <1>3, <1>4, <1>5, <1>6, <1>7, <1>8, <1>9, <1>10, <1>11,
     <1>12, <1>13, <1>14, <1>15, <1>16, <1>17, <1>18, <1>19, <1>20, <1>21,
     <1>22, <1>23, <1>24, <1>25, <1>26, <1>27, <1>28, <1>29, <1>30, <1>31
     DEF Next, TxStep, RsStep, TimerStep, MlmeStep, Peer, User

\* The start of a session waits for the rate scaling that asked for it.
LEMMA DriverStep ==
    TypeOK /\ NoStartRace /\ SessionInv /\ DriverInv /\ [Next]_vars
    => DriverInv'
<1>. SUFFICES ASSUME TypeOK, NoStartRace, SessionInv, DriverInv, [Next]_vars
              PROVE  DriverInv'
  OBVIOUS
<1>. USE BaBounds
         DEF TypeOK, NoStartRace, SessionInv, DriverInv, session, timers, mlme,
             txq, xmit, noTx
<1>0. CASE UNCHANGED vars  BY <1>0 DEF vars
<1>1. ASSUME NEW t \in Threads, Enqueue(t) PROVE DriverInv'
  BY <1>1 DEF Enqueue
<1>2. ASSUME NEW t \in Threads, Enter(t) PROVE DriverInv'
  BY <1>2 DEF Enter, Leave
<1>3. ASSUME NEW t \in Threads, Dequeue(t) PROVE DriverInv'
  BY <1>3 DEF Dequeue
<1>4. ASSUME NEW t \in Threads, Classify(t) PROVE DriverInv'
  BY <1>4 DEF Classify
<1>5. ASSUME NEW t \in Threads, DriverTx(t) PROVE DriverInv'
  BY <1>5 DEF DriverTx
<1>6. ASSUME NEW t \in Threads, Last(t) PROVE DriverInv'
  BY <1>6 DEF Last, Leave
<1>7. ASSUME NEW k \in Timers, Fire(k) PROVE DriverInv'  BY <1>7 DEF Fire
<1>8. CASE RsStart  BY <1>8 DEF RsStart, SessionIdle
<1>9. CASE RsQueued  BY <1>9 DEF RsQueued, Leave
<1>10. CASE RsAgain  BY <1>10 DEF RsAgain, Leave, WantStop
<1>11. CASE RespExpired  BY <1>11 DEF RespExpired, WantStop
<1>12. CASE SessionExpired  BY <1>12 DEF SessionExpired, WantStop
<1>13. CASE SessionExtended  BY <1>13 DEF SessionExtended
<1>14. CASE StopTimers  BY <1>14 DEF StopTimers, Readers
<1>15. CASE StopDriver  BY <1>15 DEF StopDriver, Synchronized
<1>16. CASE WorkStart
  <2>1. CASE frags > 0  BY <1>16, <2>1 DEF WorkStart, Readers
  <2>2. CASE ~(frags > 0)  BY <1>16, <2>2 DEF WorkStart, Readers
  <2>. QED  BY <2>1, <2>2
<1>17. CASE WorkRetry  BY <1>17 DEF WorkRetry, Synchronized
<1>18. CASE WorkOther  BY <1>18 DEF WorkOther
<1>19. CASE StartCb  BY <1>19 DEF StartCb, SendAddba, Arm, Operational
<1>20. CASE WorkStop  BY <1>20 DEF WorkStop, BeginStop
<1>21. CASE StopCb  BY <1>21 DEF StopCb
<1>22. CASE StartImmediate
  BY <1>22 DEF StartImmediate, SendAddba, Arm, Synchronized
<1>23. CASE StartDelayed  BY <1>23 DEF StartDelayed, Synchronized
<1>24. CASE StartDenied  BY <1>24 DEF StartDenied, Synchronized
<1>25. CASE StartTxq  BY <1>25 DEF StartTxq
<1>26. CASE Reclaim  BY <1>26 DEF Reclaim, RatidEmpty
<1>27. ASSUME NEW ok \in BOOLEAN, AddbaResp(ok) PROVE DriverInv'
  BY <1>27 DEF AddbaResp, Operational, BeginStop
<1>28. CASE Delba  BY <1>28 DEF Delba, BeginStop
<1>29. CASE RsCheck  BY <1>29 DEF RsCheck
<1>30. CASE Rekey  BY <1>30 DEF Rekey, BeginStop
<1>31. CASE SetTxKey  BY <1>31 DEF SetTxKey
<1>. QED
  BY <1>0, <1>1, <1>2, <1>3, <1>4, <1>5, <1>6, <1>7, <1>8, <1>9, <1>10, <1>11,
     <1>12, <1>13, <1>14, <1>15, <1>16, <1>17, <1>18, <1>19, <1>20, <1>21,
     <1>22, <1>23, <1>24, <1>25, <1>26, <1>27, <1>28, <1>29, <1>30, <1>31
     DEF Next, TxStep, RsStep, TimerStep, MlmeStep, Peer, User

\* The txq is stopped before the TX paths are waited for, and stays stopped.
LEMMA FlightStep ==
    TypeOK /\ SessionInv /\ DriverInv /\ FlightInv /\ [Next]_vars => FlightInv'
<1>. SUFFICES ASSUME TypeOK, SessionInv, DriverInv, FlightInv, [Next]_vars
              PROVE  FlightInv'
  OBVIOUS
<1>. USE BaBounds
         DEF TypeOK, SessionInv, DriverInv, FlightInv, InFlight, session,
             timers, mlme, txq, xmit, noTx
<1>0. CASE UNCHANGED vars  BY <1>0 DEF vars
<1>1. ASSUME NEW t \in Threads, Enqueue(t) PROVE FlightInv'
  BY <1>1 DEF Enqueue
<1>2. ASSUME NEW t \in Threads, Enter(t) PROVE FlightInv'
  BY <1>2 DEF Enter, Leave
<1>3. ASSUME NEW t \in Threads, Dequeue(t) PROVE FlightInv'
  BY <1>3 DEF Dequeue
<1>4. ASSUME NEW t \in Threads, Classify(t) PROVE FlightInv'
  BY <1>4 DEF Classify
<1>5. ASSUME NEW t \in Threads, DriverTx(t) PROVE FlightInv'
  BY <1>5 DEF DriverTx
<1>6. ASSUME NEW t \in Threads, Last(t) PROVE FlightInv'
  BY <1>6 DEF Last, Leave
<1>7. ASSUME NEW k \in Timers, Fire(k) PROVE FlightInv'  BY <1>7 DEF Fire
<1>8. CASE RsStart  BY <1>8 DEF RsStart, SessionIdle
<1>9. CASE RsQueued  BY <1>9 DEF RsQueued, Leave
<1>10. CASE RsAgain  BY <1>10 DEF RsAgain, Leave, WantStop
<1>11. CASE RespExpired  BY <1>11 DEF RespExpired, WantStop
<1>12. CASE SessionExpired  BY <1>12 DEF SessionExpired, WantStop
<1>13. CASE SessionExtended  BY <1>13 DEF SessionExtended
<1>14. CASE StopTimers  BY <1>14 DEF StopTimers, Readers
<1>15. CASE StopDriver  BY <1>15 DEF StopDriver, Synchronized
<1>16. CASE WorkStart  BY <1>16 DEF WorkStart, Readers
<1>17. CASE WorkRetry  BY <1>17 DEF WorkRetry, Synchronized
<1>18. CASE WorkOther  BY <1>18 DEF WorkOther
<1>19. CASE StartCb  BY <1>19 DEF StartCb, SendAddba, Arm, Operational
<1>20. CASE WorkStop  BY <1>20 DEF WorkStop, BeginStop
<1>21. CASE StopCb  BY <1>21 DEF StopCb
<1>22. CASE StartImmediate
  BY <1>22 DEF StartImmediate, SendAddba, Arm, Synchronized
<1>23. CASE StartDelayed  BY <1>23 DEF StartDelayed, Synchronized
<1>24. CASE StartDenied  BY <1>24 DEF StartDenied, Synchronized
<1>25. CASE StartTxq  BY <1>25 DEF StartTxq
<1>26. CASE Reclaim  BY <1>26 DEF Reclaim, RatidEmpty
<1>27. ASSUME NEW ok \in BOOLEAN, AddbaResp(ok) PROVE FlightInv'
  BY <1>27 DEF AddbaResp, Operational, BeginStop
<1>28. CASE Delba  BY <1>28 DEF Delba, BeginStop
<1>29. CASE RsCheck  BY <1>29 DEF RsCheck
<1>30. CASE Rekey  BY <1>30 DEF Rekey, BeginStop
<1>31. CASE SetTxKey  BY <1>31 DEF SetTxKey
<1>. QED
  BY <1>0, <1>1, <1>2, <1>3, <1>4, <1>5, <1>6, <1>7, <1>8, <1>9, <1>10, <1>11,
     <1>12, <1>13, <1>14, <1>15, <1>16, <1>17, <1>18, <1>19, <1>20, <1>21,
     <1>22, <1>23, <1>24, <1>25, <1>26, <1>27, <1>28, <1>29, <1>30, <1>31
     DEF Next, TxStep, RsStep, TimerStep, MlmeStep, Peer, User

\* A worker that found nothing leaves only if nobody came meanwhile.
LEMMA HangStep ==
    TypeOK /\ WorkerInv /\ HangInv /\ [Next]_vars => HangInv'
<1>. SUFFICES ASSUME TypeOK, WorkerInv, HangInv, [Next]_vars
              PROVE  HangInv'
  OBVIOUS
<1>. USE BaBounds
         DEF TypeOK, WorkerInv, Working, HangInv, Quiet, Drained, session,
             timers, mlme, txq, xmit, noTx
<1>0. CASE UNCHANGED vars  BY <1>0 DEF vars
<1>1. ASSUME NEW t \in Threads, Enqueue(t) PROVE HangInv'  BY <1>1 DEF Enqueue
<1>2. ASSUME NEW t \in Threads, Enter(t) PROVE HangInv'
  BY <1>2 DEF Enter, Leave
<1>3. ASSUME NEW t \in Threads, Dequeue(t) PROVE HangInv'  BY <1>3 DEF Dequeue
<1>4. ASSUME NEW t \in Threads, Classify(t) PROVE HangInv'
  BY <1>4 DEF Classify
<1>5. ASSUME NEW t \in Threads, DriverTx(t) PROVE HangInv'
  BY <1>5 DEF DriverTx
<1>6. ASSUME NEW t \in Threads, Last(t) PROVE HangInv'  BY <1>6 DEF Last, Leave
<1>7. ASSUME NEW k \in Timers, Fire(k) PROVE HangInv'  BY <1>7 DEF Fire
<1>8. CASE RsStart  BY <1>8 DEF RsStart, SessionIdle
<1>9. CASE RsQueued  BY <1>9 DEF RsQueued, Leave
<1>10. CASE RsAgain  BY <1>10 DEF RsAgain, Leave, WantStop
<1>11. CASE RespExpired  BY <1>11 DEF RespExpired, WantStop
<1>12. CASE SessionExpired  BY <1>12 DEF SessionExpired, WantStop
<1>13. CASE SessionExtended  BY <1>13 DEF SessionExtended
<1>14. CASE StopTimers  BY <1>14 DEF StopTimers, Readers
<1>15. CASE StopDriver  BY <1>15 DEF StopDriver, Synchronized
<1>16. CASE WorkStart  BY <1>16 DEF WorkStart, Readers
<1>17. CASE WorkRetry  BY <1>17 DEF WorkRetry, Synchronized
<1>18. CASE WorkOther  BY <1>18 DEF WorkOther
<1>19. CASE StartCb  BY <1>19 DEF StartCb, SendAddba, Arm, Operational
<1>20. CASE WorkStop  BY <1>20 DEF WorkStop, BeginStop
<1>21. CASE StopCb  BY <1>21 DEF StopCb
<1>22. CASE StartImmediate
  BY <1>22 DEF StartImmediate, SendAddba, Arm, Synchronized
<1>23. CASE StartDelayed  BY <1>23 DEF StartDelayed, Synchronized
<1>24. CASE StartDenied  BY <1>24 DEF StartDenied, Synchronized
<1>25. CASE StartTxq  BY <1>25 DEF StartTxq
<1>26. CASE Reclaim  BY <1>26 DEF Reclaim, RatidEmpty
<1>27. ASSUME NEW ok \in BOOLEAN, AddbaResp(ok) PROVE HangInv'
  BY <1>27 DEF AddbaResp, Operational, BeginStop
<1>28. CASE Delba  BY <1>28 DEF Delba, BeginStop
<1>29. CASE RsCheck  BY <1>29 DEF RsCheck
<1>30. CASE Rekey  BY <1>30 DEF Rekey, BeginStop
<1>31. CASE SetTxKey  BY <1>31 DEF SetTxKey
<1>. QED
  BY <1>0, <1>1, <1>2, <1>3, <1>4, <1>5, <1>6, <1>7, <1>8, <1>9, <1>10, <1>11,
     <1>12, <1>13, <1>14, <1>15, <1>16, <1>17, <1>18, <1>19, <1>20, <1>21,
     <1>22, <1>23, <1>24, <1>25, <1>26, <1>27, <1>28, <1>29, <1>30, <1>31
     DEF Next, TxStep, RsStep, TimerStep, MlmeStep, Peer, User

\* The initial state satisfies the invariant.
LEMMA InitIInv == Init => IInv
<1>. SUFFICES ASSUME Init PROVE IInv
  OBVIOUS
<1>1. TypeOK
  <2>0. MaxHw \in Nat /\ MaxBacklog \in Nat  BY BaBounds
  <2>1. SessionTypes  BY BaBounds DEF Init, SessionTypes
  <2>2. MlmeTypes  BY DEF Init, MlmeTypes
  <2>3. TxTypes
    <3>1. txq_stop \in BOOLEAN /\ txq_ampdu \in BOOLEAN /\ full \in BOOLEAN
      BY DEF Init
    <3>2. tx \in [Threads -> {"out", "enter", "loop", "taken", "ampdu",
                              "plain", "empty"}]
      BY DEF Init
    <3>. QED  BY <2>0, <3>1, <3>2 DEF Init, TxTypes
  <2>. QED  BY <2>1, <2>2, <2>3, TypeParts
<1>2. WorkerInv  BY BaBounds DEF Init, WorkerInv, Working
<1>3. SessionInv /\ NoStartRace /\ DriverInv
  BY DEF Init, SessionInv, NoStartRace, DriverInv
<1>4. TimersBelongToSession /\ TimerInv
  BY DEF Init, TimersBelongToSession, TimerInv, TimersOff
<1>5. FlightInv  BY DEF Init, FlightInv, InFlight
<1>6. HangInv  BY DEF Init, HangInv, Quiet, Drained
<1>. QED  BY <1>1, <1>2, <1>3, <1>4, <1>5, <1>6 DEF IInv

\* The session, its timers, the driver and the TX paths stay consistent.
THEOREM TxBaInvariant == Spec => []IInv
<1>1. IInv /\ [Next]_vars => IInv'
  <2>1. TypeOK /\ WorkerInv /\ SessionInv /\ [Next]_vars
          => TypeOK' /\ WorkerInv'
    BY TypeParts, SessionTypesStep, MlmeTypesStep, TxTypesStep, WorkerStep, PTL
  <2>. QED
    BY <2>1, SessionStep, RaceStep, TimersOffStep, OwnerStep, DriverStep,
       FlightStep, HangStep DEF IInv
<1>. QED  BY <1>1, InitIInv, PTL DEF Spec

\* No counter of the session or of the TX path leaves its range: the hardware
\* queue is never overfilled, and tx_request never becomes negative.
THEOREM TxBaTypeCorrect == Spec => []TypeOK
<1>1. IInv => TypeOK  BY DEF IInv
<1>. QED  BY <1>1, TxBaInvariant, PTL

\* A session that goes live never replaces another one: the case
\* ieee80211_ba_session_work asks about cannot happen.
THEOREM TxBaNoStartRace == Spec => []NoStartRace
<1>1. IInv => NoStartRace  BY DEF IInv
<1>. QED  BY <1>1, TxBaInvariant, PTL

\* synchronize_net after the txq was stopped is enough: no A-MPDU frame meets a
\* driver without a session, none but fragments is under way when the session
\* gets its starting sequence number, with any number of transmitting contexts.
THEOREM TxBaPathsFinished == Spec => []TxPathsFinished
<1>1. IInv => TxPathsFinished
  BY DEF IInv, FlightInv, InFlight, TxPathsFinished, Synchronized
<1>. QED  BY <1>1, TxBaInvariant, PTL

\* No timer is armed or runs for a session that is gone.
THEOREM TxBaTimers == Spec => []TimersBelongToSession
<1>1. IInv => TimersBelongToSession  BY DEF IInv
<1>. QED  BY <1>1, TxBaInvariant, PTL

\* Three values of tx_request are enough for any number of contexts: a frame
\* that may be sent has a thread that will look at the queue, or the queue is
\* full and will be woken.
THEOREM TxBaNoTxHangs == Spec => []NoTxHangs
<1>1. IInv => NoTxHangs
  <2>. SUFFICES ASSUME IInv, \A t \in Threads : tx[t] = "out",
                       frags > 0 \/ (backlog > 0 /\ ~txq_stop)
                PROVE  full /\ hwq > 0
    BY DEF NoTxHangs
  <2>1. Quiet  BY DEF Quiet
  <2>2. full  BY <2>1 DEF IInv, HangInv, Drained, TypeOK
  <2>. QED  BY <2>2, BaBounds DEF IInv, WorkerInv, TypeOK
<1>. QED  BY <1>1, TxBaInvariant, PTL
============================================================================
