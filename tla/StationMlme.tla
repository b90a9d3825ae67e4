---------------------------- MODULE StationMlme ----------------------------
(***************************************************************************)
(* The connection of a station interface (mac80211/mlme.c): authentication,*)
(* association, and the probing of an AP whose beacons are missed, as      *)
(* configured by iwlwifi (CONNECTION_MONITOR and REPORTS_TX_ACK_STATUS).   *)
(*                                                                         *)
(* Everything but TX status, driver events and the timer runs under the    *)
(* wiphy lock, so each operation is one step.  The operators below take    *)
(* and return the state of the interface (ieee80211_if_managed): a work or *)
(* a request is the composition of the functions the code calls.  Times    *)
(* are counted down in ticks; one timer serves every time-out.             *)
(***************************************************************************)
EXTENDS Integers, Sequences, SequencesExt

CONSTANTS
    APs,            \* access points
    MaxTries,       \* IEEE80211_AUTH_MAX_TRIES, IEEE80211_ASSOC_MAX_TRIES
    MaxNull,        \* max_nullfunc_tries
    Short, Long, Wait,      \* time-outs after an ACK, without, and for userspace
    MaxRequests,    \* bound: requests of userspace to connect
    ContFails       \* continuing an authentication may fail (in_reconfig)

ASSUME MlmeBounds ==
    /\ {MaxTries, MaxNull, Short, Long, Wait, MaxRequests} \subseteq Nat \ {0}
    /\ Short <= Long /\ Long <= Wait
    /\ ContFails \in BOOLEAN
    /\ "none" \notin APs

VARIABLES
    m,              \* the interface
    requests        \* requests to connect so far

vars == <<m, requests>>

None == "none"
Off == -1           \* the timer is not pending
Passed == -1        \* a time before now

NoAuth == [ap |-> None, sae |-> 0, tries |-> 0, done |-> FALSE,
           waiting |-> FALSE, confirmed |-> FALSE, timeout |-> Passed]
NoAssoc == [ap |-> None, tries |-> 0, comeback |-> FALSE, timeout |-> Passed]
NoStatus == [fc |-> None, acked |-> FALSE]

Init ==
    /\ m = [running |-> TRUE,       \* SDATA_STATE_RUNNING
            auth |-> NoAuth, assoc |-> NoAssoc,     \* auth_data, assoc_data
            ap |-> None,            \* the AP, if associated
            stas |-> {},            \* stations of the interface
            timer |-> Off, works |-> <<>>,  \* mgd.timer, queued wiphy works
            status |-> NoStatus,    \* status_fc, status_acked, status_received
            poll |-> FALSE,         \* IEEE80211_STA_CONNECTION_POLL
            probes |-> 0, failed |-> FALSE, \* probe_send_count, nullfunc_failed
            probe_timeout |-> 0,
            loss |-> FALSE, drop |-> FALSE, \* connection_loss, driver_disconnect
            scan |-> "no",          \* scan_req: deferred, queued or running
            owed |-> {},            \* frames whose TX status may still come
            air |-> {},             \* requests the APs may still answer
            await |-> None,         \* the answer userspace waits for
            told |-> None]          \* the AP userspace is told it is connected to
    /\ requests = 0

----------------------------------------------------------------------------
(* Works and timers *)

Queue(s, w) == IF Contains(s.works, w) THEN s
               ELSE [s EXCEPT !.works = Append(@, w)]

\* What a bug would do: forget that the timer may not be pending.
RunAgainEarlier(s, t) == IF t < s.timer THEN [s EXCEPT !.timer = t] ELSE s

RunAgain(s, t) ==
    IF s.timer = Off \/ t < s.timer THEN [s EXCEPT !.timer = t] ELSE s

----------------------------------------------------------------------------
(* Polling the AP *)

\* A deferred scan can be started once the flag is clear.  What the poll counted
\* is not read again before the next poll has reset it.
StopPoll(s) ==
    [s EXCEPT !.poll = FALSE, !.scan = IF @ = "deferred" THEN "queued" ELSE @,
              !.probes = 0, !.failed = FALSE, !.probe_timeout = 0]

ResetProbe(s) == IF s.poll THEN StopPoll(s) ELSE s

ProbeSend(s) ==
    RunAgain([s EXCEPT !.probes = @ + 1, !.failed = FALSE,
                       !.owed = @ \union {"null"}, !.probe_timeout = Long],
             Long)

\* What a bug would do: start over each time beacons are missed.
ProbeApAgain(s) ==
    IF s.ap = None \/ s.scan = "running" THEN s
    ELSE ProbeSend([s EXCEPT !.poll = TRUE, !.probes = 0])

ProbeAp(s) ==
    IF s.ap = None \/ s.scan = "running" \/ s.poll THEN s
    ELSE ProbeSend([s EXCEPT !.poll = TRUE, !.probes = 0])

----------------------------------------------------------------------------
(* Ends of a connection, an authentication and an association *)

SetDisassoc(s) ==
    [StopPoll(s) EXCEPT !.ap = None, !.stas = {}, !.timer = Off]

\* ieee80211_set_disassoc and the report of its callers
Disconnected(s) == [SetDisassoc(s) EXCEPT !.told = None]

Disconnect(s) == IF s.ap = None THEN s ELSE Disconnected(s)

DestroyAuth(s, assoc) ==
    IF assoc THEN [s EXCEPT !.auth = NoAuth]
    ELSE [s EXCEPT !.auth = NoAuth, !.timer = Off,
                   !.stas = @ \ {s.auth.ap}, !.poll = FALSE]

\* An association that failed; userspace learns of it here or, when the AP
\* refused, from the response.
DestroyAssoc(s) ==
    [s EXCEPT !.assoc = NoAssoc, !.timer = Off, !.stas = @ \ {s.assoc.ap},
              !.poll = FALSE, !.await = None]

----------------------------------------------------------------------------
(* Frames the station sends *)

AuthSend(s) ==
    RunAgain([s EXCEPT !.auth.tries = @ + 1, !.auth.timeout = Long,
                       !.owed = @ \union {"auth"},
                       !.air = @ \union {<<"auth", s.auth.ap>>}], Long)

AssocSend(s) ==
    RunAgain([s EXCEPT !.assoc.tries = @ + 1, !.assoc.timeout = Long,
                       !.assoc.comeback = FALSE,
                       !.owed = @ \union {"assoc"},
                       !.air = @ \union {<<"assoc", s.assoc.ap>>}], Long)

MarkAuth(s) ==
    RunAgain([s EXCEPT !.auth.done = TRUE, !.auth.timeout = Wait], Wait)

----------------------------------------------------------------------------
(* Frames of an AP *)

AuthFrames == [type : {"auth"}, ap : APs, trans : {1, 2},
               status : {"ok", "deny", "retry"}]
AssocFrames == [type : {"assoc"}, ap : APs,
                status : {"ok", "deny", "soon", "later"}]
\* A beacon of the AP ends a poll as a probe response does.
OtherFrames == [type : {"deauth", "disassoc", "probe_resp"}, ap : APs]

\* An SAE exchange expects the transaction it sent or the next one.
Expected(a, f) == IF a.sae = 0 THEN f.trans = 2 ELSE f.trans >= a.sae

RxAuth(s, f) ==
    LET a == s.auth
        told == [s EXCEPT !.await = None]   \* cfg80211_rx_mlme_mgmt
    IN  IF a.ap # f.ap \/ a.done \/ ~Expected(a, f) THEN s ELSE
        CASE f.status = "retry" /\ a.sae # 0 ->
                RunAgain([told EXCEPT !.auth.waiting = TRUE,
                                      !.auth.timeout = Wait], Wait)
          [] f.status = "deny" \/ (f.status = "retry" /\ a.sae = 0) ->
                DestroyAuth(told, FALSE)
          [] f.status = "ok" /\ (a.sae = 0 \/ (a.sae = 2 /\ f.trans = 2)) ->
                MarkAuth(told)
          [] f.status = "ok" /\ a.sae = 1 /\ f.trans = 2 ->
                [told EXCEPT !.auth.confirmed = TRUE]
          [] OTHER -> told

\* A response asks to come back, refuses (or is unusable), or succeeds.
RxAssoc(s, f) ==
    IF s.assoc.ap # f.ap THEN s ELSE
    CASE f.status = "soon" ->
            [s EXCEPT !.assoc.timeout = Short, !.assoc.comeback = TRUE]
      [] f.status = "later" ->
            RunAgain([s EXCEPT !.assoc.timeout = Wait,
                               !.assoc.comeback = TRUE], Wait)
      [] f.status = "deny" -> DestroyAssoc(s)
      [] OTHER -> [StopPoll(s) EXCEPT !.ap = f.ap, !.told = f.ap,
                                      !.assoc = NoAssoc, !.await = None]

RxDeauth(s, f) ==
    CASE s.ap = f.ap -> Disconnected(s)
      [] s.ap # f.ap /\ s.assoc.ap = f.ap -> DestroyAssoc(s)
      [] OTHER -> s

RxFrame(s, f) ==
    CASE f.type = "auth" -> RxAuth(s, f)
      [] f.type = "assoc" -> RxAssoc(s, f)
      [] f.type = "deauth" -> RxDeauth(s, f)
      [] f.type = "disassoc" -> IF s.ap = f.ap THEN Disconnected(s) ELSE s
      [] OTHER -> IF s.ap = f.ap THEN ResetProbe(s) ELSE s

\* An AP answers a request once; an SAE commit may be followed by a confirm.
Answered(s, f) ==
    IF f.type = "auth" /\ f.trans = 1 /\ f.status = "ok" THEN s
    ELSE [s EXCEPT !.air = @ \ {<<f.type, f.ap>>}]

Receivable(s) ==
    {f \in AuthFrames \union AssocFrames : <<f.type, f.ap>> \in s.air}
      \union OtherFrames

----------------------------------------------------------------------------
(* ieee80211_sta_work *)

StatusWork(s) ==
    LET st == s.status
        s0 == [s EXCEPT !.status = NoStatus]
        soon == IF s.auth.sae = 0 THEN Short ELSE Wait
    IN  CASE st.fc = "auth" /\ s.auth.ap # None ->
                IF st.acked
                  THEN RunAgain([s0 EXCEPT !.auth.timeout = soon], soon)
                  ELSE [s0 EXCEPT !.auth.timeout = Passed]
          [] st.fc = "assoc" /\ s.assoc.ap # None /\ ~s.assoc.comeback ->
                IF st.acked
                  THEN RunAgain([s0 EXCEPT !.assoc.timeout = Short], Short)
                  ELSE [s0 EXCEPT !.assoc.timeout = Passed]
          [] OTHER -> s0

\* What a bug would do: give up without cfg80211_auth_timeout.
AuthWorkSilent(s) ==
    CASE s.auth.ap = None -> s
      [] s.auth.ap # None /\ s.auth.timeout >= 0 -> RunAgain(s, s.auth.timeout)
      [] OTHER ->
            IF s.auth.done \/ s.auth.waiting \/ s.auth.tries = MaxTries
              THEN DestroyAuth(s, FALSE)
              ELSE AuthSend(s)

\* After the last try, or when userspace did not go on, the attempt ends.
AuthWork(s) ==
    CASE s.auth.ap = None -> s
      [] s.auth.ap # None /\ s.auth.timeout >= 0 -> RunAgain(s, s.auth.timeout)
      [] OTHER ->
            IF s.auth.done \/ s.auth.waiting THEN DestroyAuth(s, FALSE)
            ELSE IF s.auth.tries = MaxTries
                   THEN [DestroyAuth(s, FALSE) EXCEPT !.await = None]
                   ELSE AuthSend(s)

AssocWork(s) ==
    CASE s.assoc.ap = None -> s
      [] s.assoc.ap # None /\ s.assoc.timeout >= 0 -> RunAgain(s, s.assoc.timeout)
      [] OTHER -> IF s.assoc.tries = MaxTries THEN DestroyAssoc(s)
                  ELSE AssocSend(s)

\* What a bug would do: count the tries from zero.
PollWorkOffByOne(s) ==
    IF ~s.poll \/ s.ap = None THEN s
    ELSE IF s.probes = 0 THEN ResetProbe(s)
    ELSE IF s.failed
           THEN IF s.probes <= MaxNull THEN ProbeSend(s) ELSE Disconnected(s)
           ELSE IF s.probe_timeout > 0 THEN RunAgain(s, s.probe_timeout)
                ELSE Disconnected(s)

PollWork(s) ==
    IF ~s.poll \/ s.ap = None THEN s
    ELSE IF s.probes = 0 THEN ResetProbe(s)
    ELSE IF s.failed
           THEN IF s.probes < MaxNull THEN ProbeSend(s) ELSE Disconnected(s)
           ELSE IF s.probe_timeout > 0 THEN RunAgain(s, s.probe_timeout)
                ELSE Disconnected(s)

StaWork(s) == PollWork(AssocWork(AuthWork(StatusWork(s))))

\* ieee80211_beacon_connection_loss_work
LossWork(s) ==
    IF s.loss THEN [Disconnect(s) EXCEPT !.loss = FALSE]
    ELSE IF s.drop THEN [Disconnect(s) EXCEPT !.drop = FALSE]
    ELSE ProbeAp(s)

----------------------------------------------------------------------------
(* Steps *)

\* ieee80211_iface_work: received frames first, then the station's work.
IfaceWork ==
    /\ m.works # <<>> /\ Head(m.works) = "sta"
    /\ m' = LET s == [m EXCEPT !.works = Tail(@)]
            IN  IF s.running THEN StaWork(s) ELSE s
    /\ UNCHANGED requests

IfaceWorkFrame ==
    /\ m.running /\ m.works # <<>> /\ Head(m.works) = "sta"
    /\ \E f \in Receivable(m) :
          m' = StaWork(RxFrame(Answered([m EXCEPT !.works = Tail(@)], f), f))
    /\ UNCHANGED requests

BeaconConnectionLossWork ==
    /\ m.works # <<>> /\ Head(m.works) = "loss"
    /\ m' = LossWork([m EXCEPT !.works = Tail(@)])
    /\ UNCHANGED requests

\* A frame is queued for the interface.
FrameArrives ==
    /\ m.running
    /\ m.air # {} \/ m.ap # None \/ m.assoc.ap # None
    /\ m' = Queue(m, "sta")
    /\ UNCHANGED requests

\* ieee80211_mgd_conn_tx_status
ConnTxStatus ==
    /\ \E fc \in m.owed \ {"null"}, acked \in BOOLEAN :
          m' = Queue([m EXCEPT !.owed = @ \ {fc},
                               !.status = [fc |-> fc, acked |-> acked]], "sta")
    /\ UNCHANGED requests

\* ieee80211_sta_tx_notify
TxNotify ==
    /\ "null" \in m.owed
    /\ LET s == [m EXCEPT !.owed = @ \ {"null"}]
       IN  \E ack \in BOOLEAN :
             m' = IF s.probes = 0 THEN s
                  ELSE Queue([s EXCEPT !.probes = IF ack THEN 0 ELSE @,
                                       !.failed = @ \/ ~ack], "sta")
    /\ UNCHANGED requests

\* ieee80211_sta_timer
TimerFires ==
    /\ m.timer = 0
    /\ m' = Queue([m EXCEPT !.timer = Off], "sta")
    /\ UNCHANGED requests

Earlier(t) == IF t > 0 THEN t - 1 ELSE t
Tick ==
    /\ m' = [m EXCEPT !.timer = Earlier(@), !.probe_timeout = Earlier(@),
                      !.auth.timeout = IF @ = Passed THEN @ ELSE @ - 1,
                      !.assoc.timeout = IF @ = Passed THEN @ ELSE @ - 1]
    /\ m' # m
    /\ UNCHANGED requests

----------------------------------------------------------------------------
(* Events of the driver *)

\* iwlwifi reports them while associated.  (A connection it reports lost while
\* connecting changes nothing: the work runs before any association is made.)
DriverEvent(s) ==
    /\ m.ap # None
    /\ m' = Queue(s, "loss")
    /\ UNCHANGED requests

BeaconLoss == DriverEvent([m EXCEPT !.loss = FALSE])
ConnectionLoss == DriverEvent([m EXCEPT !.loss = TRUE])
DriverDisconnect == DriverEvent([m EXCEPT !.drop = TRUE])

----------------------------------------------------------------------------
(* Requests of userspace *)

\* ieee80211_prep_connection: the AP has a station, and no scan interferes.
Prepared(s, ap) == [s EXCEPT !.stas = @ \union {ap},
                             !.scan = IF @ = "running" THEN "no" ELSE @]

\* ieee80211_mgd_auth: a second request for the same AP continues the first.
MgdAuth(ap, sae, fails) ==
    LET cont == m.auth.ap = ap
        confirmed == cont /\ sae # 0 /\ m.auth.confirmed
        s1 == [(IF m.auth.ap = None THEN m ELSE DestroyAuth(m, cont))
                 EXCEPT !.auth = [NoAuth EXCEPT !.ap = ap, !.sae = sae,
                                                !.confirmed = confirmed]]
        s2 == IF confirmed /\ sae = 2 THEN MarkAuth(s1) ELSE s1
        s3 == Disconnect(s2)
    IN  /\ m.running /\ m.assoc.ap = None /\ requests < MaxRequests
        /\ requests' = requests + 1
        /\ \/ /\ fails /\ (cont => ContFails)
              /\ m' = [s3 EXCEPT !.auth = NoAuth, !.await = None]
           \/ /\ ~fails /\ (cont \/ ap \notin s3.stas)
              /\ m' = AuthSend([Prepared(s3, ap) EXCEPT
                                  !.await = IF s3.auth.done THEN None
                                            ELSE "auth"])

\* ieee80211_mgd_assoc: the station of a matching authentication is kept.
MgdAssoc(ap, fails) ==
    LET match == m.auth.ap = ap
        s1 == Disconnect(m)
        s2 == IF s1.auth.ap = None \/ match THEN s1 ELSE DestroyAuth(s1, FALSE)
    IN  /\ m.running /\ requests < MaxRequests
        /\ m.auth.ap # None => m.auth.done
        /\ m.assoc.ap = None
        /\ requests' = requests + 1
        /\ m' = IF fails THEN s2
                ELSE RunAgain([Prepared(s2, ap) EXCEPT
                         !.assoc = [NoAssoc EXCEPT !.ap = ap, !.timeout = 0],
                         !.auth = NoAuth, !.await = "assoc"], 0)

\* ieee80211_mgd_deauth
MgdDeauth ==
    /\ m' = IF m.auth.ap # None
              THEN [DestroyAuth(m, FALSE) EXCEPT !.await = None]
              ELSE IF m.assoc.ap # None THEN DestroyAssoc(m) ELSE Disconnect(m)
    /\ m' # m
    /\ UNCHANGED requests

\* ieee80211_mgd_disassoc
MgdDisassoc ==
    /\ m.ap # None /\ m' = Disconnected(m) /\ UNCHANGED requests

\* __ieee80211_start_scan, of a scan that a poll can meet
StartScan ==
    /\ m.scan = "queued" \/ (m.scan = "no" /\ m.ap # None)
    /\ m' = [m EXCEPT !.scan = IF m.poll THEN "deferred" ELSE "running"]
    /\ UNCHANGED requests

\* __ieee80211_scan_completed
ScanCompleted ==
    /\ m.scan = "running"
    /\ m' = Queue(StopPoll([m EXCEPT !.scan = "no"]), "sta")
    /\ UNCHANGED requests

\* The interface goes down (cfg80211 has ended a connection by then) and up.
\* The beacon loss work is cancelled.
MgdStop ==
    /\ m.running /\ m.ap = None
    /\ LET s1 == IF m.assoc.ap = None THEN m ELSE DestroyAssoc(m)
           s2 == IF s1.auth.ap = None THEN s1 ELSE DestroyAuth(s1, FALSE)
       IN  m' = [s2 EXCEPT !.running = FALSE, !.timer = Off, !.await = None,
                           !.scan = "no",
                           !.works = IF Contains(@, "sta") THEN <<"sta">>
                                     ELSE <<>>]
    /\ UNCHANGED requests

Open ==
    /\ ~m.running
    /\ m' = [m EXCEPT !.running = TRUE]
    /\ UNCHANGED requests

Next ==
    \/ IfaceWork \/ IfaceWorkFrame \/ BeaconConnectionLossWork \/ FrameArrives
    \/ ConnTxStatus \/ TxNotify \/ TimerFires \/ Tick
    \/ BeaconLoss \/ ConnectionLoss \/ DriverDisconnect
    \/ \E ap \in APs, fails \in BOOLEAN :
          MgdAssoc(ap, fails) \/ \E sae \in 0..2 : MgdAuth(ap, sae, fails)
    \/ MgdDeauth \/ MgdDisassoc \/ StartScan \/ ScanCompleted
    \/ MgdStop \/ Open

Spec == Init /\ [][Next]_vars

\* Time passes, timers fire and queued works are run, frames or not.
FairSpec == Spec /\ WF_vars(Tick) /\ WF_vars(TimerFires)
                 /\ WF_vars(IfaceWork \/ BeaconConnectionLossWork)

----------------------------------------------------------------------------
(* Properties *)

\* Types, and the limits on tries: an attempt sends at most MaxTries requests
\* and a poll at most max_nullfunc_tries nullfunc frames.
TypeOK ==
    /\ m.auth \in [ap : APs \union {None}, sae : 0..2, tries : 0..MaxTries,
                   done : BOOLEAN, waiting : BOOLEAN, confirmed : BOOLEAN,
                   timeout : Passed..Wait]
    /\ m.assoc \in [ap : APs \union {None}, tries : 0..MaxTries,
                    comeback : BOOLEAN, timeout : Passed..Wait]
    /\ {m.ap, m.told} \subseteq APs \union {None} /\ m.stas \subseteq APs
    /\ m.timer \in Off..Wait /\ m.probe_timeout \in 0..Long
    /\ m.probes \in 0..MaxNull
    /\ {m.running, m.poll, m.failed, m.loss, m.drop} \subseteq BOOLEAN
    /\ m.works \in {<<>>, <<"sta">>, <<"loss">>, <<"sta", "loss">>,
                    <<"loss", "sta">>}
    /\ m.status \in [fc : {None, "auth", "assoc"}, acked : BOOLEAN]
    /\ m.owed \subseteq {"auth", "assoc", "null"}
    /\ m.air \subseteq {"auth", "assoc"} \X APs
    /\ m.scan \in {"no", "deferred", "queued", "running"}
    /\ m.await \in {None, "auth", "assoc"}
    /\ requests \in 0..MaxRequests

Attempt == m.auth.ap # None \/ m.assoc.ap # None \/ m.poll

\* Whatever waits has something that will wake it: run_again shares one timer
\* between all time-outs and may leave it alone or have it deleted, and a scan
\* put off because of a poll is only looked at when the poll stops.
NothingStuck ==
    /\ Attempt => m.timer # Off \/ Contains(m.works, "sta")
    /\ m.scan = "deferred" => m.poll

\* The interface is in one phase of a connection, with one AP; the station
\* entry in the driver is of that AP and goes away with the phase.
OnePhase ==
    LET phases == {m.auth.ap, m.assoc.ap, m.ap} \ {None}
    IN  /\ m.stas = phases
        /\ \A p, q \in {"auth", "assoc", "ap"} : p # q =>
              LET Ap(x) == IF x = "ap" THEN m.ap ELSE m[x].ap
              IN  Ap(p) = None \/ Ap(q) = None

\* Userspace is never left waiting for, or believing in, what is gone.
UserInformed ==
    /\ m.await = "auth" => m.auth.ap # None /\ ~m.auth.done /\ ~m.auth.waiting
    /\ (m.await = "assoc") = (m.assoc.ap # None)
    /\ m.told = m.ap

\* auth_data, assoc_data, associated, the AP's station and what cfg80211 was
\* told agree after every handler, whatever order they run in.
PhaseAgrees == OnePhase /\ UserInformed

\* An AP that never answers, is slow, asks to come back or stops sending
\* beacons keeps the interface busy for a limited time: every authentication,
\* association and poll ends.
AttemptsEnd == Attempt ~> ~Attempt

============================================================================
