-------------------------- MODULE StationMlmeProofs --------------------------
(***************************************************************************)
(* Proofs about StationMlme, for any set of APs and any limits on tries,   *)
(* times and requests.                                                     *)
(*                                                                         *)
(* Every function of the code is an operator on the state of the           *)
(* interface, so there is one lemma for each: it leaves the interface calm *)
(* (in one phase, polling only what is associated, userspace informed),    *)
(* and the stations agree if they did before (Keeps).  Between them the    *)
(* functions may delete the timer all phases share; the works end with     *)
(* the timer pending for whatever goes on (Awake).                         *)
(***************************************************************************)
EXTENDS StationMlme, SequenceTheorems, TLAPS

\* The values of each field of the interface.
Names == APs \union {None}
Saes == 0..2
Tries == 0..MaxTries
Times == Passed..Wait
Bools == BOOLEAN
Auths == [ap : Names, sae : Saes, tries : Tries, done : Bools,
          waiting : Bools, confirmed : Bools, timeout : Times]
Assocs == [ap : Names, tries : Tries, comeback : Bools, timeout : Times]
Stas == SUBSET APs
Lists == {<<>>, <<"sta">>, <<"loss">>, <<"sta", "loss">>, <<"loss", "sta">>}
Statuses == [fc : {None, "auth", "assoc"}, acked : BOOLEAN]
Counts == 0..MaxNull
Longs == 0..Long
Scans == {"no", "deferred", "queued", "running"}
Frames == SUBSET {"auth", "assoc", "null"}
Air == SUBSET ({"auth", "assoc"} \X APs)
Awaited == {None, "auth", "assoc"}
State == [running : Bools, auth : Auths, assoc : Assocs, ap : Names,
          stas : Stas, timer : Times, works : Lists, status : Statuses,
          poll : Bools, probes : Counts, failed : Bools,
          probe_timeout : Longs, loss : Bools, drop : Bools, scan : Scans,
          owed : Frames, air : Air, await : Awaited, told : Names]

\* At most one phase has an AP.
Exclusive(s) ==
    /\ s.auth.ap = None \/ s.assoc.ap = None
    /\ s.auth.ap = None \/ s.ap = None
    /\ s.assoc.ap = None \/ s.ap = None

\* Only a connection is polled, a scan is only put off for a poll, and an
\* interface that is down has no phase.
Quiet(s) ==
    /\ s.poll => s.ap # None
    /\ s.scan = "deferred" => s.poll
    /\ ~s.running => s.auth.ap = None /\ s.assoc.ap = None /\ s.ap = None

\* UserInformed, of any state.
Informed(s) ==
    /\ s.await = "auth" => s.auth.ap # None /\ ~s.auth.done /\ ~s.auth.waiting
    /\ s.await = "assoc" <=> s.assoc.ap # None
    /\ s.told = s.ap

\* What every function of the code preserves.
Calm(s) == s \in State /\ Exclusive(s) /\ Quiet(s) /\ Informed(s)

\* The stations are those of the phases.
Stations(s) == s.stas = {s.auth.ap, s.assoc.ap, s.ap} \ {None}

\* A function that is called with s and returns u has done so.
Keeps(s, u) == Calm(u) /\ (Stations(s) => Stations(u))

\* Attempt, of any state; what goes on has something to wake it.
Attempting(s) == s.auth.ap # None \/ s.assoc.ap # None \/ s.poll
Awake(s) == Attempting(s) => s.timer # Off \/ Contains(s.works, "sta")

\* The constants of the model lie in the sets of values.
LEMMA Constants ==
    /\ None \in Names /\ APs \subseteq Names /\ None \notin APs
    /\ {Off, Passed, Short, Long, Wait} \subseteq Times
    /\ Off < 0 /\ Passed = Off /\ 0..Wait \subseteq Times
    /\ {0, Short, Long, Wait} \subseteq 0..Wait
    /\ 0 \in Counts /\ 0 \in Longs /\ Long \in Longs
    /\ None \in Awaited /\ "auth" \in Awaited /\ "assoc" \in Awaited
    /\ FALSE \in Bools /\ TRUE \in Bools /\ {} \in Stas
    /\ NoAuth \in Auths /\ NoAssoc \in Assocs /\ NoStatus \in Statuses
<1>1. /\ None \in Names /\ APs \subseteq Names /\ None \notin APs
      /\ {Off, Passed, Short, Long, Wait} \subseteq Times
      /\ Off < 0 /\ Passed = Off /\ 0..Wait \subseteq Times
      /\ {0, Short, Long, Wait} \subseteq 0..Wait
  BY MlmeBounds DEF Names, None, Times, Off, Passed
<1>2. /\ 0 \in Counts /\ 0 \in Longs /\ Long \in Longs
      /\ None \in Awaited /\ "auth" \in Awaited /\ "assoc" \in Awaited
      /\ FALSE \in Bools /\ TRUE \in Bools /\ {} \in Stas
      /\ NoStatus \in Statuses
  BY MlmeBounds DEF Counts, Longs, Awaited, Bools, Stas, Statuses, NoStatus
<1>. None \in Names /\ Passed \in Times /\ FALSE \in Bools  BY <1>1, <1>2
<1>. 0 \in Tries /\ 0 \in Saes  BY MlmeBounds DEF Tries, Saes
<1>3. NoAuth \in Auths  BY DEF NoAuth, Auths
<1>4. NoAssoc \in Assocs  BY DEF NoAssoc, Assocs
<1>. QED  BY <1>1, <1>2, <1>3, <1>4

\* A phase that is over has no AP.
LEMMA Ends == NoAuth.ap = None /\ NoAssoc.ap = None
  BY DEF NoAuth, NoAssoc

\* The timer alone says nothing about the phase.
LEMMA TimerSet ==
    ASSUME NEW s, Calm(s), NEW t \in Times
    PROVE  Keeps(s, [s EXCEPT !.timer = t])
  BY DEF Calm, State, Exclusive, Quiet, Informed, Stations, Keeps

\* run_again leaves everything but the timer, which is pending afterwards.
LEMMA RunAgainTimer ==
    ASSUME NEW s \in State, NEW t \in 0..Wait
    PROVE  \E x \in 0..Wait : RunAgain(s, t) = [s EXCEPT !.timer = x]
<1>1. s.timer \in Times  BY DEF State
<1>2. CASE s.timer = Off \/ t < s.timer  BY <1>2 DEF RunAgain
<1>3. CASE ~(s.timer = Off \/ t < s.timer)
  <2>1. s.timer \in 0..Wait  BY <1>1, <1>3, MlmeBounds DEF Times, Off, Passed
  <2>2. s = [s EXCEPT !.timer = s.timer]  BY DEF State
  <2>. QED  BY <1>3, <2>1, <2>2 DEF RunAgain
<1>. QED  BY <1>2, <1>3

\* A time-out that is asked for is pending afterwards, its own or an earlier
\* one.
LEMMA RunAgainKeeps ==
    ASSUME NEW s, Calm(s), NEW t \in 0..Wait
    PROVE  Keeps(s, RunAgain(s, t)) /\ RunAgain(s, t).timer # Off
<1>1. s \in State  BY DEF Calm
<1>2. PICK x \in 0..Wait : RunAgain(s, t) = [s EXCEPT !.timer = x]
  BY <1>1, RunAgainTimer
<1>3. x \in Times /\ x # Off  BY Constants
<1>. QED  BY <1>1, <1>2, <1>3, TimerSet DEF State

\* __ieee80211_stop_poll: the poll is over and a scan put off for it can go on.
LEMMA StopPollKeeps ==
    ASSUME NEW s, Calm(s)
    PROVE  Keeps(s, StopPoll(s)) /\ ~StopPoll(s).poll
<1>1. (IF s.scan = "deferred" THEN "queued" ELSE s.scan) \in Scans
  BY DEF Calm, State, Scans
<1>2. StopPoll(s) \in State  BY <1>1, Constants DEF Calm, StopPoll, State
<1>. QED

  BY <1>2
     DEF Calm, StopPoll, State, Exclusive, Quiet, Informed, Stations, Keeps

\* ieee80211_reset_ap_probe, likewise.
LEMMA ResetProbeKeeps ==
    ASSUME NEW s, Calm(s)
    PROVE  Keeps(s, ResetProbe(s)) /\ ~ResetProbe(s).poll
  BY StopPollKeeps DEF ResetProbe, Keeps

\* After ieee80211_set_disassoc nothing is left of the connection, and no other
\* phase loses its timer.
LEMMA DisconnectedKeeps ==
    ASSUME NEW s, Calm(s), s.ap # None
    PROVE  /\ Keeps(s, Disconnected(s))
           /\ ~Attempting(Disconnected(s))
           /\ Disconnected(s).ap = None
<1>1. Calm(StopPoll(s))  BY StopPollKeeps DEF Keeps
<1>2. Disconnected(s) \in State
  BY <1>1, Constants DEF Calm, SetDisassoc, Disconnected, State
<1>3. /\ Exclusive(Disconnected(s)) /\ Quiet(Disconnected(s))
      /\ ~Attempting(Disconnected(s)) /\ Disconnected(s).ap = None

  BY <1>1, <1>2
     DEF Calm, StopPoll, SetDisassoc, Disconnected, State, Exclusive,
     Quiet, Attempting
<1>4. Informed(Disconnected(s)) /\ Stations(Disconnected(s))

  BY <1>1, <1>2
     DEF Calm, StopPoll, SetDisassoc, Disconnected, State, Exclusive,
     Informed, Stations
<1>. QED  BY <1>2, <1>3, <1>4 DEF Calm, Keeps

\* ieee80211_destroy_auth_data deletes the timer they all share: there is no
\* other phase that needs it.
LEMMA DestroyAuthKeeps ==
    ASSUME NEW s, Calm(s), s.auth.ap # None, s.await # "auth"
    PROVE  /\ Keeps(s, DestroyAuth(s, FALSE))
           /\ ~Attempting(DestroyAuth(s, FALSE))
<1>. DEFINE u == DestroyAuth(s, FALSE)
<1>1. s.stas \ {s.auth.ap} \in Stas  BY DEF Calm, State, Stas
<1>2. u \in State  BY <1>1, Constants DEF Calm, DestroyAuth, State
<1>3. Exclusive(u) /\ Quiet(u) /\ Informed(u) /\ ~Attempting(u)

  BY <1>2, Ends
     DEF Calm, DestroyAuth, State, Exclusive, Quiet, Informed, Attempting
<1>4. Stations(s) => Stations(u)
  BY <1>2, Ends DEF Calm, DestroyAuth, State, Exclusive, Stations
<1>. QED  BY <1>2, <1>3, <1>4 DEF Calm, Keeps

\* ieee80211_destroy_assoc_data, likewise.
LEMMA DestroyAssocKeeps ==
    ASSUME NEW s, Calm(s), s.assoc.ap # None
    PROVE  /\ Keeps(s, DestroyAssoc(s))
           /\ ~Attempting(DestroyAssoc(s))
<1>. DEFINE u == DestroyAssoc(s)
<1>1. s.stas \ {s.assoc.ap} \in Stas  BY DEF Calm, State, Stas
<1>2. u \in State  BY <1>1, Constants DEF Calm, DestroyAssoc, State
<1>3. Exclusive(u) /\ Quiet(u) /\ Informed(u) /\ ~Attempting(u)

  BY <1>2, Ends
     DEF Calm, DestroyAssoc, State, Exclusive, Quiet, Informed, Attempting,
     None
<1>4. Stations(s) => Stations(u)
  BY <1>2, Ends DEF Calm, DestroyAssoc, State, Exclusive, Stations
<1>. QED  BY <1>2, <1>3, <1>4 DEF Calm, Keeps

\* A request is sent while there are tries left, and its time-out is pending.
LEMMA AuthSendKeeps ==
    ASSUME NEW s, Calm(s), s.auth.ap # None, s.auth.tries # MaxTries
    PROVE  Keeps(s, AuthSend(s)) /\ AuthSend(s).timer # Off
<1>. DEFINE a == [s.auth EXCEPT !.tries = @ + 1, !.timeout = Long]
            u == [s EXCEPT !.auth = a, !.owed = @ \union {"auth"},
                           !.air = @ \union {<<"auth", s.auth.ap>>}]
<1>1. s \in State /\ s.auth \in Auths  BY DEF Calm, State
<1>2. a \in Auths
  <2>1. s.auth.tries + 1 \in Tries
    BY <1>1, MlmeBounds DEF Auths, Tries
  <2>. QED  BY <1>1, <2>1, Constants DEF Auths
<1>3. /\ s.owed \union {"auth"} \in Frames
      /\ s.air \union {<<"auth", s.auth.ap>>} \in Air
  BY <1>1 DEF State, Auths, Names, Frames, Air
<1>4. u \in State  BY <1>1, <1>2, <1>3 DEF State
<1>5. a.ap = s.auth.ap /\ a.done = s.auth.done /\ a.waiting = s.auth.waiting
  BY <1>1 DEF Auths
<1>6. Keeps(s, u)

  BY <1>1, <1>4, <1>5
     DEF Calm, State, Exclusive, Quiet, Informed, Stations, Keeps
<1>7. AuthSend(s) = RunAgain(u, Long)  BY DEF AuthSend
<1>. QED  BY <1>6, <1>7, RunAgainKeeps, Constants DEF Keeps

\* The same of an association request.
LEMMA AssocSendKeeps ==
    ASSUME NEW s, Calm(s), s.assoc.ap # None, s.assoc.tries # MaxTries
    PROVE  Keeps(s, AssocSend(s)) /\ AssocSend(s).timer # Off
<1>. DEFINE a == [s.assoc EXCEPT !.tries = @ + 1, !.timeout = Long,
                                 !.comeback = FALSE]
            u == [s EXCEPT !.assoc = a, !.owed = @ \union {"assoc"},
                           !.air = @ \union {<<"assoc", s.assoc.ap>>}]
<1>1. s \in State /\ s.assoc \in Assocs  BY DEF Calm, State
<1>2. a \in Assocs
  <2>1. s.assoc.tries + 1 \in Tries
    BY <1>1, MlmeBounds DEF Assocs, Tries
  <2>. QED  BY <1>1, <2>1, Constants DEF Assocs
<1>3. /\ s.owed \union {"assoc"} \in Frames
      /\ s.air \union {<<"assoc", s.assoc.ap>>} \in Air
  BY <1>1 DEF State, Assocs, Names, Frames, Air
<1>4. u \in State  BY <1>1, <1>2, <1>3 DEF State
<1>5. a.ap = s.assoc.ap
  BY <1>1 DEF Assocs
<1>6. Keeps(s, u)

  BY <1>1, <1>4, <1>5
     DEF Calm, State, Exclusive, Quiet, Informed, Stations, Keeps
<1>7. AssocSend(s) = RunAgain(u, Long)  BY DEF AssocSend
<1>. QED  BY <1>6, <1>7, RunAgainKeeps, Constants DEF Keeps

\* Moving the time-out of an authentication changes no phase.
LEMMA AuthTimeout ==
    ASSUME NEW s, Calm(s), NEW t \in Times
    PROVE  Keeps(s, [s EXCEPT !.auth.timeout = t])
<1>. DEFINE a == [s.auth EXCEPT !.timeout = t]
            u == [s EXCEPT !.auth = a]
<1>1. s \in State /\ s.auth \in Auths  BY DEF Calm, State
<1>2. /\ a \in Auths
      /\ a.ap = s.auth.ap /\ a.done = s.auth.done /\ a.waiting = s.auth.waiting
  BY <1>1 DEF Auths
<1>3. u \in State  BY <1>1, <1>2 DEF State
<1>. QED

  BY <1>1, <1>2, <1>3
     DEF Calm, State, Exclusive, Quiet, Informed, Stations, Keeps

\* Nor does moving that of an association, or the request to come back.
LEMMA AssocTimeout ==
    ASSUME NEW s, Calm(s), NEW t \in Times, NEW c \in Bools
    PROVE  /\ Keeps(s, [s EXCEPT !.assoc.timeout = t])
           /\ Keeps(s, [s EXCEPT !.assoc.timeout = t, !.assoc.comeback = c])
<1>. DEFINE a == [s.assoc EXCEPT !.timeout = t]
            b == [s.assoc EXCEPT !.timeout = t, !.comeback = c]
            u == [s EXCEPT !.assoc = a]
            v == [s EXCEPT !.assoc = b]
<1>1. s \in State /\ s.assoc \in Assocs  BY DEF Calm, State
<1>2. a \in Assocs /\ a.ap = s.assoc.ap /\ b \in Assocs /\ b.ap = s.assoc.ap
  BY <1>1 DEF Assocs
<1>3. u \in State /\ v \in State  BY <1>1, <1>2 DEF State
<1>4. Keeps(s, u)

  BY <1>1, <1>2, <1>3
     DEF Calm, State, Exclusive, Quiet, Informed, Stations, Keeps
<1>5. Keeps(s, v)

  BY <1>1, <1>2, <1>3
     DEF Calm, State, Exclusive, Quiet, Informed, Stations, Keeps
<1>6. v = [s EXCEPT !.assoc.timeout = t, !.assoc.comeback = c]
  BY <1>1 DEF State
<1>. QED  BY <1>4, <1>5, <1>6

\* Userspace may be told the result of an authentication at any time.
LEMMA AwaitNone ==
    ASSUME NEW s, Calm(s), s.assoc.ap = None
    PROVE  Keeps(s, [s EXCEPT !.await = None])
<1>1. [s EXCEPT !.await = None] \in State  BY Constants DEF Calm, State
<1>. QED
  BY <1>1 DEF Calm, State, Exclusive, Quiet, Informed, Stations, Keeps, None

\* An authentication that is complete waits for userspace.
LEMMA MarkAuthKeeps ==
    ASSUME NEW s, Calm(s), s.await # "auth"
    PROVE  Keeps(s, MarkAuth(s))
<1>. DEFINE a == [s.auth EXCEPT !.done = TRUE, !.timeout = Wait]
            u == [s EXCEPT !.auth = a]
<1>1. s \in State /\ s.auth \in Auths  BY DEF Calm, State
<1>2. a \in Auths /\ a.ap = s.auth.ap
  BY <1>1, Constants DEF Auths
<1>3. u \in State  BY <1>1, <1>2 DEF State
<1>4. Keeps(s, u)

  BY <1>1, <1>2, <1>3
     DEF Calm, State, Exclusive, Quiet, Informed, Stations, Keeps
<1>5. MarkAuth(s) = RunAgain(u, Wait)  BY <1>1 DEF MarkAuth, State
<1>. QED  BY <1>4, <1>5, RunAgainKeeps, Constants DEF Keeps

\* A TX status moves time-outs, whatever phase it belonged to.
LEMMA StatusWorkKeeps ==
    ASSUME NEW s, Calm(s)
    PROVE  Keeps(s, StatusWork(s))
<1>. DEFINE s0 == [s EXCEPT !.status = NoStatus]
            soon == IF s.auth.sae = 0 THEN Short ELSE Wait
<1>1. Keeps(s, s0)
  BY Constants DEF Calm, State, Exclusive, Quiet, Informed, Stations, Keeps
<1>2. /\ soon \in 0..Wait /\ soon \in Times
      /\ Short \in 0..Wait /\ Short \in Times
      /\ Passed \in Times /\ TRUE \in Bools
  BY Constants
<1>3. /\ Keeps(s0, [s0 EXCEPT !.auth.timeout = soon])
      /\ Keeps(s0, [s0 EXCEPT !.auth.timeout = Passed])
      /\ Keeps(s0, [s0 EXCEPT !.assoc.timeout = Short])
      /\ Keeps(s0, [s0 EXCEPT !.assoc.timeout = Passed])
  BY <1>1, <1>2, AuthTimeout, AssocTimeout DEF Keeps
<1>4. /\ Keeps(s, RunAgain([s0 EXCEPT !.auth.timeout = soon], soon))
      /\ Keeps(s, RunAgain([s0 EXCEPT !.assoc.timeout = Short], Short))
  BY <1>1, <1>2, <1>3, RunAgainKeeps DEF Keeps
<1>5. \/ StatusWork(s) = RunAgain([s0 EXCEPT !.auth.timeout = soon], soon)
      \/ StatusWork(s) = [s0 EXCEPT !.auth.timeout = Passed]
      \/ StatusWork(s) = RunAgain([s0 EXCEPT !.assoc.timeout = Short], Short)
      \/ StatusWork(s) = [s0 EXCEPT !.assoc.timeout = Passed]
      \/ StatusWork(s) = s0
  <2>. DEFINE auth == s.status.fc = "auth" /\ s.auth.ap # None
              assoc == /\ s.status.fc = "assoc"
                       /\ s.assoc.ap # None /\ ~s.assoc.comeback
  <2>1. CASE auth  BY <2>1 DEF StatusWork
  <2>2. CASE ~auth /\ assoc  BY <2>2 DEF StatusWork
  <2>3. CASE ~auth /\ ~assoc  BY <2>3 DEF StatusWork
  <2>. QED  BY <2>1, <2>2, <2>3
<1>. QED  BY <1>1, <1>3, <1>4, <1>5 DEF Keeps

\* An authentication that ends with a report to userspace.
LEMMA QuietAuthEnd ==
    ASSUME NEW s, Calm(s), s.auth.ap # None
    PROVE  /\ Keeps(s, [DestroyAuth(s, FALSE) EXCEPT !.await = None])
           /\ ~Attempting([DestroyAuth(s, FALSE) EXCEPT !.await = None])
<1>. DEFINE v == [s EXCEPT !.await = None]
<1>1. Keeps(s, v) /\ v.auth.ap # None /\ v.await # "auth"
  BY AwaitNone DEF Calm, Exclusive, State, None
<1>2. [DestroyAuth(s, FALSE) EXCEPT !.await = None] = DestroyAuth(v, FALSE)
  BY DEF DestroyAuth, Calm, State
<1>. QED  BY <1>1, <1>2, DestroyAuthKeeps DEF Keeps

\* After its part of the work an authentication is over or has its timer.
LEMMA AuthWorkKeeps ==
    ASSUME NEW s, Calm(s)
    PROVE  /\ Keeps(s, AuthWork(s))
           /\ AuthWork(s).auth.ap # None => AuthWork(s).timer # Off
<1>. DEFINE u == AuthWork(s)
<1>1. CASE s.auth.ap = None
  <2>1. u = s  BY <1>1 DEF AuthWork
  <2>. QED  BY <1>1, <2>1 DEF Keeps
<1>2. CASE s.auth.ap # None /\ s.auth.timeout >= 0
  <2>1. u = RunAgain(s, s.auth.timeout)  BY <1>2 DEF AuthWork
  <2>2. s.auth.timeout \in 0..Wait
    <3>1. s.auth.timeout \in Passed..Wait  BY DEF Calm, State, Auths, Times
    <3>. QED  BY <1>2, <3>1, MlmeBounds DEF Passed
  <2>. QED  BY <2>1, <2>2, RunAgainKeeps
<1>3. CASE s.auth.ap # None /\ ~(s.auth.timeout >= 0)
  <2>1. CASE s.auth.done \/ s.auth.waiting
    <3>1. u = DestroyAuth(s, FALSE)  BY <1>3, <2>1 DEF AuthWork
    <3>2. s.await # "auth"  BY <2>1 DEF Calm, Informed
    <3>. QED  BY <1>3, <3>1, <3>2, DestroyAuthKeeps DEF Attempting
  <2>2. CASE ~(s.auth.done \/ s.auth.waiting) /\ s.auth.tries = MaxTries
    <3>1. u = [DestroyAuth(s, FALSE) EXCEPT !.await = None]
      BY <1>3, <2>2 DEF AuthWork
    <3>. QED  BY <1>3, <3>1, QuietAuthEnd DEF Attempting
  <2>3. CASE ~(s.auth.done \/ s.auth.waiting) /\ s.auth.tries # MaxTries
    <3>1. u = AuthSend(s)  BY <1>3, <2>3 DEF AuthWork
    <3>. QED  BY <1>3, <2>3, <3>1, AuthSendKeeps
  <2>. QED  BY <2>1, <2>2, <2>3
<1>. QED  BY <1>1, <1>2, <1>3

\* So is an association; the timer it deletes is not an authentication's.
LEMMA AssocWorkKeeps ==
    ASSUME NEW s, Calm(s), s.auth.ap # None => s.timer # Off
    PROVE  /\ Keeps(s, AssocWork(s))
           /\ AssocWork(s).auth.ap # None \/ AssocWork(s).assoc.ap # None
                => AssocWork(s).timer # Off
<1>. DEFINE u == AssocWork(s)
<1>1. CASE s.assoc.ap = None
  <2>1. u = s  BY <1>1 DEF AssocWork
  <2>. QED  BY <1>1, <2>1 DEF Keeps
<1>2. CASE s.assoc.ap # None /\ s.assoc.timeout >= 0
  <2>1. u = RunAgain(s, s.assoc.timeout)  BY <1>2 DEF AssocWork
  <2>2. s.assoc.timeout \in 0..Wait
    <3>1. s.assoc.timeout \in Passed..Wait  BY DEF Calm, State, Assocs, Times
    <3>. QED  BY <1>2, <3>1, MlmeBounds DEF Passed
  <2>. QED  BY <2>1, <2>2, RunAgainKeeps
<1>3. CASE s.assoc.ap # None /\ ~(s.assoc.timeout >= 0)
  <2>1. CASE s.assoc.tries = MaxTries
    <3>1. u = DestroyAssoc(s)  BY <1>3, <2>1 DEF AssocWork
    <3>. QED  BY <1>3, <3>1, DestroyAssocKeeps DEF Attempting
  <2>2. CASE s.assoc.tries # MaxTries
    <3>1. u = AssocSend(s)  BY <1>3, <2>2 DEF AssocWork
    <3>. QED  BY <1>3, <2>2, <3>1, AssocSendKeeps
  <2>. QED  BY <2>1, <2>2
<1>. QED  BY <1>1, <1>2, <1>3

\* A nullfunc frame is sent while there are tries left.
LEMMA ProbeSendKeeps ==
    ASSUME NEW s, Calm(s), s.probes < MaxNull
    PROVE  /\ Keeps(s, ProbeSend(s)) /\ ProbeSend(s).timer # Off
           /\ ProbeSend(s).works = s.works
<1>. DEFINE u == [s EXCEPT !.probes = @ + 1, !.failed = FALSE,
                           !.owed = @ \union {"null"}, !.probe_timeout = Long]
<1>1. s.probes + 1 \in Counts  BY MlmeBounds DEF Calm, State, Counts
<1>2. s.owed \union {"null"} \in Frames  BY DEF Calm, State, Frames
<1>3. u \in State  BY <1>1, <1>2, Constants DEF Calm, State
<1>4. Keeps(s, u)
  BY <1>3 DEF Calm, State, Exclusive, Quiet, Informed, Stations, Keeps
<1>5. ProbeSend(s) = RunAgain(u, Long)  BY DEF ProbeSend
<1>6. RunAgain(u, Long).works = s.works
  <2>1. PICK x \in 0..Wait : RunAgain(u, Long) = [u EXCEPT !.timer = x]
    BY <1>3, RunAgainTimer, Constants
  <2>. QED  BY <2>1 DEF Calm, State
<1>. QED  BY <1>4, <1>5, <1>6, RunAgainKeeps, Constants DEF Keeps

\* After the last part of the work, whatever goes on has the timer.
LEMMA PollWorkKeeps ==
    ASSUME NEW s, Calm(s),
           s.auth.ap # None \/ s.assoc.ap # None => s.timer # Off
    PROVE  /\ Keeps(s, PollWork(s))
           /\ Attempting(PollWork(s)) => PollWork(s).timer # Off
<1>. DEFINE u == PollWork(s)
<1>1. CASE ~s.poll \/ s.ap = None
  <2>1. u = s /\ ~s.poll  BY <1>1 DEF PollWork, Calm, Quiet
  <2>. QED  BY <2>1 DEF Keeps, Attempting
<1>2. CASE s.poll /\ s.ap # None
  <2>0. s.auth.ap = None /\ s.assoc.ap = None  BY <1>2 DEF Calm, Exclusive
  <2>1. CASE s.probes = 0
    <3>1. u = StopPoll(s)  BY <1>2, <2>1 DEF PollWork, ResetProbe
    <3>2. u.auth.ap = None /\ u.assoc.ap = None
      BY <2>0, <3>1 DEF StopPoll, Calm, State
    <3>. QED  BY <3>1, <3>2, StopPollKeeps DEF Attempting
  <2>2. CASE s.probes # 0 /\ s.failed /\ s.probes < MaxNull
    <3>1. u = ProbeSend(s)  BY <1>2, <2>2 DEF PollWork
    <3>. QED  BY <2>2, <3>1, ProbeSendKeeps
  <2>3. CASE s.probes # 0 /\ ~s.failed /\ s.probe_timeout > 0
    <3>1. u = RunAgain(s, s.probe_timeout)  BY <1>2, <2>3 DEF PollWork
    <3>2. s.probe_timeout \in 0..Wait  BY MlmeBounds DEF Calm, State, Longs
    <3>. QED  BY <3>1, <3>2, RunAgainKeeps
  <2>4. CASE /\ s.probes # 0
             /\ \/ s.failed /\ ~(s.probes < MaxNull)
                \/ ~s.failed /\ ~(s.probe_timeout > 0)
    <3>1. u = Disconnected(s)  BY <1>2, <2>4 DEF PollWork
    <3>. QED  BY <1>2, <3>1, DisconnectedKeeps
  <2>. QED  BY <2>1, <2>2, <2>3, <2>4
<1>. QED  BY <1>1, <1>2

\* ieee80211_sta_work needs nothing to be pending when it starts, and leaves
\* something pending for whatever goes on.
LEMMA StaWorkKeeps ==
    ASSUME NEW s, Calm(s)
    PROVE  Keeps(s, StaWork(s)) /\ Awake(StaWork(s))
<1>. DEFINE s1 == StatusWork(s)
            s2 == AuthWork(s1)
            s3 == AssocWork(s2)
<1>1. Keeps(s, s1)  BY StatusWorkKeeps
<1>2. Keeps(s1, s2) /\ (s2.auth.ap # None => s2.timer # Off)
  BY <1>1, AuthWorkKeeps DEF Keeps
<1>3. /\ Keeps(s2, s3)
      /\ s3.auth.ap # None \/ s3.assoc.ap # None => s3.timer # Off
  <2>. HIDE DEF s2
  <2>. QED  BY <1>2, AssocWorkKeeps DEF Keeps
<1>4. Keeps(s3, PollWork(s3)) /\ Awake(PollWork(s3))
  <2>. HIDE DEF s3
  <2>. QED  BY <1>3, PollWorkKeeps DEF Keeps, Awake
<1>. QED  BY <1>1, <1>2, <1>3, <1>4 DEF StaWork, Keeps

\* Authentication frames: expected, repeated, late or of another AP.
LEMMA RxAuthKeeps ==
    ASSUME NEW s, Calm(s), NEW f \in AuthFrames
    PROVE  Keeps(s, RxAuth(s, f))
<1>. DEFINE a == s.auth
            told == [s EXCEPT !.await = None]
            b == [a EXCEPT !.waiting = TRUE, !.timeout = Wait]
            v == [told EXCEPT !.auth = b]
            c == [a EXCEPT !.confirmed = TRUE]
            w == [told EXCEPT !.auth = c]
<1>1. /\ f.ap \in APs /\ f.trans \in {1, 2}
      /\ f.status \in {"ok", "deny", "retry"}
  BY DEF AuthFrames
<1>2. s \in State /\ a \in Auths  BY DEF Calm, State
<1>3. a.ap = f.ap => a.ap # None /\ s.assoc.ap = None
  BY <1>1, Constants DEF Calm, Exclusive
<1>4. a.ap = f.ap => Keeps(s, told)  BY <1>3, AwaitNone
<1>5. told.auth = a /\ told.assoc = s.assoc /\ told.await = None
  BY <1>2 DEF State
<1>6. a.ap = f.ap => Keeps(s, RunAgain(v, Wait))
  <2>. SUFFICES ASSUME a.ap = f.ap PROVE Keeps(s, RunAgain(v, Wait))  OBVIOUS
  <2>1. Calm(told) /\ (Stations(s) => Stations(told))  BY <1>4 DEF Keeps
  <2>2. b \in Auths /\ b.ap = a.ap  BY <1>2, Constants DEF Auths
  <2>3. v \in State  BY <2>1, <2>2 DEF Calm, State
  <2>4. Keeps(s, v)
    BY <1>5, <2>1, <2>2, <2>3
       DEF Calm, State, Exclusive, Quiet, Informed, Stations, Keeps, None
  <2>. QED  BY <2>4, RunAgainKeeps, Constants DEF Keeps
<1>7. a.ap = f.ap => Keeps(s, w)
  <2>. SUFFICES ASSUME a.ap = f.ap PROVE Keeps(s, w)  OBVIOUS
  <2>1. Calm(told) /\ (Stations(s) => Stations(told))  BY <1>4 DEF Keeps
  <2>2. /\ c \in Auths /\ c.ap = a.ap
        /\ c.done = a.done /\ c.waiting = a.waiting
    BY <1>2, Constants DEF Auths
  <2>3. w \in State  BY <2>1, <2>2 DEF Calm, State
  <2>. QED
    BY <1>5, <2>1, <2>2, <2>3
       DEF Calm, State, Exclusive, Quiet, Informed, Stations, Keeps
<1>8. a.ap = f.ap => Keeps(s, DestroyAuth(told, FALSE))
  BY <1>3, <1>4, <1>5, DestroyAuthKeeps DEF Keeps, None
<1>9. a.ap = f.ap => Keeps(s, MarkAuth(told))
  BY <1>4, <1>5, MarkAuthKeeps DEF Keeps, None
<1>. DEFINE c1 == a.ap # f.ap \/ a.done \/ ~Expected(a, f)
            c2 == f.status = "retry" /\ a.sae # 0
            c3 == f.status = "deny" \/ (f.status = "retry" /\ a.sae = 0)
            c4 == f.status = "ok" /\ (a.sae = 0 \/ (a.sae = 2 /\ f.trans = 2))
            c5 == f.status = "ok" /\ a.sae = 1 /\ f.trans = 2
            u == RxAuth(s, f)
<1>10. CASE c1  BY <1>10 DEF RxAuth, Keeps
<1>11. CASE ~c1
  <2>1. a.ap = f.ap  BY <1>11
  <2>2. u \in {RunAgain(v, Wait), DestroyAuth(told, FALSE), MarkAuth(told), w,
               told}
    <3>1. CASE c2  BY <1>11, <3>1 DEF RxAuth
    <3>2. CASE c3  BY <1>11, <3>2 DEF RxAuth
    <3>3. CASE c4  BY <1>11, <3>3 DEF RxAuth
    <3>4. CASE c5  BY <1>11, <3>4 DEF RxAuth
    <3>5. CASE ~c2 /\ ~c3 /\ ~c4 /\ ~c5  BY <1>11, <3>5 DEF RxAuth
    <3>. QED  BY <3>1, <3>2, <3>3, <3>4, <3>5
  <2>. QED  BY <2>1, <2>2, <1>4, <1>6, <1>7, <1>8, <1>9
<1>. QED  BY <1>10, <1>11

\* Association responses; success hands the station over to the connection.
LEMMA RxAssocKeeps ==
    ASSUME NEW s, Calm(s), NEW f \in AssocFrames, s.running
    PROVE  Keeps(s, RxAssoc(s, f))
<1>. DEFINE u == RxAssoc(s, f)
            soon == [s EXCEPT !.assoc.timeout = Short, !.assoc.comeback = TRUE]
            late == [s EXCEPT !.assoc.timeout = Wait, !.assoc.comeback = TRUE]
            p == StopPoll(s)
            done == [p EXCEPT !.ap = f.ap, !.told = f.ap,
                              !.assoc = NoAssoc, !.await = None]
<1>1. f.ap \in APs /\ f.status \in {"ok", "deny", "soon", "later"}
  BY DEF AssocFrames
<1>2. Keeps(s, soon) /\ Keeps(s, late)
  BY AssocTimeout, Constants
<1>3. Keeps(s, RunAgain(late, Wait))
  BY <1>2, RunAgainKeeps, Constants DEF Keeps
<1>4. ASSUME s.assoc.ap = f.ap
      PROVE  Keeps(s, DestroyAssoc(s)) /\ Keeps(s, done)
  <2>1. s.assoc.ap # None  BY <1>1, <1>4, Constants
  <2>2. Keeps(s, p) /\ ~p.poll  BY StopPollKeeps
  <2>3. p.auth.ap = None /\ p.assoc = s.assoc /\ p.running = s.running
        /\ p.ap = None /\ p.stas = s.stas /\ p.auth = s.auth
    BY <2>1 DEF StopPoll, Calm, State, Exclusive
  <2>4. done \in State  BY <2>2, <1>1, Constants DEF Calm, Keeps, State
  <2>5. Exclusive(done) /\ Quiet(done) /\ Informed(done)
    BY <2>2, <2>3, <2>4, Ends
       DEF Calm, Keeps, State, Exclusive, Quiet, Informed, None
  <2>6. Stations(s) => Stations(done)
    BY <1>4, <2>2, <2>3, <2>4, Ends DEF Calm, Keeps, State, Stations
  <2>. QED  BY <2>1, <2>4, <2>5, <2>6, DestroyAssocKeeps DEF Keeps, Calm
<1>5. CASE s.assoc.ap # f.ap  BY <1>5 DEF RxAssoc, Keeps
<1>6. CASE s.assoc.ap = f.ap
  <2>1. CASE f.status = "soon"  BY <1>6, <2>1, <1>2 DEF RxAssoc
  <2>2. CASE f.status = "later"  BY <1>6, <2>2, <1>3 DEF RxAssoc
  <2>3. CASE f.status = "deny"  BY <1>6, <2>3, <1>4 DEF RxAssoc
  <2>4. CASE f.status = "ok"  BY <1>6, <2>4, <1>4 DEF RxAssoc
  <2>. QED  BY <1>1, <2>1, <2>2, <2>3, <2>4
<1>. QED  BY <1>5, <1>6

\* Every management frame leaves one phase and an informed userspace.
LEMMA RxFrameKeeps ==
    ASSUME NEW s, Calm(s), s.running,
           NEW f \in AuthFrames \union AssocFrames \union OtherFrames
    PROVE  Keeps(s, RxFrame(s, f))
<1>1. CASE f \in AuthFrames
  BY <1>1, RxAuthKeeps DEF AuthFrames, RxFrame
<1>2. CASE f \in AssocFrames
  BY <1>2, RxAssocKeeps DEF AssocFrames, RxFrame
<1>3. CASE f \in OtherFrames
  <2>1. f.ap \in APs /\ f.type \in {"deauth", "disassoc", "probe_resp"}
    BY <1>3 DEF OtherFrames
  <2>2. f.ap # None  BY <2>1, Constants
  <2>3. s.ap = f.ap => Keeps(s, Disconnected(s))
    BY <2>2, DisconnectedKeeps
  <2>4. s.assoc.ap = f.ap => Keeps(s, DestroyAssoc(s))
    BY <2>2, DestroyAssocKeeps
  <2>5. Keeps(s, s) /\ Keeps(s, ResetProbe(s))  BY ResetProbeKeeps DEF Keeps
  <2>6. Keeps(s, RxDeauth(s, f))
    <3>1. CASE s.ap = f.ap  BY <3>1, <2>3 DEF RxDeauth
    <3>2. CASE s.ap # f.ap /\ s.assoc.ap = f.ap  BY <3>2, <2>4 DEF RxDeauth
    <3>3. CASE s.ap # f.ap /\ s.assoc.ap # f.ap  BY <3>3, <2>5 DEF RxDeauth
    <3>. QED  BY <3>1, <3>2, <3>3
  <2>7. CASE f.type = "deauth"  BY <2>6, <2>7 DEF RxFrame
  <2>8. CASE f.type = "disassoc"  BY <2>3, <2>5, <2>8 DEF RxFrame
  <2>9. CASE f.type = "probe_resp"  BY <2>5, <2>9 DEF RxFrame
  <2>. QED  BY <2>1, <2>7, <2>8, <2>9
<1>. QED  BY <1>1, <1>2, <1>3

\* What the APs have still to answer is not part of the interface.
LEMMA AnsweredKeeps ==
    ASSUME NEW s, Calm(s), NEW f
    PROVE  Keeps(s, Answered(s, f)) /\ Answered(s, f).running = s.running
<1>1. s.air \ {<<f.type, f.ap>>} \in Air  BY DEF Calm, State, Air
<1>2. [s EXCEPT !.air = @ \ {<<f.type, f.ap>>}] \in State
  BY <1>1 DEF Calm, State
<1>. QED

  BY <1>2
     DEF Answered, Calm, State, Exclusive, Quiet, Informed, Stations, Keeps

\* The sequences the queue of works takes, ...
LEMMA ShortLists ==
    ASSUME NEW x, NEW y
    PROVE  /\ Append(<<x>>, y) = <<x, y>>
           /\ Tail(<<x>>) = <<>>
<1>0. <<x>> \in Seq({x, y}) /\ Len(<<x>>) = 1 /\ <<x>>[1] = x  OBVIOUS
<1>1. Append(<<x>>, y) \in Seq({x, y})  BY <1>0
<1>2. <<x, y>> \in Seq({x, y}) /\ Len(<<x, y>>) = 2  OBVIOUS
<1>3. /\ Len(Append(<<x>>, y)) = 2
      /\ \A i \in 1..2 : Append(<<x>>, y)[i] = <<x, y>>[i]
  <2>1. /\ Len(Append(<<x>>, y)) = 2
        /\ Append(<<x>>, y)[1] = x /\ Append(<<x>>, y)[2] = y
    BY <1>0, AppendProperties
  <2>2. <<x, y>>[1] = x /\ <<x, y>>[2] = y  OBVIOUS
  <2>3. \A i \in 1..2 : i = 1 \/ i = 2  OBVIOUS
  <2>. QED  BY <2>1, <2>2, <2>3
<1>4. Append(<<x>>, y) = <<x, y>>  BY ONLY <1>1, <1>2, <1>3, SeqEqual
<1>5. Tail(<<x>>) \in Seq({x, y}) /\ Len(Tail(<<x>>)) = 0  OBVIOUS
<1>. QED  BY <1>4, <1>5, EmptySeq

\* ... and what queueing a work and running the first one makes of them.
LEMMA ListFacts ==
    ASSUME NEW l \in Lists
    PROVE  /\ ~Contains(l, "sta") => /\ Append(l, "sta") \in Lists
                                     /\ Contains(Append(l, "sta"), "sta")
           /\ ~Contains(l, "loss") =>
                 /\ Append(l, "loss") \in Lists
                 /\ Contains(l, "sta") => Contains(Append(l, "loss"), "sta")
           /\ l # <<>> => Tail(l) \in Lists
           /\ l # <<>> /\ Head(l) = "loss" /\ Contains(l, "sta")
                => Contains(Tail(l), "sta")
<1>1. CASE l = <<>>
  <2>1. Append(l, "sta") = <<"sta">> /\ Append(l, "loss") = <<"loss">>
    BY <1>1
  <2>2. ~Contains(l, "sta") /\ Contains(<<"sta">>, "sta")
    BY <1>1 DEF Contains
  <2>. QED  BY <1>1, <2>1, <2>2 DEF Lists
<1>2. CASE l = <<"sta">>
  <2>1. Append(l, "loss") = <<"sta", "loss">> /\ Tail(l) = <<>>
    BY <1>2, ShortLists
  <2>4. Head(l) = "sta"  BY <1>2
  <2>2. Contains(l, "sta") /\ Contains(<<"sta", "loss">>, "sta")
    BY <1>2 DEF Contains
  <2>. QED  BY <1>2, <2>1, <2>2, <2>4 DEF Lists
<1>3. CASE l = <<"loss">>
  <2>1. Append(l, "sta") = <<"loss", "sta">> /\ Tail(l) = <<>>
    BY <1>3, ShortLists
  <2>2. /\ Contains(l, "loss") /\ ~Contains(l, "sta")
        /\ Contains(<<"loss", "sta">>, "sta")
    BY <1>3 DEF Contains
  <2>. QED  BY <1>3, <2>1, <2>2 DEF Lists
<1>4. CASE l = <<"sta", "loss">>
  <2>1. Tail(l) = <<"loss">> /\ Head(l) = "sta"  BY <1>4
  <2>2. Contains(l, "loss") /\ Contains(l, "sta")  BY <1>4 DEF Contains
  <2>. QED  BY <1>4, <2>1, <2>2 DEF Lists
<1>5. CASE l = <<"loss", "sta">>
  <2>1. Tail(l) = <<"sta">>  BY <1>5
  <2>2. /\ Contains(l, "loss") /\ Contains(l, "sta")
        /\ Contains(<<"sta">>, "sta")
    BY <1>5 DEF Contains
  <2>. QED  BY <1>5, <2>1, <2>2 DEF Lists
<1>. QED  BY <1>1, <1>2, <1>3, <1>4, <1>5 DEF Lists

\* The queue of works says nothing about the phase.
LEMMA WorksSet ==
    ASSUME NEW s, Calm(s), NEW l \in Lists
    PROVE  /\ Keeps(s, [s EXCEPT !.works = l])
           /\ Attempting([s EXCEPT !.works = l]) <=> Attempting(s)
           /\ [s EXCEPT !.works = l].timer = s.timer
           /\ [s EXCEPT !.works = l].works = l
           /\ [s EXCEPT !.works = l].running = s.running
<1>1. [s EXCEPT !.works = l] \in State  BY DEF Calm, State
<1>. QED

  BY <1>1
     DEF Calm, State, Exclusive, Quiet, Informed, Stations, Keeps, Attempting

\* Queueing a work, again or for the first time.
LEMMA QueueKeeps ==
    ASSUME NEW s, Calm(s)
    PROVE  /\ Keeps(s, Queue(s, "sta")) /\ Keeps(s, Queue(s, "loss"))
           /\ Contains(Queue(s, "sta").works, "sta")
           /\ Awake(s) => Awake(Queue(s, "loss"))
<1>1. s.works \in Lists  BY DEF Calm, State
<1>2. Keeps(s, s)  BY DEF Keeps
<1>3. CASE Contains(s.works, "sta")
  <2>1. Keeps(s, Queue(s, "sta")) /\ Contains(Queue(s, "sta").works, "sta")
    BY <1>2, <1>3 DEF Queue
  <2>2. CASE Contains(s.works, "loss")  BY <1>2, <2>1, <2>2 DEF Queue
  <2>3. CASE ~Contains(s.works, "loss")
    <3>1. Queue(s, "loss") = [s EXCEPT !.works = Append(s.works, "loss")]
      BY <2>3 DEF Queue
    <3>2. /\ Append(s.works, "loss") \in Lists
          /\ Contains(Append(s.works, "loss"), "sta")
      BY <1>1, <1>3, <2>3, ListFacts
    <3>3. /\ Keeps(s, Queue(s, "loss"))
          /\ Queue(s, "loss").works = Append(s.works, "loss")
      BY <3>1, <3>2, WorksSet
    <3>. QED  BY <2>1, <3>2, <3>3 DEF Awake
  <2>. QED  BY <2>2, <2>3
<1>4. CASE ~Contains(s.works, "sta")
  <2>1. Queue(s, "sta") = [s EXCEPT !.works = Append(s.works, "sta")]
    BY <1>4 DEF Queue
  <2>5. /\ Append(s.works, "sta") \in Lists
        /\ Contains(Append(s.works, "sta"), "sta")
    BY <1>1, <1>4, ListFacts
  <2>6. /\ Keeps(s, Queue(s, "sta"))
        /\ Queue(s, "sta").works = Append(s.works, "sta")
    BY <2>1, <2>5, WorksSet
  <2>2. Keeps(s, Queue(s, "sta")) /\ Contains(Queue(s, "sta").works, "sta")
    BY <2>5, <2>6
  <2>3. CASE Contains(s.works, "loss")  BY <1>2, <2>2, <2>3 DEF Queue
  <2>4. CASE ~Contains(s.works, "loss")
    <3>1. Queue(s, "loss") = [s EXCEPT !.works = Append(s.works, "loss")]
      BY <2>4 DEF Queue
    <3>2. Append(s.works, "loss") \in Lists  BY <1>1, <2>4, ListFacts
    <3>. DEFINE q == [s EXCEPT !.works = Append(s.works, "loss")]
    <3>3. Keeps(s, q) /\ (Attempting(q) => Attempting(s)) /\ q.timer = s.timer
      BY <3>2, WorksSet
    <3>. HIDE DEF q
    <3>. QED  BY <1>4, <2>2, <3>1, <3>3 DEF Awake, q
  <2>. QED  BY <2>3, <2>4
<1>. QED  BY <1>3, <1>4

\* ieee80211_iface_work, with or without a frame: the work that was queued for
\* an attempt is gone, and has left the timer behind.
LEMMA IfaceWorkStep ==
    ASSUME Calm(m), Awake(m), IfaceWork \/ IfaceWorkFrame
    PROVE  Keeps(m, m') /\ Awake(m')
<1>. DEFINE s == [m EXCEPT !.works = Tail(@)]
<1>1. m.works # <<>>  BY DEF IfaceWork, IfaceWorkFrame
<1>2. /\ Keeps(m, s) /\ s.running = m.running
      /\ Attempting(s) <=> Attempting(m)
  BY <1>1, ListFacts, WorksSet DEF Calm, State
<1>. HIDE DEF s
<1>3. CASE IfaceWork
  <2>1. m' = IF s.running THEN StaWork(s) ELSE s  BY <1>3 DEF IfaceWork, s
  <2>2. CASE s.running  BY <1>2, <2>1, <2>2, StaWorkKeeps DEF Keeps
  <2>3. CASE ~s.running
    <3>1. ~Attempting(s)  BY <1>2, <2>3 DEF Keeps, Calm, Quiet, Attempting
    <3>. QED  BY <1>2, <2>1, <2>3, <3>1 DEF Awake
  <2>. QED  BY <2>2, <2>3
<1>4. CASE IfaceWorkFrame
  <2>1. PICK f \in Receivable(m) : m' = StaWork(RxFrame(Answered(s, f), f))
    BY <1>4 DEF IfaceWorkFrame, s
  <2>2. f \in AuthFrames \union AssocFrames \union OtherFrames
    BY DEF Receivable
  <2>3. m.running  BY <1>4 DEF IfaceWorkFrame
  <2>4. Keeps(s, Answered(s, f)) /\ Answered(s, f).running
    BY <1>2, <2>3, AnsweredKeeps DEF Keeps
  <2>5. Keeps(Answered(s, f), RxFrame(Answered(s, f), f))
    BY <2>2, <2>4, RxFrameKeeps DEF Keeps
  <2>. QED  BY <1>2, <2>1, <2>4, <2>5, StaWorkKeeps DEF Keeps
<1>. QED  BY <1>3, <1>4

\* The beacon loss work disconnects or polls; a work queued behind it stays.
LEMMA LossWorkStep ==
    ASSUME Calm(m), Awake(m), BeaconConnectionLossWork
    PROVE  Keeps(m, m') /\ Awake(m')
<1>. DEFINE s == [m EXCEPT !.works = Tail(@)]
<1>1. m.works # <<>> /\ Head(m.works) = "loss" /\ m' = LossWork(s)
  BY DEF BeaconConnectionLossWork
<1>2. Keeps(m, s) /\ Awake(s)
  BY <1>1, ListFacts, WorksSet DEF Calm, State, Awake
<1>. HIDE DEF s
<1>3. Keeps(s, Disconnect(s)) /\ Awake(Disconnect(s))
  BY <1>2, DisconnectedKeeps DEF Disconnect, Keeps, Awake
<1>. DEFINE d == Disconnect(s)
<1>4. ASSUME NEW v \in {[d EXCEPT !.loss = FALSE], [d EXCEPT !.drop = FALSE]}
      PROVE  Keeps(s, v) /\ Awake(v)
  <2>. HIDE DEF d
  <2>1. v \in State  BY <1>3, Constants DEF Keeps, Calm, State, d
  <2>. QED
    BY <1>3, <2>1 DEF Calm, State, Exclusive, Quiet, Informed, Stations, Keeps,
       Attempting, Awake, d
<1>5. Keeps(s, ProbeAp(s)) /\ Awake(ProbeAp(s))
  <2>1. CASE s.ap = None \/ s.scan = "running" \/ s.poll
    BY <1>2, <2>1 DEF ProbeAp, Keeps
  <2>2. CASE ~(s.ap = None \/ s.scan = "running" \/ s.poll)
    <3>. DEFINE v == [s EXCEPT !.poll = TRUE, !.probes = 0]
    <3>1. v \in State  BY <1>2, Constants DEF Keeps, Calm, State
    <3>2. Keeps(s, v) /\ v.probes = 0
      BY <1>2, <2>2, <3>1
         DEF Calm, State, Exclusive, Quiet, Informed, Stations, Keeps
    <3>3. ProbeAp(s) = ProbeSend(v)  BY <2>2 DEF ProbeAp
    <3>4. 0 < MaxNull  BY MlmeBounds
    <3>. HIDE DEF v
    <3>. QED  BY <3>2, <3>3, <3>4, ProbeSendKeeps DEF Keeps, Awake
  <2>. QED  BY <2>1, <2>2
<1>6. m' = [d EXCEPT !.loss = FALSE] \/ m' = [d EXCEPT !.drop = FALSE]
      \/ m' = ProbeAp(s)
  BY <1>1 DEF LossWork
<1>. QED  BY <1>2, <1>4, <1>5, <1>6 DEF Keeps

\* Queueing the interface's work wakes whatever waits.
LEMMA QueuedKeeps ==
    ASSUME NEW s, NEW u, Keeps(s, u)
    PROVE  Keeps(s, Queue(u, "sta")) /\ Awake(Queue(u, "sta"))
  BY QueueKeeps DEF Keeps, Awake

\* A frame is queued.
LEMMA FrameArrivesStep ==
    ASSUME Calm(m), FrameArrives
    PROVE  Keeps(m, m') /\ Awake(m')
<1>1. Keeps(m, m)  BY DEF Keeps
<1>. QED  BY <1>1, QueuedKeeps DEF FrameArrives

\* The TX status of a request is remembered.
LEMMA ConnTxStatusStep ==
    ASSUME Calm(m), ConnTxStatus
    PROVE  Keeps(m, m') /\ Awake(m')
<1>1. PICK fc \in m.owed \ {"null"}, acked \in BOOLEAN :
         m' = Queue([m EXCEPT !.owed = @ \ {fc},
                              !.status = [fc |-> fc, acked |-> acked]], "sta")
  BY DEF ConnTxStatus
<1>. DEFINE st == [fc |-> fc, acked |-> acked]
            u == [m EXCEPT !.owed = @ \ {fc}, !.status = st]
<1>2. m.owed \ {fc} \in Frames /\ fc \in {"auth", "assoc"}
  BY DEF Calm, State, Frames
<1>3. st \in Statuses  BY <1>2 DEF Statuses
<1>. HIDE DEF st
<1>4. u \in State  BY <1>2, <1>3 DEF Calm, State
<1>5. Keeps(m, u)
  BY <1>4 DEF Calm, State, Exclusive, Quiet, Informed, Stations, Keeps
<1>6. m' = Queue(u, "sta")  BY <1>1 DEF st
<1>. QED  BY <1>5, <1>6, QueuedKeeps

\* The TX status of a nullfunc frame is remembered.
LEMMA TxNotifyStep ==
    ASSUME Calm(m), Awake(m), TxNotify
    PROVE  Keeps(m, m') /\ Awake(m')
<1>. DEFINE s == [m EXCEPT !.owed = @ \ {"null"}]
<1>1. m.owed \ {"null"} \in Frames  BY DEF Calm, State, Frames
<1>2. s \in State  BY <1>1 DEF Calm, State
<1>3. Keeps(m, s) /\ Awake(s)

  BY <1>2
     DEF Calm, State, Exclusive, Quiet, Informed, Stations, Keeps, Attempting,
     Awake
<1>4. PICK ack \in BOOLEAN :
         m' = IF s.probes = 0 THEN s
              ELSE Queue([s EXCEPT !.probes = IF ack THEN 0 ELSE @,
                                   !.failed = @ \/ ~ack], "sta")
  BY DEF TxNotify
<1>. DEFINE n == IF ack THEN 0 ELSE s.probes
            b == s.failed \/ ~ack
            u == [s EXCEPT !.probes = n, !.failed = b]
<1>. HIDE DEF s
<1>5. n \in Counts /\ b \in Bools  BY <1>2, Constants DEF State, Bools
<1>6. m' = s \/ m' = Queue(u, "sta")  BY <1>2, <1>4 DEF State
<1>. HIDE DEF n, b
<1>7. u \in State  BY <1>2, <1>5 DEF State
<1>8. Keeps(m, u)
  BY <1>3, <1>7 DEF Calm, State, Exclusive, Quiet, Informed, Stations, Keeps
<1>. QED  BY <1>3, <1>6, <1>8, QueuedKeeps

\* The timer stops being pending and queues the work.
LEMMA TimerFiresStep ==
    ASSUME Calm(m), TimerFires
    PROVE  Keeps(m, m') /\ Awake(m')
  BY TimerSet, Constants, QueuedKeeps DEF TimerFires

\* Time passes: no timer is forgotten.
LEMMA TickStep ==
    ASSUME Calm(m), Awake(m), Tick
    PROVE  Keeps(m, m') /\ Awake(m')
<1>. DEFINE t == Earlier(m.timer)
            p == Earlier(m.probe_timeout)
            x == IF m.auth.timeout = Passed THEN Passed
                 ELSE m.auth.timeout - 1
            y == IF m.assoc.timeout = Passed THEN Passed
                 ELSE m.assoc.timeout - 1
            a == [m.auth EXCEPT !.timeout = x]
            b == [m.assoc EXCEPT !.timeout = y]
            u == [m EXCEPT !.timer = t, !.probe_timeout = p,
                           !.auth = a, !.assoc = b]
<1>1. /\ m \in State /\ m.auth \in Auths /\ m.assoc \in Assocs
      /\ m.timer \in Times /\ m.probe_timeout \in Longs
  BY DEF Calm, State
<1>2. m.auth.timeout \in Times /\ m.assoc.timeout \in Times
  BY <1>1 DEF Auths, Assocs
<1>3. t \in Times /\ p \in Longs /\ x \in Times /\ y \in Times
  BY <1>1, <1>2, MlmeBounds DEF Earlier, Times, Longs, Passed
<1>4. m.timer # Off => t # Off
  BY <1>1, <1>2, MlmeBounds DEF Earlier, Times, Off, Passed
<1>5. m' = u  BY <1>1 DEF Tick, State
<1>. HIDE DEF t, p, x, y
<1>6. /\ a \in Auths /\ a.ap = m.auth.ap /\ a.done = m.auth.done
      /\ a.waiting = m.auth.waiting
      /\ b \in Assocs /\ b.ap = m.assoc.ap
  BY <1>1, <1>3 DEF Auths, Assocs
<1>. HIDE DEF a, b
<1>7. u \in State  BY <1>1, <1>3, <1>6 DEF State
<1>8. Keeps(m, u)
  BY <1>1, <1>6, <1>7
     DEF Calm, State, Exclusive, Quiet, Informed, Stations, Keeps
<1>9. Awake(u)  BY <1>1, <1>4, <1>6 DEF State, Awake, Attempting
<1>. QED  BY <1>5, <1>8, <1>9

\* Events of the driver.
LEMMA DriverEventStep ==
    ASSUME Calm(m), Awake(m), BeaconLoss \/ ConnectionLoss \/ DriverDisconnect
    PROVE  Keeps(m, m') /\ Awake(m')
<1>1. PICK u \in {[m EXCEPT !.loss = FALSE], [m EXCEPT !.loss = TRUE],
                  [m EXCEPT !.drop = TRUE]} : m' = Queue(u, "loss")
  BY DEF BeaconLoss, ConnectionLoss, DriverDisconnect, DriverEvent
<1>2. u \in State  BY Constants DEF Calm, State
<1>3. Keeps(m, u) /\ Awake(u)

  BY <1>2
     DEF Calm, State, Exclusive, Quiet, Informed, Stations, Keeps, Attempting,
     Awake
<1>. QED  BY <1>1, <1>3, QueueKeeps DEF Keeps

\* Disconnecting only what is connected.
LEMMA DisconnectKeeps ==
    ASSUME NEW s, Calm(s)
    PROVE  /\ Keeps(s, Disconnect(s)) /\ Disconnect(s).ap = None
           /\ Awake(s) => Awake(Disconnect(s))
<1>1. CASE s.ap = None  BY <1>1 DEF Disconnect, Keeps
<1>2. CASE s.ap # None  BY <1>2, DisconnectedKeeps DEF Disconnect, Awake
<1>. QED  BY <1>1, <1>2

\* Userspace ends a phase.
LEMMA MgdDeauthStep ==
    ASSUME Calm(m), Awake(m), MgdDeauth \/ MgdDisassoc
    PROVE  Keeps(m, m') /\ Awake(m')
<1>1. CASE MgdDisassoc  BY <1>1, DisconnectedKeeps DEF MgdDisassoc, Awake
<1>2. CASE MgdDeauth
  <2>1. CASE m.auth.ap # None
    BY <1>2, <2>1, QuietAuthEnd DEF MgdDeauth, Awake
  <2>2. CASE m.auth.ap = None /\ m.assoc.ap # None
    BY <1>2, <2>2, DestroyAssocKeeps DEF MgdDeauth, Awake
  <2>3. CASE m.auth.ap = None /\ m.assoc.ap = None
    BY <1>2, <2>3, DisconnectKeeps DEF MgdDeauth
  <2>. QED  BY <2>1, <2>2, <2>3
<1>. QED  BY <1>1, <1>2

\* A scan is put off only during a poll, and its end ends the poll.
LEMMA ScanStep ==
    ASSUME Calm(m), Awake(m), StartScan \/ ScanCompleted
    PROVE  Keeps(m, m') /\ Awake(m')
<1>1. CASE StartScan
  <2>. DEFINE c == IF m.poll THEN "deferred" ELSE "running"
              u == [m EXCEPT !.scan = c]
  <2>1. c \in Scans /\ (c = "deferred" => m.poll)  BY DEF Scans
  <2>2. m' = u  BY <1>1 DEF StartScan
  <2>. HIDE DEF c
  <2>3. u \in State  BY <2>1 DEF Calm, State
  <2>. QED
    BY <2>1, <2>2, <2>3 DEF Calm, State, Exclusive, Quiet, Informed, Stations,
       Keeps, Attempting, Awake
<1>2. CASE ScanCompleted
  <2>. DEFINE u == [m EXCEPT !.scan = "no"]
  <2>1. "no" \in Scans  BY DEF Scans
  <2>2. u \in State  BY <2>1 DEF Calm, State
  <2>3. Keeps(m, u)
    BY <2>2 DEF Calm, State, Exclusive, Quiet, Informed, Stations, Keeps
  <2>4. Keeps(m, StopPoll(u))  BY <2>3, StopPollKeeps DEF Keeps
  <2>. QED  BY <1>2, <2>4, QueuedKeeps DEF ScanCompleted
<1>. QED  BY <1>1, <1>2

\* The interface goes down with nothing left, or comes up.
LEMMA StopStep ==
    ASSUME Calm(m), Awake(m), MgdStop \/ Open
    PROVE  Keeps(m, m') /\ Awake(m')
<1>1. CASE MgdStop
  <2>. DEFINE s1 == IF m.assoc.ap = None THEN m ELSE DestroyAssoc(m)
              s2 == IF s1.auth.ap = None THEN s1 ELSE DestroyAuth(s1, FALSE)
              w == IF Contains(s2.works, "sta") THEN <<"sta">> ELSE <<>>
              u == [s2 EXCEPT !.running = FALSE, !.timer = Off, !.await = None,
                              !.scan = "no", !.works = w]
              e == [s2 EXCEPT !.await = None]
  <2>1. m' = u /\ m.ap = None  BY <1>1 DEF MgdStop
  <2>2. w \in Lists /\ "no" \in Scans  BY DEF Lists, Scans
  <2>3. /\ s2 \in State /\ s2.auth.ap = None /\ s2.assoc.ap = None
        /\ s2.ap = None /\ s2.told = None
        /\ (Stations(m) => Stations(s2)) /\ ~s2.poll
    <3>1. Keeps(m, s1) /\ s1.assoc.ap = None /\ s1.ap = None
      BY <2>1, DestroyAssocKeeps, Ends DEF DestroyAssoc, Keeps, Calm, State
    <3>. HIDE DEF s1
    <3>2. CASE s1.auth.ap = None
      BY <3>1, <3>2 DEF Keeps, Calm, Quiet, Informed
    <3>3. CASE s1.auth.ap # None
      <4>. DEFINE v == [s1 EXCEPT !.await = None]
                  d == [DestroyAuth(s1, FALSE) EXCEPT !.await = None]
      <4>1. Keeps(s1, d) /\ ~Attempting(d)
        BY <3>1, <3>3, QuietAuthEnd DEF Keeps
      <4>2. s1 \in State /\ s1.stas \ {s1.auth.ap} \in Stas
        BY <3>1 DEF Keeps, Calm, State, Stas
      <4>3. s2 \in State  BY <3>3, <4>2, Constants DEF DestroyAuth, State
      <4>4. /\ d.auth = s2.auth /\ d.assoc = s2.assoc /\ d.ap = s2.ap
            /\ d.poll = s2.poll /\ d.stas = s2.stas /\ d.told = s2.told
        BY <3>3, <4>3 DEF State
      <4>5. s2.ap = s1.ap /\ s2.told = s1.told
        BY <3>3, <4>2 DEF DestroyAuth, State
      <4>. HIDE DEF d, s2
      <4>. QED
        BY <3>1, <4>1, <4>3, <4>4, <4>5
           DEF Keeps, Calm, Informed, Stations, Attempting
    <3>. QED  BY <3>2, <3>3
  <2>. HIDE DEF s2, w
  <2>4. u \in State  BY <2>2, <2>3, Constants DEF State
  <2>5. Calm(u) /\ ~Attempting(u)
    BY <2>2, <2>3, <2>4
       DEF Calm, State, Exclusive, Quiet, Informed, Attempting, None
  <2>6. Stations(m) => Stations(u)  BY <2>3, <2>4 DEF State, Stations
  <2>. QED  BY <2>1, <2>5, <2>6 DEF Keeps, Awake
<1>2. CASE Open
  <2>1. m' = [m EXCEPT !.running = TRUE]  BY <1>2 DEF Open
  <2>2. m' \in State  BY <2>1, Constants DEF Calm, State
  <2>. QED
    BY <2>1, <2>2 DEF Calm, State, Exclusive, Quiet, Informed, Stations, Keeps,
       Attempting, Awake
<1>. QED  BY <1>1, <1>2

\* ieee80211_prep_connection adds the station and ends a scan.
LEMMA PreparedKeeps ==
    ASSUME NEW s \in State, NEW ap \in APs
    PROVE  /\ Prepared(s, ap) \in State
           /\ Prepared(s, ap).stas = s.stas \union {ap}
           /\ Prepared(s, ap).scan = "deferred" => s.scan = "deferred"
           /\ \A f \in {"auth", "assoc", "ap", "poll", "running", "told",
                        "await", "timer", "works"} : Prepared(s, ap)[f] = s[f]
<1>. DEFINE c == IF s.scan = "running" THEN "no" ELSE s.scan
            u == [s EXCEPT !.stas = @ \union {ap}, !.scan = c]
<1>1. c \in Scans /\ (c = "deferred" => s.scan = "deferred")
  BY DEF State, Scans
<1>2. s.stas \union {ap} \in Stas  BY DEF State, Stas
<1>3. Prepared(s, ap) = u  BY DEF Prepared, State
<1>. HIDE DEF c
<1>4. u \in State  BY <1>1, <1>2 DEF State
<1>5. u.stas = s.stas \union {ap} /\ u.scan = c  BY DEF State
<1>6. \A f \in {"auth", "assoc", "ap", "poll", "running", "told", "await",
                "timer", "works"} : u[f] = s[f]
  BY DEF State
<1>. QED  BY <1>1, <1>3, <1>4, <1>5, <1>6

\* ieee80211_mgd_auth, for the same AP, another one or none, in any phase: what
\* was there before ends, except the station of an authentication that goes on.
\* Only a failure to go on leaves that station behind.
LEMMA MgdAuthStep ==
    ASSUME Calm(m), Awake(m), NEW ap \in APs, NEW sae \in 0..2,
           NEW fails \in BOOLEAN, MgdAuth(ap, sae, fails)
    PROVE  /\ Calm(m') /\ Awake(m')
           /\ ~ContFails /\ Stations(m) => Stations(m')
<1>. DEFINE cont == m.auth.ap = ap
            confirmed == cont /\ sae # 0 /\ m.auth.confirmed
            s0 == IF m.auth.ap = None THEN m ELSE DestroyAuth(m, cont)
            a == [NoAuth EXCEPT !.ap = ap, !.sae = sae,
                                !.confirmed = confirmed]
            s1 == [s0 EXCEPT !.auth = a]
            s2 == IF confirmed /\ sae = 2 THEN MarkAuth(s1) ELSE s1
            s3 == Disconnect(s2)
            aw == IF s3.auth.done THEN None ELSE "auth"
            q == Prepared(s3, ap)
            u == [q EXCEPT !.await = aw]
<1>1. /\ m.running /\ m.assoc.ap = None
      /\ \/ fails /\ (cont => ContFails) /\ m' = [s3 EXCEPT !.auth = NoAuth,
                                                            !.await = None]
         \/ m' = AuthSend(u)
  BY DEF MgdAuth
<1>2. ap # None  BY Constants
<1>3. /\ a \in Auths /\ a.ap = ap /\ a.tries = 0 /\ a.done = FALSE
      /\ a.waiting = FALSE
  <2>1. sae \in Saes /\ ap \in Names  BY Constants DEF Saes
  <2>2. confirmed \in Bools
    BY DEF Bools, Calm, State, Auths
  <2>. HIDE DEF confirmed
  <2>. QED  BY <2>1, <2>2, Constants DEF NoAuth, Auths
<1>. HIDE DEF a
<1>4. /\ s0 \in State /\ s0.assoc.ap = None /\ s0.running = m.running
      /\ s0.ap = m.ap /\ s0.told = m.ap /\ s0.works = m.works
      /\ s0.poll => m.poll /\ m.auth.ap = None
      /\ s0.scan = "deferred" => s0.poll
      /\ m.auth.ap = None => s0 = m
      /\ Stations(m) => s0.stas = {IF cont THEN ap ELSE None, m.ap} \ {None}
  <2>1. m.stas \ {m.auth.ap} \in Stas  BY DEF Calm, State, Stas
  <2>2. CASE m.auth.ap = None
    BY <1>1, <1>2, <2>2 DEF Calm, Quiet, Informed, Stations
  <2>3. CASE m.auth.ap # None
    <3>1. m.ap = None /\ ~m.poll /\ m.scan # "deferred"
      BY <2>3 DEF Calm, Exclusive, Quiet
    <3>2. s0 = DestroyAuth(m, cont)  BY <2>3
    <3>3. s0 \in State
      BY <2>1, <3>2, Constants DEF Calm, DestroyAuth, State
    <3>. QED
      BY <1>1, <1>2, <2>3, <3>1, <3>2, <3>3
         DEF Calm, DestroyAuth, State, Informed, Stations
  <2>. QED  BY <2>2, <2>3
<1>. HIDE DEF s0
<1>5. /\ s1 \in State /\ s1.auth = a /\ s1.assoc = s0.assoc
      /\ s1.running = m.running /\ s1.ap = m.ap /\ s1.told = m.ap
      /\ s1.poll = s0.poll /\ s1.scan = s0.scan /\ s1.stas = s0.stas
      /\ s1.works = m.works
  BY <1>3, <1>4 DEF State
<1>. HIDE DEF s1
<1>6. /\ s2 \in State /\ s2.auth \in Auths /\ s2.auth.ap = ap
      /\ s2.auth.tries = 0 /\ s2.auth.waiting = FALSE
      /\ s2.assoc = s1.assoc /\ s2.running = m.running /\ s2.ap = m.ap
      /\ s2.told = m.ap /\ s2.poll = s0.poll /\ s2.scan = s0.scan
      /\ s2.stas = s0.stas /\ s2.works = m.works
  <2>. DEFINE b == [s1.auth EXCEPT !.done = TRUE, !.timeout = Wait]
              v == [s1 EXCEPT !.auth = b]
  <2>1. b \in Auths /\ b.ap = ap /\ b.tries = 0 /\ b.waiting = FALSE
    BY <1>3, <1>5, Constants DEF Auths
  <2>2. MarkAuth(s1) = RunAgain(v, Wait)  BY <1>5 DEF MarkAuth, State
  <2>. HIDE DEF b
  <2>3. v \in State  BY <1>5, <2>1 DEF State
  <2>4. PICK x \in 0..Wait : RunAgain(v, Wait) = [v EXCEPT !.timer = x]
    BY <2>3, RunAgainTimer, Constants
  <2>5. CASE confirmed /\ sae = 2
    <3>1. s2 = [v EXCEPT !.timer = x]  BY <2>2, <2>4, <2>5
    <3>2. x \in Times  BY Constants
    <3>. QED  BY <1>5, <2>1, <2>3, <3>1, <3>2 DEF State
  <2>6. CASE ~(confirmed /\ sae = 2)
    BY <1>3, <1>5, <2>6
  <2>. QED  BY <2>5, <2>6
<1>. HIDE DEF s2
<1>7. /\ s3 \in State /\ s3.auth = s2.auth /\ s3.assoc = s1.assoc
      /\ s3.running = m.running /\ s3.ap = None /\ s3.told = None
      /\ ~s3.poll /\ s3.scan # "deferred"
      /\ Stations(m) => s3.stas = {IF cont THEN ap ELSE None} \ {None}
  <2>1. CASE m.ap = None
    <3>1. s3 = s2  BY <1>6, <2>1 DEF Disconnect
    <3>2. ~m.poll  BY <2>1 DEF Calm, Quiet
    <3>. QED  BY <1>4, <1>5, <1>6, <2>1, <3>1, <3>2
  <2>2. CASE m.ap # None
    <3>1. s3 = Disconnected(s2)  BY <1>6, <2>2 DEF Disconnect
    <3>2. m.auth.ap = None  BY <2>2 DEF Calm, Exclusive
    <3>3. (IF s2.scan = "deferred" THEN "queued" ELSE s2.scan) \in Scans
      BY <1>6 DEF State, Scans
    <3>4. StopPoll(s2) \in State  BY <1>6, <3>3, Constants DEF StopPoll, State
    <3>5. s3 \in State
      BY <3>1, <3>4, Constants DEF SetDisassoc, Disconnected, State
    <3>6. /\ s3.auth = s2.auth /\ s3.assoc = s2.assoc
          /\ s3.running = s2.running /\ s3.ap = None /\ s3.told = None
          /\ s3.stas = {} /\ s3.poll = FALSE
          /\ s3.scan = IF s2.scan = "deferred" THEN "queued" ELSE s2.scan
      BY <1>6, <3>1, <3>4
         DEF StopPoll, SetDisassoc, Disconnected, State
    <3>. HIDE DEF s3
    <3>7. ~cont  BY <1>2, <3>2
    <3>. QED  BY <1>6, <3>5, <3>6, <3>7
  <2>. QED  BY <2>1, <2>2
<1>. HIDE DEF s3
<1>8. CASE fails /\ (cont => ContFails) /\ m' = [s3 EXCEPT !.auth = NoAuth,
                                                           !.await = None]
  <2>1. m' \in State  BY <1>7, <1>8, Constants DEF State
  <2>2. Calm(m') /\ ~Attempting(m')
    BY <1>1, <1>4, <1>5, <1>7, <1>8, <2>1, Ends
       DEF Calm, State, Exclusive, Quiet, Informed, Attempting, None
  <2>3. ~ContFails /\ Stations(m) => Stations(m')
    BY <1>4, <1>5, <1>7, <1>8, <2>1, Ends DEF State, Stations
  <2>. QED  BY <2>2, <2>3 DEF Awake
<1>9. CASE m' = AuthSend(u)
  <2>1. aw \in Awaited /\ aw # "assoc" /\ (aw = "auth" => ~s3.auth.done)
    BY Constants DEF None
  <2>. HIDE DEF aw
  <2>2. /\ q \in State /\ q.stas = s3.stas \union {ap}
        /\ q.auth = s2.auth /\ q.assoc = s0.assoc /\ q.ap = None /\ ~q.poll
        /\ q.running = m.running /\ q.told = None /\ q.scan # "deferred"
    BY <1>5, <1>7, PreparedKeeps
  <2>. HIDE DEF q
  <2>3. u \in State  BY <2>1, <2>2 DEF State
  <2>4. Calm(u)
    BY <1>1, <1>2, <1>4, <1>6, <1>7, <2>1, <2>2, <2>3
       DEF Calm, State, Exclusive, Quiet, Informed
  <2>5. Stations(m) => Stations(u)
    BY <1>4, <1>6, <1>7, <1>2, <2>2, <2>3 DEF State, Stations
  <2>6. u.auth = s2.auth  BY <2>2 DEF State
  <2>7. MaxTries # 0  BY MlmeBounds
  <2>. QED
    BY <1>2, <1>6, <1>9, <2>4, <2>5, <2>6, <2>7, AuthSendKeeps DEF Keeps, Awake
<1>. QED  BY <1>1, <1>8, <1>9

\* ieee80211_mgd_assoc, with or without an authentication.
LEMMA MgdAssocStep ==
    ASSUME Calm(m), Awake(m), NEW ap \in APs, NEW fails \in BOOLEAN,
           MgdAssoc(ap, fails)
    PROVE  Keeps(m, m') /\ Awake(m')
<1>. DEFINE match == m.auth.ap = ap
            s1 == Disconnect(m)
            s2 == IF s1.auth.ap = None \/ match THEN s1
                  ELSE DestroyAuth(s1, FALSE)
            q == Prepared(s2, ap)
            c == [NoAssoc EXCEPT !.ap = ap, !.timeout = 0]
            u == [q EXCEPT !.assoc = c, !.auth = NoAuth, !.await = "assoc"]
<1>1. /\ m.running /\ m.assoc.ap = None
      /\ m.auth.ap # None => m.auth.done
      /\ m' = IF fails THEN s2 ELSE RunAgain(u, 0)
  BY DEF MgdAssoc
<1>2. ap # None  BY Constants
<1>3. /\ Keeps(m, s1) /\ Awake(s1) /\ s1.ap = None
      /\ s1.auth = m.auth /\ s1.assoc = m.assoc /\ s1.running = m.running
  <2>1. Keeps(m, s1) /\ Awake(s1) /\ s1.ap = None  BY DisconnectKeeps
  <2>2. s1.auth = m.auth /\ s1.assoc = m.assoc /\ s1.running = m.running
    BY DEF Disconnect, Disconnected, SetDisassoc, StopPoll, Calm, State
  <2>. QED  BY <2>1, <2>2
<1>. HIDE DEF s1
<1>4. /\ Keeps(m, s2) /\ Awake(s2) /\ s2.ap = None /\ s2.assoc.ap = None
      /\ s2.auth.ap \in {None, ap} /\ s2.running
  <2>1. CASE s1.auth.ap = None \/ match  BY <1>1, <1>3, <2>1
  <2>2. CASE ~(s1.auth.ap = None \/ match)
    <3>1. s2 = DestroyAuth(s1, FALSE)  BY <2>2
    <3>2. s1.await # "auth"
      BY <1>1, <1>3, <2>2 DEF Keeps, Calm, Informed
    <3>3. Keeps(s1, s2) /\ ~Attempting(s2)
      BY <1>3, <2>2, <3>1, <3>2, DestroyAuthKeeps DEF Keeps
    <3>4. s2.ap = s1.ap /\ s2.assoc = s1.assoc /\ s2.running = s1.running
      BY <1>3, <3>1 DEF DestroyAuth, Keeps, Calm, State
    <3>. HIDE DEF s2
    <3>5. s2.auth.ap = None /\ Awake(s2)  BY <3>3 DEF Attempting, Awake
    <3>. QED  BY <1>1, <1>3, <3>3, <3>4, <3>5 DEF Keeps
  <2>. QED  BY <2>1, <2>2
<1>. HIDE DEF s2
<1>5. CASE fails  BY <1>1, <1>4, <1>5
<1>6. CASE ~fails
  <2>1. c \in Assocs /\ c.ap = ap
    <3>. ap \in Names /\ 0 \in Times /\ FALSE \in Bools  BY Constants
    <3>. 0 \in Tries  BY MlmeBounds DEF Tries
    <3>. QED  BY DEF NoAssoc, Assocs
  <2>. HIDE DEF c
  <2>2. /\ q \in State /\ q.stas = s2.stas \union {ap}
        /\ q.auth = s2.auth /\ q.assoc = s2.assoc /\ q.ap = s2.ap
        /\ q.poll = s2.poll /\ q.running = s2.running /\ q.told = s2.told
        /\ q.scan = "deferred" => s2.scan = "deferred"
    BY <1>4, PreparedKeeps DEF Keeps, Calm
  <2>. HIDE DEF q
  <2>3. u \in State  BY <2>1, <2>2, Constants DEF State
  <2>4. Calm(u)
    BY <1>2, <1>4, <2>1, <2>2, <2>3, Ends
       DEF Keeps, Calm, State, Exclusive, Quiet, Informed
  <2>5. Stations(m) => Stations(u)
    BY <1>2, <1>4, <2>1, <2>2, <2>3, Ends DEF Keeps, State, Stations
  <2>. HIDE DEF u
  <2>. QED
    BY <1>1, <1>6, <2>4, <2>5, RunAgainKeeps, Constants DEF Keeps, Awake
<1>. QED  BY <1>5, <1>6

\* The interface comes up with no phase.
LEMMA InitCalm == Init => Calm(m) /\ Awake(m) /\ Stations(m)
<1>. SUFFICES ASSUME Init PROVE Calm(m) /\ Awake(m) /\ Stations(m)  OBVIOUS
<1>1. /\ <<>> \in Lists /\ "no" \in Scans /\ {} \in Frames /\ {} \in Air
  BY DEF Lists, Scans, Frames, Air
<1>2. m \in State  BY <1>1, Constants DEF Init, State
<1>. QED
  BY <1>2, Ends DEF Init, Calm, Exclusive, Quiet, Informed, Stations, Awake,
     Attempting, None

\* Every step preserves the invariant, and without failures to go on the
\* stations too.
LEMMA CalmStep ==
    ASSUME Calm(m), Awake(m), [Next]_vars
    PROVE  /\ Calm(m') /\ Awake(m')
           /\ ~ContFails /\ Stations(m) => Stations(m')
<1>1. CASE UNCHANGED vars  BY <1>1 DEF vars
<1>2. CASE IfaceWork \/ IfaceWorkFrame  BY <1>2, IfaceWorkStep DEF Keeps
<1>3. CASE BeaconConnectionLossWork  BY <1>3, LossWorkStep DEF Keeps
<1>4. CASE FrameArrives  BY <1>4, FrameArrivesStep DEF Keeps
<1>5. CASE ConnTxStatus  BY <1>5, ConnTxStatusStep DEF Keeps
<1>6. CASE TxNotify  BY <1>6, TxNotifyStep DEF Keeps
<1>7. CASE TimerFires  BY <1>7, TimerFiresStep DEF Keeps
<1>8. CASE Tick  BY <1>8, TickStep DEF Keeps
<1>9. CASE BeaconLoss \/ ConnectionLoss \/ DriverDisconnect
  BY <1>9, DriverEventStep DEF Keeps
<1>10. ASSUME NEW ap \in APs, NEW fails \in BOOLEAN, MgdAssoc(ap, fails)
       PROVE  Keeps(m, m') /\ Awake(m')
  BY <1>10, MgdAssocStep
<1>11. ASSUME NEW ap \in APs, NEW fails \in BOOLEAN, NEW sae \in 0..2,
              MgdAuth(ap, sae, fails)
       PROVE  /\ Calm(m') /\ Awake(m')
              /\ ~ContFails /\ Stations(m) => Stations(m')
  BY <1>11, MgdAuthStep
<1>12. CASE MgdDeauth \/ MgdDisassoc  BY <1>12, MgdDeauthStep DEF Keeps
<1>13. CASE StartScan \/ ScanCompleted  BY <1>13, ScanStep DEF Keeps
<1>14. CASE MgdStop \/ Open  BY <1>14, StopStep DEF Keeps
<1>. QED
  BY <1>1, <1>2, <1>3, <1>4, <1>5, <1>6, <1>7, <1>8, <1>9, <1>10, <1>11,
     <1>12, <1>13, <1>14 DEF Next, Keeps

\* Requests are counted up to their bound.
LEMMA RequestsStep ==
    requests \in 0..MaxRequests /\ [Next]_vars => requests' \in 0..MaxRequests
<1>1. [Next]_vars => \/ requests' = requests
                     \/ requests < MaxRequests /\ requests' = requests + 1
  BY DEF Next, vars, IfaceWork, IfaceWorkFrame, BeaconConnectionLossWork,
         FrameArrives, ConnTxStatus, TxNotify, TimerFires, Tick, DriverEvent,
         BeaconLoss, ConnectionLoss, DriverDisconnect, MgdAuth, MgdAssoc,
         MgdDeauth, MgdDisassoc, StartScan, ScanCompleted, MgdStop, Open
<1>. QED  BY <1>1, MlmeBounds

\* The inductive invariant.
IInv == Calm(m) /\ Awake(m) /\ requests \in 0..MaxRequests

\* The invariant holds for any APs, tries, time-outs and number of requests,
\* and whether or not continuing an authentication fails.
THEOREM MlmeInvariant == Spec => []IInv
<1>1. Init => IInv  BY InitCalm, MlmeBounds DEF Init, IInv
<1>2. IInv /\ [Next]_vars => IInv'  BY CalmStep, RequestsStep DEF IInv
<1>. QED  BY <1>1, <1>2, PTL DEF Spec

\* Types and the limits on tries: an attempt sends at most MaxTries requests
\* and a poll at most max_nullfunc_tries frames, whatever TX status and answers
\* do.
THEOREM MlmeTypeCorrect == Spec => []TypeOK
<1>1. IInv => TypeOK
  <2>. SUFFICES ASSUME IInv PROVE TypeOK  OBVIOUS
  <2>1. m \in State /\ requests \in 0..MaxRequests  BY DEF IInv, Calm
  <2>2. /\ m.auth \in Auths /\ m.assoc \in Assocs /\ m.ap \in Names
        /\ m.told \in Names /\ m.stas \in Stas /\ m.timer \in Times
        /\ m.probe_timeout \in Longs /\ m.probes \in Counts
        /\ {m.running, m.poll, m.failed, m.loss, m.drop} \subseteq Bools
        /\ m.works \in Lists /\ m.status \in Statuses /\ m.owed \in Frames
        /\ m.air \in Air /\ m.scan \in Scans /\ m.await \in Awaited
    BY <2>1 DEF State
  <2>. QED
    BY <2>1, <2>2
       DEF TypeOK, Auths, Assocs, Names, Saes, Tries, Times, Bools, Stas,
           Lists, Statuses, Counts, Longs, Scans, Frames, Air, Awaited, Off,
           Passed
<1>. QED  BY <1>1, MlmeInvariant, PTL

\* Whatever waits has a timer or a work that will wake it, although one timer
\* is shared by all phases and deleted by each; a deferred scan has its poll.
THEOREM MlmeNothingStuck == Spec => []NothingStuck
<1>1. IInv => NothingStuck
  BY DEF IInv, Calm, Quiet, Awake, Attempting, NothingStuck, Attempt
<1>. QED  BY <1>1, MlmeInvariant, PTL

\* auth_data, assoc_data, the AP, its station and userspace agree, unless
\* continuing an authentication can fail (mlme.c drops auth_data and keeps the
\* station then).
THEOREM MlmePhaseAgrees ==
    ASSUME ~ContFails
    PROVE  Spec => []PhaseAgrees
<1>1. Init => Stations(m)  BY InitCalm
<1>2. IInv /\ Stations(m) /\ [Next]_vars => Stations(m)'
  BY CalmStep DEF IInv, Stations
<1>3. IInv /\ Stations(m) => PhaseAgrees
  <2>. SUFFICES ASSUME IInv, Stations(m) PROVE PhaseAgrees  OBVIOUS
  <2>1. OnePhase
    BY DEF IInv, Calm, Exclusive, Stations, OnePhase
  <2>2. UserInformed
    BY DEF IInv, Calm, Informed, UserInformed
  <2>. QED  BY <2>1, <2>2 DEF PhaseAgrees
<1>. QED  BY <1>1, <1>2, <1>3, MlmeInvariant, PTL DEF Spec
=============================================================================
