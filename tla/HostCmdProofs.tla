--------------------------- MODULE HostCmdProofs ---------------------------
(***************************************************************************)
(* Proofs about HostCmd, for any ring, any window and any number of        *)
(* commands:                                                               *)
(*                                                                         *)
(*   CmdTypeCorrect        the pointers and answers stay in their ranges   *)
(*   CmdSourceIsLive       no answer is written to a command that is gone  *)
(*   CmdSyncMeansAnswered  a synchronous success was answered              *)
(*   CmdNoStaleCompletion  an answer wakes nobody else's sender            *)
(*                                                                         *)
(* The last three are for an op-mode that sends nothing while the radio is *)
(* off, and for any op-mode as long as the radio is on (RfkillSeen).  With *)
(* CMD_SEND_IN_RFKILL and the radio switched off they do not hold: the     *)
(* interrupt wakes a sender, which takes this for its answer.              *)
(*                                                                         *)
(* The argument: the pointers of host and firmware follow each other       *)
(* around the ring, so that the entries not answered yet are a stretch of  *)
(* the window (Outstanding).  It grows at write_ptr and shrinks at the     *)
(* entry being completed, and at most one synchronous command is in it.    *)
(***************************************************************************)
EXTENDS HostCmd, Counting

\* The entry the RX context completes now or next: answers come in order.
Following ==
    IF rx # "idle" THEN rx_idx
    ELSE IF answers # <<>> THEN Head(answers) ELSE fw_ptr

\* The answers under way are those to the commands before fw_ptr, in order.
AnswersInOrder ==
    /\ \A k \in 1..Len(answers) :
          Used(answers[k], fw_ptr) = (Len(answers) - k) + 1
    /\ rx # "idle" => Used(rx_idx, fw_ptr) = Len(answers) + 1

\* The pointers are in order, and the read pointer follows the answers unless
\* the window is full: iwl_txq_used takes a full window for an empty one.
PointersInOrder ==
    /\ Used(read_ptr, write_ptr) <= NWindow
    /\ Used(read_ptr, Following) + Used(Following, fw_ptr)
          + Used(fw_ptr, write_ptr) = Used(read_ptr, write_ptr)
    /\ read_ptr = Following \/ Used(read_ptr, write_ptr) = NWindow

\* A command that was accepted is within the bound.
AcceptedInv == spc \in {"activate", "enqueue"} => sent < MaxCmds

\* The entries that were not answered yet: a stretch of the window.
Window(x, n) == {i \in 0..(NWindow - 1) : Dist(NWindow, x, i) < n}
Outstanding == Window(CmdIndex(Following), Used(Following, write_ptr))
SyncOutstanding == {i \in Outstanding : ~entries[i].async}

\* Only a synchronous command that is outstanding wants the answer's buffer,
\* and not when its sender has taken that back.
EntriesInv ==
    \A i \in 0..(NWindow - 1) :
        /\ entries[i].want_skb => i \in SyncOutstanding
        /\ spc = "free" /\ i = cmd_idx => ~entries[i].want_skb

\* The sender has a command from its entry in the queue to its return, and the
\* bit it waits for is set only while it waits, or is about to.
SenderInv ==
    /\ cmd = NULL <=> spc \in {"idle", "activate", "enqueue"}
    /\ sync_active => spc \in {"enqueue", "wait", "timeout"}

\* The op-mode honours the RF-kill switch, or nobody uses it.
RfkillSeen == SendInRfkill => ~rfkill

\* Then no command is sent from here on.
Stopped == fw_error \/ rfkill

\* A synchronous command that is still outstanding is the sender's own, or no
\* other is sent before the device was restarted.
OwnInv ==
    /\ spc \in {"activate", "enqueue"} => SyncOutstanding = {}
    /\ spc \in {"idle", "cancel", "free"} /\ ~Stopped => SyncOutstanding = {}
    /\ cmd # NULL => SyncOutstanding \subseteq {cmd_idx}
    /\ cmd # NULL /\ answered => SyncOutstanding = {}

\* Whoever takes the bit from the sender leaves an answer or a reason.
WakeInv ==
    /\ irq = "wake" => Stopped
    /\ spc = "enqueue" /\ ~sync_active => Stopped
    /\ spc = "wait" /\ ~sync_active => Stopped \/ answered
    /\ spc = "check" => Stopped \/ answered

\* The inductive invariants: of the queue, and of the commands as long as
\* RfkillSeen.
QueueInv == TypeOK /\ AnswersInOrder /\ PointersInOrder /\ AcceptedInv
CommandInv ==
    QueueInv /\ EntriesInv /\ SenderInv /\ OwnInv /\ WakeInv /\ SourceIsLive

----------------------------------------------------------------------------
(* The ring *)

Ring == 0..(MaxTfd - 1)

\* The sizes of the ring and of its window.
LEMMA Sizes ==
    /\ NWindow \in Nat \ {0} /\ MaxTfd \in Nat \ {0}
    /\ MaxTfd % NWindow = 0 /\ NWindow < MaxTfd
  BY CmdAssumption

\* The entries between two pointers.
LEMMA UsedType ==
    ASSUME NEW r \in Ring, NEW w \in Ring
    PROVE  Used(r, w) \in Nat /\ (Used(r, w) = 0 <=> r = w)
  BY Sizes, RingZero DEF Ring, Used

\* The end is moved on, in a window that is not full.
LEMMA UsedGrows ==
    ASSUME NEW r \in Ring, NEW w \in Ring, Used(r, w) < NWindow
    PROVE  IncWrap(w) \in Ring /\ Used(r, IncWrap(w)) = Used(r, w) + 1
<1>1. Used(r, w) < MaxTfd - 1  BY Sizes, UsedType
<1>. QED  BY <1>1, Sizes, RingInc DEF Ring, Used, IncWrap

\* The beginning is moved on.
LEMMA UsedShrinks ==
    ASSUME NEW r \in Ring, NEW w \in Ring, r # w
    PROVE  IncWrap(r) \in Ring /\ Used(IncWrap(r), w) = Used(r, w) - 1
  BY Sizes, RingDec DEF Ring, Used, IncWrap

\* Stretches that follow each other add up.
LEMMA UsedSum ==
    ASSUME NEW a \in Ring, NEW b \in Ring, NEW c \in Ring,
           Used(a, b) + Used(b, c) <= NWindow
    PROVE  Used(a, c) = Used(a, b) + Used(b, c)
<1>1. Used(a, b) + Used(b, c) < MaxTfd  BY Sizes, UsedType
<1>. QED  BY <1>1, Sizes, RingSum DEF Ring, Used

\* A pointer is known by the entries up to another one.
LEMMA UsedSame ==
    ASSUME NEW a \in Ring, NEW b \in Ring, NEW c \in Ring,
           Used(a, c) = Used(b, c)
    PROVE  a = b
  BY Sizes, RingSame DEF Ring, Used

\* The entry of a pointer, from that of a pointer before it.
LEMMA IndexAfter ==
    ASSUME NEW r \in Ring, NEW w \in Ring, Used(r, w) <= NWindow
    PROVE  /\ CmdIndex(r) \in 0..(NWindow - 1)
           /\ CmdIndex(w) \in 0..(NWindow - 1)
           /\ CmdIndex(w) = IF CmdIndex(r) + Used(r, w) < NWindow
                            THEN CmdIndex(r) + Used(r, w)
                            ELSE (CmdIndex(r) + Used(r, w)) - NWindow
<1>1. Used(r, w) = Dist(MaxTfd, r, w)  BY Sizes, DistMod DEF Used, Ring
<1>2. CmdIndex(r) \in 0..(NWindow - 1) /\ CmdIndex(w) \in 0..(NWindow - 1)
  BY Sizes, DivMod, r \in Nat, w \in Nat DEF CmdIndex, Ring
<1>3. CmdIndex(w) = IF CmdIndex(r) + Dist(MaxTfd, r, w) < NWindow
                    THEN CmdIndex(r) + Dist(MaxTfd, r, w)
                    ELSE (CmdIndex(r) + Dist(MaxTfd, r, w)) - NWindow
  BY <1>1, Sizes, WindowIndex DEF CmdIndex, Ring
<1>. QED  BY <1>1, <1>2, <1>3

\* The window grows by the entry after its last one.
LEMMA WindowGrows ==
    ASSUME NEW x \in 0..(NWindow - 1), NEW n \in 0..(NWindow - 1),
           NEW y, y = IF x + n < NWindow THEN x + n ELSE (x + n) - NWindow
    PROVE  Window(x, n + 1) = Window(x, n) \union {y}
  BY Sizes DEF Window, Dist

\* It shrinks by its first entry.
LEMMA WindowShrinks ==
    ASSUME NEW x \in 0..(NWindow - 1), NEW n \in 1..NWindow,
           NEW y, y = IF x + 1 < NWindow THEN x + 1 ELSE (x + 1) - NWindow
    PROVE  Window(y, n - 1) = Window(x, n) \ {x} /\ x \in Window(x, n)
  BY Sizes DEF Window, Dist

----------------------------------------------------------------------------
(* The pointers *)

\* TypeOK in parts.
RingTypes ==
    /\ read_ptr \in Ring /\ write_ptr \in Ring
    /\ fw_ptr \in Ring /\ rx_idx \in Ring
    /\ rx \in {"idle", "skb", "reclaim"}
    /\ answers \in Seq(Ring)

Entries ==
    [0..(NWindow - 1) ->
        [source : 0..MaxCmds, async : BOOLEAN, want_skb : BOOLEAN]]

CmdTypes ==
    /\ cmd_idx \in 0..(NWindow - 1)
    /\ entries \in Entries
    /\ cmd \in 0..MaxCmds /\ resp_pkt \in 0..MaxCmds
    /\ sent \in 0..MaxCmds
    /\ spc \in {"idle", "activate", "enqueue", "wait", "timeout", "nmi",
                "check", "cancel", "free"}
    /\ want_skb \in BOOLEAN

FlagTypes ==
    /\ sync_active \in BOOLEAN /\ fw_error \in BOOLEAN /\ rfkill \in BOOLEAN
    /\ reset \in BOOLEAN /\ answered \in BOOLEAN
    /\ irq \in {"idle", "wake"}
    /\ fw \in {"alive", "failed", "dead"}

\* The parts make up the type invariant.
LEMMA TypeParts ==
    TypeOK <=> RingTypes /\ CmdTypes /\ FlagTypes /\ Len(answers) <= NWindow
<1>1. ({sync_active, fw_error, rfkill, reset, want_skb, answered}
          \subseteq BOOLEAN)
      <=> /\ sync_active \in BOOLEAN /\ fw_error \in BOOLEAN
          /\ rfkill \in BOOLEAN /\ reset \in BOOLEAN
          /\ want_skb \in BOOLEAN /\ answered \in BOOLEAN
  OBVIOUS
<1>. QED
  BY <1>1, Zenon DEF TypeOK, RingTypes, CmdTypes, FlagTypes, Entries, Ring

\* What the order of the answers rests on.
kept == <<rx, rx_idx, fw_ptr, answers>>

\* The order of the pointers.
OrderInv == RingTypes /\ AnswersInOrder /\ PointersInOrder

\* The entry to be completed next is a pointer of the ring, and the stretches
\* of the pointers add up to the used part of the window.
LEMMA OrderFacts ==
    OrderInv =>
      /\ Following \in Ring
      /\ Used(read_ptr, Following) \in Nat /\ Used(Following, fw_ptr) \in Nat
      /\ Used(fw_ptr, write_ptr) \in Nat
      /\ Used(Following, write_ptr)
           = Used(Following, fw_ptr) + Used(fw_ptr, write_ptr)
      /\ Used(Following, fw_ptr)
           = Len(answers) + (IF rx = "idle" THEN 0 ELSE 1)
<1>. SUFFICES ASSUME OrderInv
              PROVE  /\ Following \in Ring
                     /\ Used(read_ptr, Following) \in Nat
                     /\ Used(Following, fw_ptr) \in Nat
                     /\ Used(fw_ptr, write_ptr) \in Nat
                     /\ Used(Following, write_ptr)
                          = Used(Following, fw_ptr) + Used(fw_ptr, write_ptr)
                     /\ Used(Following, fw_ptr)
                          = Len(answers) + (IF rx = "idle" THEN 0 ELSE 1)
  OBVIOUS
<1>. USE DEF OrderInv, RingTypes
<1>1. Following \in Ring  BY DEF Following
<1>2. /\ Used(read_ptr, Following) \in Nat /\ Used(Following, fw_ptr) \in Nat
      /\ Used(fw_ptr, write_ptr) \in Nat
  BY <1>1, UsedType
<1>3. Used(Following, fw_ptr) + Used(fw_ptr, write_ptr) <= NWindow
  BY <1>2, Sizes DEF PointersInOrder
<1>4. Used(Following, write_ptr)
        = Used(Following, fw_ptr) + Used(fw_ptr, write_ptr)
  BY <1>1, <1>3, UsedSum
<1>5. Used(Following, fw_ptr) = Len(answers) + (IF rx = "idle" THEN 0 ELSE 1)
  <2>1. CASE rx # "idle"  BY <2>1 DEF AnswersInOrder, Following
  <2>2. CASE rx = "idle" /\ answers # <<>>
    BY <2>2 DEF AnswersInOrder, Following
  <2>3. CASE rx = "idle" /\ answers = <<>>  BY <2>3, UsedType DEF Following
  <2>. QED  BY <2>1, <2>2, <2>3
<1>. QED  BY <1>1, <1>2, <1>4, <1>5

\* No more answers are under way than the window has entries.
LEMMA AnswersBounded == OrderInv => Len(answers) <= NWindow
  BY OrderFacts, Sizes DEF OrderInv, RingTypes, PointersInOrder

\* A command takes the next entry.
LEMMA EnqueueInOrder ==
    OrderInv /\ Used(read_ptr, write_ptr) < NWindow
      /\ write_ptr' = IncWrap(write_ptr) /\ UNCHANGED <<read_ptr, kept>>
    => /\ OrderInv' /\ CmdIndex(write_ptr) \in 0..(NWindow - 1)
       /\ Outstanding' = Outstanding \union {CmdIndex(write_ptr)}
<1>. SUFFICES ASSUME OrderInv, Used(read_ptr, write_ptr) < NWindow,
                     write_ptr' = IncWrap(write_ptr),
                     UNCHANGED <<read_ptr, kept>>
              PROVE  /\ OrderInv' /\ CmdIndex(write_ptr) \in 0..(NWindow - 1)
                     /\ Outstanding' = Outstanding \union {CmdIndex(write_ptr)}
  OBVIOUS
<1>. DEFINE f == Following
<1>0. f \in Ring /\ Following' = f  BY OrderFacts DEF Following, kept
<1>1. /\ read_ptr \in Ring /\ write_ptr \in Ring /\ fw_ptr \in Ring
      /\ Used(read_ptr, f) \in Nat /\ Used(f, fw_ptr) \in Nat
      /\ Used(fw_ptr, write_ptr) \in Nat
      /\ Used(f, write_ptr) = Used(f, fw_ptr) + Used(fw_ptr, write_ptr)
      /\ Used(read_ptr, f) + Used(f, fw_ptr) + Used(fw_ptr, write_ptr)
           = Used(read_ptr, write_ptr)
      /\ read_ptr = f
  BY OrderFacts, Sizes DEF OrderInv, RingTypes, PointersInOrder
<1>. HIDE DEF f
<1>2. Used(f, write_ptr) < NWindow /\ Used(fw_ptr, write_ptr) < NWindow
  BY <1>0, <1>1, Sizes
<1>3. /\ write_ptr' \in Ring
      /\ Used(read_ptr, write_ptr') = Used(read_ptr, write_ptr) + 1
      /\ Used(fw_ptr, write_ptr') = Used(fw_ptr, write_ptr) + 1
      /\ Used(f, write_ptr') = Used(f, write_ptr) + 1
  BY <1>0, <1>1, <1>2, UsedGrows
<1>4. RingTypes'  BY <1>3 DEF OrderInv, RingTypes, kept
<1>5. AnswersInOrder'  BY DEF OrderInv, AnswersInOrder, kept
<1>6. PointersInOrder'
  <2>1. read_ptr' = read_ptr /\ fw_ptr' = fw_ptr  BY DEF kept
  <2>. QED  BY <1>0, <1>1, <1>3, <2>1, Sizes DEF PointersInOrder
<1>7. /\ CmdIndex(f) \in 0..(NWindow - 1)
      /\ CmdIndex(write_ptr) \in 0..(NWindow - 1)
      /\ Window(CmdIndex(f), Used(f, write_ptr) + 1)
           = Window(CmdIndex(f), Used(f, write_ptr))
               \union {CmdIndex(write_ptr)}
  <2>1. /\ CmdIndex(f) \in 0..(NWindow - 1)
        /\ CmdIndex(write_ptr) \in 0..(NWindow - 1)
        /\ CmdIndex(write_ptr)
             = IF CmdIndex(f) + Used(f, write_ptr) < NWindow
               THEN CmdIndex(f) + Used(f, write_ptr)
               ELSE (CmdIndex(f) + Used(f, write_ptr)) - NWindow
    BY <1>0, <1>1, <1>2, Sizes, IndexAfter
  <2>2. Used(f, write_ptr) \in 0..(NWindow - 1)  BY <1>1, <1>2, Sizes
  <2>. QED  BY <2>1, <2>2, WindowGrows
<1>. QED  BY <1>0, <1>3, <1>4, <1>5, <1>6, <1>7 DEF OrderInv, Outstanding, f

\* The firmware answers the next command.
LEMMA AnswerInOrder ==
    OrderInv /\ FwAnswers => OrderInv' /\ Following' = Following
<1>. SUFFICES ASSUME OrderInv, FwAnswers
              PROVE  OrderInv' /\ Following' = Following
  OBVIOUS
<1>. USE DEF device, queue
<1>0. /\ answers' = Append(answers, fw_ptr) /\ fw_ptr' = IncWrap(fw_ptr)
      /\ fw_ptr # write_ptr
      /\ UNCHANGED <<rx, rx_idx, read_ptr, write_ptr>>
  BY DEF FwAnswers
<1>1. /\ fw_ptr \in Ring /\ write_ptr \in Ring /\ rx_idx \in Ring
      /\ answers \in Seq(Ring) /\ read_ptr \in Ring
      /\ Len(answers) \in Nat
  BY DEF OrderInv, RingTypes
<1>2. fw_ptr' \in Ring /\ answers' \in Seq(Ring)  BY <1>0, <1>1, UsedShrinks
<1>3. Following' = Following /\ Following \in Ring
  BY <1>0, <1>1, OrderFacts DEF Following
<1>4. /\ Used(Following, fw_ptr)
           = Len(answers) + (IF rx = "idle" THEN 0 ELSE 1)
      /\ Used(Following, fw_ptr) < NWindow
      /\ Used(fw_ptr, write_ptr) > 0
  <2>1. Used(fw_ptr, write_ptr) \in Nat /\ Used(fw_ptr, write_ptr) # 0
    BY <1>0, <1>1, UsedType
  <2>2. /\ Used(read_ptr, Following) \in Nat /\ Used(Following, fw_ptr) \in Nat
        /\ Used(Following, fw_ptr)
             = Len(answers) + (IF rx = "idle" THEN 0 ELSE 1)
    BY OrderFacts
  <2>3. Used(read_ptr, Following) + Used(Following, fw_ptr)
          + Used(fw_ptr, write_ptr) <= NWindow
    BY DEF OrderInv, PointersInOrder
  <2>. QED  BY <2>1, <2>2, <2>3, Sizes
<1>5. /\ Used(Following, fw_ptr') = Used(Following, fw_ptr) + 1
      /\ Used(fw_ptr', write_ptr) = Used(fw_ptr, write_ptr) - 1
  BY <1>0, <1>1, <1>3, <1>4, UsedGrows, UsedShrinks
<1>6. AnswersInOrder'
  <2>1. ASSUME NEW k \in 1..Len(answers')
        PROVE  Used(answers'[k], fw_ptr') = (Len(answers') - k) + 1
    <3>1. Len(answers') = Len(answers) + 1  BY <1>0, <1>1
    <3>2. CASE k \in 1..Len(answers)
      <4>1. answers'[k] = answers[k] /\ answers[k] \in Ring
        BY <1>0, <1>1, <3>2
      <4>2. Used(answers[k], fw_ptr) = (Len(answers) - k) + 1
        BY <3>2 DEF OrderInv, AnswersInOrder
      <4>3. Used(answers[k], fw_ptr) < NWindow
        BY <1>1, <1>4, <3>2, <4>2, Sizes
      <4>. QED  BY <1>0, <1>1, <3>1, <4>1, <4>2, <4>3, UsedGrows
    <3>3. CASE k = Len(answers) + 1
      <4>1. answers'[k] = fw_ptr  BY <1>0, <1>1, <3>3
      <4>2. Used(fw_ptr, fw_ptr') = 1
        <5>1. Used(fw_ptr, fw_ptr) = 0  BY <1>1, UsedType
        <5>. QED  BY <1>0, <1>1, <5>1, UsedGrows, Sizes
      <4>. QED  BY <1>1, <3>1, <3>3, <4>1, <4>2
    <3>. QED  BY <1>1, <3>1, <3>2, <3>3
  <2>2. rx # "idle" => Used(rx_idx, fw_ptr') = Len(answers') + 1
    BY <1>0, <1>1, <1>4, <1>5 DEF Following
  <2>. QED  BY <1>0, <2>1, <2>2 DEF AnswersInOrder
<1>7. PointersInOrder'
  <2>1. /\ Used(read_ptr, Following) \in Nat /\ Used(Following, fw_ptr) \in Nat
        /\ Used(fw_ptr, write_ptr) \in Nat
    BY OrderFacts
  <2>2. /\ Used(read_ptr, write_ptr) <= NWindow
        /\ Used(read_ptr, Following) + Used(Following, fw_ptr)
             + Used(fw_ptr, write_ptr) = Used(read_ptr, write_ptr)
        /\ read_ptr = Following \/ Used(read_ptr, write_ptr) = NWindow
    BY DEF OrderInv, PointersInOrder
  <2>3. Used(read_ptr, Following) + Used(Following, fw_ptr')
          + Used(fw_ptr', write_ptr) = Used(read_ptr, write_ptr)
    BY <1>5, <2>1, <2>2
  <2>. QED  BY <1>0, <1>3, <2>2, <2>3 DEF PointersInOrder
<1>. QED  BY <1>0, <1>2, <1>3, <1>6, <1>7 DEF OrderInv, RingTypes

\* An answer is handled: its entry is completed next, as before.
LEMMA HandledInOrder ==
    OrderInv /\ HcmdComplete => OrderInv' /\ Following' = Following
<1>. SUFFICES ASSUME OrderInv, HcmdComplete
              PROVE  OrderInv' /\ Following' = Following
  OBVIOUS
<1>0. /\ rx = "idle" /\ answers # <<>> /\ answers' = Tail(answers)
      /\ rx_idx' = Head(answers) /\ rx' \in {"skb", "reclaim"}
      /\ UNCHANGED <<fw_ptr, read_ptr, write_ptr>>
  BY DEF HcmdComplete, queue
<1>1. answers \in Seq(Ring) /\ Len(answers) \in Nat /\ Len(answers) > 0
  BY <1>0 DEF OrderInv, RingTypes
<1>2. /\ Len(answers') = Len(answers) - 1 /\ answers' \in Seq(Ring)
      /\ rx_idx' = answers[1] /\ rx_idx' \in Ring
      /\ \A k \in 1..Len(answers') : answers'[k] = answers[k + 1]
  BY <1>0, <1>1
<1>3. RingTypes'  BY <1>0, <1>2 DEF OrderInv, RingTypes
<1>4. Following' = Following  BY <1>0, <1>1, <1>2 DEF Following
<1>5. AnswersInOrder'
  <2>1. ASSUME NEW k \in 1..Len(answers')
        PROVE  Used(answers'[k], fw_ptr') = (Len(answers') - k) + 1
    <3>1. k + 1 \in 1..Len(answers)  BY <1>1, <1>2
    <3>2. Used(answers[k + 1], fw_ptr) = (Len(answers) - (k + 1)) + 1
      BY <3>1 DEF OrderInv, AnswersInOrder
    <3>. QED  BY <1>0, <1>1, <1>2, <3>2
  <2>2. Used(answers[1], fw_ptr) = (Len(answers) - 1) + 1
    BY <1>1 DEF OrderInv, AnswersInOrder
  <2>3. Used(rx_idx', fw_ptr') = Len(answers') + 1  BY <1>0, <1>1, <1>2, <2>2
  <2>. QED  BY <2>1, <2>3 DEF AnswersInOrder
<1>6. PointersInOrder'  BY <1>0, <1>4 DEF OrderInv, PointersInOrder
<1>. QED  BY <1>3, <1>4, <1>5, <1>6 DEF OrderInv

\* A command is completed: iwl_pcie_cmdq_reclaim frees the first entry in use,
\* or nothing if the window is full.
LEMMA CompleteInOrder ==
    OrderInv /\ Complete
    => /\ OrderInv' /\ CmdIndex(rx_idx) \in Outstanding
       /\ Outstanding' = Outstanding \ {CmdIndex(rx_idx)}
<1>. SUFFICES ASSUME OrderInv, Complete
              PROVE  /\ OrderInv' /\ CmdIndex(rx_idx) \in Outstanding
                     /\ Outstanding' = Outstanding \ {CmdIndex(rx_idx)}
  OBVIOUS
<1>. DEFINE f == rx_idx
<1>0. /\ rx = "reclaim" /\ rx' = "idle" /\ CmdqReclaim(f)
      /\ UNCHANGED <<rx_idx, fw_ptr, write_ptr, answers>>
  BY DEF Complete, device
<1>1. /\ Following = f /\ f \in Ring /\ read_ptr \in Ring
      /\ write_ptr \in Ring /\ fw_ptr \in Ring
      /\ answers \in Seq(Ring) /\ Len(answers) \in Nat
  BY <1>0 DEF Following, OrderInv, RingTypes
<1>. HIDE DEF f
<1>2. /\ Used(f, fw_ptr) = Len(answers) + 1 /\ Used(fw_ptr, write_ptr) \in Nat
      /\ Used(f, write_ptr) = Used(f, fw_ptr) + Used(fw_ptr, write_ptr)
      /\ Used(read_ptr, f) \in Nat
  BY <1>0, <1>1, OrderFacts
<1>3. /\ Used(read_ptr, write_ptr) <= NWindow
      /\ Used(read_ptr, f) + Used(f, fw_ptr) + Used(fw_ptr, write_ptr)
           = Used(read_ptr, write_ptr)
      /\ read_ptr = f \/ Used(read_ptr, write_ptr) = NWindow
  BY <1>1 DEF OrderInv, PointersInOrder
<1>4. Used(f, write_ptr) \in 1..NWindow  BY <1>1, <1>2, <1>3, Sizes
<1>5. f # write_ptr /\ f # fw_ptr  BY <1>1, <1>2, <1>4, UsedType, Sizes
<1>6. /\ IncWrap(f) \in Ring
      /\ Used(IncWrap(f), fw_ptr) = Used(f, fw_ptr) - 1
      /\ Used(IncWrap(f), write_ptr) = Used(f, write_ptr) - 1
  BY <1>1, <1>5, UsedShrinks
<1>7. Following' = IncWrap(f)
  <2>1. CASE answers = <<>>
    <3>1. Used(IncWrap(f), fw_ptr) = 0  BY <1>2, <1>6, <2>1
    <3>. QED  BY <1>0, <1>1, <1>6, <2>1, <3>1, UsedType DEF Following
  <2>2. CASE answers # <<>>
    <3>1. Following' = answers[1] /\ answers[1] \in Ring
      BY <1>0, <1>1, <2>2 DEF Following
    <3>2. Used(answers[1], fw_ptr) = (Len(answers) - 1) + 1
      BY <1>1, <2>2 DEF OrderInv, AnswersInOrder
    <3>3. Used(answers[1], fw_ptr) = Used(IncWrap(f), fw_ptr)
      BY <1>1, <1>2, <1>6, <3>2
    <3>. QED  BY <1>1, <1>6, <3>1, <3>3, UsedSame
  <2>. QED  BY <2>1, <2>2
<1>8. /\ CmdIndex(f) \in 0..(NWindow - 1)
      /\ CmdIndex(IncWrap(f)) = IF CmdIndex(f) + 1 < NWindow
                                THEN CmdIndex(f) + 1
                                ELSE (CmdIndex(f) + 1) - NWindow
  <2>1. Used(f, f) = 0  BY <1>1, UsedType
  <2>2. Used(f, IncWrap(f)) = 1  BY <1>1, <2>1, UsedGrows, Sizes
  <2>. QED  BY <1>1, <1>6, <2>2, IndexAfter, Sizes
<1>9. /\ CmdIndex(f) \in Window(CmdIndex(f), Used(f, write_ptr))
      /\ Window(CmdIndex(IncWrap(f)), Used(f, write_ptr) - 1)
           = Window(CmdIndex(f), Used(f, write_ptr)) \ {CmdIndex(f)}
  BY <1>4, <1>8, WindowShrinks
<1>10. /\ CmdIndex(f) \in Outstanding
       /\ Outstanding' = Outstanding \ {CmdIndex(f)}
  BY <1>0, <1>1, <1>6, <1>7, <1>9 DEF Outstanding
<1>11. /\ read_ptr' \in Ring
       /\ Used(read_ptr', IncWrap(f)) + Used(IncWrap(f), fw_ptr)
            + Used(fw_ptr, write_ptr) = Used(read_ptr', write_ptr)
       /\ Used(read_ptr', write_ptr) <= NWindow
       /\ read_ptr' = IncWrap(f) \/ Used(read_ptr', write_ptr) = NWindow
  <2>1. /\ CmdIndex(read_ptr) \in 0..(NWindow - 1)
        /\ CmdIndex(write_ptr)
             = IF CmdIndex(read_ptr) + Used(read_ptr, write_ptr) < NWindow
               THEN CmdIndex(read_ptr) + Used(read_ptr, write_ptr)
               ELSE (CmdIndex(read_ptr) + Used(read_ptr, write_ptr)) - NWindow
    BY <1>1, <1>3, IndexAfter
  <2>2. CASE Used(read_ptr, write_ptr) = NWindow
    <3>1. CmdIndex(write_ptr) = CmdIndex(read_ptr)  BY <2>1, <2>2, Sizes
    <3>2. ~TxqUsed(f)  BY <1>8, <2>1, <3>1, Sizes DEF TxqUsed
    <3>3. read_ptr' = read_ptr  BY <1>0, <3>2 DEF CmdqReclaim
    <3>4. Used(f, IncWrap(f)) = 1
      <4>1. Used(f, f) = 0  BY <1>1, UsedType
      <4>. QED  BY <1>1, <4>1, UsedGrows, Sizes
    <3>5. Used(read_ptr, f) < NWindow  BY <1>2, <1>3, <1>1, Sizes
    <3>6. Used(read_ptr, IncWrap(f)) = Used(read_ptr, f) + 1
      BY <1>1, <3>5, UsedGrows
    <3>. QED  BY <1>1, <1>2, <1>3, <1>6, <2>2, <3>3, <3>6
  <2>3. CASE Used(read_ptr, write_ptr) < NWindow
    <3>1. read_ptr = f  BY <1>3, <2>3, Sizes
    <3>2. TxqUsed(f)  BY <1>2, <1>1, <1>4, <2>1, <2>3, <3>1, Sizes DEF TxqUsed
    <3>3. ((CmdIndex(f) + 1) - CmdIndex(f)) % MaxTfd = 1
      <4>1. (CmdIndex(f) + 1) - CmdIndex(f) = 1  BY <1>8, Sizes
      <4>2. 1 % MaxTfd = 1  BY Sizes, ModRange
      <4>. QED  BY <4>1, <4>2
    <3>4. read_ptr' = IncWrap(f)
      BY <1>0, <3>1, <3>2, <3>3 DEF CmdqReclaim, IncWrap
    <3>5. Used(IncWrap(f), IncWrap(f)) = 0  BY <1>6, UsedType
    <3>. QED  BY <1>1, <1>2, <1>4, <1>6, <3>4, <3>5, Sizes
  <2>. QED  BY <1>1, <1>3, <2>2, <2>3, UsedType, Sizes
<1>12. RingTypes'  BY <1>0, <1>11 DEF OrderInv, RingTypes
<1>13. AnswersInOrder'  BY <1>0 DEF OrderInv, AnswersInOrder
<1>14. PointersInOrder'  BY <1>0, <1>7, <1>11 DEF PointersInOrder
<1>. QED  BY <1>10, <1>12, <1>13, <1>14 DEF OrderInv, f

\* So does giving the answer to its sender.
LEMMA GivenInOrder ==
    OrderInv /\ GiveSkb => OrderInv' /\ Following' = Following
<1>. SUFFICES ASSUME OrderInv, GiveSkb
              PROVE  OrderInv' /\ Following' = Following
  OBVIOUS
<1>0. /\ rx = "skb" /\ rx' = "reclaim"
      /\ UNCHANGED <<read_ptr, write_ptr, fw_ptr, answers, rx_idx>>
  BY DEF GiveSkb, queue, device
<1>1. Following' = Following  BY <1>0 DEF Following
<1>2. RingTypes'  BY <1>0 DEF OrderInv, RingTypes
<1>3. AnswersInOrder'  BY <1>0 DEF OrderInv, AnswersInOrder
<1>4. PointersInOrder'  BY <1>0, <1>1 DEF OrderInv, PointersInOrder
<1>. QED  BY <1>1, <1>2, <1>3, <1>4 DEF OrderInv

\* Steps that leave the pointers alone.
LEMMA SameOrder ==
    OrderInv /\ UNCHANGED <<read_ptr, write_ptr, kept>>
    => OrderInv' /\ Outstanding' = Outstanding
  BY DEF OrderInv, RingTypes, AnswersInOrder, PointersInOrder, Outstanding,
         Following, kept

\* Every step keeps the order.
LEMMA OrderStep ==
    OrderInv /\ [Next]_vars => OrderInv'
<1>. SUFFICES ASSUME OrderInv, [Next]_vars
              PROVE  OrderInv'
  OBVIOUS
<1>. USE DEF kept, queue, status, sender, device
<1>s. UNCHANGED <<read_ptr, write_ptr, kept>> => OrderInv'  BY SameOrder
<1>0. CASE UNCHANGED vars  BY <1>0, <1>s DEF vars
<1>1. ASSUME NEW want \in BOOLEAN, SendSync(want) PROVE OrderInv'
  BY <1>1, <1>s DEF SendSync
<1>2. CASE Activate  BY <1>2, <1>s DEF Activate
<1>3. CASE EnqueueSync
  <2>0. Used(read_ptr, write_ptr) \in Nat  BY UsedType DEF OrderInv, RingTypes
  <2>1. Used(read_ptr, write_ptr) < NWindow
    BY <1>3, <2>0, Sizes DEF EnqueueSync, RoomFor, Space
  <2>2. write_ptr' = IncWrap(write_ptr) /\ UNCHANGED <<read_ptr, kept>>
    BY <1>3 DEF EnqueueSync, Enqueue
  <2>. QED  BY <2>1, <2>2, EnqueueInOrder
<1>4. CASE EnqueueSyncUnmapped  BY <1>4, <1>s DEF EnqueueSyncUnmapped
<1>5. CASE EnqueueSyncFails  BY <1>5, <1>s DEF EnqueueSyncFails
<1>6. CASE Woken  BY <1>6, <1>s DEF Woken
<1>7. CASE Timeout  BY <1>7, <1>s DEF Timeout
<1>8. CASE TimeoutClear  BY <1>8, <1>s DEF TimeoutClear
<1>9. CASE SyncNmi  BY <1>9, <1>s DEF SyncNmi
<1>10. CASE Return  BY <1>10, <1>s DEF Return
<1>11. CASE Fail  BY <1>11, <1>s DEF Fail
<1>12. CASE Cancel  BY <1>12, <1>s DEF Cancel
<1>13. CASE FreeResp  BY <1>13, <1>s DEF FreeResp
<1>14. CASE HcmdComplete  BY <1>14, HandledInOrder
<1>15. CASE GiveSkb  BY <1>15, GivenInOrder
<1>16. CASE Complete  BY <1>16, CompleteInOrder
<1>17. CASE SendAsync
  <2>0. Used(read_ptr, write_ptr) \in Nat  BY UsedType DEF OrderInv, RingTypes
  <2>1. Used(read_ptr, write_ptr) < NWindow
    BY <1>17, <2>0, Sizes DEF SendAsync, RoomFor, Space
  <2>2. write_ptr' = IncWrap(write_ptr) /\ UNCHANGED <<read_ptr, kept>>
    BY <1>17 DEF SendAsync, Enqueue
  <2>. QED  BY <2>1, <2>2, EnqueueInOrder
<1>18. CASE SendAsyncFails  BY <1>18, <1>s DEF SendAsyncFails
<1>19. CASE HandleError  BY <1>19, <1>s DEF HandleError
<1>20. CASE HandleRfkill  BY <1>20, <1>s DEF HandleRfkill
<1>21. CASE Wake  BY <1>21, <1>s DEF Wake
<1>22. CASE FwAnswers  BY <1>22, AnswerInOrder
<1>23. CASE FwFails  BY <1>23, <1>s DEF FwFails
<1>24. CASE Restart
  <2>1. 0 \in Ring  BY Sizes DEF Ring
  <2>2. Used(0, 0) = 0  BY <2>1, UsedType
  <2>3. RingTypes'  BY <1>24, <2>1 DEF Restart, OrderInv, RingTypes
  <2>4. AnswersInOrder'  BY <1>24 DEF Restart, AnswersInOrder
  <2>5. Following' = 0  BY <1>24 DEF Restart, Following
  <2>6. PointersInOrder'
    BY <1>24, <2>2, <2>5, Sizes DEF Restart, PointersInOrder
  <2>. QED  BY <2>3, <2>4, <2>6 DEF OrderInv
<1>. QED
  BY <1>0, <1>1, <1>2, <1>3, <1>4, <1>5, <1>6, <1>7, <1>8, <1>9, <1>10, <1>11,
     <1>12, <1>13, <1>14, <1>15, <1>16, <1>17, <1>18, <1>19, <1>20, <1>21,
     <1>22, <1>23, <1>24
     DEF Next, SyncStep, RxStep

\* The next command's entry is in the window.
LEMMA WriteIndex == OrderInv => CmdIndex(write_ptr) \in 0..(NWindow - 1)
  BY Sizes, DivMod, Ring \subseteq Nat DEF OrderInv, RingTypes, CmdIndex, Ring

\* Nothing but commands within the bound gets into the queue.
LEMMA CmdTypesStep ==
    OrderInv /\ CmdTypes /\ AcceptedInv /\ [Next]_vars => CmdTypes'
<1>. SUFFICES ASSUME OrderInv, CmdTypes, AcceptedInv, [Next]_vars
              PROVE  CmdTypes'
  OBVIOUS
<1>. USE CmdAssumption
         DEF CmdTypes, AcceptedInv, NULL, queue, status, sender, device
<1>0. CASE UNCHANGED vars  BY <1>0 DEF vars
<1>1. ASSUME NEW want \in BOOLEAN, SendSync(want) PROVE CmdTypes'
  BY <1>1 DEF SendSync
<1>2. CASE Activate  BY <1>2 DEF Activate
<1>3. CASE EnqueueSync
  <2>1. CmdIndex(write_ptr) \in 0..(NWindow - 1)  BY WriteIndex
  <2>. QED  BY <1>3, <2>1 DEF EnqueueSync, Enqueue, Entries, MaySend
<1>4. CASE EnqueueSyncUnmapped  BY <1>4 DEF EnqueueSyncUnmapped
<1>5. CASE EnqueueSyncFails  BY <1>5 DEF EnqueueSyncFails
<1>6. CASE Woken  BY <1>6 DEF Woken
<1>7. CASE Timeout  BY <1>7 DEF Timeout
<1>8. CASE TimeoutClear  BY <1>8 DEF TimeoutClear
<1>9. CASE SyncNmi  BY <1>9 DEF SyncNmi
<1>10. CASE Return  BY <1>10 DEF Return
<1>11. CASE Fail  BY <1>11 DEF Fail
<1>12. CASE Cancel  BY <1>12 DEF Cancel, Entries
<1>13. CASE FreeResp  BY <1>13 DEF FreeResp
<1>14. CASE HcmdComplete  BY <1>14 DEF HcmdComplete
<1>15. CASE GiveSkb  BY <1>15 DEF GiveSkb
<1>16. CASE Complete
  <2>1. entries' = [entries EXCEPT ![CmdIndex(rx_idx)] = NoFlags]
    BY <1>16 DEF Complete
  <2>2. NoFlags \in [source : 0..MaxCmds, async : BOOLEAN, want_skb : BOOLEAN]
    BY DEF NoFlags
  <2>3. entries' \in Entries  BY <2>1, <2>2 DEF Entries
  <2>. QED  BY <1>16, <2>3 DEF Complete
<1>17. CASE SendAsync
  <2>1. CmdIndex(write_ptr) \in 0..(NWindow - 1)  BY WriteIndex
  <2>. QED  BY <1>17, <2>1 DEF SendAsync, Enqueue, Entries, MaySend
<1>18. CASE SendAsyncFails  BY <1>18 DEF SendAsyncFails
<1>19. CASE HandleError  BY <1>19 DEF HandleError
<1>20. CASE HandleRfkill  BY <1>20 DEF HandleRfkill
<1>21. CASE Wake  BY <1>21 DEF Wake
<1>22. CASE FwAnswers  BY <1>22 DEF FwAnswers
<1>23. CASE FwFails  BY <1>23 DEF FwFails
<1>24. CASE Restart
  <2>1. entries' \in Entries
    BY <1>24 DEF Restart, EmptyEntries, NoFlags, Entries
  <2>. QED  BY <1>24, <2>1 DEF Restart
<1>. QED
  BY <1>0, <1>1, <1>2, <1>3, <1>4, <1>5, <1>6, <1>7, <1>8, <1>9, <1>10, <1>11,
     <1>12, <1>13, <1>14, <1>15, <1>16, <1>17, <1>18, <1>19, <1>20, <1>21,
     <1>22, <1>23, <1>24
     DEF Next, SyncStep, RxStep

\* The flags stay flags.
LEMMA FlagTypesStep ==
    FlagTypes /\ [Next]_vars => FlagTypes'
<1>. SUFFICES ASSUME FlagTypes, [Next]_vars
              PROVE  FlagTypes'
  OBVIOUS
<1>. USE DEF FlagTypes, queue, status, sender, device
<1>0. CASE UNCHANGED vars  BY <1>0 DEF vars
<1>1. ASSUME NEW want \in BOOLEAN, SendSync(want) PROVE FlagTypes'
  BY <1>1 DEF SendSync
<1>2. CASE Activate  BY <1>2 DEF Activate
<1>3. CASE EnqueueSync  BY <1>3 DEF EnqueueSync, Enqueue
<1>4. CASE EnqueueSyncUnmapped  BY <1>4 DEF EnqueueSyncUnmapped
<1>5. CASE EnqueueSyncFails  BY <1>5 DEF EnqueueSyncFails
<1>6. CASE Woken  BY <1>6 DEF Woken
<1>7. CASE Timeout  BY <1>7 DEF Timeout
<1>8. CASE TimeoutClear  BY <1>8 DEF TimeoutClear
<1>9. CASE SyncNmi  BY <1>9 DEF SyncNmi
<1>10. CASE Return  BY <1>10 DEF Return
<1>11. CASE Fail  BY <1>11 DEF Fail
<1>12. CASE Cancel  BY <1>12 DEF Cancel
<1>13. CASE FreeResp  BY <1>13 DEF FreeResp
<1>14. CASE HcmdComplete  BY <1>14 DEF HcmdComplete
<1>15. CASE GiveSkb  BY <1>15 DEF GiveSkb
<1>16. CASE Complete  BY <1>16 DEF Complete
<1>17. CASE SendAsync  BY <1>17 DEF SendAsync, Enqueue
<1>18. CASE SendAsyncFails  BY <1>18 DEF SendAsyncFails
<1>19. CASE HandleError  BY <1>19 DEF HandleError
<1>20. CASE HandleRfkill  BY <1>20 DEF HandleRfkill
<1>21. CASE Wake  BY <1>21 DEF Wake
<1>22. CASE FwAnswers  BY <1>22 DEF FwAnswers
<1>23. CASE FwFails  BY <1>23 DEF FwFails
<1>24. CASE Restart  BY <1>24 DEF Restart
<1>. QED
  BY <1>0, <1>1, <1>2, <1>3, <1>4, <1>5, <1>6, <1>7, <1>8, <1>9, <1>10, <1>11,
     <1>12, <1>13, <1>14, <1>15, <1>16, <1>17, <1>18, <1>19, <1>20, <1>21,
     <1>22, <1>23, <1>24
     DEF Next, SyncStep, RxStep

\* Whoever accepts a command leaves room for one that was accepted before.
LEMMA AcceptedStep ==
    CmdTypes /\ AcceptedInv /\ [Next]_vars => AcceptedInv'
<1>. SUFFICES ASSUME CmdTypes, AcceptedInv, [Next]_vars
              PROVE  AcceptedInv'
  OBVIOUS
<1>. USE CmdAssumption
         DEF CmdTypes, AcceptedInv, MaySend, queue, status, sender, device
<1>0. CASE UNCHANGED vars  BY <1>0 DEF vars
<1>1. ASSUME NEW want \in BOOLEAN, SendSync(want) PROVE AcceptedInv'
  BY <1>1 DEF SendSync
<1>2. CASE Activate  BY <1>2 DEF Activate
<1>3. CASE EnqueueSync  BY <1>3 DEF EnqueueSync, Enqueue
<1>4. CASE EnqueueSyncUnmapped  BY <1>4 DEF EnqueueSyncUnmapped
<1>5. CASE EnqueueSyncFails  BY <1>5 DEF EnqueueSyncFails
<1>6. CASE Woken  BY <1>6 DEF Woken
<1>7. CASE Timeout  BY <1>7 DEF Timeout
<1>8. CASE TimeoutClear  BY <1>8 DEF TimeoutClear
<1>9. CASE SyncNmi  BY <1>9 DEF SyncNmi
<1>10. CASE Return  BY <1>10 DEF Return
<1>11. CASE Fail  BY <1>11 DEF Fail
<1>12. CASE Cancel  BY <1>12 DEF Cancel
<1>13. CASE FreeResp  BY <1>13 DEF FreeResp
<1>14. CASE HcmdComplete  BY <1>14 DEF HcmdComplete
<1>15. CASE GiveSkb  BY <1>15 DEF GiveSkb
<1>16. CASE Complete  BY <1>16 DEF Complete
<1>17. CASE SendAsync  BY <1>17 DEF SendAsync, Enqueue
<1>18. CASE SendAsyncFails  BY <1>18 DEF SendAsyncFails
<1>19. CASE HandleError  BY <1>19 DEF HandleError
<1>20. CASE HandleRfkill  BY <1>20 DEF HandleRfkill
<1>21. CASE Wake  BY <1>21 DEF Wake
<1>22. CASE FwAnswers  BY <1>22 DEF FwAnswers
<1>23. CASE FwFails  BY <1>23 DEF FwFails
<1>24. CASE Restart  BY <1>24 DEF Restart
<1>. QED
  BY <1>0, <1>1, <1>2, <1>3, <1>4, <1>5, <1>6, <1>7, <1>8, <1>9, <1>10, <1>11,
     <1>12, <1>13, <1>14, <1>15, <1>16, <1>17, <1>18, <1>19, <1>20, <1>21,
     <1>22, <1>23, <1>24
     DEF Next, SyncStep, RxStep

\* The outstanding entries are entries of the window.
LEMMA OutstandingType == Outstanding \subseteq 0..(NWindow - 1)
  BY DEF Outstanding, Window

\* What a command adds to the outstanding ones.
LEMMA OutstandingGrows ==
    OrderInv /\ (SendAsync \/ EnqueueSync)
    => /\ CmdIndex(write_ptr) \in 0..(NWindow - 1)
       /\ Outstanding' = Outstanding \union {CmdIndex(write_ptr)}
<1>. SUFFICES ASSUME OrderInv, SendAsync \/ EnqueueSync
              PROVE  /\ CmdIndex(write_ptr) \in 0..(NWindow - 1)
                     /\ Outstanding'
                          = Outstanding \union {CmdIndex(write_ptr)}
  OBVIOUS
<1>1. Used(read_ptr, write_ptr) \in Nat  BY UsedType DEF OrderInv, RingTypes
<1>2. Used(read_ptr, write_ptr) < NWindow
  BY <1>1, Sizes DEF SendAsync, EnqueueSync, RoomFor, Space
<1>3. write_ptr' = IncWrap(write_ptr) /\ UNCHANGED <<read_ptr, kept>>
  BY DEF SendAsync, EnqueueSync, Enqueue, kept, device
<1>. QED  BY <1>2, <1>3, EnqueueInOrder

\* What is outstanding stays so while nothing is sent or completed.
LEMMA OutstandingKept ==
    OrderInv /\ (\/ HcmdComplete \/ GiveSkb \/ FwAnswers
                 \/ UNCHANGED <<read_ptr, write_ptr, kept>>)
    => Outstanding' = Outstanding
<1>1. OrderInv /\ (HcmdComplete \/ GiveSkb \/ FwAnswers)
        => Following' = Following /\ write_ptr' = write_ptr
  BY HandledInOrder, GivenInOrder, AnswerInOrder
     DEF HcmdComplete, GiveSkb, FwAnswers, queue
<1>2. Following' = Following /\ write_ptr' = write_ptr
        => Outstanding' = Outstanding
  BY DEF Outstanding
<1>. QED  BY <1>1, <1>2, SameOrder

\* A restart leaves nothing outstanding.
LEMMA OutstandingGone == Restart => Outstanding' = {}
<1>. SUFFICES ASSUME Restart PROVE Outstanding' = {}
  OBVIOUS
<1>1. 0 \in Ring /\ NWindow \in Nat \ {0}  BY Sizes DEF Ring
<1>2. Following' = 0 /\ write_ptr' = 0  BY DEF Restart, Following
<1>3. Used(0, 0) = 0  BY <1>1, UsedType
<1>4. CmdIndex(0) \in 0..(NWindow - 1)  BY <1>1, DivMod, 0 \in Nat DEF CmdIndex
<1>. QED  BY <1>1, <1>2, <1>3, <1>4 DEF Outstanding, Window, Dist

\* Entries are cleared when they are completed, or by the sender.
LEMMA EntriesStep ==
    OrderInv /\ CmdTypes /\ EntriesInv /\ [Next]_vars => EntriesInv'
<1>. SUFFICES ASSUME OrderInv, CmdTypes, EntriesInv, [Next]_vars
              PROVE  EntriesInv'
  OBVIOUS
<1>. USE DEF CmdTypes, Entries, EntriesInv, SyncOutstanding, kept, queue,
             status, sender, device
<1>s. UNCHANGED <<read_ptr, write_ptr, kept>> => Outstanding' = Outstanding
  BY SameOrder
<1>0. CASE UNCHANGED vars  BY <1>0, <1>s DEF vars
<1>1. ASSUME NEW want \in BOOLEAN, SendSync(want) PROVE EntriesInv'
  BY <1>1, <1>s DEF SendSync
<1>2. CASE Activate  BY <1>2, <1>s DEF Activate
<1>3. CASE EnqueueSync  BY <1>3, OutstandingGrows DEF EnqueueSync, Enqueue
<1>4. CASE EnqueueSyncUnmapped  BY <1>4, <1>s DEF EnqueueSyncUnmapped
<1>5. CASE EnqueueSyncFails  BY <1>5, <1>s DEF EnqueueSyncFails
<1>6. CASE Woken  BY <1>6, <1>s DEF Woken
<1>7. CASE Timeout  BY <1>7, <1>s DEF Timeout
<1>8. CASE TimeoutClear  BY <1>8, <1>s DEF TimeoutClear
<1>9. CASE SyncNmi  BY <1>9, <1>s DEF SyncNmi
<1>10. CASE Return  BY <1>10, <1>s DEF Return
<1>11. CASE Fail  BY <1>11, <1>s DEF Fail
<1>12. CASE Cancel
  <2>1. Outstanding' = Outstanding /\ spc' = "free" /\ cmd_idx' = cmd_idx
    BY <1>12, <1>s DEF Cancel
  <2>2. \A i \in 0..(NWindow - 1) :
           /\ entries'[i].want_skb => entries[i].want_skb /\ i # cmd_idx
           /\ entries'[i].async = entries[i].async
    BY <1>12 DEF Cancel
  <2>. QED  BY <2>1, <2>2
<1>13. CASE FreeResp  BY <1>13, <1>s DEF FreeResp
<1>14. CASE HcmdComplete  BY <1>14, OutstandingKept DEF HcmdComplete
<1>15. CASE GiveSkb  BY <1>15, OutstandingKept DEF GiveSkb
<1>16. CASE Complete
  <2>1. /\ CmdIndex(rx_idx) \in Outstanding
        /\ Outstanding' = Outstanding \ {CmdIndex(rx_idx)}
    BY <1>16, CompleteInOrder
  <2>2. /\ entries' = [entries EXCEPT ![CmdIndex(rx_idx)] = NoFlags]
        /\ UNCHANGED <<spc, cmd_idx>>
    BY <1>16 DEF Complete
  <2>3. NoFlags.want_skb = FALSE /\ NoFlags.async = FALSE  BY DEF NoFlags
  <2>. QED  BY <2>1, <2>2, <2>3
<1>17. CASE SendAsync  BY <1>17, OutstandingGrows DEF SendAsync, Enqueue
<1>18. CASE SendAsyncFails  BY <1>18, <1>s DEF SendAsyncFails
<1>19. CASE HandleError  BY <1>19, <1>s DEF HandleError
<1>20. CASE HandleRfkill  BY <1>20, <1>s DEF HandleRfkill
<1>21. CASE Wake  BY <1>21, <1>s DEF Wake
<1>22. CASE FwAnswers  BY <1>22, OutstandingKept DEF FwAnswers
<1>23. CASE FwFails  BY <1>23, <1>s DEF FwFails
<1>24. CASE Restart  BY <1>24 DEF Restart, EmptyEntries, NoFlags
<1>. QED
  BY <1>0, <1>1, <1>2, <1>3, <1>4, <1>5, <1>6, <1>7, <1>8, <1>9, <1>10, <1>11,
     <1>12, <1>13, <1>14, <1>15, <1>16, <1>17, <1>18, <1>19, <1>20, <1>21,
     <1>22, <1>23, <1>24
     DEF Next, SyncStep, RxStep

\* The sender and its bit.
LEMMA SenderStep ==
    CmdTypes /\ SenderInv /\ [Next]_vars => SenderInv'
<1>. SUFFICES ASSUME CmdTypes, SenderInv, [Next]_vars
              PROVE  SenderInv'
  OBVIOUS
<1>. USE DEF CmdTypes, SenderInv, NULL, queue, status, sender, device
<1>0. CASE UNCHANGED vars  BY <1>0 DEF vars
<1>1. ASSUME NEW want \in BOOLEAN, SendSync(want) PROVE SenderInv'
  BY <1>1 DEF SendSync
<1>2. CASE Activate  BY <1>2 DEF Activate
<1>3. CASE EnqueueSync  BY <1>3 DEF EnqueueSync, Enqueue
<1>4. CASE EnqueueSyncUnmapped  BY <1>4 DEF EnqueueSyncUnmapped
<1>5. CASE EnqueueSyncFails  BY <1>5 DEF EnqueueSyncFails
<1>6. CASE Woken  BY <1>6 DEF Woken
<1>7. CASE Timeout  BY <1>7 DEF Timeout
<1>8. CASE TimeoutClear  BY <1>8 DEF TimeoutClear
<1>9. CASE SyncNmi  BY <1>9 DEF SyncNmi
<1>10. CASE Return  BY <1>10 DEF Return
<1>11. CASE Fail  BY <1>11 DEF Fail
<1>12. CASE Cancel  BY <1>12 DEF Cancel
<1>13. CASE FreeResp  BY <1>13 DEF FreeResp
<1>14. CASE HcmdComplete  BY <1>14 DEF HcmdComplete
<1>15. CASE GiveSkb  BY <1>15 DEF GiveSkb
<1>16. CASE Complete  BY <1>16 DEF Complete
<1>17. CASE SendAsync  BY <1>17 DEF SendAsync, Enqueue
<1>18. CASE SendAsyncFails  BY <1>18 DEF SendAsyncFails
<1>19. CASE HandleError  BY <1>19 DEF HandleError
<1>20. CASE HandleRfkill  BY <1>20 DEF HandleRfkill
<1>21. CASE Wake  BY <1>21 DEF Wake
<1>22. CASE FwAnswers  BY <1>22 DEF FwAnswers
<1>23. CASE FwFails  BY <1>23 DEF FwFails
<1>24. CASE Restart  BY <1>24 DEF Restart
<1>. QED
  BY <1>0, <1>1, <1>2, <1>3, <1>4, <1>5, <1>6, <1>7, <1>8, <1>9, <1>10, <1>11,
     <1>12, <1>13, <1>14, <1>15, <1>16, <1>17, <1>18, <1>19, <1>20, <1>21,
     <1>22, <1>23, <1>24
     DEF Next, SyncStep, RxStep

\* The sender gives up on an answer only if no other command is sent.
LEMMA OwnStep ==
    RfkillSeen /\ OrderInv /\ CmdTypes /\ SenderInv /\ WakeInv /\ OwnInv
      /\ [Next]_vars
    => OwnInv'
<1>. SUFFICES ASSUME RfkillSeen, OrderInv, CmdTypes, SenderInv, WakeInv,
                     OwnInv, [Next]_vars
              PROVE  OwnInv'
  OBVIOUS
<1>. USE DEF CmdTypes, SenderInv, OwnInv, WakeInv, Stopped, RfkillSeen,
             SyncOutstanding, kept, queue, status, sender, device
<1>s. UNCHANGED <<read_ptr, write_ptr, kept>> => Outstanding' = Outstanding
  BY SameOrder
<1>0. CASE UNCHANGED vars  BY <1>0, <1>s DEF vars
<1>1. ASSUME NEW want \in BOOLEAN, SendSync(want) PROVE OwnInv'
  BY <1>1, <1>s DEF SendSync, Refused
<1>2. CASE Activate  BY <1>2, <1>s DEF Activate
<1>3. CASE EnqueueSync
  <2>1. /\ CmdIndex(write_ptr) \in 0..(NWindow - 1)
        /\ Outstanding' = Outstanding \union {CmdIndex(write_ptr)}
    BY <1>3, OutstandingGrows
  <2>2. SyncOutstanding' \subseteq {CmdIndex(write_ptr)}
    BY <1>3, <2>1, OutstandingType DEF EnqueueSync, Enqueue, Entries
  <2>. QED  BY <1>3, <2>2 DEF EnqueueSync, Enqueue
<1>4. CASE EnqueueSyncUnmapped  BY <1>4, <1>s DEF EnqueueSyncUnmapped
<1>5. CASE EnqueueSyncFails  BY <1>5, <1>s DEF EnqueueSyncFails
<1>6. CASE Woken  BY <1>6, <1>s DEF Woken
<1>7. CASE Timeout  BY <1>7, <1>s DEF Timeout
<1>8. CASE TimeoutClear  BY <1>8, <1>s DEF TimeoutClear
<1>9. CASE SyncNmi  BY <1>9, <1>s DEF SyncNmi
<1>10. CASE Return  BY <1>10, <1>s DEF Return
<1>11. CASE Fail  BY <1>11, <1>s DEF Fail
<1>12. CASE Cancel  BY <1>12, <1>s DEF Cancel
<1>13. CASE FreeResp  BY <1>13, <1>s DEF FreeResp
<1>14. CASE HcmdComplete  BY <1>14, OutstandingKept DEF HcmdComplete
<1>15. CASE GiveSkb  BY <1>15, OutstandingKept DEF GiveSkb
<1>16. CASE Complete
  <2>1. /\ CmdIndex(rx_idx) \in Outstanding
        /\ Outstanding' = Outstanding \ {CmdIndex(rx_idx)}
    BY <1>16, CompleteInOrder
  <2>2. /\ entries' = [entries EXCEPT ![CmdIndex(rx_idx)] = NoFlags]
        /\ answered' = (answered \/ (cmd # NULL /\ CmdIndex(rx_idx) = cmd_idx
                                    /\ ~entries[cmd_idx].async))
        /\ UNCHANGED <<spc, cmd_idx, cmd, fw_error, rfkill>>
    BY <1>16 DEF Complete
  <2>3. SyncOutstanding' = SyncOutstanding \ {CmdIndex(rx_idx)}
    BY <2>1, <2>2, OutstandingType DEF Entries
  <2>. QED  BY <2>2, <2>3 DEF NULL
<1>17. CASE SendAsync
  <2>1. /\ CmdIndex(write_ptr) \in 0..(NWindow - 1)
        /\ Outstanding' = Outstanding \union {CmdIndex(write_ptr)}
    BY <1>17, OutstandingGrows
  <2>2. SyncOutstanding' \subseteq SyncOutstanding
    BY <1>17, <2>1, OutstandingType DEF SendAsync, Enqueue, Entries
  <2>. QED  BY <1>17, <2>2 DEF SendAsync, Enqueue
<1>18. CASE SendAsyncFails  BY <1>18, <1>s DEF SendAsyncFails
<1>19. CASE HandleError  BY <1>19, <1>s DEF HandleError
<1>20. CASE HandleRfkill  BY <1>20, <1>s DEF HandleRfkill
<1>21. CASE Wake  BY <1>21, <1>s DEF Wake
<1>22. CASE FwAnswers  BY <1>22, OutstandingKept DEF FwAnswers
<1>23. CASE FwFails  BY <1>23, <1>s DEF FwFails
<1>24. CASE Restart  BY <1>24, OutstandingGone DEF Restart
<1>. QED
  BY <1>0, <1>1, <1>2, <1>3, <1>4, <1>5, <1>6, <1>7, <1>8, <1>9, <1>10, <1>11,
     <1>12, <1>13, <1>14, <1>15, <1>16, <1>17, <1>18, <1>19, <1>20, <1>21,
     <1>22, <1>23, <1>24
     DEF Next, SyncStep, RxStep

\* The answer that wakes the sender is its own; an interrupt says why.
LEMMA WakeStep ==
    OrderInv /\ CmdTypes /\ FlagTypes /\ SenderInv /\ OwnInv /\ WakeInv
      /\ [Next]_vars
    => WakeInv'
<1>. SUFFICES ASSUME OrderInv, CmdTypes, FlagTypes, SenderInv, OwnInv, WakeInv,
                     [Next]_vars
              PROVE  WakeInv'
  OBVIOUS
<1>. USE DEF FlagTypes, WakeInv, Stopped, queue, status, sender, device
<1>0. CASE UNCHANGED vars  BY <1>0 DEF vars
<1>1. ASSUME NEW want \in BOOLEAN, SendSync(want) PROVE WakeInv'
  BY <1>1 DEF SendSync
<1>2. CASE Activate  BY <1>2 DEF Activate
<1>3. CASE EnqueueSync  BY <1>3 DEF EnqueueSync, Enqueue
<1>4. CASE EnqueueSyncUnmapped  BY <1>4 DEF EnqueueSyncUnmapped
<1>5. CASE EnqueueSyncFails  BY <1>5 DEF EnqueueSyncFails
<1>6. CASE Woken  BY <1>6 DEF Woken
<1>7. CASE Timeout  BY <1>7 DEF Timeout
<1>8. CASE TimeoutClear  BY <1>8 DEF TimeoutClear
<1>9. CASE SyncNmi  BY <1>9 DEF SyncNmi
<1>10. CASE Return  BY <1>10 DEF Return
<1>11. CASE Fail  BY <1>11 DEF Fail
<1>12. CASE Cancel  BY <1>12 DEF Cancel
<1>13. CASE FreeResp  BY <1>13 DEF FreeResp
<1>14. CASE HcmdComplete  BY <1>14 DEF HcmdComplete
<1>15. CASE GiveSkb  BY <1>15 DEF GiveSkb
<1>16. CASE Complete
  <2>1. CmdIndex(rx_idx) \in Outstanding  BY <1>16, CompleteInOrder
  <2>2. CASE entries[CmdIndex(rx_idx)].async  BY <1>16, <2>2 DEF Complete
  <2>3. CASE ~entries[CmdIndex(rx_idx)].async
    <3>1. CmdIndex(rx_idx) \in SyncOutstanding
      BY <2>1, <2>3 DEF SyncOutstanding
    <3>2. spc \in {"activate", "enqueue"} => FALSE  BY <3>1 DEF OwnInv
    <3>3. cmd # NULL => CmdIndex(rx_idx) = cmd_idx  BY <3>1 DEF OwnInv
    <3>. QED  BY <1>16, <2>3, <3>2, <3>3 DEF Complete, SenderInv
  <2>. QED  BY <2>2, <2>3
<1>17. CASE SendAsync  BY <1>17 DEF SendAsync, Enqueue
<1>18. CASE SendAsyncFails  BY <1>18 DEF SendAsyncFails
<1>19. CASE HandleError  BY <1>19 DEF HandleError
<1>20. CASE HandleRfkill  BY <1>20 DEF HandleRfkill
<1>21. CASE Wake  BY <1>21 DEF Wake
<1>22. CASE FwAnswers  BY <1>22 DEF FwAnswers
<1>23. CASE FwFails  BY <1>23 DEF FwFails
<1>24. CASE Restart  BY <1>24 DEF Restart
<1>. QED
  BY <1>0, <1>1, <1>2, <1>3, <1>4, <1>5, <1>6, <1>7, <1>8, <1>9, <1>10, <1>11,
     <1>12, <1>13, <1>14, <1>15, <1>16, <1>17, <1>18, <1>19, <1>20, <1>21,
     <1>22, <1>23, <1>24
     DEF Next, SyncStep, RxStep

\* When the sender returns nothing of its command is left in the queue.
LEMMA SourceStep ==
    RfkillSeen /\ OrderInv /\ CmdTypes /\ FlagTypes /\ EntriesInv
      /\ SenderInv /\ OwnInv /\ WakeInv /\ SourceIsLive /\ [Next]_vars
    => SourceIsLive'
<1>. SUFFICES ASSUME RfkillSeen, OrderInv, CmdTypes, FlagTypes, EntriesInv,
                     SenderInv, OwnInv, WakeInv, SourceIsLive, [Next]_vars
              PROVE  SourceIsLive'
  OBVIOUS
<1>. USE DEF RfkillSeen, CmdTypes, Entries, SourceIsLive, queue, status,
             sender, device
<1>0. CASE UNCHANGED vars  BY <1>0 DEF vars
<1>1. ASSUME NEW want \in BOOLEAN, SendSync(want) PROVE SourceIsLive'
  BY <1>1 DEF SendSync
<1>2. CASE Activate  BY <1>2 DEF Activate
<1>3. CASE EnqueueSync
  <2>1. CmdIndex(write_ptr) \in 0..(NWindow - 1)  BY WriteIndex
  <2>2. cmd = NULL  BY <1>3 DEF EnqueueSync, SenderInv
  <2>. QED  BY <1>3, <2>1, <2>2, CmdAssumption DEF EnqueueSync, Enqueue, NULL
<1>4. CASE EnqueueSyncUnmapped  BY <1>4 DEF EnqueueSyncUnmapped
<1>5. CASE EnqueueSyncFails  BY <1>5 DEF EnqueueSyncFails
<1>6. CASE Woken  BY <1>6 DEF Woken
<1>7. CASE Timeout  BY <1>7 DEF Timeout
<1>8. CASE TimeoutClear  BY <1>8 DEF TimeoutClear
<1>9. CASE SyncNmi  BY <1>9 DEF SyncNmi
<1>10. CASE Return
  <2>1. SyncOutstanding = {}
    BY <1>10 DEF Return, Failed, OwnInv, WakeInv, Stopped, SenderInv
  <2>2. \A i \in 0..(NWindow - 1) : ~entries[i].want_skb
    BY <2>1 DEF EntriesInv, SyncOutstanding, NoFlags
  <2>. QED  BY <1>10, <2>2 DEF Return
<1>11. CASE Fail  BY <1>11 DEF Fail
<1>12. CASE Cancel  BY <1>12 DEF Cancel
<1>13. CASE FreeResp
  <2>1. SyncOutstanding \subseteq {cmd_idx}
    BY <1>13 DEF FreeResp, OwnInv, SenderInv
  <2>2. \A i \in 0..(NWindow - 1) : ~entries[i].want_skb
    BY <1>13, <2>1 DEF FreeResp, EntriesInv, SyncOutstanding, NoFlags
  <2>. QED  BY <1>13, <2>2 DEF FreeResp
<1>14. CASE HcmdComplete  BY <1>14 DEF HcmdComplete
<1>15. CASE GiveSkb  BY <1>15 DEF GiveSkb
<1>16. CASE Complete  BY <1>16 DEF Complete, NoFlags
<1>17. CASE SendAsync
  <2>1. CmdIndex(write_ptr) \in 0..(NWindow - 1)  BY WriteIndex
  <2>. QED  BY <1>17, <2>1 DEF SendAsync, Enqueue
<1>18. CASE SendAsyncFails  BY <1>18 DEF SendAsyncFails
<1>19. CASE HandleError  BY <1>19 DEF HandleError
<1>20. CASE HandleRfkill  BY <1>20 DEF HandleRfkill
<1>21. CASE Wake  BY <1>21 DEF Wake
<1>22. CASE FwAnswers  BY <1>22 DEF FwAnswers
<1>23. CASE FwFails  BY <1>23 DEF FwFails
<1>24. CASE Restart  BY <1>24 DEF Restart, EmptyEntries, NoFlags
<1>. QED
  BY <1>0, <1>1, <1>2, <1>3, <1>4, <1>5, <1>6, <1>7, <1>8, <1>9, <1>10, <1>11,
     <1>12, <1>13, <1>14, <1>15, <1>16, <1>17, <1>18, <1>19, <1>20, <1>21,
     <1>22, <1>23, <1>24
     DEF Next, SyncStep, RxStep

----------------------------------------------------------------------------
(* The theorems *)

\* The initial state satisfies the invariants.
LEMMA InitInv ==
    Init => /\ OrderInv /\ CmdTypes /\ FlagTypes /\ AcceptedInv
            /\ EntriesInv /\ SenderInv /\ OwnInv /\ WakeInv /\ SourceIsLive
<1>. SUFFICES ASSUME Init
              PROVE  /\ OrderInv /\ CmdTypes /\ FlagTypes /\ AcceptedInv
                     /\ EntriesInv /\ SenderInv /\ OwnInv /\ WakeInv
                     /\ SourceIsLive
  OBVIOUS
<1>0. 0 \in Ring /\ Used(0, 0) = 0  BY Sizes, UsedType DEF Ring
<1>1. OrderInv
  <2>1. RingTypes  BY <1>0 DEF Init, RingTypes
  <2>2. AnswersInOrder  BY DEF Init, AnswersInOrder
  <2>3. Following = 0  BY DEF Init, Following
  <2>4. PointersInOrder  BY <1>0, <2>3, Sizes DEF Init, PointersInOrder
  <2>. QED  BY <2>1, <2>2, <2>4 DEF OrderInv
<1>2. CmdTypes
  <2>1. NoFlags \in [source : 0..MaxCmds, async : BOOLEAN, want_skb : BOOLEAN]
    BY CmdAssumption DEF NoFlags, NULL
  <2>2. entries \in Entries  BY <2>1 DEF Init, EmptyEntries, Entries
  <2>3. 0 \in 0..MaxCmds /\ 0 \in 0..(NWindow - 1)  BY CmdAssumption
  <2>. QED  BY <2>2, <2>3 DEF Init, CmdTypes, NULL
<1>3. FlagTypes  BY DEF Init, FlagTypes
<1>4. Outstanding = {}
  <2>1. Following = 0 /\ write_ptr = 0  BY DEF Init, Following
  <2>2. CmdIndex(0) \in 0..(NWindow - 1)
    BY Sizes, DivMod, 0 \in Nat DEF CmdIndex
  <2>. QED  BY <1>0, <2>1, <2>2, Sizes DEF Outstanding, Window, Dist
<1>5. \A i \in 0..(NWindow - 1) : entries[i].want_skb = FALSE
  BY DEF Init, EmptyEntries, NoFlags
<1>6. EntriesInv  BY <1>5 DEF EntriesInv
<1>7. OwnInv  BY <1>4 DEF OwnInv, SyncOutstanding
<1>8. SourceIsLive  BY <1>5 DEF SourceIsLive, Init, EmptyEntries
<1>9. AcceptedInv /\ SenderInv /\ WakeInv
  BY DEF Init, AcceptedInv, SenderInv, WakeInv, NULL
<1>. QED  BY <1>1, <1>2, <1>3, <1>6, <1>7, <1>8, <1>9

\* The command queue keeps its order for every op-mode and window.
THEOREM CmdQueueInvariant == Spec => []QueueInv
<1>. DEFINE I == OrderInv /\ CmdTypes /\ FlagTypes /\ AcceptedInv
<1>1. Init => I  BY InitInv
<1>2. I /\ [Next]_vars => I'
  BY OrderStep, CmdTypesStep, FlagTypesStep, AcceptedStep
<1>3. I => QueueInv  BY TypeParts, AnswersBounded DEF QueueInv, OrderInv
<1>. QED  BY <1>1, <1>2, <1>3, PTL DEF Spec

\* No pointer leaves the ring, no more answers than entries are under way, and
\* nothing but the commands of this run is found in the queue.
THEOREM CmdTypeCorrect == Spec => []TypeOK
<1>1. QueueInv => TypeOK  BY DEF QueueInv
<1>. QED  BY <1>1, CmdQueueInvariant, PTL

\* Sender, RX context and interrupts stay consistent, although the sender
\* neither waits nor gives up with the lock.
THEOREM CommandInvariant ==
    Spec /\ []RfkillSeen => []CommandInv
<1>. DEFINE I == /\ OrderInv /\ CmdTypes /\ FlagTypes /\ AcceptedInv
                 /\ EntriesInv /\ SenderInv /\ OwnInv /\ WakeInv
                 /\ SourceIsLive
<1>1. Init => I  BY InitInv
<1>2. RfkillSeen /\ I /\ [Next]_vars => I'
  <2>1. I /\ [Next]_vars
          => OrderInv' /\ CmdTypes' /\ FlagTypes' /\ AcceptedInv'
    BY OrderStep, CmdTypesStep, FlagTypesStep, AcceptedStep
  <2>2. RfkillSeen /\ I /\ [Next]_vars
          => EntriesInv' /\ SenderInv' /\ OwnInv' /\ WakeInv' /\ SourceIsLive'
    BY EntriesStep, SenderStep, OwnStep, WakeStep, SourceStep
  <2>. QED  BY <2>1, <2>2
<1>3. I => CommandInv
  BY TypeParts, AnswersBounded DEF CommandInv, QueueInv, OrderInv
<1>. QED  BY <1>1, <1>2, <1>3, PTL DEF Spec

\* A late answer never finds the address of a command whose sender has
\* returned: CMD_WANT_SKB was taken back before.
THEOREM CmdSourceIsLive ==
    Spec /\ []RfkillSeen => []SourceIsLive
<1>1. CommandInv => SourceIsLive  BY DEF CommandInv
<1>. QED  BY <1>1, CommandInvariant, PTL

\* A synchronous command that succeeds was answered.
THEOREM CmdSyncMeansAnswered ==
    Spec /\ []RfkillSeen => SyncMeansAnswered
<1>1. RfkillSeen /\ CommandInv /\ [Next]_vars
        => [spc = "check" /\ spc' = "idle" => answered]_vars
  <2>. SUFFICES ASSUME RfkillSeen, CommandInv, Next, spc = "check",
                       spc' = "idle"
                PROVE  answered
    OBVIOUS
  <2>1. Return
    BY DEF Next, SyncStep, RxStep, SendSync, Activate, EnqueueSync,
           EnqueueSyncUnmapped, EnqueueSyncFails, Woken, Timeout,
           TimeoutClear, SyncNmi, Fail, Cancel, FreeResp, HcmdComplete,
           GiveSkb, Complete, SendAsync, SendAsyncFails, HandleError,
           HandleRfkill, Wake, FwAnswers, FwFails, Restart, sender
  <2>. QED
    BY <2>1 DEF Return, Failed, RfkillSeen, CommandInv, WakeInv, Stopped
<1>. QED  BY <1>1, CommandInvariant, PTL DEF Spec, SyncMeansAnswered

\* An answer never wakes the sender of a later command.
THEOREM CmdNoStaleCompletion ==
    Spec /\ []RfkillSeen => NoStaleCompletion
<1>1. RfkillSeen /\ CommandInv /\ [Next]_vars
        => [rx = "reclaim" /\ rx' = "idle" /\ sync_active /\ ~sync_active'
              => cmd # NULL /\ CmdIndex(rx_idx) = cmd_idx]_vars
  <2>. SUFFICES ASSUME CommandInv, Next, rx = "reclaim", rx' = "idle",
                       sync_active, ~sync_active'
                PROVE  cmd # NULL /\ CmdIndex(rx_idx) = cmd_idx
    OBVIOUS
  <2>1. Complete
    BY DEF Next, SyncStep, RxStep, SendSync, Activate, EnqueueSync,
           EnqueueSyncUnmapped, EnqueueSyncFails, Woken, Timeout,
           TimeoutClear, SyncNmi, Return, Fail, Cancel, FreeResp,
           HcmdComplete, GiveSkb, SendAsync, SendAsyncFails, HandleError,
           HandleRfkill, Wake, FwAnswers, FwFails, Restart
  <2>2. OrderInv  BY TypeParts DEF CommandInv, QueueInv, OrderInv
  <2>3. CmdIndex(rx_idx) \in SyncOutstanding
    BY <2>1, <2>2, CompleteInOrder DEF Complete, SyncOutstanding
  <2>4. spc \in {"enqueue", "wait", "timeout"}  BY DEF CommandInv, SenderInv
  <2>. QED  BY <2>3, <2>4 DEF CommandInv, OwnInv, SenderInv
<1>. QED  BY <1>1, CommandInvariant, PTL DEF Spec, NoStaleCompletion
============================================================================
