-------------------------- MODULE InOrderDelivery --------------------------
(***************************************************************************)
(* What a block-ack session promises the stack: from the first frame of    *)
(* the session on, every receive queue hands frames over in the order of   *)
(* their numbers, none of them twice.  A frame may be discarded when it    *)
(* arrives (it is late, or a duplicate); one that is held back is never    *)
(* dropped, unless the session ends.                                       *)
(***************************************************************************)
EXTENDS Integers, Sequences, SequencesExt

CONSTANTS
    Queues,
    Frames      \* pairs: the number of an MPDU and that of a subframe of it

VARIABLES
    open,       \* the session exists
    started,    \* per queue: it has seen a frame that is not late
    held,       \* per queue: frames that wait for earlier ones
    delivered   \* per queue: frames handed to the stack, in this order

vars == <<open, started, held, delivered>>

Before(f, g) == f[1] < g[1] \/ (f[1] = g[1] /\ f[2] < g[2])

Ordered(s) == \A i, j \in DOMAIN s : i < j => Before(s[i], s[j])

Init ==
    /\ open = FALSE
    /\ started = [q \in Queues |-> FALSE]
    /\ held = [q \in Queues |-> {}]
    /\ delivered = [q \in Queues |-> <<>>]

Open ==
    /\ ~open
    /\ open' = TRUE
    /\ UNCHANGED <<started, held, delivered>>

\* Frames arrive on q or the queue learns that others need not be waited
\* for.  What is new goes to the stack, in order and after all that went
\* there before, or is held; what was held stays so until it goes to the
\* stack.
Handle(q, arrived) ==
    LET out == SubSeq(delivered'[q], Len(delivered[q]) + 1, Len(delivered'[q]))
    IN  /\ delivered' = [delivered EXCEPT ![q] = @ \o out]
        /\ ToSet(out) \subseteq held[q] \union arrived
        /\ Ordered(out)
        /\ \A f \in ToSet(delivered[q]), g \in ToSet(out) : Before(f, g)
        /\ held'[q] \subseteq held[q] \union arrived
        /\ held[q] \subseteq held'[q] \union ToSet(out)
        /\ held'[q] \intersect ToSet(out) = {}
        /\ held'[q] # {} \/ out # <<>> => started'[q]
        /\ started[q] => started'[q]
        /\ \A r \in Queues \ {q} : /\ held'[r] = held[r]
                                   /\ started'[r] = started[r]
        /\ open' = open

\* At the end nothing stays behind; frames may be given up.
Close ==
    /\ open
    /\ open' = FALSE
    /\ held' = [q \in Queues |-> {}]
    /\ UNCHANGED <<started, delivered>>

\* Without a session, or before its first frame, a late frame goes up as it
\* comes.
Bypass(q, f) ==
    /\ ~open \/ ~started[q]
    /\ delivered' = [delivered EXCEPT ![q] = Append(@, f)]
    /\ UNCHANGED <<open, started, held>>

Next ==
    \/ Open \/ Close
    \/ \E q \in Queues, f \in Frames : Handle(q, {f}) \/ Bypass(q, f)

Spec == Init /\ [][Next]_vars
============================================================================
