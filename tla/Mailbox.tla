------------------------------ MODULE Mailbox ------------------------------
(***************************************************************************)
(* What an event queue promises (include/grace/eventq.h): events are kept  *)
(* in the order they were sent, an urgent one ahead of all; a receiver     *)
(* polls for the next event or waits for one, and a waiting receiver is    *)
(* not left alone with an event in the box.                                *)
(***************************************************************************)
EXTENDS Sequences, FiniteSets

CONSTANTS Events, Receivers

VARIABLES
    box,         \* the pending events, the next one first
    waiting,     \* receivers inside waitevent()
    got          \* every <<receiver, event>> handed out, in order

mvars == <<box, waiting, got>>

Init == box = <<>> /\ waiting = {} /\ got = <<>>

Post(e)  == box' = Append(box, e) /\ UNCHANGED <<waiting, got>>
Jump(e)  == box' = <<e>> \o box /\ UNCHANGED <<waiting, got>>

HandOut(r) ==
    /\ box # <<>>
    /\ got' = Append(got, <<r, Head(box)>>)
    /\ box' = Tail(box)

Poll(r)    == r \notin waiting /\ HandOut(r) /\ UNCHANGED waiting
Ask(r)     == r \notin waiting /\ waiting' = waiting \union {r} /\ UNCHANGED <<box, got>>
Deliver(r) == r \in waiting /\ HandOut(r) /\ waiting' = waiting \ {r}
GiveUp(r)  == r \in waiting /\ waiting' = waiting \ {r} /\ UNCHANGED <<box, got>>

Next ==
    \/ \E e \in Events : Post(e) \/ Jump(e)
    \/ \E r \in Receivers : Poll(r) \/ Ask(r) \/ Deliver(r) \/ GiveUp(r)

Spec == Init /\ [][Next]_mvars

\* The promise to a receiver that waits: it is not left waiting beside an
\* event.
Answered == \A r \in Receivers : (r \in waiting /\ box # <<>>) ~> (r \notin waiting)

LiveSpec == Spec /\ Answered
=============================================================================
