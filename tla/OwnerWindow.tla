----------------------------- MODULE OwnerWindow -----------------------------
(***************************************************************************)
(* What the work session promises, whatever the broker does to keep it: a  *)
(* connector serves only inside a window of time the owner opened by       *)
(* answering a question.  One answer opens at most one window; a window    *)
(* keeps its bounds until it is gone; nothing but an answer opens one, and *)
(* nothing but an answer or a live window lets a request in.               *)
(***************************************************************************)
EXTENDS Integers

CONSTANT Requests

VARIABLES
    now,
    window,   \* the set of the open window: empty or one [from, until]
    asking,   \* requests put before the owner
    serving   \* requests that have been let in

vars == <<now, window, asking, serving>>

Inside(w) == \E x \in w : x.from <= now /\ now < x.until

Init == now = 0 /\ window = {} /\ asking = {} /\ serving = {}

\* A window, and what it let in, can be lost at any moment; never part of it.
Fade == \/ window' = window /\ serving' \subseteq serving
        \/ window' = {} /\ serving' = {}

Ask(r) == /\ asking' = asking \cup {r}
          /\ Fade
          /\ UNCHANGED now

\* The owner agrees: inside a window the request joins it, or it opens one of its
\* own, which takes the place of any other: a broker whose clock stepped back
\* gives the old window up.  Either may be lost with the answer.
Agree(r) ==
    /\ r \in asking
    /\ asking' \subseteq asking \ {r}
    /\ \/ Inside(window) /\ window' = window /\ serving' \subseteq serving \cup {r}
       \/ /\ \E until \in {x.until : x \in window'} :
                now < until /\ window' = {[from |-> now, until |-> until]}
          /\ serving' \subseteq {r}
    /\ UNCHANGED now

LetIn(r) == /\ Inside(window)
            /\ serving' = serving \cup {r}
            /\ UNCHANGED <<now, window, asking>>

Lose == asking' \subseteq asking /\ Fade /\ UNCHANGED now

Clock == now' \in Nat /\ UNCHANGED <<window, asking, serving>>

Next == \/ Lose
        \/ Clock
        \/ \E r \in Requests : Ask(r) \/ LetIn(r) \/ Agree(r)

Spec == Init /\ [][Next]_vars
=============================================================================
