--------------------------- MODULE StoppableThread ---------------------------
(***************************************************************************)
(* What the three components that own a thread promise to main(), with     *)
(* nothing of their work in it: start() sets a flag and creates a thread,  *)
(* stop() clears the flag and returns when the thread has ended.  The      *)
(* thread does its work turn by turn.  When the flag is cleared it ends    *)
(* the turn it has begun; it may begin one more, if it was already past    *)
(* its look at the flag, but no second one.                                *)
(***************************************************************************)

VARIABLES
    flag,       \* is it to go on?
    thread,     \* is there a thread?
    working,    \* has the thread begun a turn?
    last,       \* may it begin a turn without looking at the flag again?
    stopping    \* has stop() cleared the flag, and not returned?

vars == <<flag, thread, working, last, stopping>>

Init ==
    /\ ~flag /\ ~thread /\ ~working /\ ~last
    /\ ~stopping

\* The flag is set first: the creation of the thread may throw.
Start ==
    /\ ~flag /\ ~thread /\ ~stopping
    /\ flag'
    /\ thread' \in BOOLEAN
    /\ UNCHANGED <<working, last, stopping>>

Clear ==
    /\ flag /\ ~stopping
    /\ ~flag' /\ stopping'
    /\ last' \in BOOLEAN /\ (last' => thread /\ ~working)
    /\ UNCHANGED <<thread, working>>

Begin ==
    /\ thread /\ ~working
    /\ flag \/ last
    /\ working' /\ ~last'
    /\ UNCHANGED <<flag, thread, stopping>>

\* There is nothing to do: it looks at the flag again.
Skip ==
    /\ last
    /\ ~last'
    /\ UNCHANGED <<flag, thread, working, stopping>>

End ==
    /\ working
    /\ ~working'
    /\ UNCHANGED <<flag, thread, last, stopping>>

\* It has seen the flag, or an exception has ended it.
Leave ==
    /\ thread
    /\ ~thread' /\ ~working' /\ ~last'
    /\ UNCHANGED <<flag, stopping>>

Return ==
    /\ stopping /\ ~thread
    /\ ~stopping'
    /\ UNCHANGED <<flag, thread, working, last>>

\* The process has ended.
Lost == ~flag' /\ ~thread' /\ ~working' /\ ~last' /\ ~stopping'

Next == Start \/ Clear \/ Begin \/ Skip \/ End \/ Leave \/ Return \/ Lost

Spec == Init /\ [][Next]_vars
=============================================================================
