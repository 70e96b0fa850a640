------------------------- MODULE PublishedSnapshot -------------------------
(***************************************************************************)
(* What an activation promises whoever reads the snapshot: it changes in   *)
(* one step, from all of one snapshot to all of the next.  Until a switch  *)
(* is kept it can be undone, once, and that brings back exactly what it    *)
(* replaced.  Editions are published on their own schedule, each once, and *)
(* cannot be undone.                                                       *)
(***************************************************************************)
CONSTANTS
    Snapshots,  \* snapshots that are switched to
    Editions,   \* what is published otherwise
    First,      \* what may be in force at first
    Whole,      \* all the objects of each
    Nothing     \* there is nothing to undo

VARIABLES
    current,    \* the snapshot or edition in force
    shown,      \* the objects it is read from
    spare,      \* what undoing would bring back
    past        \* editions so far

Init == current \in First /\ shown = Whole[current] /\ spare = Nothing /\ past = {current}

\* A switch waits until the one before was kept or undone.
Switch ==
    /\ spare = Nothing
    /\ \E s \in Snapshots \ {current} : current' = s /\ shown' = Whole[s]
    /\ spare' = current
    /\ UNCHANGED past

Undo ==
    /\ spare # Nothing
    /\ current' = spare /\ shown' = Whole[spare] /\ spare' = Nothing
    /\ UNCHANGED past

Keep == spare # Nothing /\ spare' = Nothing /\ UNCHANGED <<current, shown, past>>

Publish ==
    /\ \E e \in Editions \ past : current' = e /\ shown' = Whole[e] /\ past' = past \cup {e}
    /\ spare' = Nothing

Next == Switch \/ Undo \/ Keep \/ Publish

Spec == Init /\ [][Next]_<<current, shown, spare, past>>
=============================================================================
