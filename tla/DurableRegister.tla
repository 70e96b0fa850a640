-------------------------- MODULE DurableRegister --------------------------
(***************************************************************************)
(* What the guidance journal promises its callers: a register of numbered  *)
(* versions that is written by compare and swap.  The register may become  *)
(* unreadable; whenever it is readable it holds the newest version any     *)
(* caller was told of, or a later one.                                     *)
(***************************************************************************)
EXTENDS Naturals

CONSTANTS Values, MaxSeq

Versions == [seq : 0 .. MaxSeq, val : Values]

VARIABLES
    current,    \* the version a reader would get
    readable,
    told        \* versions some caller was told are in force

Supersedes(v) == \A t \in told : v.seq > t.seq \/ v = t

Init == current \in Versions /\ readable = TRUE /\ told = {}

\* The next version, from the one in force.
Write ==
    /\ readable = TRUE /\ readable' = TRUE
    /\ current.seq < MaxSeq
    /\ \E x \in Values : current' = [seq |-> current.seq + 1, val |-> x]
    /\ UNCHANGED told

Tell ==
    /\ readable = TRUE
    /\ told' = told \cup {current}
    /\ UNCHANGED <<current, readable>>

\* Nobody can read the register any more.
Break == readable = TRUE /\ readable' = FALSE /\ current' \in Versions /\ UNCHANGED told

\* An unreadable register loses no promise: it comes back with what was
\* told, or with more.
Mend ==
    /\ readable = FALSE /\ current' \in Versions /\ UNCHANGED told
    /\ readable' \in BOOLEAN
    /\ readable' => Supersedes(current')

Next == Write \/ Tell \/ Break \/ Mend

Spec == Init /\ [][Next]_<<current, readable, told>>
=============================================================================
