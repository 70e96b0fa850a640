----------------------------- MODULE TenantJobs -----------------------------
(***************************************************************************)
(* What delete-my-data promises about slow jobs to the user who can look   *)
(* them up: it takes effect in one step.  It empties everything and shuts  *)
(* out every question that is still being answered; only questions begun   *)
(* after it put anything there again.  A record only goes forward, from    *)
(* pending to complete or to an error; it may expire at any time.          *)
(***************************************************************************)
CONSTANTS
    Question,
    Nothing         \* there is no record

VARIABLES
    shown,  \* what a lookup of each question's job finds
    open,   \* questions that may still put a record there
    begun   \* questions so far

\* What a record of each status may replace.
Before == [pending |-> {Nothing},
           complete |-> {Nothing, "pending"},
           error |-> {Nothing, "pending", "complete"}]

Init == shown = [q \in Question |-> Nothing] /\ open = {} /\ begun = {}

Begin == \E q \in Question \ begun :
    begun' = begun \cup {q} /\ open' = open \cup {q} /\ UNCHANGED shown

Record == \E q \in open, s \in DOMAIN Before :
    /\ shown[q] \in Before[s]
    /\ shown' = [shown EXCEPT ![q] = s]
    /\ UNCHANGED <<open, begun>>

End == \E q \in open : open' = open \ {q} /\ UNCHANGED <<shown, begun>>

Expire == \E q \in Question :
    shown' = [shown EXCEPT ![q] = Nothing] /\ UNCHANGED <<open, begun>>

Delete ==
    /\ shown' = [q \in Question |-> Nothing]
    /\ open' = {}
    /\ UNCHANGED begun

Next == Begin \/ Record \/ End \/ Expire \/ Delete

Spec == Init /\ [][Next]_<<shown, open, begun>>
=============================================================================
