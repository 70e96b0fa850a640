-------------------------- MODULE MCGuidanceUpdate --------------------------
(* Small instances of GuidanceUpdate for TLC.  Issuer nvda publishes two    *)
(* releases and a page no release proves to be its own; issuer mu, whose    *)
(* source never answers, publishes one release.                             *)
EXTENDS GuidanceUpdate
CONSTANTS nvda, mu, n1, n2, nx, m1

MCOwner == [d \in Doc |-> IF d = m1 THEN mu ELSE nvda]
MCDay == [d \in Doc |-> IF d = n2 THEN 2 ELSE 1]
MCProves == [e \in Results |-> {e}]
MCSymbols == IF mu \in Issuer THEN <<nvda, mu>> ELSE <<nvda>>
MCPage == Results \X {"early", "late", "file"}
MCReachable == (Results \ {m1}) \X {"early", "late", "file"}
MCSize == [p \in MCPage |-> IF p[2] = "file" \/ p = <<n2, "late">> THEN 2 ELSE 1]
\* Identity 2 reads another number in the first release of nvda and refuses the
\* second one.
MCReading == <<[e \in Results |-> 1], [e \in Results |-> IF e = n2 THEN 0 ELSE 2]>>
\* Or it reads what identity 1 reads.
MCReadingSame == <<[e \in Results |-> 1], [e \in Results |-> 1]>>
\* It may come with a new curated record of nvda, whose review found nothing.
MCCurated == <<[i \in Issuer |-> 1], [i \in Issuer |-> 1]>>
MCCuratedAnew == <<[i \in Issuer |-> 1], [i \in Issuer |-> 2]>>
MCReviewed == <<{}, {}>>
MCReviewedOnce == <<{nx}, {}>>

\* Under these hypotheses OldNumbersBarred is proved; the instances satisfy them.
ASSUME InstanceHypotheses == ReleasesInOrder /\ OlderReadingsStand
=============================================================================
