------------------------- MODULE MCGuidanceJournal -------------------------
(* Small instances of GuidanceJournal for TLC. *)
EXTENDS GuidanceJournal
CONSTANTS a, b
=============================================================================
