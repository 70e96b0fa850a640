-------------------------- MODULE GuidanceCaptures --------------------------
(***************************************************************************)
(* The content-addressed capture store of the guidance updater:            *)
(* store_capture and reconcile_usage of                                    *)
(* scripts/revenue_guidance_overlay.py on a plain state root.              *)
(*                                                                         *)
(* A capture is two files (bytes and metadata); the accounting journal     *)
(* reserves it before either is written and settles it afterwards.  Every  *)
(* file is replaced atomically; the process may end between any two        *)
(* writes.  One updater at a time holds the lock, so the journal an        *)
(* updater wrote last is the journal it reads.                             *)
(***************************************************************************)
EXTENDS Naturals, FiniteSets

CONSTANTS
    Page,       \* documents that can be captured, by their bytes
    Size,       \* the bytes of each
    NoPage      \* no capture is being written

ASSUME SizeAssumption == Size \in [Page -> Nat]
ASSUME NoPageAssumption == NoPage \notin Page

VARIABLES
    ledger,     \* store_usage.json: bytes and files held, reservations pending
    raw,        \* captures whose bytes are on the disk
    meta,       \* captures whose metadata is on the disk
    storing,    \* the capture being written
    stage       \* the file written next; "closed" while no updater runs

storeVars == <<ledger, raw, meta, storing, stage>>

\* What the captures of S hold, a byte being a capture and a place in it.
Content(S) == UNION {{p} \X (1 .. Size[p]) : p \in S}
Bytes(S) == Cardinality(Content(S))

StoreInit ==
    /\ ledger = [bytes |-> 0, files |-> 0, pending |-> {}]
    /\ raw = {} /\ meta = {}
    /\ storing = NoPage /\ stage = "closed"

\* Mutant: a reservation is forgotten, not released.
ReconciledKept == [ledger EXCEPT !.pending = {}]
\* What the ledger says once its reservations are settled: an object that was
\* written stays counted, one that was not is released.
Reconciled ==
    LET lost == ledger.pending \ raw IN
    [bytes |-> ledger.bytes - Bytes(lost),
     files |-> ledger.files - Cardinality(lost), pending |-> {}]

\* A run takes the lock and settles what an earlier run left pending.
OpenStore ==
    /\ stage = "closed"
    /\ ledger' = Reconciled
    /\ stage' = "open"
    /\ UNCHANGED <<raw, meta, storing>>

\* Bytes that are already held keep their first metadata; a missing metadata
\* file is written.
StoreHeld(p) ==
    /\ stage = "open" /\ p \in raw
    /\ meta' = meta \cup {p}
    /\ UNCHANGED <<ledger, raw, storing, stage>>

\* The journal counts the bytes, and names them pending, before any file.
Reserve(p) ==
    /\ stage = "open" /\ p \notin raw
    /\ ledger' = [bytes |-> ledger.bytes + Size[p], files |-> ledger.files + 1,
                  pending |-> ledger.pending \cup {p}]
    /\ storing' = p /\ stage' = "raw"
    /\ UNCHANGED <<raw, meta>>

WriteRaw ==
    /\ stage = "raw"
    /\ raw' = raw \cup {storing} /\ stage' = "meta"
    /\ UNCHANGED <<ledger, meta, storing>>

WriteMeta ==
    /\ stage = "meta"
    /\ meta' = meta \cup {storing} /\ stage' = "settle"
    /\ UNCHANGED <<ledger, raw, storing>>

Settle ==
    /\ stage = "settle"
    /\ ledger' = [ledger EXCEPT !.pending = @ \ {storing}]
    /\ storing' = NoPage /\ stage' = "open"
    /\ UNCHANGED <<raw, meta>>

\* The run ends, or its process dies: the operating system drops the lock.
CloseStore ==
    /\ stage # "closed"
    /\ storing' = NoPage /\ stage' = "closed"
    /\ UNCHANGED <<ledger, raw, meta>>

StoreNext ==
    \/ OpenStore
    \/ \E p \in Page : StoreHeld(p) \/ Reserve(p)
    \/ WriteRaw \/ WriteMeta \/ Settle
    \/ CloseStore

StoreSpec == StoreInit /\ [][StoreNext]_storeVars

\* load_capture: both files are there.
Loadable(p) == p \in raw /\ p \in meta

-----------------------------------------------------------------------------

StoreTypeOK ==
    /\ ledger \in [bytes : Nat, files : Nat, pending : SUBSET Page]
    /\ raw \subseteq Page /\ meta \subseteq raw
    /\ storing \in Page \cup {NoPage}
    /\ stage \in {"closed", "open", "raw", "meta", "settle"}

\* The accounting never loses or invents a byte, whatever run died where: it
\* counts exactly what is on the disk or still reserved, so the quota is
\* compared with the truth.
BytesCounted == ledger.bytes = Bytes(raw \cup ledger.pending)

\* The same of the number of objects; and at most one reservation is ever
\* open, so the limit on pending reservations never refuses a capture.
FilesCounted ==
    /\ ledger.files = Cardinality(raw \cup ledger.pending)
    /\ Cardinality(ledger.pending) <= 1
=============================================================================
