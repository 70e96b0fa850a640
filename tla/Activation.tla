----------------------------- MODULE Activation -----------------------------
(***************************************************************************)
(* Publication of an activation bundle: the signed transaction that makes  *)
(* a new snapshot the one every reader sees.                               *)
(*                                                                         *)
(*   client   scripts/v213_sealed_refresh.ps1: one refresh at a time (the  *)
(*            operation lock), a local journal file per refresh, commit,   *)
(*            then finalize, or rollback after any failure; and the        *)
(*            operator's reconciliation of a journal left unresolved;      *)
(*   Worker   cloud/src/v213/activation-v3.ts: the commit, rollback and    *)
(*            finalize handlers.  Each KV call is one step: nothing in KV  *)
(*            is transactional, so anything may happen between two calls;  *)
(*   reader   cloud/src/v213/snapshot-seal.ts: pins a pointer, then reads  *)
(*            and verifies the objects that its seal lists;                *)
(*   hourly   the hourly sealed publisher, which moves the same pointer.   *)
(*                                                                         *)
(* A bundle's content is named by its transaction: a body object holds the *)
(* transaction whose payload it was derived from.  A claim text, and the   *)
(* seal computed over the bodies and that claim, are named by the          *)
(* transaction and the refresh at whose clock the claim was made.          *)
(***************************************************************************)
EXTENDS Naturals, FiniteSets

CONSTANTS
    Tx,             \* transaction ids (one signed bundle each)
    Run,            \* run ids
    RunOf,          \* the run id a bundle carries; two bundles may share one
    Question,       \* concurrent questions, one pinned snapshot view each
    Refresh,        \* invocations of the refresh script, one journal file each
    Hourly,         \* pointers the hourly publisher writes
    NBody,          \* body objects of a snapshot, claim and seal excluded
    LateHandlers,   \* TRUE: a handler outlives the request that started it
    MaxFaults,      \* bound: failed KV calls, lost replies and client crashes
    Nil,            \* JavaScript's null
    NoUndo          \* no rollback journal under a transaction's key

ASSUME NBodyAssumption == NBody \in Nat \ {0}
ASSUME RunOfAssumption == RunOf \in [Tx -> Run]
ASSUME LateAssumption == LateHandlers \in BOOLEAN
ASSUME MaxFaultsAssumption == MaxFaults \in Nat

VARIABLES
    pointer,    \* PUBLIC_CACHE "snapshot:current"
    store,      \* PUBLIC_CACHE "snapshot:<run>:<key>"
    undo,       \* TENANT_PRIVATE_CACHE rollback journals, by transaction
    stale,      \* transactions whose bundle is past the two-hour limit
    c,          \* commit handler of each refresh
    r,          \* rollback handler of each refresh
    f,          \* finalize handler of each refresh
    client,     \* the refresh that holds the operation lock and its phase
    journal,    \* local journal files: publication_state
    bundle,     \* transaction recorded in each journal file
    reader,     \* each question's snapshot view
    hourly,     \* pointers the hourly publisher has written
    faults,     \* failures so far
    finalized,  \* history: refreshes whose finalize deleted the rollback journal
    displaced   \* history: the pointer each promotion replaced

worker == <<c, r, f>>
kv == <<pointer, store, undo>>
local == <<client, journal, bundle>>
history == <<finalized, displaced>>
vars == <<pointer, store, undo, stale, c, r, f, client, journal, bundle,
          reader, hourly, faults, finalized, displaced>>

-----------------------------------------------------------------------------
(* The objects of a snapshot: bodies 1..NBody, then the claim, then the seal. *)
ClaimSlot == NBody + 1
SealSlot == NBody + 2
Slot == 1..SealSlot

Item == [tx: Tx, at: Refresh \cup {Nil}]
(* What a commit of t whose claim was made at `at` stores in slot s. *)
ItemOf(t, at, s) == [tx |-> t, at |-> IF s <= NBody THEN Nil ELSE at]

Sealed == [run: Run, tx: Tx, seal: Refresh, by: Refresh]
Pointer == Sealed \cup Hourly \cup {Nil}
ASSUME NilAssumption == Nil \notin Tx \cup Run \cup Refresh \cup Sealed \cup Item
ASSUME HourlyAssumption == Hourly \cap Sealed = {}
ASSUME NoUndoAssumption == NoUndo \notin Pointer
CurrentRun(p) == IF p \in Sealed THEN p.run ELSE Nil

CommitPc == {"idle", "pointer", "undo", "claim", "seal", "replay", "putUndo",
             "putClaim", "checkClaim", "put", "verify", "promote", "checkPointer",
             "reverify", "done"}
RollbackPc == {"idle", "undo", "pointer", "restore", "check", "delete", "done"}
FinalizePc == {"idle", "undo", "pointer", "verify", "check", "delete", "done"}
Outcome == {"accepted", "replayed", "rolled_back", "not_committed", "finalized", "error"}

CommitHandler == [pc: CommitPc, prev: Pointer, back: Pointer, at: Refresh \cup {Nil},
                  n: Slot, fresh: BOOLEAN, replay: BOOLEAN, result: Outcome]
RollbackHandler == [pc: RollbackPc, back: Pointer, found: BOOLEAN, result: Outcome]
FinalizeHandler == [pc: FinalizePc, ptr: Pointer, n: Slot, result: Outcome]
View == [pc: {"idle", "read", "view", "unavailable"}, ptr: Pointer, n: Slot,
         got: SUBSET (Slot \X Item)]

CommitIdle == [pc |-> "idle", prev |-> Nil, back |-> Nil, at |-> Nil, n |-> 1,
               fresh |-> FALSE, replay |-> FALSE, result |-> "error"]
RollbackIdle == [pc |-> "idle", back |-> Nil, found |-> FALSE, result |-> "error"]
FinalizeIdle == [pc |-> "idle", ptr |-> Nil, n |-> 1, result |-> "error"]
ReaderIdle == [pc |-> "idle", ptr |-> Nil, n |-> 1, got |-> {}]

Resolved == {"FINALIZED", "ROLLED_BACK", "NOT_COMMITTED"}
Journal == Resolved \cup {"ABSENT", "NOT_ATTEMPTED", "UNKNOWN", "COMMITTED"}
Unresolved(i) == journal[i] \in {"UNKNOWN", "COMMITTED"}

Init ==
    /\ pointer \in Hourly \cup {Nil}
    /\ store = [x \in Run |-> [s \in Slot |-> Nil]]
    /\ undo = [t \in Tx |-> NoUndo]
    /\ stale = {}
    /\ c = [i \in Refresh |-> CommitIdle]
    /\ r = [i \in Refresh |-> RollbackIdle]
    /\ f = [i \in Refresh |-> FinalizeIdle]
    /\ client = [pc |-> "idle", who |-> Nil]
    /\ journal = [i \in Refresh |-> "ABSENT"]
    /\ bundle = [i \in Refresh |-> Nil]
    /\ reader = [q \in Question |-> ReaderIdle]
    /\ hourly = {pointer}
    /\ faults = 0
    /\ finalized = {}
    /\ displaced = [t \in Tx |-> Nil]

-----------------------------------------------------------------------------
(* Commit: ingestV213ActivationBundle. *)

CommitUnchanged == UNCHANGED <<r, f, stale, local, reader, hourly, faults>>
CommitEnds(i, result) == c' = [c EXCEPT ![i].pc = "done", ![i].result = result]

CommitReadPointer(i) ==
    /\ c[i].pc = "pointer"
    /\ IF bundle[i] \in stale
       THEN CommitEnds(i, "error")
       ELSE c' = [c EXCEPT ![i].pc = "undo", ![i].prev = pointer]
    /\ UNCHANGED <<kv, history>> /\ CommitUnchanged

(* An existing journal is resumed only over the pointer it recorded; a run    *)
(* already current with no journal is finalized or owned by someone else.     *)
CommitReadUndo(i) ==
    LET t == bundle[i]
        current == CurrentRun(c[i].prev) = RunOf[t]
        refused == IF undo[t] # NoUndo
                   THEN ~current /\ c[i].prev # undo[t]
                   ELSE current
    IN /\ c[i].pc = "undo"
       /\ IF refused
          THEN CommitEnds(i, "error")
          ELSE c' = [c EXCEPT ![i].pc = "claim", ![i].replay = current,
                              ![i].back = IF undo[t] # NoUndo THEN undo[t] ELSE c[i].prev]
       /\ UNCHANGED <<kv, history>> /\ CommitUnchanged

(* The claim binds a run id to one transaction; `at` is the claim in use.     *)
CommitReadClaim(i) ==
    LET claim == store[RunOf[bundle[i]]][ClaimSlot]
    IN /\ c[i].pc = "claim"
       /\ IF claim # Nil /\ claim.tx # bundle[i]
          THEN CommitEnds(i, "error")
          ELSE c' = [c EXCEPT ![i].pc = "seal",
                              ![i].at = IF claim = Nil THEN i ELSE claim.at,
                              ![i].fresh = (claim = Nil)]
       /\ UNCHANGED <<kv, history>> /\ CommitUnchanged

(* A stored seal must be the one this commit would write; a replay needs one, *)
(* named by the current pointer.                                              *)
CommitReadSeal(i) ==
    LET t == bundle[i]
        seal == store[RunOf[t]][SealSlot]
        mine == ItemOf(t, c[i].at, SealSlot)
        replayable == /\ seal # Nil
                      /\ c[i].prev.tx = t
                      /\ c[i].prev.seal = c[i].at
    IN /\ c[i].pc = "seal"
       /\ IF seal \notin {Nil, mine} \/ (c[i].replay /\ ~replayable)
             \/ (~c[i].replay /\ t \in stale)
          THEN CommitEnds(i, "error")
          ELSE c' = [c EXCEPT ![i].pc = IF c[i].replay THEN "replay" ELSE "putUndo"]
       /\ UNCHANGED <<kv, history>> /\ CommitUnchanged

(* verifySnapshotObjects: one read per object, any difference is an error.    *)
Verified(i) == store[RunOf[bundle[i]]][c[i].n] = ItemOf(bundle[i], c[i].at, c[i].n)
(* Mutant: the loop reads one object past the last. *)
VerifyPastEnd(i, next) ==
    c' = IF ~Verified(i) THEN [c EXCEPT ![i].pc = "done", ![i].result = "error"]
         ELSE IF c[i].n <= SealSlot THEN [c EXCEPT ![i].n = @ + 1]
         ELSE [c EXCEPT ![i].n = 1, ![i].pc = next.pc, ![i].result = next.result]
VerifyThen(i, next) ==
    c' = IF ~Verified(i)
         THEN [c EXCEPT ![i].pc = "done", ![i].result = "error"]
         ELSE IF c[i].n < SealSlot THEN [c EXCEPT ![i].n = @ + 1]
         ELSE [c EXCEPT ![i].n = 1, ![i].pc = next.pc, ![i].result = next.result]

CommitReplay(i) ==
    /\ c[i].pc = "replay"
    /\ VerifyThen(i, [pc |-> "done",
                      result |-> IF bundle[i] \in stale THEN "error" ELSE "replayed"])
    /\ UNCHANGED <<kv, history>> /\ CommitUnchanged

PutUndo(i, back, then) ==
    /\ c[i].pc = "putUndo"
    /\ undo' = [undo EXCEPT ![bundle[i]] = back]
    /\ c' = [c EXCEPT ![i].pc = then]
    /\ UNCHANGED <<pointer, store, history>> /\ CommitUnchanged
AfterUndo(i) == IF c[i].fresh THEN "putClaim" ELSE "put"

(* Mutants: the pointer is written before the objects; the journal is not     *)
(* written; only a sealed pointer is kept for the rollback.                   *)
CommitPointerFirst(i) == PutUndo(i, c[i].back, "promote")
CommitNoUndo(i) == PutUndo(i, undo[bundle[i]], AfterUndo(i))
CommitUndoSealedOnly(i) ==
    PutUndo(i, IF c[i].back \in Sealed THEN c[i].back ELSE Nil, AfterUndo(i))

CommitPutUndo(i) == PutUndo(i, c[i].back, AfterUndo(i))

CommitPutClaim(i) ==
    /\ c[i].pc = "putClaim"
    /\ store' = [store EXCEPT ![RunOf[bundle[i]]][ClaimSlot] =
                                  ItemOf(bundle[i], c[i].at, ClaimSlot)]
    /\ c' = [c EXCEPT ![i].pc = "checkClaim"]
    /\ UNCHANGED <<pointer, undo, history>> /\ CommitUnchanged

CommitCheckClaim(i) ==
    /\ c[i].pc = "checkClaim"
    /\ IF store[RunOf[bundle[i]]][ClaimSlot] = ItemOf(bundle[i], c[i].at, ClaimSlot)
       THEN c' = [c EXCEPT ![i].pc = "put"]
       ELSE CommitEnds(i, "error")
    /\ UNCHANGED <<kv, history>> /\ CommitUnchanged

CommitPut(i) ==
    /\ c[i].pc = "put"
    /\ store' = [store EXCEPT ![RunOf[bundle[i]]][c[i].n] =
                                  ItemOf(bundle[i], c[i].at, c[i].n)]
    /\ c' = IF c[i].n < SealSlot THEN [c EXCEPT ![i].n = @ + 1]
            ELSE [c EXCEPT ![i].pc = "verify", ![i].n = 1]
    /\ UNCHANGED <<pointer, undo, history>> /\ CommitUnchanged

CommitVerify(i) ==
    /\ c[i].pc = "verify"
    /\ VerifyThen(i, [pc |-> "promote", result |-> "error"])
    /\ UNCHANGED <<kv, history>> /\ CommitUnchanged

PointerOf(i) == [run |-> RunOf[bundle[i]], tx |-> bundle[i], seal |-> c[i].at, by |-> i]

CommitPromote(i) ==
    /\ c[i].pc = "promote"
    /\ IF bundle[i] \in stale
       THEN CommitEnds(i, "error") /\ UNCHANGED <<pointer, displaced>>
       ELSE /\ pointer' = PointerOf(i)
            /\ displaced' = [displaced EXCEPT ![bundle[i]] = pointer]
            /\ c' = [c EXCEPT ![i].pc = "checkPointer"]
    /\ UNCHANGED <<store, undo, finalized>> /\ CommitUnchanged

CommitCheckPointer(i) ==
    /\ c[i].pc = "checkPointer"
    /\ IF pointer = PointerOf(i)
       THEN c' = [c EXCEPT ![i].pc = "reverify"]
       ELSE CommitEnds(i, "error")
    /\ UNCHANGED <<kv, history>> /\ CommitUnchanged

CommitReverify(i) ==
    /\ c[i].pc = "reverify"
    /\ VerifyThen(i, [pc |-> "done", result |-> "accepted"])
    /\ UNCHANGED <<kv, history>> /\ CommitUnchanged

CommitStep(i) ==
    \/ CommitReadPointer(i) \/ CommitReadUndo(i) \/ CommitReadClaim(i)
    \/ CommitReadSeal(i) \/ CommitReplay(i) \/ CommitPutUndo(i)
    \/ CommitPutClaim(i) \/ CommitCheckClaim(i) \/ CommitPut(i)
    \/ CommitVerify(i) \/ CommitPromote(i) \/ CommitCheckPointer(i)
    \/ CommitReverify(i)

-----------------------------------------------------------------------------
(* Rollback: rollbackV213Activation. *)

RollbackUnchanged == UNCHANGED <<c, f, store, stale, local, reader, hourly, faults, history>>
RollbackEnds(i, result) == r' = [r EXCEPT ![i].pc = "done", ![i].result = result]

(* Mutant: a missing journal is taken for one that recorded no pointer. *)
RollbackUndoAssumed(i) ==
    /\ r[i].pc = "undo"
    /\ r' = [r EXCEPT ![i].pc = "pointer", ![i].found = TRUE, ![i].back =
                        IF undo[bundle[i]] # NoUndo THEN undo[bundle[i]] ELSE Nil]
    /\ UNCHANGED <<pointer, undo>> /\ RollbackUnchanged

RollbackReadUndo(i) ==
    LET u == undo[bundle[i]]
    IN /\ r[i].pc = "undo"
       /\ r' = [r EXCEPT ![i].pc = "pointer", ![i].found = u # NoUndo,
                         ![i].back = IF u # NoUndo THEN u ELSE Nil]
       /\ UNCHANGED <<pointer, undo>> /\ RollbackUnchanged

RollbackReadPointer(i) ==
    LET current == CurrentRun(pointer) = RunOf[bundle[i]]
    IN /\ r[i].pc = "pointer"
       /\ IF r[i].found
          THEN IF current THEN r' = [r EXCEPT ![i].pc = "restore"]
                          ELSE RollbackEnds(i, "error")
          ELSE RollbackEnds(i, IF current THEN "error" ELSE "not_committed")
       /\ UNCHANGED <<pointer, undo>> /\ RollbackUnchanged

(* Mutant: the pointer put is forgotten. *)
RollbackNoRestore(i) ==
    /\ r[i].pc = "restore"
    /\ r' = [r EXCEPT ![i].pc = "delete"]
    /\ UNCHANGED <<pointer, undo>> /\ RollbackUnchanged

RollbackRestore(i) ==
    /\ r[i].pc = "restore"
    /\ pointer' = r[i].back
    /\ r' = [r EXCEPT ![i].pc = "check"]
    /\ UNCHANGED undo /\ RollbackUnchanged

RollbackCheck(i) ==
    /\ r[i].pc = "check"
    /\ IF pointer = r[i].back THEN r' = [r EXCEPT ![i].pc = "delete"]
                              ELSE RollbackEnds(i, "error")
    /\ UNCHANGED <<pointer, undo>> /\ RollbackUnchanged

RollbackDelete(i) ==
    /\ r[i].pc = "delete"
    /\ undo' = [undo EXCEPT ![bundle[i]] = NoUndo]
    /\ RollbackEnds(i, "rolled_back")
    /\ UNCHANGED pointer /\ RollbackUnchanged

RollbackStep(i) ==
    \/ RollbackReadUndo(i) \/ RollbackReadPointer(i) \/ RollbackRestore(i)
    \/ RollbackCheck(i) \/ RollbackDelete(i)

-----------------------------------------------------------------------------
(* Finalize: finalizeV213Activation, with readSealedSnapshot inside. *)

FinalizeUnchanged == UNCHANGED <<c, r, pointer, store, stale, local, reader,
                                 hourly, faults, displaced>>
FinalizeEnds(i, result) == f' = [f EXCEPT ![i].pc = "done", ![i].result = result]

FinalizeReadUndo(i) ==
    /\ f[i].pc = "undo"
    /\ IF undo[bundle[i]] = NoUndo
       THEN FinalizeEnds(i, "error")
       ELSE f' = [f EXCEPT ![i].pc = "pointer"]
    /\ UNCHANGED <<undo, finalized>> /\ FinalizeUnchanged

FinalizeReadPointer(i) ==
    /\ f[i].pc = "pointer"
    /\ IF CurrentRun(pointer) = RunOf[bundle[i]]
       THEN f' = [f EXCEPT ![i].pc = "verify", ![i].ptr = pointer, ![i].n = 1]
       ELSE FinalizeEnds(i, "error")
    /\ UNCHANGED <<undo, finalized>> /\ FinalizeUnchanged

(* The order in which a sealed snapshot is read: the seal, the bodies, the    *)
(* claim; and what the object read n-th has to be for the pointer p.          *)
ReadOrder(n) == IF n = 1 THEN SealSlot ELSE n - 1
(* Mutant: only the seal itself is compared, not the objects it lists. *)
MatchesSealOnly(p, n) == n > 1 \/ store[p.run][SealSlot] = ItemOf(p.tx, p.seal, SealSlot)
MatchesSeal(p, n) == store[p.run][ReadOrder(n)] = ItemOf(p.tx, p.seal, ReadOrder(n))

FinalizeVerify(i) ==
    /\ f[i].pc = "verify"
    /\ IF ~MatchesSeal(f[i].ptr, f[i].n) THEN FinalizeEnds(i, "error")
       ELSE f' = [f EXCEPT ![i].n = IF @ < SealSlot THEN @ + 1 ELSE 1,
                           ![i].pc = IF f[i].n < SealSlot THEN "verify" ELSE "check"]
    /\ UNCHANGED <<undo, finalized>> /\ FinalizeUnchanged

FinalizeCheck(i) ==
    /\ f[i].pc = "check"
    /\ IF f[i].ptr.tx = bundle[i] /\ pointer = f[i].ptr
       THEN f' = [f EXCEPT ![i].pc = "delete"]
       ELSE FinalizeEnds(i, "error")
    /\ UNCHANGED <<undo, finalized>> /\ FinalizeUnchanged

FinalizeDelete(i) ==
    /\ f[i].pc = "delete"
    /\ undo' = [undo EXCEPT ![bundle[i]] = NoUndo]
    /\ finalized' = finalized \cup {i}
    /\ FinalizeEnds(i, "finalized")
    /\ FinalizeUnchanged

FinalizeStep(i) ==
    \/ FinalizeReadUndo(i) \/ FinalizeReadPointer(i) \/ FinalizeVerify(i)
    \/ FinalizeCheck(i) \/ FinalizeDelete(i)

-----------------------------------------------------------------------------
(* A KV call throws, or the Worker stops: the request ends without an answer  *)
(* other than an error.  A failed put that took effect is a failure at the    *)
(* next step.                                                                 *)
Faulty == faults < MaxFaults /\ faults' = faults + 1

HandlerFails(i) ==
    /\ Faulty
    /\ \/ c[i].pc \notin {"idle", "done"} /\ CommitEnds(i, "error") /\ UNCHANGED <<r, f>>
       \/ r[i].pc \notin {"idle", "done"} /\ RollbackEnds(i, "error") /\ UNCHANGED <<c, f>>
       \/ f[i].pc \notin {"idle", "done"} /\ FinalizeEnds(i, "error") /\ UNCHANGED <<c, r>>
    /\ UNCHANGED <<kv, stale, local, reader, hourly, history>>

-----------------------------------------------------------------------------
(* The client: Invoke-V213SealedRefresh and Resolve-V213SealedRefreshJournal. *)

ClientUnchanged == UNCHANGED <<kv, stale, reader, hourly, history>>
ClientIdle == [pc |-> "idle", who |-> Nil]
StartRollback(i) == r' = [r EXCEPT ![i] = [RollbackIdle EXCEPT !.pc = "undo"]]
(* A handler whose caller went away: cancelled with the request, or left running. *)
Abandoned(h, idle) == IF LateHandlers /\ h.pc # "done" THEN h ELSE idle

(* Lock, journal check, bundle, preflight or credentials fail: nothing was sent. *)
RefreshNotAttempted(i) ==
    /\ client.pc = "idle" /\ journal[i] = "ABSENT"
    /\ journal' = [journal EXCEPT ![i] = "NOT_ATTEMPTED"]
    /\ UNCHANGED <<client, bundle, worker, faults>> /\ ClientUnchanged

(* The journal is saved as UNKNOWN before the commit request leaves.          *)
StartRefresh(i, t) ==
    /\ client.pc = "idle" /\ journal[i] = "ABSENT"
    /\ \A j \in Refresh : ~Unresolved(j)
    /\ journal' = [journal EXCEPT ![i] = "UNKNOWN"]
    /\ bundle' = [bundle EXCEPT ![i] = t]
    /\ client' = [pc |-> "commit", who |-> i]
    /\ c' = [c EXCEPT ![i] = [CommitIdle EXCEPT !.pc = "pointer"]]
    /\ UNCHANGED <<r, f, faults>> /\ ClientUnchanged

CommitReply(i) ==
    /\ client = [pc |-> "commit", who |-> i]
    /\ c[i].pc = "done"
    /\ c' = [c EXCEPT ![i] = CommitIdle]
    /\ \/ /\ c[i].result = "accepted"
          /\ journal' = [journal EXCEPT ![i] = "COMMITTED"]
          /\ client' = [client EXCEPT !.pc = "finalize"]
          /\ f' = [f EXCEPT ![i] = [FinalizeIdle EXCEPT !.pc = "undo"]]
          /\ UNCHANGED r
       \/ /\ c[i].result # "accepted"
          /\ client' = [client EXCEPT !.pc = "rollback"]
          /\ StartRollback(i)
          /\ UNCHANGED <<journal, f>>
    /\ UNCHANGED <<bundle, faults>> /\ ClientUnchanged

FinalizeReply(i) ==
    /\ client = [pc |-> "finalize", who |-> i]
    /\ f[i].pc = "done"
    /\ f' = [f EXCEPT ![i] = FinalizeIdle]
    /\ \/ /\ f[i].result = "finalized"
          /\ journal' = [journal EXCEPT ![i] = "FINALIZED"]
          /\ client' = ClientIdle
          /\ UNCHANGED r
       \/ /\ f[i].result # "finalized"
          /\ client' = [client EXCEPT !.pc = "rollback"]
          /\ StartRollback(i)
          /\ UNCHANGED journal
    /\ UNCHANGED <<c, bundle, faults>> /\ ClientUnchanged

(* A rollback after a failure, or one the operator confirmed: only an answer  *)
(* resolves the journal.                                                      *)
RolledBackAs(result, old) ==
    CASE result = "rolled_back" -> "ROLLED_BACK"
      [] result = "not_committed" -> "NOT_COMMITTED"
      [] OTHER -> old

(* Mutant: the client waits for an answer that is not an error. *)
RollbackAwaitsSuccess(i) ==
    /\ client.who = i /\ client.pc \in {"rollback", "reconcile"}
    /\ r[i].pc = "done" /\ r[i].result # "error"
    /\ r' = [r EXCEPT ![i] = RollbackIdle]
    /\ journal' = [journal EXCEPT ![i] = RolledBackAs(r[i].result, @)]
    /\ client' = ClientIdle
    /\ UNCHANGED <<c, f, bundle, faults>> /\ ClientUnchanged

RollbackReply(i) ==
    /\ client.who = i /\ client.pc \in {"rollback", "reconcile"}
    /\ r[i].pc = "done"
    /\ r' = [r EXCEPT ![i] = RollbackIdle]
    /\ journal' = [journal EXCEPT ![i] =
                     RolledBackAs(r[i].result, IF client.pc = "rollback" THEN "UNKNOWN" ELSE @)]
    /\ client' = ClientIdle
    /\ UNCHANGED <<c, f, bundle, faults>> /\ ClientUnchanged

Reconcile(i) ==
    /\ client.pc = "idle" /\ Unresolved(i) /\ r[i].pc \in {"idle", "done"}
    /\ client' = [pc |-> "reconcile", who |-> i]
    /\ StartRollback(i)
    /\ UNCHANGED <<c, f, journal, bundle, faults>> /\ ClientUnchanged

(* The 90 s request timeout, or a lost answer. *)
Timeout(i) ==
    /\ Faulty
    /\ client.who = i
    /\ \/ /\ client.pc \in {"commit", "finalize"}
          /\ client' = [client EXCEPT !.pc = "rollback"]
          /\ StartRollback(i)
          /\ UNCHANGED journal
       \/ /\ client.pc \in {"rollback", "reconcile"}
          /\ client' = ClientIdle
          /\ journal' = IF client.pc = "rollback" THEN [journal EXCEPT ![i] = "UNKNOWN"]
                                                  ELSE journal
          /\ r' = [r EXCEPT ![i] = Abandoned(@, RollbackIdle)]
    /\ c' = [c EXCEPT ![i] = Abandoned(@, CommitIdle)]
    /\ f' = [f EXCEPT ![i] = Abandoned(@, FinalizeIdle)]
    /\ UNCHANGED bundle /\ ClientUnchanged

(* The client process dies: the journal file stays as last saved and the      *)
(* abandoned mutex is free for the next owner.                                *)
ClientCrash(i) ==
    /\ Faulty
    /\ client.who = i
    /\ client' = ClientIdle
    /\ c' = [c EXCEPT ![i] = Abandoned(@, CommitIdle)]
    /\ r' = [r EXCEPT ![i] = Abandoned(@, RollbackIdle)]
    /\ f' = [f EXCEPT ![i] = Abandoned(@, FinalizeIdle)]
    /\ UNCHANGED <<journal, bundle>> /\ ClientUnchanged

ClientStep(i) ==
    \/ RefreshNotAttempted(i)
    \/ \E t \in Tx : StartRefresh(i, t)
    \/ CommitReply(i) \/ FinalizeReply(i) \/ RollbackReply(i)

-----------------------------------------------------------------------------
(* The hourly publisher moves the pointer while it holds the operation lock.  *)
HourlyPublish ==
    /\ client.pc = "idle"
    /\ \E p \in Hourly \ hourly : pointer' = p /\ hourly' = hourly \cup {p}
    /\ UNCHANGED <<store, undo, stale, worker, local, reader, faults, history>>

(* Two hours pass since a bundle was generated. *)
BundleExpires(t) ==
    /\ t \notin stale
    /\ stale' = stale \cup {t}
    /\ UNCHANGED <<kv, worker, local, reader, hourly, faults, history>>

ReaderUnchanged == UNCHANGED <<kv, stale, worker, local, hourly, faults, history>>

(* readPublicSnapshot pins the pointer once for the whole question.           *)
ReaderPin(q) ==
    /\ reader[q].pc = "idle" /\ pointer \in Sealed
    /\ reader' = [reader EXCEPT ![q] = [ReaderIdle EXCEPT !.pc = "read", !.ptr = pointer]]
    /\ ReaderUnchanged

(* readSealedSnapshot: every object is read and compared with the seal the    *)
(* pointer names before any is exposed.                                       *)
ReaderRead(q) ==
    LET v == reader[q]
        s == ReadOrder(v.n)
    IN /\ v.pc = "read"
       /\ reader' = [reader EXCEPT ![q] =
             IF ~MatchesSeal(v.ptr, v.n) THEN [ReaderIdle EXCEPT !.pc = "unavailable"]
             ELSE [v EXCEPT !.n = IF @ < SealSlot THEN @ + 1 ELSE @,
                            !.pc = IF v.n < SealSlot THEN "read" ELSE "view",
                            !.got = @ \cup {<<s, store[v.ptr.run][s]>>}]]
       /\ ReaderUnchanged

ReaderDone(q) ==
    /\ reader[q].pc \in {"view", "unavailable"}
    /\ reader' = [reader EXCEPT ![q] = ReaderIdle]
    /\ ReaderUnchanged

ReaderStep(q) == ReaderPin(q) \/ ReaderRead(q) \/ ReaderDone(q)

-----------------------------------------------------------------------------
WorkerStep(i) == CommitStep(i) \/ RollbackStep(i) \/ FinalizeStep(i)

Next ==
    \/ \E i \in Refresh :
          \/ WorkerStep(i) \/ HandlerFails(i)
          \/ ClientStep(i) \/ Reconcile(i) \/ Timeout(i) \/ ClientCrash(i)
    \/ HourlyPublish
    \/ \E t \in Tx : BundleExpires(t)
    \/ \E q \in Question : ReaderStep(q)

Spec == Init /\ [][Next]_vars

(* Requests are served, answers are read, and the operator keeps confirming   *)
(* reconciliation while a journal is unresolved.                              *)
Fairness == \A i \in Refresh :
    /\ WF_vars(CommitStep(i)) /\ WF_vars(RollbackStep(i)) /\ WF_vars(FinalizeStep(i))
    /\ WF_vars(CommitReply(i) \/ FinalizeReply(i) \/ RollbackReply(i))
    /\ WF_vars(Reconcile(i))
FairSpec == Spec /\ Fairness

-----------------------------------------------------------------------------
(* Types of all variables: the KV contents, the handlers' locals, the client. *)
TypeOK ==
    /\ pointer \in Pointer
    /\ store \in [Run -> [Slot -> Item \cup {Nil}]]
    /\ undo \in [Tx -> Pointer \cup {NoUndo}]
    /\ stale \in SUBSET Tx
    /\ c \in [Refresh -> CommitHandler]
    /\ r \in [Refresh -> RollbackHandler]
    /\ f \in [Refresh -> FinalizeHandler]
    /\ client \in [pc: {"idle", "commit", "finalize", "rollback", "reconcile"},
                   who: Refresh \cup {Nil}]
    /\ journal \in [Refresh -> Journal]
    /\ bundle \in [Refresh -> Tx \cup {Nil}]
    /\ reader \in [Question -> View]
    /\ hourly \subseteq Hourly \cup {Nil}
    /\ faults \in 0..MaxFaults
    /\ finalized \subseteq Refresh
    /\ displaced \in [Tx -> Pointer]

(* readSealedSnapshot: a view handed to a question holds every object of the  *)
(* one commit its pointer names, however many commits write that run while    *)
(* the reader works through its objects.                                      *)
SealedView ==
    \A q \in Question : reader[q].pc = "view" =>
        reader[q].got = {<<s, ItemOf(reader[q].ptr.tx, reader[q].ptr.seal, s)>> : s \in Slot}

(* Pointer-last publication: whenever the current pointer names an activation *)
(* run, every object of that run is stored and is the one its seal lists; a   *)
(* failed, rolled back or colliding commit never damages a served run.        *)
PromotedSnapshotComplete ==
    pointer \in Sealed =>
        \A s \in Slot : store[pointer.run][s] = ItemOf(pointer.tx, pointer.seal, s)

(* The commit's answer says rollback_available: as long as the served         *)
(* activation has not been finalized, its rollback journal exists, whatever   *)
(* failed after the journal was written.                                      *)
Recoverable ==
    pointer \in Sealed => undo[pointer.tx] # NoUndo \/ pointer.by \in finalized

(* exact_pointer_restored: the pointer a rollback would put back is the one   *)
(* this promotion displaced, not an older one.                                *)
RollbackTarget ==
    pointer \in Sealed /\ undo[pointer.tx] # NoUndo =>
        undo[pointer.tx] = displaced[pointer.tx]

(* A journal file that says ROLLED_BACK or NOT_COMMITTED lets the next        *)
(* refresh start: the pointer that refresh wrote is not being served.         *)
UndoneNotServed ==
    pointer \in Sealed => journal[pointer.by] \notin {"ROLLED_BACK", "NOT_COMMITTED"}

(* No rollback replaces the pointer of a refresh already reported FINALIZED,  *)
(* not even that of another transaction that carries the same run id.         *)
FinalizedNeverUndone ==
    [][\A i \in Refresh :
          RollbackRestore(i) /\ pointer \in Sealed => journal[pointer.by] # "FINALIZED"]_vars

(* PublishedSnapshot: the pointer is moved in one step from all of one        *)
(* snapshot to all of another and back to exactly what it displaced, although *)
(* a commit writes its objects one by one and a rollback or finalize takes    *)
(* several calls, any of which may be the last.  The rollback journal of the  *)
(* served activation is what an undo brings back.                             *)
Objects(p) == IF p \in Sealed THEN [s \in Slot |-> ItemOf(p.tx, p.seal, s)] ELSE Nil
Shown == IF pointer \in Sealed THEN store[pointer.run] ELSE Nil
Spare == IF pointer \in Sealed THEN undo[pointer.tx] ELSE NoUndo
Published == INSTANCE PublishedSnapshot
    WITH Snapshots <- Sealed, Editions <- Hourly, First <- Hourly \cup {Nil},
         Nothing <- NoUndo, Whole <- [p \in Pointer |-> Objects(p)],
         current <- pointer, shown <- Shown, spare <- Spare, past <- hourly
SwitchesAtOnce == Published!Spec

(* The operation lock is released: every refresh and every reconciliation     *)
(* ends, whichever calls fail.                                                *)
RefreshEnds == client.pc # "idle" ~> client.pc = "idle"

(* What the reconciliation comment promises: the rollback operation either    *)
(* proves not_committed or restores the previous pointer, so an operator who  *)
(* keeps confirming it resolves every unresolved journal.                     *)
ReconciliationDecides == \A i \in Refresh : Unresolved(i) ~> ~Unresolved(i)

=============================================================================
