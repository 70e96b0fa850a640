-------------------------- MODULE ActivationProofs --------------------------
(***************************************************************************)
(* Proofs about Activation for any number of transactions, runs, refreshes,*)
(* questions and objects, any RunOf and any number of faults.              *)
(*                                                                         *)
(* First its types and the reader's view, also when handlers outlive their *)
(* request; then the properties that hold when they end with it, and that  *)
(* the transaction then implements PublishedSnapshot.                      *)
(***************************************************************************)
EXTENDS Activation, TLAPS

-----------------------------------------------------------------------------
(* Typing.  TypeOK alone is not inductive: a handler's transaction is the     *)
(* one in its journal file, which has to be there before the handler runs.    *)
Begun(i) == journal[i] \notin {"ABSENT", "NOT_ATTEMPTED"}
AfterClaim == CommitPc \ {"idle", "pointer", "undo", "claim", "done"}

BegunOK ==
    /\ \A i \in Refresh : Begun(i) => bundle[i] \in Tx
    /\ \A i \in Refresh : c[i].pc # "idle" \/ r[i].pc # "idle" \/ f[i].pc # "idle" => Begun(i)
    /\ client.pc = "idle" => client.who = Nil
    /\ client.pc # "idle" => client.who \in Refresh /\ Begun(client.who)
ClaimOK ==
    /\ \A i \in Refresh : c[i].pc \in AfterClaim => c[i].at \in Refresh
    /\ \A x \in Run : store[x][ClaimSlot] # Nil => store[x][ClaimSlot].at \in Refresh
PinOK == \A q \in Question : reader[q].pc = "read" => reader[q].ptr \in Sealed

TypeInv == TypeOK /\ BegunOK /\ ClaimOK /\ PinOK

(* What a reader has collected: the objects it has compared so far. *)
ReadSoFar(v) ==
    /\ v.pc = "read" =>
         v.got = {<<s, ItemOf(v.ptr.tx, v.ptr.seal, s)>> :
                    s \in {z \in Slot : (z = SealSlot /\ v.n > 1) \/ z < v.n - 1}}
    /\ v.pc = "view" =>
         v.got = {<<s, ItemOf(v.ptr.tx, v.ptr.seal, s)>> : s \in Slot}
ReadInv == \A q \in Question : ReadSoFar(reader[q])

-----------------------------------------------------------------------------
(* Items of a commit, by slot. *)
LEMMA ItemType ==
    ASSUME NEW t \in Tx, NEW at \in Refresh, NEW s \in Slot
    PROVE  ItemOf(t, at, s) \in Item
  BY DEF ItemOf, Item

LEMMA SlotBounds ==
    /\ ClaimSlot \in Slot /\ SealSlot \in Slot /\ 1 \in Slot
    /\ ClaimSlot # SealSlot
    /\ \A n \in Slot : n \in Nat /\ (n < SealSlot => n + 1 \in Slot)
  BY NBodyAssumption DEF Slot, ClaimSlot, SealSlot

(* A step of a commit handler keeps the types. *)
LEMMA CommitTypes ==
    ASSUME TypeInv, NEW i \in Refresh, CommitStep(i)
    PROVE  TypeInv'
  <1> DEFINE Good(h) == /\ h \in CommitHandler /\ h.pc # "idle"
                        /\ h.pc \in AfterClaim => h.at \in Refresh
  <1>0. c[i] \in CommitHandler /\ c[i].pc # "idle" /\ bundle[i] \in Tx
        /\ (c[i].pc \in AfterClaim => c[i].at \in Refresh)
    <2>1. c[i].pc # "idle"
      BY DEF CommitStep, CommitReadPointer, CommitReadUndo, CommitReadClaim, CommitReadSeal, CommitReplay, CommitPutUndo, CommitPutClaim, CommitCheckClaim, CommitPut, CommitVerify, CommitPromote, CommitCheckPointer, CommitReverify, PutUndo
    <2> QED BY <2>1 DEF TypeInv, TypeOK, BegunOK, ClaimOK
  <1>1. c' \in [Refresh -> CommitHandler] /\ Good(c'[i])
        /\ \A j \in Refresh \ {i} : c'[j] = c[j]
    <2> USE <1>0, SlotBounds DEF TypeInv, TypeOK, CommitHandler, CommitPc, AfterClaim, Outcome, CommitEnds
    <2>1. CASE CommitReadPointer(i)
      <3>1. CASE CommitEnds(i, "error")
        BY <3>1
      <3>2. CASE c' = [c EXCEPT ![i].pc = "undo", ![i].prev = pointer]
        BY <3>2
      <3> QED BY <2>1, <3>1, <3>2 DEF CommitReadPointer
    <2>2. CASE CommitReadUndo(i)
      <3>1. CASE CommitEnds(i, "error")
        BY <3>1
      <3>2. CASE c' = [c EXCEPT ![i].pc = "claim",
                  ![i].replay = (CurrentRun(c[i].prev) = RunOf[bundle[i]]),
                  ![i].back = IF undo[bundle[i]] # NoUndo THEN undo[bundle[i]] ELSE c[i].prev]
        <4> DEFINE replay == CurrentRun(c[i].prev) = RunOf[bundle[i]]
                   back == IF undo[bundle[i]] # NoUndo THEN undo[bundle[i]] ELSE c[i].prev
        <4>1. c' = [c EXCEPT ![i].pc = "claim", ![i].replay = replay, ![i].back = back]
          BY <3>2
        <4>2. replay \in BOOLEAN /\ back \in Pointer
          OBVIOUS
        <4>3. c \in [Refresh -> CommitHandler] /\ c[i] \in CommitHandler
          BY <1>0
        <4> HIDE DEF replay, back
        <4> QED BY ONLY <4>1, <4>2, <4>3 DEF CommitHandler, CommitPc, AfterClaim
      <3> QED BY <2>2, <3>1, <3>2, Zenon DEF CommitReadUndo
    <2>3. CASE CommitReadClaim(i)
      <3> DEFINE claim == store[RunOf[bundle[i]]][ClaimSlot]
      <3>1. CASE CommitEnds(i, "error")
        BY <3>1
      <3>2. CASE c' = [c EXCEPT ![i].pc = "seal",
                                ![i].at = IF claim = Nil THEN i ELSE claim.at,
                                ![i].fresh = (claim = Nil)]
        <4>1. claim = Nil \/ claim.at \in Refresh
          BY RunOfAssumption DEF ClaimOK
        <4> DEFINE at == IF claim = Nil THEN i ELSE claim.at
                   fresh == claim = Nil
        <4>2. c' = [c EXCEPT ![i].pc = "seal", ![i].at = at, ![i].fresh = fresh]
          BY <3>2
        <4>3. at \in Refresh /\ fresh \in BOOLEAN
          BY <4>1
        <4>4. c \in [Refresh -> CommitHandler] /\ c[i] \in CommitHandler
          BY <1>0
        <4> HIDE DEF at, fresh
        <4> QED BY ONLY <4>2, <4>3, <4>4 DEF CommitHandler, CommitPc, AfterClaim
      <3> QED BY <2>3, <3>1, <3>2 DEF CommitReadClaim
    <2>4. CASE CommitReadSeal(i)
      <3>1. CASE CommitEnds(i, "error")
        BY <3>1
      <3>2. CASE c' = [c EXCEPT ![i].pc = IF c[i].replay THEN "replay" ELSE "putUndo"]
                 /\ c[i].pc = "seal"
        BY <3>2
      <3> QED BY <2>4, <3>1, <3>2, Zenon DEF CommitReadSeal
    <2>5. CASE CommitReplay(i)
      BY <2>5 DEF CommitReplay, VerifyThen
    <2>6. CASE CommitPutUndo(i)
      BY <2>6 DEF CommitPutUndo, PutUndo, AfterUndo
    <2>7. CASE CommitPutClaim(i)
      BY <2>7 DEF CommitPutClaim
    <2>8. CASE CommitCheckClaim(i)
      <3>1. CASE c' = [c EXCEPT ![i].pc = "put"] /\ c[i].pc = "checkClaim"
        BY <3>1
      <3>2. CASE CommitEnds(i, "error")
        BY <3>2
      <3> QED BY <2>8, <3>1, <3>2, Zenon DEF CommitCheckClaim
    <2>9. CASE CommitPut(i)
      BY <2>9 DEF CommitPut
    <2>10. CASE CommitVerify(i)
      BY <2>10 DEF CommitVerify, VerifyThen
    <2>11. CASE CommitPromote(i)
      <3>1. CASE c' = [c EXCEPT ![i].pc = "checkPointer"] /\ c[i].pc = "promote"
        BY <3>1
      <3>2. CASE CommitEnds(i, "error")
        BY <3>2
      <3> QED BY <2>11, <3>1, <3>2, Zenon DEF CommitPromote
    <2>12. CASE CommitCheckPointer(i)
      <3>1. CASE c' = [c EXCEPT ![i].pc = "reverify"]
        BY <2>12, <3>1 DEF CommitCheckPointer
      <3>2. CASE CommitEnds(i, "error")
        BY <3>2
      <3> QED BY <2>12, <3>1, <3>2 DEF CommitCheckPointer
    <2>13. CASE CommitReverify(i)
      BY <2>13 DEF CommitReverify, VerifyThen
    <2> QED BY <2>1, <2>2, <2>3, <2>4, <2>5, <2>6, <2>7, <2>8, <2>9, <2>10, <2>11, <2>12, <2>13 DEF CommitStep
  <1>2. UNCHANGED <<r, f, stale, client, journal, bundle, reader, hourly, faults, finalized>>
    BY DEF CommitStep, CommitReadPointer, CommitReadUndo, CommitReadClaim, CommitReadSeal, CommitReplay, CommitPutUndo, CommitPutClaim, CommitCheckClaim, CommitPut, CommitVerify, CommitPromote, CommitCheckPointer, CommitReverify, PutUndo,
           CommitUnchanged, local, history
  <1>3. /\ pointer' \in Pointer /\ undo' \in [Tx -> Pointer \cup {NoUndo}]
        /\ displaced' \in [Tx -> Pointer]
    <2> USE <1>0 DEF TypeInv, TypeOK, kv, history
    <2>1. CASE CommitPutUndo(i)
      BY <2>1 DEF CommitPutUndo, PutUndo, CommitHandler
    <2>2. CASE CommitPromote(i)
      <3>1. PointerOf(i) \in Sealed
        BY <2>2, <1>0, RunOfAssumption DEF CommitPromote, PointerOf, Sealed, AfterClaim, CommitPc
      <3> QED BY <2>2, <3>1 DEF CommitPromote, Pointer
    <2>3. CASE UNCHANGED <<pointer, undo, displaced>>
      BY <2>3
    <2> QED BY <2>1, <2>2, <2>3
        DEF CommitStep, CommitReadPointer, CommitReadUndo, CommitReadClaim, CommitReadSeal, CommitReplay, CommitPutClaim, CommitCheckClaim, CommitPut, CommitVerify, CommitCheckPointer, CommitReverify
  <1> DEFINE StoreOK == /\ store' \in [Run -> [Slot -> Item \cup {Nil}]]
                        /\ \A x \in Run : store'[x][ClaimSlot] # Nil =>
                                             store'[x][ClaimSlot].at \in Refresh
  <1>4. StoreOK
    <2> DEFINE Put(s) == store' = [store EXCEPT ![RunOf[bundle[i]]][s] = ItemOf(bundle[i], c[i].at, s)]
    <2>1. ASSUME NEW s \in Slot, Put(s), c[i].at \in Refresh
          PROVE  StoreOK
      <3>1. ItemOf(bundle[i], c[i].at, s) \in Item
        BY <2>1, <1>0, ItemType
      <3>2. store' \in [Run -> [Slot -> Item \cup {Nil}]]
        BY <2>1, <3>1 DEF TypeInv, TypeOK
      <3>3. ASSUME NEW x \in Run, store'[x][ClaimSlot] # Nil PROVE store'[x][ClaimSlot].at \in Refresh
        <4>1. CASE x = RunOf[bundle[i]] /\ s = ClaimSlot
          BY <4>1, <2>1, <1>0, RunOfAssumption, SlotBounds, NBodyAssumption DEF TypeInv, TypeOK, ItemOf, ClaimSlot
        <4>2. CASE ~(x = RunOf[bundle[i]] /\ s = ClaimSlot)
          <5>1. store'[x][ClaimSlot] = store[x][ClaimSlot]
            BY <4>2, <2>1, SlotBounds DEF TypeInv, TypeOK
          <5> QED BY <5>1, <3>3 DEF TypeInv, ClaimOK
        <4> QED BY <4>1, <4>2
      <3> QED BY <3>2, <3>3
    <2>2. CASE UNCHANGED store
      BY <2>2 DEF TypeInv, TypeOK, ClaimOK
    <2>3. CASE CommitPutClaim(i)
      <3>1. Put(ClaimSlot) /\ c[i].at \in Refresh
        BY <2>3, <1>0 DEF CommitPutClaim, AfterClaim, CommitPc
      <3> HIDE DEF Put, StoreOK
      <3> QED BY <3>1, <2>1, SlotBounds
    <2>4. CASE CommitPut(i)
      <3>1. Put(c[i].n) /\ c[i].at \in Refresh /\ c[i].n \in Slot
        BY <2>4, <1>0 DEF CommitPut, AfterClaim, CommitPc, CommitHandler
      <3> HIDE DEF Put, StoreOK
      <3> QED BY <3>1, <2>1
    <2> QED BY <2>2, <2>3, <2>4
        DEF CommitStep, CommitReadPointer, CommitReadUndo, CommitReadClaim, CommitReadSeal, CommitReplay, CommitPutUndo, PutUndo, CommitCheckClaim, CommitVerify, CommitPromote, CommitCheckPointer, CommitReverify, kv
  <1>5. TypeOK'
    BY <1>1, <1>2, <1>3, <1>4 DEF TypeInv, TypeOK
  <1>6. BegunOK' /\ ClaimOK' /\ PinOK'
    BY <1>0, <1>1, <1>2, <1>4 DEF TypeInv, TypeOK, BegunOK, Begun, ClaimOK, PinOK
  <1> QED BY <1>5, <1>6 DEF TypeInv

(* A step of a rollback handler keeps the types. *)
LEMMA RollbackTypes ==
    ASSUME TypeInv, NEW i \in Refresh, RollbackStep(i)
    PROVE  TypeInv'
  <1>0. r[i] \in RollbackHandler /\ r[i].pc # "idle" /\ bundle[i] \in Tx
    <2>1. r[i].pc # "idle"
      BY DEF RollbackStep, RollbackReadUndo, RollbackReadPointer, RollbackRestore,
             RollbackCheck, RollbackDelete
    <2> QED BY <2>1 DEF TypeInv, TypeOK, BegunOK
  <1>1. r' \in [Refresh -> RollbackHandler] /\ r'[i].pc # "idle"
        /\ \A j \in Refresh \ {i} : r'[j] = r[j]
    <2> USE <1>0 DEF TypeInv, TypeOK, RollbackHandler, RollbackPc, Outcome, RollbackEnds
    <2>1. CASE RollbackReadUndo(i)
      BY <2>1 DEF RollbackReadUndo, Pointer
    <2>2. CASE RollbackReadPointer(i)
      <3>1. CASE r' = [r EXCEPT ![i].pc = "restore"]
        BY <3>1
      <3>2. CASE RollbackEnds(i, "error")
        BY <3>2
      <3>3. CASE RollbackEnds(i, "not_committed")
        BY <3>3
      <3> QED BY <2>2, <3>1, <3>2, <3>3, Zenon DEF RollbackReadPointer
    <2>3. CASE RollbackRestore(i)
      BY <2>3 DEF RollbackRestore
    <2>4. CASE RollbackCheck(i)
      <3>1. CASE r' = [r EXCEPT ![i].pc = "delete"]
        BY <3>1
      <3>2. CASE RollbackEnds(i, "error")
        BY <3>2
      <3> QED BY <2>4, <3>1, <3>2, Zenon DEF RollbackCheck
    <2>5. CASE RollbackDelete(i)
      BY <2>5 DEF RollbackDelete
    <2> QED BY <2>1, <2>2, <2>3, <2>4, <2>5 DEF RollbackStep
  <1>2. UNCHANGED <<c, f, store, stale, client, journal, bundle, reader, hourly, faults,
                    finalized, displaced>>
    BY DEF RollbackStep, RollbackReadUndo, RollbackReadPointer, RollbackRestore,
           RollbackCheck, RollbackDelete, RollbackUnchanged, local, history
  <1>3. pointer' \in Pointer /\ undo' \in [Tx -> Pointer \cup {NoUndo}]
    BY <1>0 DEF TypeInv, TypeOK, RollbackHandler, RollbackStep, RollbackReadUndo,
           RollbackReadPointer, RollbackRestore, RollbackCheck, RollbackDelete
  <1>4. TypeOK'
    BY <1>1, <1>2, <1>3 DEF TypeInv, TypeOK
  <1>5. BegunOK' /\ ClaimOK' /\ PinOK'
    BY <1>0, <1>1, <1>2 DEF TypeInv, TypeOK, BegunOK, Begun, ClaimOK, PinOK
  <1> QED BY <1>4, <1>5 DEF TypeInv

(* A step of a finalize handler keeps the types. *)
LEMMA FinalizeTypes ==
    ASSUME TypeInv, NEW i \in Refresh, FinalizeStep(i)
    PROVE  TypeInv'
  <1>0. f[i] \in FinalizeHandler /\ f[i].pc # "idle" /\ bundle[i] \in Tx
    <2>1. f[i].pc # "idle"
      BY DEF FinalizeStep, FinalizeReadUndo, FinalizeReadPointer, FinalizeVerify,
             FinalizeCheck, FinalizeDelete
    <2> QED BY <2>1 DEF TypeInv, TypeOK, BegunOK
  <1>1. f' \in [Refresh -> FinalizeHandler] /\ f'[i].pc # "idle"
        /\ \A j \in Refresh \ {i} : f'[j] = f[j]
    <2> USE <1>0, SlotBounds DEF TypeInv, TypeOK, FinalizeHandler, FinalizePc, Outcome, FinalizeEnds
    <2>1. CASE FinalizeReadUndo(i)
      <3>1. CASE f' = [f EXCEPT ![i].pc = "pointer"]
        BY <3>1
      <3>2. CASE FinalizeEnds(i, "error")
        BY <3>2
      <3> QED BY <2>1, <3>1, <3>2, Zenon DEF FinalizeReadUndo
    <2>2. CASE FinalizeReadPointer(i)
      <3>1. CASE f' = [f EXCEPT ![i].pc = "verify", ![i].ptr = pointer, ![i].n = 1]
        BY <3>1
      <3>2. CASE FinalizeEnds(i, "error")
        BY <3>2
      <3> QED BY <2>2, <3>1, <3>2, Zenon DEF FinalizeReadPointer
    <2>3. CASE FinalizeVerify(i)
      <3>1. CASE f' = [f EXCEPT ![i].n = IF @ < SealSlot THEN @ + 1 ELSE 1,
                                ![i].pc = IF f[i].n < SealSlot THEN "verify" ELSE "check"]
        BY <3>1
      <3>2. CASE FinalizeEnds(i, "error")
        BY <3>2
      <3> QED BY <2>3, <3>1, <3>2, Zenon DEF FinalizeVerify
    <2>4. CASE FinalizeCheck(i)
      <3>1. CASE f' = [f EXCEPT ![i].pc = "delete"]
        BY <3>1
      <3>2. CASE FinalizeEnds(i, "error")
        BY <3>2
      <3> QED BY <2>4, <3>1, <3>2, Zenon DEF FinalizeCheck
    <2>5. CASE FinalizeDelete(i)
      BY <2>5 DEF FinalizeDelete
    <2> QED BY <2>1, <2>2, <2>3, <2>4, <2>5 DEF FinalizeStep
  <1>2. UNCHANGED <<c, r, pointer, store, stale, client, journal, bundle, reader, hourly,
                    faults, displaced>>
    BY DEF FinalizeStep, FinalizeReadUndo, FinalizeReadPointer, FinalizeVerify,
           FinalizeCheck, FinalizeDelete, FinalizeUnchanged, local
  <1>3. undo' \in [Tx -> Pointer \cup {NoUndo}] /\ finalized' \subseteq Refresh
    BY <1>0 DEF TypeInv, TypeOK, FinalizeStep, FinalizeReadUndo, FinalizeReadPointer,
           FinalizeVerify, FinalizeCheck, FinalizeDelete
  <1>4. TypeOK'
    BY <1>1, <1>2, <1>3 DEF TypeInv, TypeOK
  <1>5. BegunOK' /\ ClaimOK' /\ PinOK'
    BY <1>0, <1>1, <1>2 DEF TypeInv, TypeOK, BegunOK, Begun, ClaimOK, PinOK
  <1> QED BY <1>4, <1>5 DEF TypeInv

(* The idle handlers, and a handler whose caller went away, are well typed.   *)
LEMMA IdleTypes ==
    /\ CommitIdle \in CommitHandler /\ RollbackIdle \in RollbackHandler
    /\ FinalizeIdle \in FinalizeHandler /\ ReaderIdle \in View
    /\ CommitIdle.pc = "idle" /\ RollbackIdle.pc = "idle" /\ FinalizeIdle.pc = "idle"
    /\ ReaderIdle.pc = "idle"
  BY SlotBounds DEF CommitIdle, RollbackIdle, FinalizeIdle, ReaderIdle, CommitHandler,
     RollbackHandler, FinalizeHandler, View, CommitPc, RollbackPc, FinalizePc, Outcome, Pointer

LEMMA FaultTypes ==
    ASSUME TypeInv, Faulty
    PROVE  faults' \in 0..MaxFaults
  BY MaxFaultsAssumption DEF TypeInv, TypeOK, Faulty

(* A failed call keeps the types. *)
LEMMA FailTypes ==
    ASSUME TypeInv, NEW i \in Refresh, HandlerFails(i)
    PROVE  TypeInv'
  <1> DEFINE Ended(h, g) == g = h \/ (h.pc # "idle" /\ g = [h EXCEPT !.pc = "done", !.result = "error"])
  <1>0. \A j \in Refresh : Ended(c[j], c'[j]) /\ Ended(r[j], r'[j]) /\ Ended(f[j], f'[j])
    <2> USE DEF TypeInv, TypeOK
    <2>1. CASE c[i].pc \notin {"idle", "done"} /\ CommitEnds(i, "error") /\ UNCHANGED <<r, f>>
      BY <2>1 DEF CommitEnds
    <2>2. CASE r[i].pc \notin {"idle", "done"} /\ RollbackEnds(i, "error") /\ UNCHANGED <<c, f>>
      BY <2>2 DEF RollbackEnds
    <2>3. CASE f[i].pc \notin {"idle", "done"} /\ FinalizeEnds(i, "error") /\ UNCHANGED <<c, r>>
      BY <2>3 DEF FinalizeEnds
    <2> QED BY <2>1, <2>2, <2>3, Zenon DEF HandlerFails
  <1>1. /\ c' \in [Refresh -> CommitHandler] /\ r' \in [Refresh -> RollbackHandler]
        /\ f' \in [Refresh -> FinalizeHandler]
        /\ \A j \in Refresh : /\ c'[j].pc = c[j].pc \/ (c'[j].pc = "done" /\ c[j].pc # "idle")
                              /\ r'[j].pc = r[j].pc \/ (r'[j].pc = "done" /\ r[j].pc # "idle")
                              /\ f'[j].pc = f[j].pc \/ (f'[j].pc = "done" /\ f[j].pc # "idle")
                              /\ c'[j].at = c[j].at
    <2>1. c' \in [Refresh -> CommitHandler]
      <3>1. CASE CommitEnds(i, "error")
        <4>0. c[i] \in CommitHandler
          BY DEF TypeInv, TypeOK
        <4>1. [c[i] EXCEPT !.pc = "done", !.result = "error"] \in CommitHandler
          BY <4>0 DEF CommitHandler, CommitPc, Outcome
        <4> QED BY <3>1, <4>1 DEF TypeInv, TypeOK, CommitEnds
      <3> QED BY <3>1 DEF HandlerFails, TypeInv, TypeOK
    <2>2. r' \in [Refresh -> RollbackHandler]
      BY DEF HandlerFails, TypeInv, TypeOK, RollbackEnds, RollbackHandler, RollbackPc, Outcome
    <2>3. f' \in [Refresh -> FinalizeHandler]
      BY DEF HandlerFails, TypeInv, TypeOK, FinalizeEnds, FinalizeHandler, FinalizePc, Outcome
    <2>4. \A j \in Refresh : c[j] \in CommitHandler /\ r[j] \in RollbackHandler /\ f[j] \in FinalizeHandler
      BY DEF TypeInv, TypeOK
    <2>5. ASSUME NEW j \in Refresh
          PROVE  /\ c'[j].pc = c[j].pc \/ (c'[j].pc = "done" /\ c[j].pc # "idle")
                 /\ c'[j].at = c[j].at
      BY <1>0, <2>4 DEF CommitHandler
    <2>6. ASSUME NEW j \in Refresh
          PROVE  r'[j].pc = r[j].pc \/ (r'[j].pc = "done" /\ r[j].pc # "idle")
      BY <1>0, <2>4 DEF RollbackHandler
    <2>7. ASSUME NEW j \in Refresh
          PROVE  f'[j].pc = f[j].pc \/ (f'[j].pc = "done" /\ f[j].pc # "idle")
      BY <1>0, <2>4 DEF FinalizeHandler
    <2> QED BY <2>1, <2>2, <2>3, <2>5, <2>6, <2>7
  <1>2. UNCHANGED <<pointer, store, undo, stale, client, journal, bundle, reader, hourly,
                    finalized, displaced>>
    BY DEF HandlerFails, kv, local, history
  <1>3. faults' \in 0..MaxFaults
    BY FaultTypes DEF HandlerFails
  <1>4. TypeOK'
    BY <1>1, <1>2, <1>3 DEF TypeInv, TypeOK
  <1>5. BegunOK' /\ ClaimOK' /\ PinOK'
    BY <1>1, <1>2 DEF TypeInv, TypeOK, BegunOK, Begun, ClaimOK, PinOK, AfterClaim
  <1> QED BY <1>4, <1>5 DEF TypeInv

(* What the client's steps have in common: only refresh i changes, and the    *)
(* client holds the lock only for a refresh that has begun.                   *)
ClientFrame(i) ==
    /\ UNCHANGED <<pointer, store, undo, stale, reader, hourly, finalized, displaced>>
    /\ c' \in [Refresh -> CommitHandler] /\ r' \in [Refresh -> RollbackHandler]
    /\ f' \in [Refresh -> FinalizeHandler]
    /\ journal' \in [Refresh -> Journal] /\ bundle' \in [Refresh -> Tx \cup {Nil}]
    /\ \A j \in Refresh \ {i} : /\ c'[j] = c[j] /\ r'[j] = r[j] /\ f'[j] = f[j]
                                /\ journal'[j] = journal[j] /\ bundle'[j] = bundle[j]
    /\ c'[i] = c[i] \/ c'[i].pc \in {"idle", "pointer"}
    /\ Begun(i)' => bundle'[i] \in Tx
    /\ Begun(i)' \/ (c'[i].pc = "idle" /\ r'[i].pc = "idle" /\ f'[i].pc = "idle")
    /\ \/ client' = ClientIdle
       \/ /\ client' \in [pc: {"commit", "finalize", "rollback", "reconcile"}, who: {i}]
          /\ Begun(i)'
    /\ faults' \in 0..MaxFaults

LEMMA FrameTypes ==
    ASSUME TypeInv, NEW i \in Refresh, ClientFrame(i)
    PROVE  TypeInv'
  <1>1. TypeOK'
    BY DEF TypeInv, TypeOK, ClientFrame, ClientIdle
  <1>2. BegunOK'
    <2>1. \A j \in Refresh \ {i} : Begun(j)' <=> Begun(j)
      BY DEF ClientFrame, Begun
    <2>2. \A j \in Refresh : Begun(j)' => bundle'[j] \in Tx
      BY <2>1 DEF TypeInv, BegunOK, ClientFrame
    <2>3. \A j \in Refresh : c'[j].pc # "idle" \/ r'[j].pc # "idle" \/ f'[j].pc # "idle" => Begun(j)'
      BY <2>1 DEF TypeInv, BegunOK, ClientFrame
    <2>4. /\ client'.pc = "idle" => client'.who = Nil
          /\ client'.pc # "idle" => client'.who \in Refresh /\ Begun(client.who)'
      BY DEF ClientFrame, ClientIdle, Begun
    <2> QED BY <2>2, <2>3, <2>4 DEF BegunOK
  <1>3. ClaimOK' /\ PinOK'
    BY DEF TypeInv, ClaimOK, PinOK, ClientFrame, AfterClaim
  <1> QED BY <1>1, <1>2, <1>3 DEF TypeInv

(* The requests and answers of the client, its timeouts and its crashes keep  *)
(* the types.                                                                 *)
LEMMA ClientTypes ==
    ASSUME TypeInv, NEW i \in Refresh,
           ClientStep(i) \/ Reconcile(i) \/ Timeout(i) \/ ClientCrash(i)
    PROVE  TypeInv'
  <1> USE IdleTypes DEF TypeInv, TypeOK, ClientFrame, ClientUnchanged, kv, history, worker
  <1>1. CASE RefreshNotAttempted(i)
    <2>1. c[i].pc = "idle" /\ r[i].pc = "idle" /\ f[i].pc = "idle" /\ client = ClientIdle
      BY <1>1 DEF RefreshNotAttempted, BegunOK, Begun, ClientIdle
    <2>2. journal' \in [Refresh -> Journal] /\ ~Begun(i)'
      BY <1>1 DEF RefreshNotAttempted, Journal, Begun
    <2>3. ClientFrame(i)
      BY <1>1, <2>1, <2>2 DEF RefreshNotAttempted
    <2> QED BY <2>3, FrameTypes
  <1>2. ASSUME NEW t \in Tx, StartRefresh(i, t) PROVE TypeInv'
    <2>1. /\ [CommitIdle EXCEPT !.pc = "pointer"] \in CommitHandler
          /\ [CommitIdle EXCEPT !.pc = "pointer"].pc = "pointer"
      BY DEF CommitHandler, CommitPc
    <2>2. journal' \in [Refresh -> Journal] /\ Begun(i)' /\ bundle' \in [Refresh -> Tx \cup {Nil}]
      BY <1>2 DEF StartRefresh, Journal, Begun
    <2>3. c' \in [Refresh -> CommitHandler] /\ c'[i].pc = "pointer"
      BY <1>2, <2>1 DEF StartRefresh
    <2>4. ClientFrame(i)
      BY <1>2, <2>2, <2>3 DEF StartRefresh
    <2> QED BY <2>4, FrameTypes
  <1> DEFINE Start == [RollbackIdle EXCEPT !.pc = "undo"]
             FStart == [FinalizeIdle EXCEPT !.pc = "undo"]
  <1>a. Start \in RollbackHandler /\ FStart \in FinalizeHandler
    BY DEF RollbackHandler, RollbackPc, FinalizeHandler, FinalizePc
  <1> HIDE DEF Start, FStart
  <1>b. StartRollback(i) => r' = [r EXCEPT ![i] = Start]
    BY DEF StartRollback, Start
  <1>c. client.who = i => Begun(i) /\ bundle[i] \in Tx
    BY NilAssumption DEF BegunOK
  <1>3. CASE CommitReply(i)
    <2>1. c' \in [Refresh -> CommitHandler] /\ c'[i].pc = "idle"
      BY <1>3 DEF CommitReply
    <2>2. CASE /\ journal' = [journal EXCEPT ![i] = "COMMITTED"]
               /\ client' = [client EXCEPT !.pc = "finalize"]
               /\ f' = [f EXCEPT ![i] = [FinalizeIdle EXCEPT !.pc = "undo"]]
               /\ UNCHANGED r
      <3>1. journal' \in [Refresh -> Journal] /\ Begun(i)'
        BY <2>2 DEF Journal, Begun
      <3>2. f' \in [Refresh -> FinalizeHandler] /\ \A j \in Refresh \ {i} : f'[j] = f[j]
        BY <2>2, <1>a DEF FStart
      <3>3. ClientFrame(i)
        BY <1>3, <1>c, <2>1, <2>2, <3>1, <3>2 DEF CommitReply
      <3> QED BY <3>3, FrameTypes
    <2>3. CASE /\ client' = [client EXCEPT !.pc = "rollback"]
               /\ StartRollback(i)
               /\ UNCHANGED <<journal, f>>
      <3>1. r' \in [Refresh -> RollbackHandler] /\ \A j \in Refresh \ {i} : r'[j] = r[j]
        BY <2>3, <1>a, <1>b
      <3>2. Begun(i)'
        BY <1>3, <1>c, <2>3 DEF CommitReply, Begun
      <3>3. ClientFrame(i)
        BY <1>3, <1>c, <2>1, <2>3, <3>1, <3>2 DEF CommitReply
      <3> QED BY <3>3, FrameTypes
    <2> QED BY <1>3, <2>2, <2>3, Zenon DEF CommitReply
  <1>4. CASE FinalizeReply(i)
    <2>1. f' \in [Refresh -> FinalizeHandler] /\ f'[i].pc = "idle"
      BY <1>4 DEF FinalizeReply
    <2>2. CASE journal' = [journal EXCEPT ![i] = "FINALIZED"] /\ client' = ClientIdle /\ UNCHANGED r
      <3>1. journal' \in [Refresh -> Journal] /\ Begun(i)'
        BY <2>2 DEF Journal, Resolved, Begun
      <3>2. ClientFrame(i)
        BY <1>4, <1>c, <2>1, <2>2, <3>1 DEF FinalizeReply
      <3> QED BY <3>2, FrameTypes
    <2>3. CASE client' = [client EXCEPT !.pc = "rollback"] /\ StartRollback(i) /\ UNCHANGED journal
      <3>1. r' \in [Refresh -> RollbackHandler] /\ \A j \in Refresh \ {i} : r'[j] = r[j]
        BY <2>3, <1>a, <1>b
      <3>2. Begun(i)'
        BY <1>4, <1>c, <2>3 DEF FinalizeReply, Begun
      <3>3. ClientFrame(i)
        BY <1>4, <1>c, <2>1, <2>3, <3>1, <3>2 DEF FinalizeReply
      <3> QED BY <3>3, FrameTypes
    <2> QED BY <1>4, <2>2, <2>3, Zenon DEF FinalizeReply
  <1>5. CASE RollbackReply(i)
    <2>1. r' \in [Refresh -> RollbackHandler] /\ \A j \in Refresh \ {i} : r'[j] = r[j]
      BY <1>5 DEF RollbackReply
    <2>2. journal' \in [Refresh -> Journal] /\ Begun(i)'
      BY <1>5, <1>c DEF RollbackReply, RolledBackAs, Journal, Resolved, Begun
    <2>3. ClientFrame(i)
      BY <1>5, <1>c, <2>1, <2>2 DEF RollbackReply
    <2> QED BY <2>3, FrameTypes
  <1>6. CASE Reconcile(i)
    <2>1. r' \in [Refresh -> RollbackHandler] /\ \A j \in Refresh \ {i} : r'[j] = r[j]
      BY <1>6, <1>a, <1>b DEF Reconcile
    <2>2. Begun(i)' /\ bundle[i] \in Tx
      BY <1>6 DEF Reconcile, Unresolved, Begun, BegunOK
    <2>3. ClientFrame(i)
      BY <1>6, <2>1, <2>2 DEF Reconcile
    <2> QED BY <2>3, FrameTypes
  <1>d. ASSUME c' = [c EXCEPT ![i] = Abandoned(@, CommitIdle)],
               f' = [f EXCEPT ![i] = Abandoned(@, FinalizeIdle)]
        PROVE  /\ c' \in [Refresh -> CommitHandler] /\ f' \in [Refresh -> FinalizeHandler]
               /\ c'[i] = c[i] \/ c'[i].pc = "idle"
               /\ \A j \in Refresh \ {i} : c'[j] = c[j] /\ f'[j] = f[j]
    BY <1>d DEF Abandoned
  <1>7. CASE Timeout(i)
    <2>0. faults' \in 0..MaxFaults
      BY <1>7, FaultTypes DEF Timeout
    <2>1. r' \in [Refresh -> RollbackHandler] /\ \A j \in Refresh \ {i} : r'[j] = r[j]
      <3>1. CASE StartRollback(i)
        BY <3>1, <1>a, <1>b
      <3>2. CASE r' = [r EXCEPT ![i] = Abandoned(@, RollbackIdle)]
        BY <3>2 DEF Abandoned
      <3> QED BY <1>7, <3>1, <3>2, Zenon DEF Timeout
    <2>2. /\ journal' \in [Refresh -> Journal] /\ Begun(i)'
          /\ \A j \in Refresh \ {i} : journal'[j] = journal[j]
      <3>1. CASE UNCHANGED journal
        BY <3>1, <1>7, <1>c DEF Timeout, Begun
      <3>2. CASE journal' = [journal EXCEPT ![i] = "UNKNOWN"]
        BY <3>2 DEF Journal, Begun
      <3> QED BY <1>7, <3>1, <3>2, Zenon DEF Timeout
    <2>3. /\ c' \in [Refresh -> CommitHandler] /\ f' \in [Refresh -> FinalizeHandler]
          /\ c'[i] = c[i] \/ c'[i].pc = "idle"
          /\ \A j \in Refresh \ {i} : c'[j] = c[j] /\ f'[j] = f[j]
      BY <1>7, <1>d DEF Timeout
    <2>4. \/ client' = ClientIdle
          \/ client' \in [pc: {"commit", "finalize", "rollback", "reconcile"}, who: {i}]
      BY <1>7 DEF Timeout
    <2>5. ClientFrame(i)
      BY <1>7, <1>c, <2>0, <2>1, <2>2, <2>3, <2>4 DEF Timeout
    <2> QED BY <2>5, FrameTypes
  <1>8. CASE ClientCrash(i)
    <2>0. faults' \in 0..MaxFaults
      BY <1>8, FaultTypes DEF ClientCrash
    <2>1. r' \in [Refresh -> RollbackHandler] /\ \A j \in Refresh \ {i} : r'[j] = r[j]
      BY <1>8 DEF ClientCrash, Abandoned
    <2>2. Begun(i)'
      BY <1>8, <1>c DEF ClientCrash, Begun
    <2>3. /\ c' \in [Refresh -> CommitHandler] /\ f' \in [Refresh -> FinalizeHandler]
          /\ c'[i] = c[i] \/ c'[i].pc = "idle"
          /\ \A j \in Refresh \ {i} : c'[j] = c[j] /\ f'[j] = f[j]
      BY <1>8, <1>d DEF ClientCrash
    <2>4. ClientFrame(i)
      BY <1>8, <1>c, <2>0, <2>1, <2>2, <2>3 DEF ClientCrash
    <2> QED BY <2>4, FrameTypes
  <1> QED BY <1>1, <1>2, <1>3, <1>4, <1>5, <1>6, <1>7, <1>8, Zenon DEF ClientStep

(* The hourly publisher, time and the readers keep the types. *)
LEMMA OtherTypes ==
    ASSUME TypeInv, HourlyPublish \/ (\E t \in Tx : BundleExpires(t))
    PROVE  TypeInv'
  <1> USE DEF TypeInv, TypeOK, BegunOK, Begun, ClaimOK, PinOK, worker, local, history, kv
  <1>1. CASE HourlyPublish
    BY <1>1 DEF HourlyPublish, Pointer
  <1>2. ASSUME NEW t \in Tx, BundleExpires(t) PROVE TypeInv'
    BY <1>2 DEF BundleExpires
  <1> QED BY <1>1, <1>2

(* The view of a question after one more object was read. *)
Advance(v) ==
    LET s == ReadOrder(v.n)
    IN [v EXCEPT !.n = IF @ < SealSlot THEN @ + 1 ELSE @,
                 !.pc = IF v.n < SealSlot THEN "read" ELSE "view",
                 !.got = @ \cup {<<s, store[v.ptr.run][s]>>}]

(* The three things a reader's step can do to its view. *)
LEMMA ReaderSteps ==
    ASSUME TypeInv, NEW q \in Question, ReaderStep(q)
    PROVE  /\ UNCHANGED <<kv, stale, worker, local, hourly, faults, history>>
           /\ reader' = [reader EXCEPT ![q] = reader'[q]]
           /\ \/ reader'[q] = ReaderIdle
              \/ reader'[q] = [ReaderIdle EXCEPT !.pc = "unavailable"]
              \/ /\ reader'[q] = [ReaderIdle EXCEPT !.pc = "read", !.ptr = pointer]
                 /\ pointer \in Sealed
              \/ /\ reader[q].pc = "read" /\ MatchesSeal(reader[q].ptr, reader[q].n)
                 /\ reader'[q] = Advance(reader[q])
  <1> USE DEF ReaderUnchanged, TypeInv, TypeOK
  <1>1. CASE ReaderPin(q)
    BY <1>1 DEF ReaderPin
  <1>2. CASE ReaderDone(q)
    BY <1>2 DEF ReaderDone
  <1>3. CASE ReaderRead(q)
    <2>1. CASE MatchesSeal(reader[q].ptr, reader[q].n)
      <3>1. reader' = [reader EXCEPT ![q] = Advance(reader[q])]
        BY <1>3, <2>1 DEF ReaderRead, Advance
      <3> QED BY <1>3, <2>1, <3>1 DEF ReaderRead
    <2>2. CASE ~MatchesSeal(reader[q].ptr, reader[q].n)
      BY <1>3, <2>2 DEF ReaderRead
    <2> QED BY <2>1, <2>2
  <1> QED BY <1>1, <1>2, <1>3 DEF ReaderStep

LEMMA ReaderTypes ==
    ASSUME TypeInv, NEW q \in Question, ReaderStep(q)
    PROVE  TypeInv'
  <1>1. reader[q] \in View /\ pointer \in Pointer
    BY DEF TypeInv, TypeOK
  <1>2. reader'[q] \in View /\ (reader'[q].pc = "read" => reader'[q].ptr \in Sealed)
    <2>0. CASE reader'[q] = ReaderIdle \/ reader'[q] = [ReaderIdle EXCEPT !.pc = "unavailable"]
      BY <1>1, <2>0, IdleTypes DEF View, ReaderIdle
    <2>1. CASE /\ reader'[q] = [ReaderIdle EXCEPT !.pc = "read", !.ptr = pointer]
               /\ pointer \in Sealed
      BY <1>1, <2>1, IdleTypes DEF View, ReaderIdle
    <2>2. CASE reader[q].pc = "read" /\ MatchesSeal(reader[q].ptr, reader[q].n)
               /\ reader'[q] = Advance(reader[q])
      <3> DEFINE v == reader[q]
                 s == ReadOrder(v.n)
      <3>1. v.ptr \in Sealed /\ v.ptr.run \in Run /\ v.ptr.tx \in Tx /\ v.ptr.seal \in Refresh
        BY <2>2 DEF TypeInv, PinOK, Sealed
      <3>2. v.n \in Slot /\ s \in Slot
        BY <1>1, NBodyAssumption DEF View, ReadOrder, Slot, SealSlot
      <3>3. store[v.ptr.run][s] \in Item
        BY <2>2, <3>1, <3>2, ItemType DEF MatchesSeal
      <3>4. v.n < SealSlot => v.n + 1 \in Slot
        BY <3>2, SlotBounds
      <3> DEFINE pair == <<s, store[v.ptr.run][s]>>
      <3>5. pair \in Slot \X Item
        BY <3>2, <3>3
      <3>6. reader'[q] = [v EXCEPT !.n = IF @ < SealSlot THEN @ + 1 ELSE @,
                                   !.pc = IF v.n < SealSlot THEN "read" ELSE "view",
                                   !.got = @ \cup {pair}]
        BY <2>2 DEF Advance
      <3> HIDE DEF pair, s, v
      <3>7. v \in View
        BY <1>1 DEF v
      <3>8. v.got \cup {pair} \in SUBSET (Slot \X Item)
        BY <3>5, <3>7 DEF View
      <3> DEFINE got == v.got \cup {pair}
                 n == IF v.n < SealSlot THEN v.n + 1 ELSE v.n
                 pc == IF v.n < SealSlot THEN "read" ELSE "view"
      <3>9. n \in Slot /\ pc \in {"read", "view"}
        BY <3>2, <3>4
      <3>10. reader'[q] = [v EXCEPT !.n = n, !.pc = pc, !.got = got]
        BY <3>6, <3>7 DEF View
      <3> HIDE DEF got, n, pc
      <3>11. got \in SUBSET (Slot \X Item)
        BY <3>8 DEF got
      <3>12. reader'[q] = [pc |-> pc, ptr |-> v.ptr, n |-> n, got |-> got]
        BY <3>7, <3>10 DEF View
      <3> QED BY <3>1, <3>9, <3>11, <3>12 DEF View, Pointer
    <2> QED BY <2>0, <2>1, <2>2, ReaderSteps
  <1>3. reader' \in [Question -> View]
        /\ \A p \in Question \ {q} : reader'[p] = reader[p]
    BY <1>2, ReaderSteps DEF TypeInv, TypeOK
  <1>4. UNCHANGED <<pointer, store, undo, stale, c, r, f, client, journal, bundle, hourly,
                    faults, finalized, displaced>>
    BY ReaderSteps DEF kv, worker, local, history
  <1>5. TypeOK'
    BY <1>3, <1>4 DEF TypeInv, TypeOK
  <1>6. BegunOK' /\ ClaimOK'
    BY <1>4 DEF TypeInv, BegunOK, Begun, ClaimOK
  <1>7. PinOK'
    BY <1>2, <1>3 DEF TypeInv, PinOK
  <1> QED BY <1>5, <1>6, <1>7 DEF TypeInv

LEMMA InitTypes == Init => TypeInv
  <1> SUFFICES ASSUME Init PROVE TypeInv
    OBVIOUS
  <1>1. TypeOK
    BY IdleTypes, MaxFaultsAssumption DEF Init, TypeOK, Pointer, Journal
  <1>2. BegunOK /\ ClaimOK /\ PinOK
    BY IdleTypes, SlotBounds DEF Init, BegunOK, Begun, ClaimOK, PinOK, AfterClaim
  <1> QED BY <1>1, <1>2 DEF TypeInv

LEMMA StepTypes == TypeInv /\ [Next]_vars => TypeInv'
  <1> SUFFICES ASSUME TypeInv, [Next]_vars PROVE TypeInv'
    OBVIOUS
  <1>1. ASSUME NEW i \in Refresh, WorkerStep(i) PROVE TypeInv'
    BY <1>1, CommitTypes, RollbackTypes, FinalizeTypes DEF WorkerStep
  <1>2. ASSUME NEW i \in Refresh, HandlerFails(i) PROVE TypeInv'
    BY <1>2, FailTypes
  <1>3. ASSUME NEW i \in Refresh,
               ClientStep(i) \/ Reconcile(i) \/ Timeout(i) \/ ClientCrash(i)
        PROVE  TypeInv'
    BY <1>3, ClientTypes
  <1>4. CASE HourlyPublish \/ (\E t \in Tx : BundleExpires(t))
    BY <1>4, OtherTypes
  <1>5. ASSUME NEW q \in Question, ReaderStep(q) PROVE TypeInv'
    BY <1>5, ReaderTypes
  <1>6. CASE UNCHANGED vars
    BY <1>6 DEF vars, TypeInv, TypeOK, BegunOK, Begun, ClaimOK, PinOK
  <1> QED BY <1>1, <1>2, <1>3, <1>4, <1>5, <1>6, Zenon DEF Next

(* Every step of every actor keeps the types, so no handler ever works with   *)
(* a value the code could not hold: a bundle it was not sent, a claim with no *)
(* clock, an object outside the snapshot.                                     *)
THEOREM TypeCorrect == Spec => []TypeOK
  <1>1. TypeInv => TypeOK
    BY DEF TypeInv
  <1> QED BY <1>1, InitTypes, StepTypes, PTL DEF Spec

-----------------------------------------------------------------------------
(* The reader's argument: what it has collected is exactly the part of the    *)
(* sealed set that it has compared, because every object is compared when it  *)
(* is read and nothing is read twice.                                         *)
LEMMA ReadAdvances ==
    ASSUME NEW v \in View, v.pc = "read", v.ptr \in Sealed, ReadSoFar(v),
           MatchesSeal(v.ptr, v.n)
    PROVE  ReadSoFar(Advance(v))
  <1> DEFINE w == Advance(v)
             s == ReadOrder(v.n)
             Seen(n) == {z \in Slot : (z = SealSlot /\ n > 1) \/ z < n - 1}
             Good(S) == {<<z, ItemOf(v.ptr.tx, v.ptr.seal, z)>> : z \in S}
  <1>1. v.n \in Slot /\ s \in Slot
    BY NBodyAssumption DEF View, ReadOrder, Slot, SealSlot
  <1>2. v.got = Good(Seen(v.n))
    BY DEF ReadSoFar
  <1>3. /\ w.got = v.got \cup {<<s, ItemOf(v.ptr.tx, v.ptr.seal, s)>>}
        /\ w.ptr = v.ptr
        /\ w.n = IF v.n < SealSlot THEN v.n + 1 ELSE v.n
        /\ w.pc = IF v.n < SealSlot THEN "read" ELSE "view"
    BY DEF Advance, MatchesSeal, View
  <1>4. w.got = Good(Seen(v.n) \cup {s})
    BY <1>2, <1>3
  <1>5. CASE v.n < SealSlot
    <2>1. Seen(v.n) \cup {s} = Seen(v.n + 1)
      BY <1>1, <1>5, NBodyAssumption DEF ReadOrder, Slot, SealSlot
    <2> HIDE DEF s, Seen, Good
    <2>2. w.got = Good(Seen(w.n)) /\ w.pc = "read"
      BY <1>3, <1>4, <1>5, <2>1
    <2> QED BY <1>3, <2>2 DEF ReadSoFar, Seen, Good
  <1>6. CASE ~(v.n < SealSlot)
    <2>1. Seen(v.n) \cup {s} = Slot
      BY <1>1, <1>6, NBodyAssumption DEF ReadOrder, Slot, SealSlot
    <2> HIDE DEF s, Seen, Good
    <2>2. w.got = Good(Slot) /\ w.pc = "view"
      BY <1>3, <1>4, <1>6, <2>1
    <2> QED BY <1>3, <2>2 DEF ReadSoFar, Good
  <1> QED BY <1>5, <1>6

(* Only its own steps touch a reader. *)
LEMMA ReaderAlone == Next => UNCHANGED reader \/ \E q \in Question : ReaderStep(q)
  <1>1. ASSUME NEW i \in Refresh, CommitStep(i) PROVE UNCHANGED reader
    BY <1>1 DEF CommitStep, CommitReadPointer, CommitReadUndo, CommitReadClaim, CommitReadSeal,
           CommitReplay, CommitPutUndo, CommitPutClaim, CommitCheckClaim, CommitPut, CommitVerify,
           CommitPromote, CommitCheckPointer, CommitReverify, PutUndo, CommitUnchanged
  <1>2. ASSUME NEW i \in Refresh, RollbackStep(i) PROVE UNCHANGED reader
    BY <1>2 DEF RollbackStep, RollbackReadUndo, RollbackReadPointer, RollbackRestore,
           RollbackCheck, RollbackDelete, RollbackUnchanged
  <1>3. ASSUME NEW i \in Refresh, FinalizeStep(i) PROVE UNCHANGED reader
    BY <1>3 DEF FinalizeStep, FinalizeReadUndo, FinalizeReadPointer, FinalizeVerify,
           FinalizeCheck, FinalizeDelete, FinalizeUnchanged
  <1>4. ASSUME NEW i \in Refresh,
               ClientStep(i) \/ Reconcile(i) \/ Timeout(i) \/ ClientCrash(i)
        PROVE  UNCHANGED reader
    BY <1>4 DEF ClientStep, RefreshNotAttempted, StartRefresh, CommitReply, FinalizeReply,
           RollbackReply, Reconcile, Timeout, ClientCrash, ClientUnchanged
  <1>5. ASSUME NEW i \in Refresh, HandlerFails(i) PROVE UNCHANGED reader
    BY <1>5 DEF HandlerFails
  <1>6. HourlyPublish \/ (\E t \in Tx : BundleExpires(t)) => UNCHANGED reader
    BY DEF HourlyPublish, BundleExpires
  <1> QED BY <1>1, <1>2, <1>3, <1>4, <1>5, <1>6, Zenon DEF Next, WorkerStep

LEMMA ReadStep == TypeInv /\ ReadInv /\ [Next]_vars => ReadInv'
  <1> SUFFICES ASSUME TypeInv, ReadInv, [Next]_vars PROVE ReadInv'
    OBVIOUS
  <1>1. CASE UNCHANGED reader
    BY <1>1 DEF ReadInv, ReadSoFar
  <1>2. ASSUME NEW q \in Question, ReaderStep(q) PROVE ReadInv'
    <2>1. ReadSoFar(reader'[q])
      <3>1. CASE reader'[q] \in {ReaderIdle, [ReaderIdle EXCEPT !.pc = "unavailable"]}
        BY <3>1 DEF ReadSoFar, ReaderIdle
      <3>2. CASE reader'[q] = [ReaderIdle EXCEPT !.pc = "read", !.ptr = pointer]
        <4>1. {z \in Slot : (z = SealSlot /\ 1 > 1) \/ z < 1 - 1} = {}
          BY DEF Slot
        <4> QED BY <3>2, <4>1 DEF ReadSoFar, ReaderIdle
      <3>3. CASE reader[q].pc = "read" /\ MatchesSeal(reader[q].ptr, reader[q].n)
                 /\ reader'[q] = Advance(reader[q])
        <4>1. reader[q] \in View /\ reader[q].ptr \in Sealed /\ ReadSoFar(reader[q])
          BY <3>3 DEF TypeInv, TypeOK, PinOK, ReadInv
        <4> QED BY <3>3, <4>1, ReadAdvances
      <3> QED BY <1>2, <3>1, <3>2, <3>3, ReaderSteps
    <2>2. \A p \in Question \ {q} : reader'[p] = reader[p]
      BY <1>2, ReaderSteps DEF TypeInv, TypeOK
    <2> QED BY <2>1, <2>2 DEF ReadInv
  <1>3. CASE Next
    <2>1. CASE UNCHANGED reader
      BY <2>1, <1>1
    <2>2. CASE \E q \in Question : ReaderStep(q)
      BY <2>2, <1>2
    <2> QED BY <1>3, <2>1, <2>2, ReaderAlone
  <1>4. CASE UNCHANGED vars
    BY <1>1, <1>4 DEF vars
  <1> QED BY <1>3, <1>4

(* A question's view is the one sealed set its pointer names, even though     *)
(* other commits may rewrite those keys between any two of its reads and      *)
(* handlers of timed-out requests may still be running.                       *)
THEOREM ViewIsSealed == Spec => []SealedView
  <1>1. Init => ReadInv
    BY DEF Init, ReadInv, ReadSoFar, ReaderIdle
  <1>2. ReadInv => SealedView
    BY DEF ReadInv, ReadSoFar, SealedView
  <1> QED BY <1>1, <1>2, InitTypes, StepTypes, ReadStep, PTL DEF Spec

-----------------------------------------------------------------------------
(***************************************************************************)
(* When a handler ends with its request (LateHandlers = FALSE), what is    *)
(* served is complete, can be undone exactly until it is finalized, and is *)
(* neither undone afterwards nor served once undone.                       *)
(*                                                                         *)
(* The argument: at most one refresh is unresolved and at most one handler *)
(* runs.  The pointer is settled (a finished refresh's, or not one of an   *)
(* activation) or pending (that of the unresolved refresh); only the       *)
(* unresolved refresh's bundle has a rollback journal, and the journal     *)
(* holds a settled pointer of another run, whose objects are therefore not *)
(* the ones being written.                                                 *)
(***************************************************************************)

(* The invariant. *)
Open == {i \in Refresh : Unresolved(i)}
Closed == {i \in Refresh : journal[i] = "FINALIZED"}

(* Pointers whose objects are all stored, as the refresh that made them wrote them. *)
Traced == {p \in Sealed : /\ p.tx = bundle[p.by] /\ p.run = RunOf[p.tx]
                          /\ \A s \in Slot : store[p.run][s] = ItemOf(p.tx, p.seal, s)}
Settled == {p \in Pointer : p \in Sealed => p \in Traced /\ p.by \in Closed \cap finalized}
Pending == {p \in Traced : /\ p.by \in Open
                           /\ undo[p.tx] # NoUndo \/ p.by \in finalized
                           /\ undo[p.tx] # NoUndo => undo[p.tx] = displaced[p.tx]}

Exclusive ==
    /\ \A i \in Refresh : c[i].pc # "idle" => client.pc = "commit" /\ client.who = i
    /\ \A i \in Refresh :
          r[i].pc # "idle" => client.pc \in {"rollback", "reconcile"} /\ client.who = i
    /\ \A i \in Refresh : f[i].pc # "idle" => client.pc = "finalize" /\ client.who = i
    /\ client.pc # "idle" => client.who \in Open
    /\ \A i, j \in Open : i = j

PointerInv == pointer \in Settled \cup Pending

UndoInv == \A t \in Tx : undo[t] # NoUndo =>
    /\ undo[t] \in Settled
    /\ CurrentRun(undo[t]) # RunOf[t]
    /\ \E i \in Open : bundle[i] = t
    /\ pointer \in Pending \/ CurrentRun(pointer) # RunOf[t]

BeforeUndo == {"pointer", "undo", "claim", "seal", "putUndo"}
AfterUndoPut == {"putClaim", "checkClaim", "put", "verify", "promote"}
CommitOK(i) ==
    LET t == bundle[i] h == c[i] IN
    /\ h.pc \in BeforeUndo => undo[t] = NoUndo /\ pointer \in Settled
    /\ h.pc \in (BeforeUndo \ {"pointer"}) => h.prev = pointer
    /\ h.pc \in {"claim", "seal", "putUndo"} =>
         ~h.replay /\ h.back = pointer /\ CurrentRun(pointer) # RunOf[t]
    /\ h.pc \in AfterUndoPut =>
         pointer \in Settled /\ undo[t] = pointer /\ CurrentRun(pointer) # RunOf[t]
    /\ h.pc # "replay"
    /\ h.pc \in BeforeUndo \cup {"putClaim", "checkClaim"} => h.n = 1
    /\ h.pc = "put" => \A s \in Slot : s < h.n => store[RunOf[t]][s] = ItemOf(t, h.at, s)
    /\ h.pc \in {"verify", "promote"} =>
         \A s \in Slot : store[RunOf[t]][s] = ItemOf(t, h.at, s)
CommitInv == \A i \in Refresh : CommitOK(i)

RollbackOK(i) ==
    LET t == bundle[i] h == r[i] IN
    /\ h.pc = "pointer" => (h.found <=> undo[t] # NoUndo)
    /\ h.pc = "pointer" /\ h.found => h.back = undo[t]
    /\ h.pc \in {"restore", "check", "delete"} => h.back = undo[t] /\ undo[t] # NoUndo
    /\ h.pc = "restore" => pointer \in Pending
    /\ h.pc = "delete" => pointer = h.back
    /\ h.pc = "done" /\ h.result \in {"rolled_back", "not_committed"} =>
         undo[t] = NoUndo /\ pointer \in Settled
RollbackInv == \A i \in Refresh : RollbackOK(i)

FinalizeInv == \A i \in Refresh :
    f[i].pc = "done" /\ f[i].result = "finalized" => undo[bundle[i]] = NoUndo /\ i \in finalized

SafeInv == TypeInv /\ Exclusive /\ PointerInv /\ UndoInv /\ CommitInv
           /\ RollbackInv /\ FinalizeInv

-----------------------------------------------------------------------------
(* What is settled or pending only depends on these. *)
LEMMA PublishedFrame ==
    ASSUME UNCHANGED <<pointer, store, undo, bundle, finalized, displaced>>,
           Open' = Open, Closed' = Closed
    PROVE  /\ Settled' = Settled /\ Pending' = Pending
           /\ PointerInv => PointerInv'
           /\ UndoInv => UndoInv'
  <1>1. Traced' = Traced
    BY DEF Traced
  <1>2. Settled' = Settled
    BY <1>1 DEF Settled
  <1>3. Pending' = Pending
    BY <1>1 DEF Pending
  <1> QED BY <1>2, <1>3 DEF PointerInv, UndoInv

(* Only the unresolved refresh's bundle has a rollback journal, and a pending *)
(* pointer is that refresh's.                                                 *)
LEMMA OneOpen ==
    ASSUME Exclusive, UndoInv, NEW i \in Open
    PROVE  /\ \A t \in Tx : undo[t] # NoUndo => t = bundle[i]
           /\ \A p \in Pending : p.by = i /\ p.tx = bundle[i] /\ CurrentRun(p) = RunOf[bundle[i]]
  BY DEF Exclusive, UndoInv, Pending, Traced, CurrentRun

LEMMA NoneOpen ==
    ASSUME PointerInv, UndoInv, Open = {}
    PROVE  pointer \in Settled /\ \A t \in Tx : undo[t] = NoUndo
  BY DEF PointerInv, UndoInv, Pending

LEMMA SettledNotPending == Settled \cap Pending = {}
  BY DEF Settled, Pending, Traced, Open, Closed, Unresolved

(* A pointer of another run does not see a write to this one. *)
LEMMA OtherRun ==
    ASSUME NEW x, NEW p \in Settled, CurrentRun(p) # x,
           \A y \in Run \ {x} : store'[y] = store[y],
           bundle' = bundle, Closed' = Closed, finalized' = finalized
    PROVE  p \in Settled'
  <1>1. p \in Sealed => p.run \in Run /\ p.run # x
    BY DEF CurrentRun, Sealed
  <1> QED BY <1>1 DEF Settled, Traced

(* While client i waits for a handler, that handler is the only one. *)
LEMMA OnlyHandler ==
    ASSUME SafeInv, NEW i \in Refresh, client.who = i, client.pc # "idle"
    PROVE  /\ i \in Open /\ bundle[i] \in Tx
           /\ \A j \in Refresh \ {i} : c[j].pc = "idle" /\ r[j].pc = "idle" /\ f[j].pc = "idle"
           /\ c[i].pc # "idle" => client.pc = "commit" /\ r[i].pc = "idle" /\ f[i].pc = "idle"
           /\ r[i].pc # "idle" =>
                client.pc \in {"rollback", "reconcile"} /\ c[i].pc = "idle" /\ f[i].pc = "idle"
           /\ f[i].pc # "idle" => client.pc = "finalize" /\ c[i].pc = "idle" /\ r[i].pc = "idle"
  BY DEF SafeInv, Exclusive, TypeInv, BegunOK, Begun, Open, Unresolved

-----------------------------------------------------------------------------
(* Commit. *)
LEMMA CommitMoves ==
    ASSUME TypeInv, NEW i \in Refresh, CommitStep(i)
    PROVE  /\ c[i].pc # "idle" /\ \A j \in Refresh \ {i} : c'[j] = c[j]
           /\ UNCHANGED <<r, f, client, journal, bundle>>
           /\ Open' = Open /\ Closed' = Closed
  <1> USE DEF CommitUnchanged, local, CommitEnds
  <1>0. c \in [Refresh -> CommitHandler]
    BY DEF TypeInv, TypeOK
  <1>1. c[i].pc # "idle" /\ UNCHANGED <<r, f, client, journal, bundle>>
    BY DEF CommitStep, CommitReadPointer, CommitReadUndo, CommitReadClaim, CommitReadSeal,
           CommitReplay, CommitPutUndo, CommitPutClaim, CommitCheckClaim, CommitPut, CommitVerify,
           CommitPromote, CommitCheckPointer, CommitReverify, PutUndo
  <1>2. \A j \in Refresh \ {i} : c'[j] = c[j]
    <2>1. CASE CommitReadPointer(i) \/ CommitReadUndo(i) \/ CommitReadClaim(i) \/ CommitReadSeal(i)
      BY <1>0, <2>1 DEF CommitReadPointer, CommitReadUndo, CommitReadClaim, CommitReadSeal
    <2>2. CASE CommitReplay(i) \/ CommitVerify(i) \/ CommitReverify(i)
      BY <1>0, <2>2 DEF CommitReplay, CommitVerify, CommitReverify, VerifyThen
    <2>3. CASE CommitPutUndo(i) \/ CommitPutClaim(i) \/ CommitCheckClaim(i) \/ CommitPut(i)
      BY <1>0, <2>3 DEF CommitPutUndo, CommitPutClaim, CommitCheckClaim, CommitPut, PutUndo
    <2>4. CASE CommitPromote(i) \/ CommitCheckPointer(i)
      BY <1>0, <2>4 DEF CommitPromote, CommitCheckPointer
    <2> QED BY <2>1, <2>2, <2>3, <2>4 DEF CommitStep
  <1>3. Open' = Open /\ Closed' = Closed
    BY <1>1 DEF Open, Closed, Unresolved
  <1> QED BY <1>1, <1>2, <1>3

(* What remains to show of a commit step: what it does to the pointer, the    *)
(* journals and its own handler.                                              *)
LEMMA CommitFrame ==
    ASSUME SafeInv, NEW i \in Refresh, CommitStep(i),
           PointerInv', UndoInv', CommitOK(i)'
    PROVE  SafeInv'
  <1>1. TypeInv'
    BY CommitTypes DEF SafeInv
  <1>2. /\ c[i].pc # "idle" /\ \A j \in Refresh \ {i} : c'[j] = c[j]
        /\ UNCHANGED <<r, f, client, journal, bundle>>
        /\ Open' = Open
    BY CommitMoves DEF SafeInv
  <1>3. client.who = i /\ client.pc = "commit"
    BY <1>2 DEF SafeInv, Exclusive
  <1>4. Exclusive'
    BY <1>2, <1>3 DEF SafeInv, Exclusive
  <1>5. \A j \in Refresh : r[j].pc = "idle" /\ f[j].pc = "idle" /\ (j # i => c[j].pc = "idle")
    BY <1>2, <1>3, OnlyHandler
  <1>6. CommitInv'
    BY <1>2, <1>5 DEF CommitInv, CommitOK, BeforeUndo, AfterUndoPut
  <1>7. RollbackInv' /\ FinalizeInv'
    BY <1>2, <1>5 DEF RollbackInv, RollbackOK, FinalizeInv
  <1> QED BY <1>1, <1>4, <1>6, <1>7 DEF SafeInv

(* Most steps only move the handler. *)
LEMMA CommitQuiet ==
    ASSUME SafeInv, NEW i \in Refresh, CommitStep(i), UNCHANGED <<kv, history>>, CommitOK(i)'
    PROVE  SafeInv'
  <1>1. UNCHANGED bundle /\ Open' = Open /\ Closed' = Closed
    BY CommitMoves DEF SafeInv
  <1>2. PointerInv' /\ UndoInv'
    BY <1>1, PublishedFrame DEF SafeInv, kv, history
  <1> QED BY <1>2, CommitFrame

(* The checks before the first write. *)
LEMMA CommitChecks ==
    ASSUME SafeInv, NEW i \in Refresh,
           CommitReadPointer(i) \/ CommitReadUndo(i) \/ CommitReadClaim(i) \/ CommitReadSeal(i)
           \/ CommitReplay(i)
    PROVE  SafeInv'
  <1>1. CommitStep(i)
    BY DEF CommitStep
  <1>2. CommitOK(i) /\ c \in [Refresh -> CommitHandler]
    BY DEF SafeInv, CommitInv, TypeInv, TypeOK
  <1>3. UNCHANGED <<pointer, undo, store, bundle, finalized, displaced>>
        /\ Open' = Open /\ Closed' = Closed
    BY <1>1, CommitMoves DEF SafeInv, kv, history, CommitReadPointer, CommitReadUndo,
                             CommitReadClaim, CommitReadSeal, CommitReplay
  <1>4. Settled' = Settled
    BY <1>3, PublishedFrame
  <1>5. CommitOK(i)'
    <2> DEFINE t == bundle[i]
               h == c[i]
               g == c'[i]
    <2>0. h.pc # "replay"
      BY <1>2 DEF CommitOK
    <2>1. CASE CommitReadPointer(i)
      <3>1. h.n = 1 /\ undo[t] = NoUndo /\ pointer \in Settled
        BY <1>2, <2>1 DEF CommitOK, BeforeUndo, CommitReadPointer
      <3>2. g.pc = "done" \/ (g.pc = "undo" /\ g.prev = pointer /\ g.n = h.n)
        BY <1>2, <2>1 DEF CommitReadPointer, CommitEnds, CommitHandler
      <3> QED BY <1>3, <1>4, <3>1, <3>2 DEF CommitOK, BeforeUndo, AfterUndoPut
    <2>2. CASE CommitReadUndo(i)
      <3>1. h.n = 1 /\ h.prev = pointer /\ undo[t] = NoUndo /\ pointer \in Settled
        BY <1>2, <2>2 DEF CommitOK, BeforeUndo, CommitReadUndo
      <3>2. \/ g.pc = "done"
            \/ /\ CurrentRun(h.prev) # RunOf[t]
               /\ g.pc = "claim" /\ g.replay = FALSE /\ g.back = h.prev
               /\ g.prev = h.prev /\ g.n = h.n
        BY <1>2, <2>2, <3>1 DEF CommitReadUndo, CommitEnds, CommitHandler
      <3> QED BY <1>3, <1>4, <3>1, <3>2 DEF CommitOK, BeforeUndo, AfterUndoPut
    <2>3. CASE CommitReadClaim(i) \/ CommitReadSeal(i)
      <3>1. /\ h.n = 1 /\ h.prev = pointer /\ undo[t] = NoUndo /\ pointer \in Settled
            /\ ~h.replay /\ h.back = pointer /\ CurrentRun(pointer) # RunOf[t]
        BY <1>2, <2>3 DEF CommitOK, BeforeUndo, CommitReadClaim, CommitReadSeal
      <3>2. \/ g.pc = "done"
            \/ /\ g.pc \in {"seal", "putUndo"}
               /\ g.replay = h.replay /\ g.back = h.back /\ g.prev = h.prev /\ g.n = h.n
        BY <1>2, <2>3, <3>1 DEF CommitReadClaim, CommitReadSeal, CommitEnds, CommitHandler
      <3> QED BY <1>3, <1>4, <3>1, <3>2 DEF CommitOK, BeforeUndo, AfterUndoPut
    <2> QED BY <2>0, <2>1, <2>2, <2>3 DEF CommitReplay
  <1> QED BY <1>1, <1>3, <1>5, CommitQuiet DEF kv, history

(* The rollback journal: from now on it holds the settled pointer that is     *)
(* still served.                                                              *)
LEMMA CommitJournals ==
    ASSUME SafeInv, NEW i \in Refresh, CommitPutUndo(i)
    PROVE  SafeInv'
  <1> DEFINE t == bundle[i]
             h == c[i]
             g == c'[i]
  <1>1. CommitStep(i) /\ CommitOK(i) /\ c \in [Refresh -> CommitHandler]
    BY DEF CommitStep, SafeInv, CommitInv, TypeInv, TypeOK
  <1>2. UNCHANGED <<pointer, store, finalized, displaced, bundle>>
        /\ Open' = Open /\ Closed' = Closed
    BY <1>1, CommitMoves DEF SafeInv, history, CommitPutUndo, PutUndo
  <1>3. Settled' = Settled
    BY <1>2 DEF Settled, Traced
  <1>4. /\ h.n = 1 /\ h.back = pointer /\ undo[t] = NoUndo /\ pointer \in Settled
        /\ CurrentRun(pointer) # RunOf[t]
    BY <1>1 DEF CommitOK, BeforeUndo, CommitPutUndo, PutUndo
  <1>5. i \in Open /\ t \in Tx
    BY <1>1, CommitMoves DEF SafeInv, Exclusive, TypeInv, BegunOK, Begun, Open, Unresolved
  <1>6. undo' = [undo EXCEPT ![t] = pointer] /\ undo \in [Tx -> Pointer \cup {NoUndo}]
    BY <1>4 DEF CommitPutUndo, PutUndo, SafeInv, TypeInv, TypeOK
  <1>7. \A u \in Tx \ {t} : undo'[u] = NoUndo
    BY <1>5, <1>6, OneOpen DEF SafeInv
  <1>8. PointerInv'
    BY <1>2, <1>3, <1>4 DEF PointerInv
  <1>9. UndoInv'
    BY <1>2, <1>3, <1>4, <1>5, <1>6, <1>7 DEF UndoInv, CurrentRun
  <1>10. g.pc \in {"putClaim", "put"} /\ g.n = h.n
    BY <1>1 DEF CommitPutUndo, PutUndo, AfterUndo, CommitHandler
  <1>11. CommitOK(i)'
    <2>1. \A s \in Slot : ~(s < 1)
      BY DEF Slot
    <2>2. undo'[t] = pointer
      BY <1>5, <1>6
    <2> QED BY <1>2, <1>3, <1>4, <1>10, <2>1, <2>2 DEF CommitOK, BeforeUndo, AfterUndoPut, CurrentRun
  <1> QED BY <1>1, <1>8, <1>9, <1>11, CommitFrame

(* An object is written under the run of the commit, which neither the served *)
(* pointer nor the journal's names.                                           *)
LEMMA CommitWrites ==
    ASSUME SafeInv, NEW i \in Refresh, CommitStep(i),
           c[i].pc \in AfterUndoPut, UNCHANGED <<pointer, undo, history>>,
           \A y \in Run \ {RunOf[bundle[i]]} : store'[y] = store[y]
    PROVE  /\ PointerInv' /\ UndoInv' /\ UNCHANGED bundle
           /\ pointer' \in Settled' /\ undo'[bundle'[i]] = pointer'
           /\ CurrentRun(pointer)' # RunOf[bundle'[i]]
  <1> DEFINE t == bundle[i]
  <1>1. UNCHANGED <<pointer, undo, finalized, displaced, bundle>>
        /\ Open' = Open /\ Closed' = Closed
    BY CommitMoves DEF SafeInv, history
  <1>2. pointer \in Settled /\ undo[t] = pointer /\ CurrentRun(pointer) # RunOf[t]
    BY DEF SafeInv, CommitInv, CommitOK
  <1>3. pointer \in Settled'
    BY <1>1, <1>2, OtherRun
  <1>4. i \in Open
    BY CommitMoves DEF SafeInv, Exclusive
  <1>5. \A u \in Tx : undo[u] # NoUndo => u = t
    BY <1>4, OneOpen DEF SafeInv
  <1>6. PointerInv'
    BY <1>1, <1>3 DEF PointerInv
  <1>7. UndoInv'
    BY <1>1, <1>2, <1>3, <1>4, <1>5 DEF UndoInv, CurrentRun
  <1> QED BY <1>1, <1>2, <1>3, <1>6, <1>7 DEF CurrentRun

LEMMA CommitPuts ==
    ASSUME SafeInv, NEW i \in Refresh, CommitPutClaim(i) \/ CommitPut(i)
    PROVE  SafeInv'
  <1> DEFINE t == bundle[i]
             x == RunOf[t]
             h == c[i]
             g == c'[i]
  <1>1. CommitStep(i) /\ CommitOK(i) /\ c \in [Refresh -> CommitHandler]
        /\ store \in [Run -> [Slot -> Item \cup {Nil}]]
    BY DEF CommitStep, SafeInv, CommitInv, TypeInv, TypeOK
  <1>2. h.pc \in {"putClaim", "put"} /\ UNCHANGED <<pointer, undo, history>>
        /\ \A y \in Run \ {x} : store'[y] = store[y]
    BY <1>1 DEF CommitPutClaim, CommitPut
  <1>3. /\ PointerInv' /\ UndoInv' /\ UNCHANGED bundle
        /\ pointer' \in Settled' /\ undo'[bundle'[i]] = pointer'
        /\ CurrentRun(pointer)' # RunOf[bundle'[i]]
    BY <1>1, <1>2, CommitWrites DEF AfterUndoPut
  <1>4. x \in Run
    BY <1>1, CommitMoves, RunOfAssumption DEF SafeInv, Exclusive, TypeInv, BegunOK, Begun, Open, Unresolved
  <1>5. CASE CommitPutClaim(i)
    <2>1. g.pc = "checkClaim" /\ g.n = 1
      BY <1>1, <1>5 DEF CommitPutClaim, CommitHandler, CommitOK
    <2>2. CommitOK(i)'
      BY <1>3, <2>1 DEF CommitOK, BeforeUndo, AfterUndoPut
    <2> QED BY <1>1, <1>3, <2>2, CommitFrame
  <1>6. CASE CommitPut(i)
    <2>1. h.n \in Slot /\ \A s \in Slot : s < h.n => store[x][s] = ItemOf(t, h.at, s)
      BY <1>1, <1>6 DEF CommitPut, CommitOK, CommitHandler
    <2>2. \A s \in Slot : s < h.n \/ s = h.n => store'[x][s] = ItemOf(t, h.at, s)
      BY <1>1, <1>4, <1>6, <2>1 DEF CommitPut
    <2>3. /\ g.at = h.at
          /\ \/ h.n < SealSlot /\ g.pc = "put" /\ g.n = h.n + 1
             \/ ~(h.n < SealSlot) /\ g.pc = "verify"
      BY <1>1, <1>6 DEF CommitPut, CommitHandler
    <2>4. g.pc = "put" => \A s \in Slot : s < g.n => store'[x][s] = ItemOf(t, g.at, s)
      BY <2>1, <2>2, <2>3 DEF Slot
    <2>5. g.pc = "verify" => \A s \in Slot : store'[x][s] = ItemOf(t, g.at, s)
      BY <2>1, <2>2, <2>3, NBodyAssumption DEF Slot, SealSlot
    <2>6. CommitOK(i)'
      BY <1>3, <2>3, <2>4, <2>5 DEF CommitOK, BeforeUndo, AfterUndoPut
    <2> QED BY <1>1, <1>3, <2>6, CommitFrame
  <1> QED BY <1>5, <1>6

(* The pointer is moved: what was settled is displaced by a pending pointer,  *)
(* whose objects were verified one by one.                                    *)
LEMMA CommitPromotes ==
    ASSUME SafeInv, NEW i \in Refresh, CommitPromote(i), bundle[i] \notin stale
    PROVE  SafeInv'
  <1> DEFINE t == bundle[i]
             h == c[i]
             g == c'[i]
             p == PointerOf(i)
  <1>1. CommitStep(i) /\ CommitOK(i) /\ c \in [Refresh -> CommitHandler]
        /\ displaced \in [Tx -> Pointer]
    BY DEF CommitStep, SafeInv, CommitInv, TypeInv, TypeOK
  <1>2. UNCHANGED <<store, undo, finalized, bundle>> /\ Open' = Open /\ Closed' = Closed
        /\ pointer' = p /\ displaced' = [displaced EXCEPT ![t] = pointer] /\ g.pc = "checkPointer"
    BY <1>1, CommitMoves DEF SafeInv, CommitPromote, CommitHandler
  <1>3. i \in Open /\ t \in Tx /\ h.pc = "promote"
    BY <1>1, CommitMoves DEF SafeInv, Exclusive, TypeInv, BegunOK, Begun, Open, Unresolved, CommitPromote
  <1>4. /\ pointer \in Settled /\ undo[t] = pointer /\ CurrentRun(pointer) # RunOf[t]
        /\ \A s \in Slot : store[RunOf[t]][s] = ItemOf(t, h.at, s)
    BY <1>1, <1>3 DEF CommitOK, AfterUndoPut
  <1>5. h.at \in Refresh
    BY <1>3 DEF SafeInv, TypeInv, ClaimOK, AfterClaim, CommitPc
  <1>6. p \in Sealed /\ p.run = RunOf[t] /\ p.tx = t /\ p.seal = h.at /\ p.by = i
    BY <1>3, <1>5, RunOfAssumption DEF PointerOf, Sealed
  <1>7. p \in Traced'
    BY <1>2, <1>4, <1>6 DEF Traced
  <1>8. undo[t] # NoUndo
    BY <1>4, NoUndoAssumption DEF Settled
  <1>9. p \in Pending'
    BY <1>1, <1>2, <1>3, <1>4, <1>6, <1>7, <1>8 DEF Pending
  <1>10. Settled' = Settled
    BY <1>2 DEF Settled, Traced
  <1>11. PointerInv'
    BY <1>2, <1>9 DEF PointerInv
  <1>12. UndoInv'
    BY <1>2, <1>9, <1>10 DEF SafeInv, UndoInv, CurrentRun
  <1>13. CommitOK(i)'
    BY <1>2 DEF CommitOK, BeforeUndo, AfterUndoPut
  <1> QED BY <1>1, <1>11, <1>12, <1>13, CommitFrame

(* Reads after the first write, and the errors. *)
LEMMA CommitReads ==
    ASSUME SafeInv, NEW i \in Refresh,
           \/ CommitCheckClaim(i) \/ CommitVerify(i) \/ CommitCheckPointer(i) \/ CommitReverify(i)
           \/ CommitPromote(i) /\ bundle[i] \in stale
    PROVE  SafeInv'
  <1> DEFINE t == bundle[i]
             h == c[i]
             g == c'[i]
  <1>1. CommitStep(i) /\ CommitOK(i) /\ c \in [Refresh -> CommitHandler]
    BY DEF CommitStep, SafeInv, CommitInv, TypeInv, TypeOK
  <1>2. UNCHANGED <<kv, history>>
    BY DEF kv, history, CommitCheckClaim, CommitVerify, CommitCheckPointer, CommitReverify, CommitPromote
  <1>3. UNCHANGED <<pointer, undo, store, bundle, finalized, displaced>>
        /\ Open' = Open /\ Closed' = Closed
    BY <1>1, <1>2, CommitMoves DEF SafeInv, kv, history
  <1>4. Settled' = Settled
    BY <1>3, PublishedFrame
  <1>5. \/ g.pc \in {"done", "reverify"}
        \/ h.pc = "checkClaim" /\ g.pc = "put" /\ g.n = h.n
        \/ h.pc = "verify" /\ g.pc \in {"verify", "promote"} /\ g.at = h.at
    <2>1. CASE CommitCheckClaim(i)
      BY <1>1, <2>1 DEF CommitCheckClaim, CommitEnds, CommitHandler
    <2>2. CASE CommitVerify(i)
      BY <1>1, <2>2 DEF CommitVerify, VerifyThen, CommitHandler
    <2>3. CASE CommitReverify(i)
      BY <1>1, <2>3 DEF CommitReverify, VerifyThen, CommitHandler
    <2>4. CASE CommitCheckPointer(i) \/ (CommitPromote(i) /\ bundle[i] \in stale)
      BY <1>1, <2>4 DEF CommitCheckPointer, CommitPromote, CommitEnds, CommitHandler
    <2> QED BY <2>1, <2>2, <2>3, <2>4
  <1>6. CommitOK(i)'
    <2>1. CASE g.pc \in {"done", "reverify"}
      BY <2>1 DEF CommitOK, BeforeUndo, AfterUndoPut
    <2>2. CASE h.pc = "checkClaim" /\ g.pc = "put" /\ g.n = h.n
      <3>1. /\ pointer \in Settled /\ undo[t] = pointer /\ CurrentRun(pointer) # RunOf[t]
            /\ g.n = 1
        BY <1>1, <2>2 DEF CommitOK, BeforeUndo, AfterUndoPut
      <3>2. \A s \in Slot : ~(s < 1)
        BY DEF Slot
      <3> QED BY <1>3, <1>4, <2>2, <3>1, <3>2 DEF CommitOK, BeforeUndo, AfterUndoPut, CurrentRun
    <2>3. CASE h.pc = "verify" /\ g.pc \in {"verify", "promote"} /\ g.at = h.at
      <3>1. /\ pointer \in Settled /\ undo[t] = pointer /\ CurrentRun(pointer) # RunOf[t]
            /\ \A s \in Slot : store[RunOf[t]][s] = ItemOf(t, h.at, s)
        BY <1>1, <2>3 DEF CommitOK, AfterUndoPut
      <3> QED BY <1>3, <1>4, <2>3, <3>1 DEF CommitOK, BeforeUndo, AfterUndoPut, CurrentRun
    <2> QED BY <1>5, <2>1, <2>2, <2>3
  <1> QED BY <1>1, <1>2, <1>6, CommitQuiet

LEMMA CommitSafe ==
    ASSUME SafeInv, NEW i \in Refresh, CommitStep(i)
    PROVE  SafeInv'
  BY CommitChecks, CommitJournals, CommitPuts, CommitPromotes, CommitReads DEF CommitStep

-----------------------------------------------------------------------------
(* Rollback. *)
LEMMA RollbackMoves ==
    ASSUME TypeInv, NEW i \in Refresh, RollbackStep(i)
    PROVE  /\ r[i].pc # "idle" /\ \A j \in Refresh \ {i} : r'[j] = r[j]
           /\ UNCHANGED <<c, f, client, journal, bundle, store, finalized, displaced>>
           /\ Open' = Open /\ Closed' = Closed
  <1> USE DEF RollbackUnchanged, local, history, RollbackEnds
  <1>0. r \in [Refresh -> RollbackHandler]
    BY DEF TypeInv, TypeOK
  <1>1. r[i].pc # "idle"
        /\ UNCHANGED <<c, f, client, journal, bundle, store, finalized, displaced>>
    BY DEF RollbackStep, RollbackReadUndo, RollbackReadPointer, RollbackRestore, RollbackCheck,
           RollbackDelete
  <1>2. \A j \in Refresh \ {i} : r'[j] = r[j]
    BY <1>0 DEF RollbackStep, RollbackReadUndo, RollbackReadPointer, RollbackRestore, RollbackCheck,
                RollbackDelete
  <1>3. Open' = Open /\ Closed' = Closed
    BY <1>1 DEF Open, Closed, Unresolved
  <1> QED BY <1>1, <1>2, <1>3

LEMMA RollbackFrame ==
    ASSUME SafeInv, NEW i \in Refresh, RollbackStep(i),
           PointerInv', UndoInv', RollbackOK(i)'
    PROVE  SafeInv'
  <1>1. TypeInv'
    BY RollbackTypes DEF SafeInv
  <1>2. /\ r[i].pc # "idle" /\ \A j \in Refresh \ {i} : r'[j] = r[j]
        /\ UNCHANGED <<c, f, client, journal, bundle>>
        /\ Open' = Open
    BY RollbackMoves DEF SafeInv
  <1>3. client.who = i /\ client.pc \in {"rollback", "reconcile"}
    BY <1>2 DEF SafeInv, Exclusive
  <1>4. Exclusive'
    BY <1>2, <1>3 DEF SafeInv, Exclusive
  <1>5. \A j \in Refresh : c[j].pc = "idle" /\ f[j].pc = "idle" /\ (j # i => r[j].pc = "idle")
    BY <1>2, <1>3, OnlyHandler
  <1>6. CommitInv' /\ FinalizeInv'
    BY <1>2, <1>5 DEF CommitInv, CommitOK, FinalizeInv, BeforeUndo, AfterUndoPut
  <1>7. RollbackInv'
    BY <1>2, <1>5 DEF RollbackInv, RollbackOK
  <1> QED BY <1>1, <1>4, <1>6, <1>7 DEF SafeInv

LEMMA RollbackSafe ==
    ASSUME SafeInv, NEW i \in Refresh, RollbackStep(i)
    PROVE  SafeInv'
  <1> DEFINE t == bundle[i]
             h == r[i]
             g == r'[i]
  <1>1. RollbackOK(i) /\ r \in [Refresh -> RollbackHandler]
        /\ undo \in [Tx -> Pointer \cup {NoUndo}]
    BY DEF SafeInv, RollbackInv, TypeInv, TypeOK
  <1>2. UNCHANGED <<bundle, store, finalized, displaced>> /\ Open' = Open /\ Closed' = Closed
    BY RollbackMoves DEF SafeInv
  <1>3. i \in Open /\ t \in Tx
    BY RollbackMoves DEF SafeInv, Exclusive, TypeInv, BegunOK, Begun, Open, Unresolved
  <1>4. /\ \A u \in Tx : undo[u] # NoUndo => u = t
        /\ \A p \in Pending : CurrentRun(p) = RunOf[t]
    BY <1>3, OneOpen DEF SafeInv
  <1>5. Settled' = Settled
    BY <1>2 DEF Settled, Traced
  <1>6. CASE UNCHANGED <<pointer, undo>> /\ RollbackOK(i)'
    <2>1. PointerInv' /\ UndoInv'
      BY <1>2, <1>6, PublishedFrame DEF SafeInv
    <2> QED BY <1>6, <2>1, RollbackFrame
  <1>7. CASE RollbackReadUndo(i)
    <2>1. g.pc = "pointer" /\ (g.found <=> undo[t] # NoUndo) /\ (g.found => g.back = undo[t])
      BY <1>1, <1>7 DEF RollbackReadUndo, RollbackHandler
    <2>2. UNCHANGED <<pointer, undo>>
      BY <1>7 DEF RollbackReadUndo
    <2> QED BY <1>2, <1>6, <2>1, <2>2 DEF RollbackOK
  <1>8. CASE RollbackReadPointer(i)
    <2>1. (h.found <=> undo[t] # NoUndo) /\ (h.found => h.back = undo[t])
      BY <1>1, <1>8 DEF RollbackReadPointer, RollbackOK
    <2>2. UNCHANGED <<pointer, undo>>
      BY <1>8 DEF RollbackReadPointer
    <2>3. \/ g.pc = "restore" /\ g.back = h.back /\ h.found /\ CurrentRun(pointer) = RunOf[t]
          \/ g.pc = "done" /\ g.result = "error"
          \/ g.pc = "done" /\ ~h.found /\ CurrentRun(pointer) # RunOf[t]
      BY <1>1, <1>8 DEF RollbackReadPointer, RollbackEnds, RollbackHandler
    <2>4. undo[t] # NoUndo => pointer \in Pending \/ CurrentRun(pointer) # RunOf[t]
      BY <1>3 DEF SafeInv, UndoInv
    <2>5. CurrentRun(pointer) # RunOf[t] => pointer \in Settled
      BY <1>4 DEF SafeInv, PointerInv
    <2>6. Pending' = Pending
      BY <1>2, <2>2, PublishedFrame
    <2>7. RollbackOK(i)'
      BY <1>2, <1>5, <2>1, <2>2, <2>3, <2>4, <2>5, <2>6 DEF RollbackOK
    <2> QED BY <1>6, <2>2, <2>7
  <1>9. CASE RollbackRestore(i)
    <2>1. h.back = undo[t] /\ undo[t] # NoUndo
      BY <1>1, <1>9 DEF RollbackRestore, RollbackOK
    <2>2. pointer' = h.back /\ UNCHANGED undo /\ g.pc = "check" /\ g.back = h.back
      BY <1>1, <1>9 DEF RollbackRestore, RollbackHandler
    <2>3. undo[t] \in Settled /\ CurrentRun(undo[t]) # RunOf[t]
      BY <1>3, <2>1 DEF SafeInv, UndoInv
    <2>4. PointerInv'
      BY <1>5, <2>1, <2>2, <2>3 DEF PointerInv
    <2>5. UndoInv'
      BY <1>2, <1>3, <1>4, <1>5, <2>1, <2>2, <2>3 DEF UndoInv, CurrentRun
    <2>6. RollbackOK(i)'
      BY <1>2, <2>1, <2>2 DEF RollbackOK
    <2> QED BY <2>4, <2>5, <2>6, RollbackFrame
  <1>10. CASE RollbackCheck(i)
    <2>1. h.back = undo[t] /\ undo[t] # NoUndo
      BY <1>1, <1>10 DEF RollbackCheck, RollbackOK
    <2>2. UNCHANGED <<pointer, undo>>
      BY <1>10 DEF RollbackCheck
    <2>3. \/ g.pc = "delete" /\ g.back = h.back /\ pointer = h.back
          \/ g.pc = "done" /\ g.result = "error"
      BY <1>1, <1>10 DEF RollbackCheck, RollbackEnds, RollbackHandler
    <2> QED BY <1>2, <1>6, <2>1, <2>2, <2>3 DEF RollbackOK
  <1>11. CASE RollbackDelete(i)
    <2>1. pointer = undo[t] /\ undo[t] # NoUndo
      BY <1>1, <1>11 DEF RollbackDelete, RollbackOK
    <2>2. undo' = [undo EXCEPT ![t] = NoUndo] /\ UNCHANGED pointer /\ g.pc = "done"
      BY <1>1, <1>11 DEF RollbackDelete, RollbackEnds, RollbackHandler
    <2>3. pointer \in Settled
      BY <1>3, <2>1 DEF SafeInv, UndoInv
    <2>4. \A u \in Tx : undo'[u] = NoUndo
      BY <1>1, <1>3, <1>4, <2>2
    <2>5. PointerInv' /\ UndoInv'
      BY <1>5, <2>2, <2>3, <2>4 DEF PointerInv, UndoInv
    <2>6. RollbackOK(i)'
      BY <1>2, <1>3, <1>5, <2>2, <2>3, <2>4 DEF RollbackOK
    <2> QED BY <2>5, <2>6, RollbackFrame
  <1> QED BY <1>7, <1>8, <1>9, <1>10, <1>11 DEF RollbackStep

-----------------------------------------------------------------------------
(* Finalize. *)
LEMMA FinalizeMoves ==
    ASSUME TypeInv, NEW i \in Refresh, FinalizeStep(i)
    PROVE  /\ f[i].pc # "idle" /\ \A j \in Refresh \ {i} : f'[j] = f[j]
           /\ UNCHANGED <<c, r, pointer, client, journal, bundle, store, displaced>>
           /\ Open' = Open /\ Closed' = Closed
  <1> USE DEF FinalizeUnchanged, local, FinalizeEnds
  <1>0. f \in [Refresh -> FinalizeHandler]
    BY DEF TypeInv, TypeOK
  <1>1. f[i].pc # "idle"
        /\ UNCHANGED <<c, r, pointer, client, journal, bundle, store, displaced>>
    BY DEF FinalizeStep, FinalizeReadUndo, FinalizeReadPointer, FinalizeVerify, FinalizeCheck,
           FinalizeDelete
  <1>2. \A j \in Refresh \ {i} : f'[j] = f[j]
    BY <1>0 DEF FinalizeStep, FinalizeReadUndo, FinalizeReadPointer, FinalizeVerify, FinalizeCheck,
                FinalizeDelete
  <1>3. Open' = Open /\ Closed' = Closed
    BY <1>1 DEF Open, Closed, Unresolved
  <1> QED BY <1>1, <1>2, <1>3

LEMMA FinalizeSafe ==
    ASSUME SafeInv, NEW i \in Refresh, FinalizeStep(i)
    PROVE  SafeInv'
  <1> DEFINE t == bundle[i]
             h == f[i]
             g == f'[i]
  <1>1. TypeInv'
    BY FinalizeTypes DEF SafeInv
  <1>2. /\ h.pc # "idle" /\ \A j \in Refresh \ {i} : f'[j] = f[j]
        /\ UNCHANGED <<c, r, pointer, client, journal, bundle, store, displaced>>
        /\ Open' = Open /\ Closed' = Closed
    BY FinalizeMoves DEF SafeInv
  <1>3. client.who = i /\ client.pc = "finalize" /\ i \in Open /\ t \in Tx
    BY <1>2 DEF SafeInv, Exclusive, TypeInv, BegunOK, Begun, Open, Unresolved
  <1>4. Exclusive'
    BY <1>2, <1>3 DEF SafeInv, Exclusive
  <1>5. \A j \in Refresh : c[j].pc = "idle" /\ r[j].pc = "idle" /\ (j # i => f[j].pc = "idle")
    BY <1>2, <1>3, OnlyHandler
  <1>6. CommitInv' /\ RollbackInv'
    BY <1>2, <1>5 DEF CommitInv, CommitOK, RollbackInv, RollbackOK, BeforeUndo, AfterUndoPut
  <1>7. f \in [Refresh -> FinalizeHandler] /\ undo \in [Tx -> Pointer \cup {NoUndo}]
    BY DEF SafeInv, TypeInv, TypeOK
  <1>8. CASE FinalizeReadUndo(i) \/ FinalizeReadPointer(i) \/ FinalizeVerify(i) \/ FinalizeCheck(i)
    <2>1. UNCHANGED <<undo, finalized>>
      BY <1>8 DEF FinalizeReadUndo, FinalizeReadPointer, FinalizeVerify, FinalizeCheck
    <2>2. g.pc = "done" => g.result = "error"
      BY <1>7, <1>8 DEF FinalizeReadUndo, FinalizeReadPointer, FinalizeVerify, FinalizeCheck,
                        FinalizeEnds, FinalizeHandler
    <2>3. FinalizeInv'
      BY <1>2, <1>5, <2>2 DEF FinalizeInv
    <2>4. PointerInv' /\ UndoInv'
      BY <1>2, <2>1, PublishedFrame DEF SafeInv
    <2> QED BY <1>1, <1>4, <1>6, <2>3, <2>4 DEF SafeInv
  <1>9. CASE FinalizeDelete(i)
    <2>1. undo' = [undo EXCEPT ![t] = NoUndo] /\ finalized' = finalized \cup {i}
      BY <1>9 DEF FinalizeDelete
    <2>2. \A u \in Tx : undo'[u] = NoUndo
      BY <1>3, <1>7, <2>1, OneOpen DEF SafeInv
    <2>3. FinalizeInv'
      BY <1>2, <1>3, <1>5, <2>1, <2>2 DEF FinalizeInv
    <2>4. UndoInv'
      BY <2>2 DEF UndoInv
    <2>5. Traced' = Traced
      BY <1>2 DEF Traced
    <2>6. pointer \in Settled => pointer \in Settled'
      BY <1>2, <2>1, <2>5 DEF Settled
    <2>7. pointer \in Pending => pointer \in Pending'
      <3>1. \A p \in Traced : p.tx \in Tx
        BY DEF Traced, Sealed
      <3>2. pointer \in Pending => pointer.by = i
        BY <1>3, OneOpen DEF SafeInv
      <3> QED BY <1>2, <2>1, <2>2, <2>5, <3>1, <3>2 DEF Pending
    <2>8. PointerInv'
      BY <1>2, <2>6, <2>7 DEF SafeInv, PointerInv
    <2> QED BY <1>1, <1>4, <1>6, <2>3, <2>4, <2>8 DEF SafeInv
  <1> QED BY <1>8, <1>9 DEF FinalizeStep

-----------------------------------------------------------------------------
(* A failed call, and the steps that touch no handler. *)
LEMMA FailSafe ==
    ASSUME SafeInv, NEW i \in Refresh, HandlerFails(i)
    PROVE  SafeInv'
  <1> DEFINE Ended(h, g) == g = h \/ (h.pc # "idle" /\ g.pc = "done" /\ g.result = "error")
  <1>1. TypeInv'
    BY FailTypes DEF SafeInv
  <1>2. UNCHANGED <<pointer, store, undo, bundle, finalized, displaced, client, journal>>
    BY DEF HandlerFails, kv, local, history
  <1>3. Open' = Open /\ Closed' = Closed
    BY <1>2 DEF Open, Closed, Unresolved
  <1>4. PointerInv' /\ UndoInv' /\ Settled' = Settled /\ Pending' = Pending
    BY <1>2, <1>3, PublishedFrame DEF SafeInv
  <1>5. /\ \A j \in Refresh : Ended(c[j], c'[j])
        /\ \A j \in Refresh : Ended(r[j], r'[j])
        /\ \A j \in Refresh : Ended(f[j], f'[j])
    <2> USE DEF SafeInv, TypeInv, TypeOK, CommitHandler, RollbackHandler, FinalizeHandler
    <2>1. CASE c[i].pc \notin {"idle", "done"} /\ CommitEnds(i, "error") /\ UNCHANGED <<r, f>>
      BY <2>1 DEF CommitEnds
    <2>2. CASE r[i].pc \notin {"idle", "done"} /\ RollbackEnds(i, "error") /\ UNCHANGED <<c, f>>
      BY <2>2 DEF RollbackEnds
    <2>3. CASE f[i].pc \notin {"idle", "done"} /\ FinalizeEnds(i, "error") /\ UNCHANGED <<c, r>>
      BY <2>3 DEF FinalizeEnds
    <2> QED BY <2>1, <2>2, <2>3 DEF HandlerFails
  <1>6. Exclusive'
    BY <1>2, <1>3, <1>5 DEF SafeInv, Exclusive
  <1>7. CommitInv'
    <2> SUFFICES ASSUME NEW j \in Refresh PROVE CommitOK(j)'
      BY DEF CommitInv
    <2>1. CASE c'[j] = c[j]
      BY <1>2, <1>4, <2>1 DEF SafeInv, CommitInv, CommitOK, CurrentRun
    <2>2. CASE c'[j].pc = "done"
      BY <2>2 DEF CommitOK, BeforeUndo, AfterUndoPut
    <2> QED BY <1>5, <2>1, <2>2
  <1>8. RollbackInv'
    <2> SUFFICES ASSUME NEW j \in Refresh PROVE RollbackOK(j)'
      BY DEF RollbackInv
    <2>1. CASE r'[j] = r[j]
      BY <1>2, <1>4, <2>1 DEF SafeInv, RollbackInv, RollbackOK
    <2>2. CASE r'[j].pc = "done" /\ r'[j].result = "error"
      BY <2>2 DEF RollbackOK
    <2> QED BY <1>5, <2>1, <2>2
  <1>9. FinalizeInv'
    BY <1>2, <1>5 DEF SafeInv, FinalizeInv
  <1> QED BY <1>1, <1>4, <1>6, <1>7, <1>8, <1>9 DEF SafeInv

LEMMA QuietSafe ==
    ASSUME SafeInv, TypeInv',
           UNCHANGED <<pointer, store, undo, worker, local, history>>
    PROVE  SafeInv'
  <1> USE DEF worker, local, history
  <1>1. Open' = Open /\ Closed' = Closed
    BY DEF Open, Closed, Unresolved
  <1>2. PointerInv' /\ UndoInv' /\ Settled' = Settled /\ Pending' = Pending
    BY <1>1, PublishedFrame DEF SafeInv
  <1>3. Exclusive'
    BY <1>1 DEF SafeInv, Exclusive
  <1>4. CommitInv' /\ RollbackInv' /\ FinalizeInv'
    BY <1>2 DEF SafeInv, CommitInv, CommitOK, RollbackInv, RollbackOK, FinalizeInv, CurrentRun
  <1> QED BY <1>2, <1>3, <1>4 DEF SafeInv

(* The hourly publisher holds the lock, so no handler runs; what it publishes *)
(* is settled.                                                                *)
LEMMA HourlySafe ==
    ASSUME SafeInv, HourlyPublish
    PROVE  SafeInv'
  <1>1. TypeInv'
    BY OtherTypes DEF SafeInv
  <1>2. pointer' \in Hourly /\ client.pc = "idle"
        /\ UNCHANGED <<store, undo, c, r, f, client, journal, bundle, finalized, displaced>>
    BY DEF HourlyPublish, worker, local, history
  <1>3. Open' = Open /\ Closed' = Closed
    BY <1>2 DEF Open, Closed, Unresolved
  <1>4. Settled' = Settled
    BY <1>2, <1>3 DEF Settled, Traced
  <1>5. pointer' \in Settled /\ pointer' \notin Sealed
    BY <1>2, HourlyAssumption DEF Settled, Pointer
  <1>6. PointerInv'
    BY <1>4, <1>5 DEF PointerInv
  <1>7. CurrentRun(pointer)' = Nil /\ \A t \in Tx : RunOf[t] # Nil
    BY <1>5, NilAssumption, RunOfAssumption DEF CurrentRun
  <1>8. UndoInv'
    <2> SUFFICES ASSUME NEW t \in Tx, undo'[t] # NoUndo
                 PROVE  /\ undo'[t] \in Settled' /\ CurrentRun(undo'[t]) # RunOf[t]
                        /\ (\E i \in Open' : bundle'[i] = t)
                        /\ CurrentRun(pointer)' # RunOf[t]
      BY DEF UndoInv, CurrentRun
    <2> QED BY <1>2, <1>3, <1>4, <1>7 DEF SafeInv, UndoInv
  <1>9. \A j \in Refresh : c[j].pc = "idle" /\ r[j].pc = "idle" /\ f[j].pc = "idle"
    BY <1>2 DEF SafeInv, Exclusive
  <1>10. CommitInv' /\ RollbackInv' /\ FinalizeInv'
    BY <1>2, <1>9 DEF CommitInv, CommitOK, RollbackInv, RollbackOK, FinalizeInv, BeforeUndo, AfterUndoPut
  <1>11. Exclusive'
    BY <1>2, <1>3 DEF SafeInv, Exclusive
  <1> QED BY <1>1, <1>6, <1>8, <1>10, <1>11 DEF SafeInv

-----------------------------------------------------------------------------
(* The client.  Most of its steps start at most one handler and leave it to   *)
(* the same refresh to be resolved.                                           *)
Starting(i) ==
    /\ \A j \in Refresh : c'[j].pc = "idle" /\ (j # i => r'[j].pc = "idle" /\ f'[j].pc = "idle")
    /\ \/ client' = ClientIdle /\ r'[i].pc = "idle" /\ f'[i].pc = "idle"
       \/ /\ client'.pc \in {"rollback", "reconcile"} /\ client'.who = i
          /\ i \in Open /\ r'[i].pc = "undo" /\ f'[i].pc = "idle"
       \/ /\ client'.pc = "finalize" /\ client'.who = i
          /\ i \in Open /\ r'[i].pc = "idle" /\ f'[i].pc = "undo"

LEMMA StartingSafe ==
    ASSUME SafeInv, TypeInv', NEW i \in Refresh, Starting(i), ClientUnchanged,
           UNCHANGED bundle, Open' = Open, Closed' = Closed
    PROVE  SafeInv'
  <1>1. UNCHANGED <<pointer, store, undo, bundle, finalized, displaced>>
    BY DEF ClientUnchanged, kv, history
  <1>2. PointerInv' /\ UndoInv'
    BY <1>1, PublishedFrame DEF SafeInv
  <1>3. Exclusive'
    BY DEF SafeInv, Exclusive, Starting, ClientIdle
  <1>4. CommitInv' /\ FinalizeInv'
    BY DEF Starting, CommitInv, CommitOK, FinalizeInv, BeforeUndo, AfterUndoPut
  <1>5. RollbackInv'
    BY DEF Starting, RollbackInv, RollbackOK
  <1> QED BY <1>2, <1>3, <1>4, <1>5 DEF SafeInv

(* A refresh begins: no other is unresolved, so no journal exists and the     *)
(* served pointer is settled.                                                 *)
LEMMA StartSafe ==
    ASSUME SafeInv, NEW i \in Refresh, NEW t \in Tx, StartRefresh(i, t)
    PROVE  SafeInv'
  <1>1. TypeInv'
    BY ClientTypes DEF SafeInv, ClientStep
  <1> USE DEF SafeInv, TypeInv, TypeOK
  <1>2. /\ Open = {} /\ i \notin Closed /\ client.pc = "idle"
        /\ client' = [pc |-> "commit", who |-> i]
        /\ journal' = [journal EXCEPT ![i] = "UNKNOWN"] /\ bundle' = [bundle EXCEPT ![i] = t]
        /\ c' = [c EXCEPT ![i] = [CommitIdle EXCEPT !.pc = "pointer"]]
        /\ UNCHANGED <<pointer, store, undo, finalized, displaced, r, f>>
    BY DEF StartRefresh, Open, Closed, ClientUnchanged, kv, history
  <1>3. Open' = {i} /\ Closed' = Closed
    BY <1>2 DEF Open, Closed, Unresolved
  <1>4. pointer \in Settled /\ \A u \in Tx : undo[u] = NoUndo
    BY <1>2, NoneOpen
  <1>5. \A p \in Sealed : p.by \in Closed => bundle'[p.by] = bundle[p.by]
    BY <1>2 DEF Sealed, Closed
  <1>6. pointer' \in Settled'
    BY <1>2, <1>3, <1>4, <1>5 DEF Settled, Traced
  <1>7. PointerInv' /\ UndoInv'
    BY <1>2, <1>4, <1>6 DEF PointerInv, UndoInv
  <1>8. \A j \in Refresh : r'[j].pc = "idle" /\ f'[j].pc = "idle" /\ (j # i => c'[j].pc = "idle")
    BY <1>2 DEF Exclusive
  <1>9. c'[i].pc = "pointer" /\ c'[i].n = 1
    BY <1>2, IdleTypes DEF CommitIdle
  <1>10. CommitInv'
    BY <1>2, <1>4, <1>6, <1>8, <1>9 DEF CommitInv, CommitOK, BeforeUndo, AfterUndoPut
  <1>11. RollbackInv' /\ FinalizeInv'
    BY <1>8 DEF RollbackInv, RollbackOK, FinalizeInv
  <1>12. Exclusive'
    BY <1>2, <1>3, <1>8 DEF Exclusive
  <1> QED BY <1>1, <1>7, <1>10, <1>11, <1>12

(* A refresh is resolved: its pointer, if served, is settled; its bundle has  *)
(* no journal any more.                                                       *)
LEMMA ResolvedSafe ==
    ASSUME SafeInv, TypeInv', NEW i \in Open, ClientUnchanged, UNCHANGED bundle,
           undo[bundle[i]] = NoUndo, client' = ClientIdle,
           \A j \in Refresh : c'[j].pc = "idle" /\ r'[j].pc = "idle" /\ f'[j].pc = "idle",
           Open' = Open \ {i},
           \/ Closed' = Closed /\ pointer \in Settled
           \/ Closed' = Closed \cup {i} /\ i \in finalized
    PROVE  SafeInv'
  <1>1. UNCHANGED <<pointer, store, undo, bundle, finalized, displaced>>
    BY DEF ClientUnchanged, kv, history
  <1>2. \A u \in Tx : undo[u] = NoUndo
    BY OneOpen DEF SafeInv
  <1>3. Traced' = Traced
    BY <1>1 DEF Traced
  <1>4. pointer \in Settled => pointer \in Settled'
    BY <1>1, <1>3 DEF Settled
  <1>5. pointer \in Pending /\ pointer \notin Settled => pointer \in Settled'
    <2>1. pointer \in Pending => pointer.by = i
      BY OneOpen DEF SafeInv
    <2>2. Pending \subseteq Traced /\ pointer \in Pointer
      BY DEF Pending, SafeInv, TypeInv, TypeOK
    <2> QED BY <1>1, <1>3, <2>1, <2>2 DEF Settled
  <1>6. PointerInv' /\ UndoInv'
    BY <1>1, <1>2, <1>4, <1>5 DEF SafeInv, PointerInv, UndoInv
  <1>7. CommitInv' /\ RollbackInv' /\ FinalizeInv'
    BY DEF CommitInv, CommitOK, RollbackInv, RollbackOK, FinalizeInv, BeforeUndo, AfterUndoPut
  <1>8. Exclusive'
    BY DEF SafeInv, Exclusive, ClientIdle
  <1> QED BY <1>6, <1>7, <1>8 DEF SafeInv

LEMMA ReplySafe ==
    ASSUME SafeInv, NEW i \in Refresh, CommitReply(i) \/ FinalizeReply(i) \/ RollbackReply(i)
    PROVE  SafeInv'
  <1>1. TypeInv'
    BY ClientTypes DEF SafeInv, ClientStep
  <1>2. ClientUnchanged /\ UNCHANGED bundle /\ client.who = i /\ client.pc # "idle"
    BY DEF CommitReply, FinalizeReply, RollbackReply
  <1>3. i \in Open /\ bundle[i] \in Tx
        /\ \A j \in Refresh \ {i} : c[j].pc = "idle" /\ r[j].pc = "idle" /\ f[j].pc = "idle"
    BY <1>2, OnlyHandler
  <1> USE IdleTypes DEF TypeInv, TypeOK
  <1>4. c \in [Refresh -> CommitHandler] /\ r \in [Refresh -> RollbackHandler]
        /\ f \in [Refresh -> FinalizeHandler] /\ journal \in [Refresh -> Journal]
    BY DEF SafeInv
  <1>5. CASE CommitReply(i)
    <2>1. r[i].pc = "idle" /\ f[i].pc = "idle"
      BY <1>2, <1>5, OnlyHandler DEF CommitReply
    <2>2. Starting(i)
      <3>1. c' = [c EXCEPT ![i] = CommitIdle]
        BY <1>5 DEF CommitReply
      <3>2. CASE c[i].result = "accepted"
        <4>1. f' = [f EXCEPT ![i] = [FinalizeIdle EXCEPT !.pc = "undo"]] /\ UNCHANGED r
              /\ client' = [client EXCEPT !.pc = "finalize"]
          BY <1>5, <3>2 DEF CommitReply
        <4>2. client'.pc = "finalize" /\ client'.who = i
          BY <1>2, <1>5, <4>1 DEF CommitReply
        <4>3. f'[i].pc = "undo"
          BY <1>4, <4>1 DEF FinalizeIdle
        <4> QED BY <1>3, <1>4, <2>1, <3>1, <4>1, <4>2, <4>3 DEF Starting
      <3>3. CASE c[i].result # "accepted"
        <4>1. r' = [r EXCEPT ![i] = [RollbackIdle EXCEPT !.pc = "undo"]] /\ UNCHANGED f
              /\ client' = [client EXCEPT !.pc = "rollback"]
          BY <1>5, <3>3 DEF CommitReply, StartRollback
        <4>2. client'.pc = "rollback" /\ client'.who = i
          BY <1>2, <1>5, <4>1 DEF CommitReply
        <4>3. r'[i].pc = "undo"
          BY <1>4, <4>1 DEF RollbackIdle
        <4> QED BY <1>3, <1>4, <2>1, <3>1, <4>1, <4>2, <4>3 DEF Starting
      <3> QED BY <3>2, <3>3
    <2>3. Open' = Open /\ Closed' = Closed
      BY <1>3, <1>4, <1>5 DEF CommitReply, Open, Closed, Unresolved
    <2> QED BY <1>1, <1>2, <2>2, <2>3, StartingSafe
  <1>6. CASE FinalizeReply(i) /\ f[i].result = "finalized"
    <2>1. c[i].pc = "idle" /\ r[i].pc = "idle" /\ f[i].pc = "done"
      BY <1>2, <1>6, OnlyHandler DEF FinalizeReply
    <2>2. undo[bundle[i]] = NoUndo /\ i \in finalized
      BY <1>6, <2>1 DEF SafeInv, FinalizeInv
    <2>3. /\ f' = [f EXCEPT ![i] = FinalizeIdle] /\ UNCHANGED <<c, r>>
          /\ journal' = [journal EXCEPT ![i] = "FINALIZED"] /\ client' = ClientIdle
      BY <1>6 DEF FinalizeReply
    <2>4. \A j \in Refresh : c'[j].pc = "idle" /\ r'[j].pc = "idle" /\ f'[j].pc = "idle"
      BY <1>3, <1>4, <2>1, <2>3
    <2>5. Open' = Open \ {i} /\ Closed' = Closed \cup {i}
      BY <1>4, <2>3 DEF Open, Closed, Unresolved
    <2> QED BY <1>1, <1>2, <1>3, <2>2, <2>3, <2>4, <2>5, ResolvedSafe
  <1>7. CASE FinalizeReply(i) /\ f[i].result # "finalized"
    <2>1. c[i].pc = "idle" /\ r[i].pc = "idle"
      BY <1>2, <1>7, OnlyHandler DEF FinalizeReply
    <2>2. /\ f' = [f EXCEPT ![i] = FinalizeIdle] /\ UNCHANGED <<c, journal>>
          /\ r' = [r EXCEPT ![i] = [RollbackIdle EXCEPT !.pc = "undo"]]
          /\ client' = [client EXCEPT !.pc = "rollback"] /\ client = [pc |-> "finalize", who |-> i]
      BY <1>7 DEF FinalizeReply, StartRollback
    <2>3. client'.pc = "rollback" /\ client'.who = i
      BY <2>2
    <2>4. r'[i].pc = "undo"
      BY <1>4, <2>2 DEF RollbackIdle
    <2>5. Starting(i)
      BY <1>3, <1>4, <2>1, <2>2, <2>3, <2>4 DEF Starting
    <2>6. Open' = Open /\ Closed' = Closed
      BY <2>2 DEF Open, Closed, Unresolved
    <2> QED BY <1>1, <1>2, <2>5, <2>6, StartingSafe
  <1>8. CASE RollbackReply(i)
    <2> DEFINE new == RolledBackAs(r[i].result, IF client.pc = "rollback" THEN "UNKNOWN" ELSE journal[i])
    <2>1. c[i].pc = "idle" /\ f[i].pc = "idle" /\ r[i].pc = "done"
      BY <1>2, <1>8, OnlyHandler DEF RollbackReply
    <2>2. r' = [r EXCEPT ![i] = RollbackIdle] /\ UNCHANGED <<c, f>> /\ client' = ClientIdle
          /\ journal' = [journal EXCEPT ![i] = new]
      BY <1>8 DEF RollbackReply
    <2>3. \A j \in Refresh : c'[j].pc = "idle" /\ r'[j].pc = "idle" /\ f'[j].pc = "idle"
      BY <1>3, <1>4, <2>1, <2>2
    <2>4. CASE r[i].result \in {"rolled_back", "not_committed"}
      <3>1. undo[bundle[i]] = NoUndo /\ pointer \in Settled
        BY <2>1, <2>4 DEF SafeInv, RollbackInv, RollbackOK
      <3>2. new \in {"ROLLED_BACK", "NOT_COMMITTED"}
        BY <2>4 DEF RolledBackAs
      <3> HIDE DEF new
      <3>3. Open' = Open \ {i} /\ Closed' = Closed
        BY <1>3, <1>4, <2>2, <3>2 DEF Open, Closed, Unresolved
      <3> QED BY <1>1, <1>2, <1>3, <2>2, <2>3, <3>1, <3>3, ResolvedSafe
    <2>5. CASE r[i].result \notin {"rolled_back", "not_committed"}
      <3>1. new \in {"UNKNOWN", journal[i]}
        BY <2>5 DEF RolledBackAs
      <3> HIDE DEF new
      <3>2. Open' = Open /\ Closed' = Closed
        BY <1>3, <1>4, <2>2, <3>1 DEF Open, Closed, Unresolved
      <3>3. Starting(i)
        BY <2>2, <2>3 DEF Starting
      <3> QED BY <1>1, <1>2, <3>2, <3>3, StartingSafe
    <2> QED BY <2>4, <2>5
  <1> QED BY <1>5, <1>6, <1>7, <1>8

(* The client starts over, gives up or dies: the handlers it leaves behind    *)
(* end with it.                                                               *)
LEMMA LeaveSafe ==
    ASSUME SafeInv, LateHandlers = FALSE, NEW i \in Refresh,
           RefreshNotAttempted(i) \/ Reconcile(i) \/ Timeout(i) \/ ClientCrash(i)
    PROVE  SafeInv'
  <1>1. TypeInv'
    BY ClientTypes DEF SafeInv, ClientStep
  <1>2. ClientUnchanged /\ UNCHANGED bundle
    BY DEF RefreshNotAttempted, Reconcile, Timeout, ClientCrash
  <1> USE IdleTypes DEF TypeInv, TypeOK
  <1>3. c \in [Refresh -> CommitHandler] /\ r \in [Refresh -> RollbackHandler]
        /\ f \in [Refresh -> FinalizeHandler] /\ journal \in [Refresh -> Journal]
    BY DEF SafeInv
  <1>4. \A h, idle : Abandoned(h, idle) = idle
    BY DEF Abandoned
  <1>5. [RollbackIdle EXCEPT !.pc = "undo"].pc = "undo"
    BY DEF RollbackIdle
  <1>6. CASE RefreshNotAttempted(i)
    <2>1. client.pc = "idle" /\ journal[i] = "ABSENT" /\ UNCHANGED <<client, c, r, f>>
          /\ journal' = [journal EXCEPT ![i] = "NOT_ATTEMPTED"]
      BY <1>6 DEF RefreshNotAttempted, worker
    <2>2. \A j \in Refresh : c[j].pc = "idle" /\ r[j].pc = "idle" /\ f[j].pc = "idle"
      BY <2>1 DEF SafeInv, Exclusive
    <2>3. client = ClientIdle
      BY <2>1 DEF SafeInv, BegunOK, ClientIdle
    <2>4. Open' = Open /\ Closed' = Closed
      BY <1>3, <2>1 DEF Open, Closed, Unresolved
    <2>5. Starting(i)
      BY <2>1, <2>2, <2>3 DEF Starting
    <2> QED BY <1>1, <1>2, <2>4, <2>5, StartingSafe
  <1>7. CASE Reconcile(i)
    <2>1. client.pc = "idle" /\ i \in Open /\ UNCHANGED <<c, f, journal>>
          /\ client' = [pc |-> "reconcile", who |-> i]
          /\ r' = [r EXCEPT ![i] = [RollbackIdle EXCEPT !.pc = "undo"]]
      BY <1>7 DEF Reconcile, StartRollback, Open
    <2>2. \A j \in Refresh : c[j].pc = "idle" /\ r[j].pc = "idle" /\ f[j].pc = "idle"
      BY <2>1 DEF SafeInv, Exclusive
    <2>3. Open' = Open /\ Closed' = Closed
      BY <2>1 DEF Open, Closed, Unresolved
    <2>4. r'[i].pc = "undo" /\ \A j \in Refresh \ {i} : r'[j] = r[j]
      BY <1>3, <1>5, <2>1
    <2>5. Starting(i)
      BY <2>1, <2>2, <2>4 DEF Starting
    <2> QED BY <1>1, <1>2, <2>3, <2>5, StartingSafe
  <1>8. CASE Timeout(i)
    <2>0. /\ client.who = i
          /\ c' = [c EXCEPT ![i] = Abandoned(@, CommitIdle)]
          /\ f' = [f EXCEPT ![i] = Abandoned(@, FinalizeIdle)]
      BY <1>8, Zenon DEF Timeout
    <2>1. client.who = i /\ c' = [c EXCEPT ![i] = CommitIdle] /\ f' = [f EXCEPT ![i] = FinalizeIdle]
      BY <1>4, <2>0
    <2>2. client.pc # "idle"
      BY <1>8 DEF Timeout
    <2>3. i \in Open
          /\ \A j \in Refresh \ {i} : c[j].pc = "idle" /\ r[j].pc = "idle" /\ f[j].pc = "idle"
      BY <2>1, <2>2, OnlyHandler
    <2>4. CASE client.pc \in {"commit", "finalize"}
      <3>1. client' = [client EXCEPT !.pc = "rollback"] /\ UNCHANGED journal
            /\ r' = [r EXCEPT ![i] = [RollbackIdle EXCEPT !.pc = "undo"]]
        BY <1>8, <2>4 DEF Timeout, StartRollback
      <3>2. client'.pc = "rollback" /\ client'.who = i
        BY <2>1, <3>1 DEF SafeInv
      <3>3. r'[i].pc = "undo" /\ \A j \in Refresh \ {i} : r'[j] = r[j]
        BY <1>3, <1>5, <3>1
      <3>4. Open' = Open /\ Closed' = Closed
        BY <3>1 DEF Open, Closed, Unresolved
      <3>5. Starting(i)
        BY <1>3, <2>1, <2>3, <3>2, <3>3 DEF Starting
      <3> QED BY <1>1, <1>2, <3>4, <3>5, StartingSafe
    <2>5. CASE client.pc \in {"rollback", "reconcile"}
      <3>1. client' = ClientIdle /\ r' = [r EXCEPT ![i] = RollbackIdle]
            /\ journal' \in {journal, [journal EXCEPT ![i] = "UNKNOWN"]}
        BY <1>4, <1>8, <2>5 DEF Timeout
      <3>2. Open' = Open /\ Closed' = Closed
        BY <1>3, <2>3, <3>1 DEF Open, Closed, Unresolved
      <3>3. Starting(i)
        BY <1>3, <2>1, <2>3, <3>1 DEF Starting
      <3> QED BY <1>1, <1>2, <3>2, <3>3, StartingSafe
    <2> QED BY <1>8, <2>4, <2>5 DEF Timeout
  <1>9. CASE ClientCrash(i)
    <2>1. /\ client.who = i /\ client' = ClientIdle /\ UNCHANGED journal
          /\ c' = [c EXCEPT ![i] = CommitIdle] /\ r' = [r EXCEPT ![i] = RollbackIdle]
          /\ f' = [f EXCEPT ![i] = FinalizeIdle]
      BY <1>4, <1>9 DEF ClientCrash
    <2>2. client.pc # "idle"
      BY <2>1, NilAssumption DEF SafeInv, BegunOK
    <2>3. \A j \in Refresh \ {i} : c[j].pc = "idle" /\ r[j].pc = "idle" /\ f[j].pc = "idle"
      BY <2>1, <2>2, OnlyHandler
    <2>4. Open' = Open /\ Closed' = Closed
      BY <2>1 DEF Open, Closed, Unresolved
    <2>5. Starting(i)
      BY <1>3, <2>1, <2>3 DEF Starting
    <2> QED BY <1>1, <1>2, <2>4, <2>5, StartingSafe
  <1> QED BY <1>6, <1>7, <1>8, <1>9

-----------------------------------------------------------------------------
LEMMA InitSafe == Init => SafeInv
  <1> SUFFICES ASSUME Init PROVE SafeInv
    OBVIOUS
  <1>1. TypeInv
    BY InitTypes
  <1>2. \A j \in Refresh : c[j].pc = "idle" /\ r[j].pc = "idle" /\ f[j].pc = "idle"
    BY IdleTypes DEF Init
  <1>3. Open = {} /\ client.pc = "idle" /\ \A t \in Tx : undo[t] = NoUndo
    BY DEF Init, Open, Unresolved
  <1>4. pointer \in Settled
    BY NilAssumption, HourlyAssumption DEF Init, Settled, Pointer
  <1> QED BY <1>1, <1>2, <1>3, <1>4 DEF SafeInv, Exclusive, PointerInv, UndoInv, CommitInv, CommitOK,
          RollbackInv, RollbackOK, FinalizeInv, BeforeUndo, AfterUndoPut

LEMMA StepSafe ==
    ASSUME LateHandlers = FALSE
    PROVE  SafeInv /\ [Next]_vars => SafeInv'
  <1> SUFFICES ASSUME SafeInv, [Next]_vars PROVE SafeInv'
    OBVIOUS
  <1>1. ASSUME NEW i \in Refresh, WorkerStep(i) \/ HandlerFails(i) PROVE SafeInv'
    BY <1>1, CommitSafe, RollbackSafe, FinalizeSafe, FailSafe DEF WorkerStep
  <1>2. ASSUME NEW i \in Refresh,
               ClientStep(i) \/ Reconcile(i) \/ Timeout(i) \/ ClientCrash(i)
        PROVE  SafeInv'
    BY <1>2, StartSafe, ReplySafe, LeaveSafe DEF ClientStep
  <1>3. CASE HourlyPublish
    BY <1>3, HourlySafe
  <1>4. CASE UNCHANGED <<pointer, store, undo, worker, local, history>>
    BY <1>4, QuietSafe, StepTypes DEF SafeInv
  <1>5. ASSUME NEW t \in Tx, BundleExpires(t) PROVE SafeInv'
    BY <1>4, <1>5 DEF BundleExpires, kv
  <1>6. ASSUME NEW q \in Question, ReaderStep(q) PROVE SafeInv'
    BY <1>4, <1>6, ReaderSteps DEF SafeInv, kv
  <1>7. CASE UNCHANGED vars
    BY <1>4, <1>7 DEF vars, worker, local, history
  <1> QED BY <1>1, <1>2, <1>3, <1>5, <1>6, <1>7, Zenon DEF Next

(* The invariant holds of every run without late handlers. *)
LEMMA AlwaysSafe ==
    ASSUME LateHandlers = FALSE
    PROVE  Spec => []SafeInv
  <1>1. SafeInv /\ [Next]_vars => SafeInv'
    BY StepSafe
  <1> QED BY <1>1, InitSafe, PTL DEF Spec

-----------------------------------------------------------------------------
(* Pointer-last publication: whenever an activation is served, every object   *)
(* its seal lists is stored and is the one listed, whatever commits of other  *)
(* bundles have started, failed or been undone (ingestV213ActivationBundle).  *)
THEOREM ServedIsComplete ==
    ASSUME LateHandlers = FALSE
    PROVE  Spec => []PromotedSnapshotComplete
  <1>1. SafeInv => PromotedSnapshotComplete
    BY DEF SafeInv, PointerInv, Settled, Pending, Traced, PromotedSnapshotComplete
  <1> QED BY <1>1, AlwaysSafe, PTL

(* A served activation can be rolled back until it has been finalized: its    *)
(* rollback journal is there after any failure of commit, rollback, finalize  *)
(* or client (rollback_available in the commit's answer).                     *)
THEOREM ServedIsRecoverable ==
    ASSUME LateHandlers = FALSE
    PROVE  Spec => []Recoverable
  <1>1. SafeInv => Recoverable
    BY DEF SafeInv, PointerInv, Settled, Pending, Recoverable
  <1> QED BY <1>1, AlwaysSafe, PTL

(* The pointer that rollbackV213Activation would restore is exactly the one   *)
(* the served activation displaced (exact_pointer_restored).                  *)
THEOREM RollbackIsExact ==
    ASSUME LateHandlers = FALSE
    PROVE  Spec => []RollbackTarget
  <1>1. SafeInv => RollbackTarget
    <2> SUFFICES ASSUME SafeInv, pointer \in Sealed, undo[pointer.tx] # NoUndo
                 PROVE  undo[pointer.tx] = displaced[pointer.tx]
      BY DEF RollbackTarget
    <2>1. CASE pointer \in Pending
      BY <2>1 DEF Pending
    <2>2. CASE pointer \in Settled
      <3>1. pointer.tx \in Tx /\ CurrentRun(pointer) = RunOf[pointer.tx]
        BY <2>2 DEF Settled, Traced, Sealed, CurrentRun
      <3>2. pointer \in Pending
        BY <3>1 DEF SafeInv, UndoInv
      <3> QED BY <2>2, <3>2, SettledNotPending
    <2> QED BY <2>1, <2>2 DEF SafeInv, PointerInv
  <1> QED BY <1>1, AlwaysSafe, PTL

(* What a journal file records as ROLLED_BACK or NOT_COMMITTED, and so lets   *)
(* the next refresh start, is not being served.                               *)
THEOREM UndoneIsNotServed ==
    ASSUME LateHandlers = FALSE
    PROVE  Spec => []UndoneNotServed
  <1>1. SafeInv => UndoneNotServed
    BY DEF SafeInv, PointerInv, Settled, Pending, Traced, Open, Closed, Unresolved, UndoneNotServed
  <1> QED BY <1>1, AlwaysSafe, PTL

(* No rollback, of this or of another bundle with the same run id, replaces   *)
(* the pointer of a refresh that was reported FINALIZED.                      *)
THEOREM FinalizedStays ==
    ASSUME LateHandlers = FALSE
    PROVE  Spec => FinalizedNeverUndone
  <1> DEFINE Kept == \A i \in Refresh :
          RollbackRestore(i) /\ pointer \in Sealed => journal[pointer.by] # "FINALIZED"
  <1>1. SafeInv => Kept
    <2> SUFFICES ASSUME SafeInv, NEW i \in Refresh, RollbackRestore(i)
                 PROVE  journal[pointer.by] # "FINALIZED"
      OBVIOUS
    <2>1. pointer \in Pending
      BY DEF SafeInv, RollbackInv, RollbackOK, RollbackRestore
    <2> QED BY <2>1 DEF Pending, Open, Unresolved
  <1>2. SafeInv /\ [Next]_vars => [Kept]_vars
    BY <1>1
  <1>3. Spec => [][Kept]_vars
    BY <1>2, AlwaysSafe, PTL DEF Spec
  <1> QED BY <1>3 DEF FinalizedNeverUndone

-----------------------------------------------------------------------------
(***************************************************************************)
(* The refinement of PublishedSnapshot: the promotion is the switch, the   *)
(* rollback's restore is the undo, the finalize's deletion of the journal  *)
(* keeps the snapshot, and no other step of the transaction shows.         *)
(***************************************************************************)
Abstract == <<pointer, Shown, Spare, hourly>>
Wholes == [p \in Pointer |-> Objects(p)]

(* What is served is whole; a settled pointer has nothing to undo, a pending  *)
(* one its journal.                                                           *)
LEMMA ShownIsWhole ==
    ASSUME SafeInv
    PROVE  pointer \in Pointer /\ Shown = Wholes[pointer]
  <1>1. pointer \in Pointer /\ store \in [Run -> [Slot -> Item \cup {Nil}]]
    BY DEF SafeInv, TypeInv, TypeOK
  <1>2. CASE pointer \in Sealed
    <2>1. pointer \in Traced
      BY <1>2 DEF SafeInv, PointerInv, Settled, Pending
    <2>2. PICK p : p = pointer
      OBVIOUS
    <2>3. p.run \in Run /\ \A s \in Slot : store[p.run][s] = ItemOf(p.tx, p.seal, s)
      BY <1>2, <2>1, <2>2 DEF Traced, Sealed
    <2>4. store[p.run] = [s \in Slot |-> ItemOf(p.tx, p.seal, s)]
      BY <1>1, <2>3
    <2> QED BY <1>1, <1>2, <2>2, <2>4 DEF Shown, Wholes, Objects
  <1>3. CASE pointer \notin Sealed
    BY <1>1, <1>3 DEF Shown, Wholes, Objects
  <1> QED BY <1>1, <1>2, <1>3

LEMMA SettledSpare ==
    ASSUME SafeInv, pointer \in Settled
    PROVE  Spare = NoUndo
  <1>1. CASE pointer \in Sealed
    <2>1. pointer.tx \in Tx /\ CurrentRun(pointer) = RunOf[pointer.tx]
      BY <1>1 DEF Settled, Traced, Sealed, CurrentRun
    <2>2. pointer \notin Pending
      BY SettledNotPending
    <2> QED BY <1>1, <2>1, <2>2 DEF SafeInv, UndoInv, Spare
  <1>2. CASE pointer \notin Sealed
    BY <1>2 DEF Spare
  <1> QED BY <1>1, <1>2

LEMMA PendingSpare ==
    ASSUME SafeInv, NEW i \in Open, pointer \in Pending
    PROVE  Spare = undo[bundle[i]]
  BY OneOpen DEF SafeInv, Pending, Traced, Spare

(* The same in the next state. *)
LEMMA ShownIsWholeNext == SafeInv' => pointer' \in Pointer /\ Shown' = Wholes[pointer']
  <1> DEFINE Served == pointer \in Pointer /\ Shown = Wholes[pointer]
  <1>1. SafeInv => Served
    BY ShownIsWhole
  <1> HIDE DEF Served
  <1>2. SafeInv' => Served'
    BY <1>1, PTL
  <1> QED BY <1>2 DEF Served, Wholes, Objects, Pointer, Sealed, Slot, SealSlot

LEMMA SettledSpareNext == SafeInv' /\ pointer' \in Settled' => Spare' = NoUndo
  <1> DEFINE Done == pointer \in Settled => Spare = NoUndo
  <1>1. SafeInv => Done
    BY SettledSpare
  <1> HIDE DEF Done
  <1>2. SafeInv' => Done'
    BY <1>1, PTL
  <1> QED BY <1>2 DEF Done

(* The handlers publish no edition. *)
LEMMA NoEdition ==
    ASSUME NEW i \in Refresh, WorkerStep(i)
    PROVE  UNCHANGED hourly
  <1>1. CASE CommitStep(i)
    BY <1>1 DEF CommitStep, CommitReadPointer, CommitReadUndo, CommitReadClaim, CommitReadSeal,
                CommitReplay, CommitPutUndo, CommitPutClaim, CommitCheckClaim, CommitPut,
                CommitVerify, CommitPromote, CommitCheckPointer, CommitReverify, PutUndo,
                CommitUnchanged
  <1>2. CASE RollbackStep(i)
    BY <1>2 DEF RollbackStep, RollbackReadUndo, RollbackReadPointer, RollbackRestore,
                RollbackCheck, RollbackDelete, RollbackUnchanged
  <1>3. CASE FinalizeStep(i)
    BY <1>3 DEF FinalizeStep, FinalizeReadUndo, FinalizeReadPointer, FinalizeVerify,
                FinalizeCheck, FinalizeDelete, FinalizeUnchanged
  <1> QED BY <1>1, <1>2, <1>3 DEF WorkerStep

(* A settled pointer that stays, whatever is written beside it, does not show. *)
LEMMA SettledStays ==
    ASSUME SafeInv, SafeInv', pointer \in Settled, pointer' \in Settled',
           UNCHANGED <<pointer, hourly>>
    PROVE  UNCHANGED Abstract
  BY ShownIsWhole, ShownIsWholeNext, SettledSpare, SettledSpareNext DEF Abstract

LEMMA CommitShows ==
    ASSUME SafeInv, SafeInv', NEW i \in Refresh, CommitStep(i)
    PROVE  [Published!Next]_Abstract
  <1> DEFINE t == bundle[i]
  <1>0. UNCHANGED hourly
    BY NoEdition DEF WorkerStep
  <1>1. CommitOK(i) /\ UNCHANGED bundle /\ Closed' = Closed
    BY CommitMoves DEF SafeInv, CommitInv
  <1>2. CASE UNCHANGED <<pointer, store, undo>>
    BY <1>0, <1>2 DEF Abstract, Shown, Spare
  <1>3. CASE CommitPutUndo(i)
    <2>1. pointer \in Settled /\ UNCHANGED <<pointer, store, finalized>>
      BY <1>1, <1>3 DEF CommitPutUndo, PutUndo, CommitOK, BeforeUndo, history
    <2>2. pointer' \in Settled'
      BY <1>1, <2>1 DEF Settled, Traced
    <2> QED BY <1>0, <2>1, <2>2, SettledStays
  <1>4. CASE CommitPutClaim(i) \/ CommitPut(i)
    <2>1. store \in [Run -> [Slot -> Item \cup {Nil}]]
      BY DEF SafeInv, TypeInv, TypeOK
    <2>2. /\ c[i].pc \in AfterUndoPut /\ UNCHANGED <<pointer, finalized>>
          /\ \A y \in Run \ {RunOf[t]} : store'[y] = store[y]
      BY <1>4, <2>1 DEF CommitPutClaim, CommitPut, AfterUndoPut, history
    <2>3. pointer \in Settled /\ CurrentRun(pointer) # RunOf[t]
      BY <1>1, <2>2 DEF CommitOK
    <2>4. pointer' \in Settled'
      BY <1>1, <2>2, <2>3, OtherRun
    <2> QED BY <1>0, <2>2, <2>3, <2>4, SettledStays
  <1>5. CASE CommitPromote(i) /\ t \notin stale
    <2>1. i \in Open /\ t \in Tx
      BY CommitMoves DEF SafeInv, Exclusive, TypeInv, BegunOK, Begun, Open, Unresolved
    <2>2. c[i].pc = "promote" /\ pointer' = PointerOf(i) /\ UNCHANGED undo
      BY <1>5 DEF CommitPromote
    <2>3. pointer \in Settled /\ undo[t] = pointer /\ CurrentRun(pointer) # RunOf[t]
      BY <1>1, <2>2 DEF CommitOK, AfterUndoPut
    <2>4. c[i].at \in Refresh
      BY <2>2 DEF SafeInv, TypeInv, ClaimOK, AfterClaim, CommitPc
    <2>5. pointer' \in Sealed /\ pointer'.run = RunOf[t] /\ pointer'.tx = t
      BY <2>1, <2>2, <2>4, RunOfAssumption DEF PointerOf, Sealed
    <2>6. pointer' # pointer
      BY <2>3, <2>5 DEF CurrentRun
    <2>7. Spare = NoUndo /\ Spare' = pointer
      BY <2>2, <2>3, <2>5, SettledSpare DEF Spare
    <2>8. Shown' = Wholes[pointer']
      BY ShownIsWholeNext
    <2>9. Published!Switch
      BY <1>0, <2>5, <2>6, <2>7, <2>8 DEF Published!Switch, Wholes
    <2> QED BY <2>9 DEF Published!Next
  <1>6. CASE CommitPromote(i) /\ t \in stale
    BY <1>2, <1>6 DEF CommitPromote
  <1>7. CASE \/ CommitReadPointer(i) \/ CommitReadUndo(i) \/ CommitReadClaim(i) \/ CommitReadSeal(i)
             \/ CommitReplay(i) \/ CommitCheckClaim(i) \/ CommitVerify(i) \/ CommitCheckPointer(i)
             \/ CommitReverify(i)
    BY <1>2, <1>7 DEF kv, CommitReadPointer, CommitReadUndo, CommitReadClaim, CommitReadSeal,
                      CommitReplay, CommitCheckClaim, CommitVerify, CommitCheckPointer, CommitReverify
  <1> QED BY <1>3, <1>4, <1>5, <1>6, <1>7 DEF CommitStep

LEMMA RollbackShows ==
    ASSUME SafeInv, SafeInv', NEW i \in Refresh, RollbackStep(i)
    PROVE  [Published!Next]_Abstract
  <1> DEFINE t == bundle[i]
  <1>0. UNCHANGED hourly
    BY NoEdition DEF WorkerStep
  <1>1. RollbackOK(i) /\ UNCHANGED <<bundle, store, finalized>> /\ Closed' = Closed
    BY RollbackMoves DEF SafeInv, RollbackInv
  <1>2. i \in Open /\ t \in Tx
    BY RollbackMoves DEF SafeInv, Exclusive, TypeInv, BegunOK, Begun, Open, Unresolved
  <1>3. Settled' = Settled
    BY <1>1 DEF Settled, Traced
  <1>4. CASE RollbackRestore(i)
    <2>1. pointer \in Pending /\ undo[t] # NoUndo /\ pointer' = undo[t]
      BY <1>1, <1>4 DEF RollbackRestore, RollbackOK
    <2>2. Spare = undo[t]
      BY <1>2, <2>1, PendingSpare
    <2>3. undo[t] \in Settled
      BY <1>2, <2>1 DEF SafeInv, UndoInv
    <2>4. Spare' = NoUndo
      BY <1>3, <2>1, <2>3, SettledSpareNext
    <2>5. Shown' = Wholes[pointer']
      BY ShownIsWholeNext
    <2>6. Published!Undo
      BY <1>0, <2>1, <2>2, <2>4, <2>5 DEF Published!Undo, Wholes
    <2> QED BY <2>6 DEF Published!Next
  <1>5. CASE RollbackDelete(i)
    <2>1. pointer = undo[t] /\ undo[t] # NoUndo /\ UNCHANGED pointer
      BY <1>1, <1>5 DEF RollbackDelete, RollbackOK
    <2>2. pointer \in Settled
      BY <1>2, <2>1 DEF SafeInv, UndoInv
    <2> QED BY <1>0, <1>3, <2>1, <2>2, SettledStays
  <1>6. CASE RollbackReadUndo(i) \/ RollbackReadPointer(i) \/ RollbackCheck(i)
    BY <1>0, <1>1, <1>6 DEF RollbackReadUndo, RollbackReadPointer, RollbackCheck, Abstract, Shown, Spare
  <1> QED BY <1>4, <1>5, <1>6 DEF RollbackStep

(* A finalize deletes the journal of the pointer it verified: nothing can be  *)
(* undone any more.                                                           *)
LEMMA FinalizeShows ==
    ASSUME SafeInv, SafeInv', NEW i \in Refresh, FinalizeStep(i)
    PROVE  [Published!Next]_Abstract
  <1> DEFINE t == bundle[i]
  <1>0. UNCHANGED hourly
    BY NoEdition DEF WorkerStep
  <1>1. UNCHANGED <<pointer, bundle, store>>
    BY FinalizeMoves DEF SafeInv
  <1>2. i \in Open /\ t \in Tx
    BY FinalizeMoves DEF SafeInv, Exclusive, TypeInv, BegunOK, Begun, Open, Unresolved
  <1>3. CASE UNCHANGED undo
    BY <1>0, <1>1, <1>3 DEF Abstract, Shown, Spare
  <1>4. CASE FinalizeDelete(i)
    <2>1. undo' = [undo EXCEPT ![t] = NoUndo] /\ undo \in [Tx -> Pointer \cup {NoUndo}]
      BY <1>4 DEF FinalizeDelete, SafeInv, TypeInv, TypeOK
    <2>2. Shown' = Shown
      BY <1>1 DEF Shown
    <2>3. Spare' = Spare \/ Spare' = NoUndo
      <3>1. CASE pointer \in Sealed
        <4>1. pointer.tx \in Tx
          BY <3>1 DEF Sealed
        <4> QED BY <1>1, <2>1, <3>1, <4>1 DEF Spare
      <3>2. CASE pointer \notin Sealed
        BY <1>1, <3>2 DEF Spare
      <3> QED BY <3>1, <3>2
    <2>4. CASE Spare' = Spare
      BY <1>0, <1>1, <2>2, <2>4 DEF Abstract
    <2>5. CASE Spare' = NoUndo /\ Spare # NoUndo
      BY <1>0, <1>1, <2>2, <2>5 DEF Published!Next, Published!Keep
    <2> QED BY <2>3, <2>4, <2>5
  <1>5. CASE FinalizeReadUndo(i) \/ FinalizeReadPointer(i) \/ FinalizeVerify(i) \/ FinalizeCheck(i)
    BY <1>3, <1>5 DEF FinalizeReadUndo, FinalizeReadPointer, FinalizeVerify, FinalizeCheck
  <1> QED BY <1>4, <1>5 DEF FinalizeStep

LEMMA HourlyShows ==
    ASSUME SafeInv', HourlyPublish
    PROVE  [Published!Next]_Abstract
  <1>1. pointer' \in Hourly \ hourly /\ hourly' = hourly \cup {pointer'}
    BY DEF HourlyPublish
  <1>2. pointer' \notin Sealed
    BY <1>1, HourlyAssumption
  <1>3. Spare' = NoUndo /\ Shown' = Wholes[pointer']
    BY <1>2, ShownIsWholeNext DEF Spare
  <1>4. Published!Publish
    BY <1>1, <1>3 DEF Published!Publish, Wholes
  <1> QED BY <1>4 DEF Published!Next

LEMMA StepShows == SafeInv /\ SafeInv' /\ [Next]_vars => [Published!Next]_Abstract
  <1> SUFFICES ASSUME SafeInv, SafeInv', [Next]_vars PROVE [Published!Next]_Abstract
    OBVIOUS
  <1>1. CASE UNCHANGED <<kv, hourly>>
    BY <1>1 DEF kv, Abstract, Shown, Spare
  <1>2. ASSUME NEW i \in Refresh, WorkerStep(i) PROVE [Published!Next]_Abstract
    BY <1>2, CommitShows, RollbackShows, FinalizeShows DEF WorkerStep
  <1>3. ASSUME NEW i \in Refresh,
               HandlerFails(i) \/ ClientStep(i) \/ Reconcile(i) \/ Timeout(i) \/ ClientCrash(i)
        PROVE  UNCHANGED <<kv, hourly>>
    BY <1>3 DEF HandlerFails, ClientStep, RefreshNotAttempted, StartRefresh, CommitReply,
                FinalizeReply, RollbackReply, Reconcile, Timeout, ClientCrash, ClientUnchanged, kv
  <1>4. ASSUME NEW t \in Tx, BundleExpires(t) PROVE UNCHANGED <<kv, hourly>>
    BY <1>4 DEF BundleExpires
  <1>5. ASSUME NEW q \in Question, ReaderStep(q) PROVE UNCHANGED <<kv, hourly>>
    BY <1>5 DEF ReaderStep, ReaderPin, ReaderRead, ReaderDone, ReaderUnchanged
  <1>6. UNCHANGED vars => UNCHANGED <<kv, hourly>>
    BY DEF vars, kv
  <1> QED BY <1>1, <1>2, <1>3, <1>4, <1>5, <1>6, HourlyShows DEF Next

(* Without late handlers every history of commits, rollbacks, finalizations,  *)
(* failures and hourly publications is one that PublishedSnapshot allows: the *)
(* served snapshot changes at once and whole, and is undone, at most once and *)
(* never after it was kept, to exactly what it displaced.                     *)
THEOREM ImplementsPublished ==
    ASSUME LateHandlers = FALSE
    PROVE  Spec => SwitchesAtOnce
  <1>1. Init => Published!Init
    <2> SUFFICES ASSUME Init PROVE Published!Init
      OBVIOUS
    <2>1. SafeInv
      BY InitSafe
    <2>2. pointer \in Hourly \cup {Nil} /\ pointer \notin Sealed /\ hourly = {pointer}
      BY NilAssumption, HourlyAssumption DEF Init
    <2> QED BY <2>1, <2>2, ShownIsWhole DEF Published!Init, Spare, Wholes
  <1>2. SafeInv /\ SafeInv' /\ [Next]_vars => [Published!Next]_<<pointer, Shown, Spare, hourly>>
    BY StepShows DEF Abstract
  <1> QED BY <1>1, <1>2, AlwaysSafe, PTL DEF Spec, SwitchesAtOnce, Published!Spec

=============================================================================
