----------------------- MODULE GuidanceCapturesProofs -----------------------
(***************************************************************************)
(* Every behaviour of the capture store counts its files and their bytes   *)
(* exactly, for any set of captures of any size: the reservation of the    *)
(* capture being written is the only one that may be open.                 *)
(***************************************************************************)
EXTENDS GuidanceCaptures, FiniteSetTheorems, TLAPS

\* The journal's fields.
LedgerShape ==
    ledger = [bytes |-> ledger.bytes, files |-> ledger.files, pending |-> ledger.pending]

\* What is on the disk and reserved, by the file written next.
Writing ==
    /\ raw \subseteq Page /\ meta \subseteq raw /\ IsFiniteSet(raw)
    /\ \/ stage = "closed" /\ (ledger.pending = {} \/ \E p \in Page : ledger.pending = {p})
       \/ stage = "open" /\ ledger.pending = {}
       \/ stage = "raw" /\ storing \in Page \ raw /\ ledger.pending = {storing}
       \/ stage \in {"meta", "settle"} /\ storing \in raw /\ ledger.pending = {storing}
    /\ stage \in {"closed", "open"} => storing = NoPage

FilesExact == ledger.files = Cardinality(raw \cup ledger.pending)

BytesExact == /\ IsFiniteSet(Content(raw))
              /\ ledger.bytes = Bytes(raw \cup ledger.pending)

StoreInv == LedgerShape /\ Writing /\ FilesExact /\ BytesExact

-----------------------------------------------------------------------------

\* Adding one element that may be there already.
LEMMA AddedCardinality ==
    ASSUME NEW S, IsFiniteSet(S), NEW p
    PROVE  /\ IsFiniteSet(S \cup {p})
           /\ Cardinality(S) \in Nat
           /\ p \in S => Cardinality(S \cup {p}) = Cardinality(S)
           /\ p \notin S => Cardinality(S \cup {p}) = Cardinality(S) + 1
  BY FS_AddElement, FS_CardinalityType

\* The bytes of one more capture.
LEMMA AddedBytes ==
    ASSUME NEW S, IsFiniteSet(Content(S)), NEW p \in Page
    PROVE  /\ IsFiniteSet(Content(S \cup {p})) /\ Bytes(S) \in Nat
           /\ p \notin S => Bytes(S \cup {p}) = Bytes(S) + Size[p]
  <1> DEFINE New == {p} \X (1 .. Size[p])
  <1>1. Content(S \cup {p}) = Content(S) \cup New
    BY DEF Content
  <1>2. Size[p] \in Nat
    BY SizeAssumption
  <1>3. IsFiniteSet({p}) /\ Cardinality({p}) = 1
    BY FS_Singleton
  <1>4. IsFiniteSet(1 .. Size[p]) /\ Cardinality(1 .. Size[p]) = Size[p]
    BY <1>2, FS_Interval
  <1>5. IsFiniteSet(New) /\ Cardinality(New) = Size[p]
    <2>1. /\ IsFiniteSet({p} \X (1 .. Size[p]))
          /\ Cardinality({p} \X (1 .. Size[p])) = Cardinality({p}) * Cardinality(1 .. Size[p])
      BY <1>3, <1>4, FS_Product, Zenon
    <2>2. Cardinality(New) = 1 * Size[p]
      BY <1>3, <1>4, <2>1
    <2> QED
      BY <1>2, <2>1, <2>2
  <1>6. Bytes(S) \in Nat
    BY FS_CardinalityType DEF Bytes
  <1>7. ASSUME p \notin S
        PROVE  Bytes(S \cup {p}) = Bytes(S) + Size[p]
    <2>1. Content(S) \cap New = {}
      BY <1>7 DEF Content
    <2>2. Cardinality(Content(S) \cap New) = 0
      BY <2>1, FS_EmptySet
    <2> HIDE DEF New
    <2>3. Cardinality(Content(S) \cup New) = Cardinality(Content(S)) + Cardinality(New) - 0
      BY <1>5, <2>2, FS_Union, Zenon
    <2>4. Bytes(S \cup {p}) = Cardinality(Content(S) \cup New)
      BY <1>1, Zenon DEF Bytes
    <2>5. Bytes(S) = Cardinality(Content(S))
      BY DEF Bytes
    <2> QED
      BY <1>2, <1>5, <1>6, <2>3, <2>4, <2>5
  <1>8. IsFiniteSet(Content(S \cup {p}))
    <2> HIDE DEF New
    <2> QED
      BY <1>1, <1>5, FS_Union, Zenon
  <1> QED
    BY <1>6, <1>7, <1>8

LEMMA NoBytes == Content({}) = {} /\ IsFiniteSet(Content({})) /\ Bytes({}) = 0
  <1>1. Content({}) = {}
    BY DEF Content
  <1> QED
    BY <1>1, FS_EmptySet DEF Bytes

LEMMA OneBytes ==
    ASSUME NEW p \in Page
    PROVE  Bytes({p}) = Size[p]
  <1>1. {} \cup {p} = {p}
    OBVIOUS
  <1> QED
    BY <1>1, NoBytes, AddedBytes, SizeAssumption

\* At most one reservation is ever open.
LEMMA OnePending ==
    ASSUME Writing
    PROVE  IsFiniteSet(ledger.pending) /\ Cardinality(ledger.pending) <= 1
  <1>1. ledger.pending = {} \/ \E p : ledger.pending = {p}
    BY DEF Writing
  <1>2. CASE ledger.pending = {}
    BY <1>2, FS_EmptySet
  <1>3. CASE \E p : ledger.pending = {p}
    <2>1. PICK p : ledger.pending = {p}
      BY <1>3
    <2>2. IsFiniteSet({p}) /\ Cardinality({p}) = 1
      BY FS_Singleton
    <2> QED
      BY <2>1, <2>2
  <1> QED
    BY <1>1, <1>2, <1>3

LEMMA StoreInitial == StoreInit => StoreInv
  <1> SUFFICES ASSUME StoreInit PROVE StoreInv
    OBVIOUS
  <1>1. raw = {} /\ raw \cup ledger.pending = {} /\ ledger.bytes = 0 /\ ledger.files = 0
    BY DEF StoreInit
  <1>2. BytesExact
    BY <1>1, NoBytes DEF BytesExact
  <1> QED
    BY <1>1, <1>2, FS_EmptySet DEF StoreInit, StoreInv, LedgerShape, Writing, FilesExact

\* Reconciliation releases what was never written, and nothing else.
LEMMA OpenKeeps ==
    ASSUME StoreInv, OpenStore
    PROVE  StoreInv'
  <1>1. /\ stage = "closed" /\ stage' = "open" /\ ledger' = Reconciled
        /\ raw' = raw /\ meta' = meta /\ storing' = storing
    BY DEF OpenStore
  <1>2. ledger'.pending = {} /\ ledger' = [bytes |-> ledger'.bytes, files |-> ledger'.files, pending |-> {}]
    BY <1>1 DEF Reconciled
  <1>3. /\ ledger'.files = ledger.files - Cardinality(ledger.pending \ raw)
        /\ ledger'.bytes = ledger.bytes - Bytes(ledger.pending \ raw)
    BY <1>1 DEF Reconciled
  <1>4. /\ IsFiniteSet(raw) /\ Cardinality(raw) \in Nat
        /\ IsFiniteSet(Content(raw)) /\ Bytes(raw) \in Nat
    BY FS_CardinalityType DEF StoreInv, Writing, BytesExact, Bytes
  <1>5. ledger'.files = Cardinality(raw) /\ ledger'.bytes = Bytes(raw)
    <2>1. CASE ledger.pending \subseteq raw
      <3>1. ledger.pending \ raw = {} /\ raw \cup ledger.pending = raw
        BY <2>1
      <3> QED
        BY <1>3, <1>4, <3>1, FS_EmptySet, NoBytes DEF StoreInv, FilesExact, BytesExact
    <2>2. CASE ~(ledger.pending \subseteq raw)
      <3>1. PICK p \in Page : ledger.pending = {p} /\ p \notin raw
        BY <1>1, <2>2 DEF StoreInv, Writing
      <3>2. Cardinality(ledger.pending \ raw) = 1 /\ Bytes(ledger.pending \ raw) = Size[p]
        <4>1. ledger.pending \ raw = {p}
          BY <3>1
        <4> QED
          BY <4>1, FS_Singleton, OneBytes
      <3>3. ledger.files = Cardinality(raw) + 1
        BY <3>1, <1>4, AddedCardinality DEF StoreInv, FilesExact
      <3>4. ledger.bytes = Bytes(raw) + Size[p] /\ Size[p] \in Nat
        BY <3>1, <1>4, AddedBytes, SizeAssumption DEF StoreInv, BytesExact
      <3> QED
        BY <1>3, <1>4, <3>2, <3>3, <3>4
    <2> QED
      BY <2>1, <2>2
  <1>6. raw' \cup ledger'.pending = raw
    BY <1>1, <1>2
  <1> QED
    BY <1>1, <1>2, <1>4, <1>5, <1>6 DEF StoreInv, LedgerShape, Writing, FilesExact, BytesExact

\* The reservation counts the file before it exists.
LEMMA ReserveKeeps ==
    ASSUME NEW p \in Page, StoreInv, Reserve(p)
    PROVE  StoreInv'
  <1>1. /\ stage = "open" /\ p \notin raw /\ raw' = raw /\ meta' = meta
        /\ storing' = p /\ stage' = "raw" /\ ledger.pending = {}
    BY DEF Reserve, StoreInv, Writing
  <1>2. /\ ledger'.files = ledger.files + 1 /\ ledger'.pending = {p}
        /\ ledger'.bytes = ledger.bytes + Size[p]
        /\ ledger' = [bytes |-> ledger'.bytes, files |-> ledger'.files, pending |-> ledger'.pending]
    BY <1>1 DEF Reserve
  <1>3. /\ ledger.files = Cardinality(raw) /\ IsFiniteSet(raw)
        /\ ledger.bytes = Bytes(raw) /\ IsFiniteSet(Content(raw))
    <2>1. raw \cup ledger.pending = raw
      BY <1>1
    <2> QED
      BY <2>1 DEF StoreInv, FilesExact, BytesExact, Writing
  <1>4. Cardinality(raw \cup {p}) = Cardinality(raw) + 1
    BY <1>1, <1>3, AddedCardinality
  <1>5. Bytes(raw \cup {p}) = Bytes(raw) + Size[p]
    BY <1>1, <1>3, AddedBytes
  <1>6. FilesExact' /\ BytesExact'
    BY <1>1, <1>2, <1>3, <1>4, <1>5 DEF FilesExact, BytesExact
  <1> QED
    BY <1>1, <1>2, <1>3, <1>6 DEF StoreInv, LedgerShape, Writing

\* The bytes come on the disk while they are reserved: the count is the same.
LEMMA WriteRawKeeps ==
    ASSUME StoreInv, WriteRaw
    PROVE  StoreInv'
  <1>1. /\ stage = "raw" /\ stage' = "meta" /\ raw' = raw \cup {storing}
        /\ ledger' = ledger /\ storing' = storing /\ meta' = meta
    BY DEF WriteRaw
  <1>2. storing \in Page /\ ledger.pending = {storing} /\ IsFiniteSet(raw) /\ raw \subseteq Page
    BY <1>1 DEF StoreInv, Writing
  <1>3. raw' \cup ledger'.pending = raw \cup ledger.pending
    BY <1>1, <1>2
  <1>4. IsFiniteSet(raw') /\ IsFiniteSet(Content(raw'))
    BY <1>1, <1>2, AddedCardinality, AddedBytes DEF StoreInv, BytesExact
  <1>5. FilesExact' /\ BytesExact'
    BY <1>1, <1>3, <1>4 DEF StoreInv, FilesExact, BytesExact
  <1> QED
    BY <1>1, <1>2, <1>4, <1>5 DEF StoreInv, LedgerShape, Writing

\* The reservation is dropped when the object is there.
LEMMA SettleKeeps ==
    ASSUME StoreInv, Settle
    PROVE  StoreInv'
  <1>1. /\ stage = "settle" /\ stage' = "open" /\ raw' = raw /\ meta' = meta
        /\ storing' = NoPage
        /\ ledger' = [ledger EXCEPT !.pending = @ \ {storing}]
    BY DEF Settle
  <1>2. /\ storing \in raw /\ ledger.pending = {storing} /\ LedgerShape
        /\ IsFiniteSet(raw) /\ raw \subseteq Page
    BY <1>1 DEF StoreInv, Writing
  <1>3. ledger' = [bytes |-> ledger.bytes, files |-> ledger.files, pending |-> {}]
    BY <1>1, <1>2 DEF LedgerShape
  <1>4. raw' \cup ledger'.pending = raw \cup ledger.pending
    BY <1>1, <1>2, <1>3
  <1>5. FilesExact' /\ BytesExact'
    BY <1>1, <1>3, <1>4 DEF StoreInv, FilesExact, BytesExact
  <1> QED
    BY <1>1, <1>2, <1>3, <1>5 DEF StoreInv, LedgerShape, Writing

\* The end of the process leaves the journal and the objects as they are.
LEMMA CloseKeeps ==
    ASSUME StoreInv, CloseStore
    PROVE  StoreInv'
  <1>1. /\ stage' = "closed" /\ storing' = NoPage
        /\ raw' = raw /\ meta' = meta /\ ledger' = ledger
    BY DEF CloseStore
  <1>2. ledger.pending = {} \/ \E p \in Page : ledger.pending = {p}
    BY DEF StoreInv, Writing
  <1> QED
    BY <1>1, <1>2 DEF StoreInv, LedgerShape, Writing, FilesExact, BytesExact

LEMMA StoreStep == StoreInv /\ [StoreNext]_storeVars => StoreInv'
  <1> SUFFICES ASSUME StoreInv, [StoreNext]_storeVars PROVE StoreInv'
    OBVIOUS
  <1>1. CASE OpenStore
    BY <1>1, OpenKeeps
  <1>2. ASSUME NEW p \in Page, StoreHeld(p) PROVE StoreInv'
    BY <1>2 DEF StoreHeld, StoreInv, LedgerShape, Writing, FilesExact, BytesExact
  <1>3. ASSUME NEW p \in Page, Reserve(p) PROVE StoreInv'
    BY <1>3, ReserveKeeps
  <1>4. CASE WriteRaw
    BY <1>4, WriteRawKeeps
  <1>5. CASE WriteMeta
    BY <1>5 DEF WriteMeta, StoreInv, LedgerShape, Writing, FilesExact, BytesExact
  <1>6. CASE Settle
    BY <1>6, SettleKeeps
  <1>7. CASE CloseStore
    BY <1>7, CloseKeeps
  <1>8. CASE UNCHANGED storeVars
    BY <1>8 DEF storeVars, StoreInv, LedgerShape, Writing, FilesExact, BytesExact
  <1> QED
    BY <1>1, <1>2, <1>3, <1>4, <1>5, <1>6, <1>7, <1>8 DEF StoreNext

LEMMA StoreInvariant == StoreSpec => []StoreInv
  BY StoreInitial, StoreStep, PTL DEF StoreSpec

\* The accounting counts every object that is on the disk or reserved, whatever
\* run died where, and at most one reservation is open.
THEOREM StoreCounted == StoreSpec => []FilesCounted
  <1>1. StoreInv => FilesCounted
    BY OnePending DEF StoreInv, FilesExact, FilesCounted
  <1> QED
    BY <1>1, StoreInvariant, PTL

\* It never loses or invents a byte: what the journal says the store holds is
\* what the captures on the disk and the reserved one hold together.
THEOREM StoreBytesCounted == StoreSpec => []BytesCounted
  <1>1. StoreInv => BytesCounted
    BY DEF StoreInv, BytesExact, BytesCounted
  <1> QED
    BY <1>1, StoreInvariant, PTL

\* What is on the disk or reserved is finite, and so are its bytes.
LEMMA HeldIsFinite ==
    ASSUME StoreInv
    PROVE  /\ ledger.pending \subseteq Page /\ IsFiniteSet(raw \cup ledger.pending)
           /\ IsFiniteSet(Content(raw \cup ledger.pending))
  <1>1. CASE ledger.pending \subseteq raw
    <2>1. raw \cup ledger.pending = raw
      BY <1>1
    <2> QED
      BY <1>1, <2>1 DEF StoreInv, Writing, BytesExact
  <1>2. CASE ~(ledger.pending \subseteq raw)
    <2>1. PICK p \in Page : ledger.pending = {p}
      BY <1>2 DEF StoreInv, Writing
    <2> QED
      BY <2>1, AddedCardinality, AddedBytes DEF StoreInv, Writing, BytesExact
  <1> QED
    BY <1>1, <1>2

LEMMA StoreTypes ==
    ASSUME StoreInv
    PROVE  StoreTypeOK
  <1>1. ledger.files \in Nat /\ ledger.bytes \in Nat
    BY HeldIsFinite, FS_CardinalityType DEF StoreInv, FilesExact, BytesExact, Bytes
  <1>2. ledger \in [bytes : Nat, files : Nat, pending : SUBSET Page]
    BY <1>1, HeldIsFinite DEF StoreInv, LedgerShape
  <1> QED
    BY <1>2 DEF StoreTypeOK, StoreInv, Writing

\* The journal keeps its form: the two counts never go below zero, and what is
\* reserved or stored is a capture.
THEOREM StoreTypeCorrect == StoreSpec => []StoreTypeOK
  BY StoreTypes, StoreInvariant, PTL
=============================================================================
