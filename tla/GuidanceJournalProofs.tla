----------------------- MODULE GuidanceJournalProofs -----------------------
(***************************************************************************)
(* Proofs about GuidanceJournal for any set of values, any number of       *)
(* sequence numbers and tokens, and any number of kills, requests that     *)
(* fail or hang and power failures: its types, SlotKept, NoLostUpdate,     *)
(* TokensBounded, and that it implements DurableRegister.                  *)
(***************************************************************************)
EXTENDS GuidanceJournal, FiniteSetTheorems, TLAPS

-----------------------------------------------------------------------------
(* The invariant.                                                          *)

\* Every version a caller was told of is older than this one, or is it.
Covers(v) == \A x \in told : v.seq > x.seq \/ v = x

\* A slot differs from what is flushed of it in its magic only, or is not
\* valid whichever of its parts survive.
Related(p, d) == \A i \in SlotIds :
    \/ p[i].ver = d[i].ver /\ p[i].whole = d[i].whole
    \/ ~p[i].magic /\ ~d[i].magic

\* Should both slots parse after a power failure, the newer one covers what
\* callers were told.
MayParse(p, d, i) == d[i].whole /\ (d[i].magic \/ p[i].magic)
NewestCovers(p, d) ==
    MayParse(p, d, 0) /\ MayParse(p, d, 1) =>
        \A i \in SlotIds : d[1 - i].ver.seq = d[i].ver.seq + 1 => Covers(d[1 - i].ver)

DiskInv == Related(platter, disk) /\ NewestCovers(platter, disk)

\* A commit in flight: slot t is being written, the other one holds what the
\* caller expects to replace.
Writes(t) ==
    /\ Valid(disk, 1 - t) /\ disk[1 - t].ver = base
    /\ disk[t].whole /\ (disk[t].magic <=> at = 1 \/ at > 6)
    /\ at <= 4 => disk[t].ver.seq + 1 = base.seq
    /\ at > 4 => disk[t].ver = new
    /\ at \in {3, 4, 6, 8} => platter = disk
    /\ at = 5 => ~platter[t].magic

CommitInv ==
    at # 0 =>
        /\ lease \in {"ready", "quarantined"}
        /\ new.seq = base.seq + 1 /\ Covers(base) /\ base \in told
        /\ MayIssue(new)
        /\ \E t \in SlotIds : Writes(t)

LeaseInv ==
    /\ lease = "ready" /\ at = 0 => Usable(disk)
    /\ issued \subseteq told /\ IsFiniteSet(issued)

\* An acknowledged commit wrote the successor of what it expected.
AckInv == \A p \in acked : p[2] \in told /\ p[2].seq = p[1].seq + 1

IInv == /\ TypeOK /\ DiskInv /\ CommitInv /\ LeaseInv /\ AckInv
        /\ SlotKept /\ NoLostUpdate /\ TokensBounded

-----------------------------------------------------------------------------
(* Lemmas about a commit in flight.                                        *)

\* What each step of the script is.
LEMMA Steps ==
    /\ Len(Script) = 8
    /\ at = 1 => Kind = "invalidate"
    /\ at \in {2, 5, 7} => Kind = "flush"
    /\ at = 3 => Kind = "readback"
    /\ at = 4 => Kind = "body"
    /\ at = 6 => Kind = "magic"
    /\ at = 8 => Kind = "verify"
    BY DEF Script, Kind

\* A version callers may replace is covered, and so is its successor.
LEMMA NextCovers ==
    ASSUME TypeOK, NEW v \in Versions, NEW w \in Versions, Covers(v), w.seq = v.seq + 1
    PROVE  \A x \in told : w.seq > x.seq
    BY DEF TypeOK, Covers, Versions

\* A usable journal names one older and one newest slot.
LEMMA UsableSlots ==
    ASSUME NEW d \in [SlotIds -> Slots], Usable(d)
    PROVE  /\ Older(d) \in SlotIds /\ 1 - Older(d) \in SlotIds
           /\ d[1 - Older(d)].ver.seq = d[Older(d)].ver.seq + 1
           /\ Authority(d) = d[1 - Older(d)].ver /\ Authority(d) \in Versions
    <1> USE DEF SlotIds
    <1>1. d[0].ver.seq \in Nat /\ d[1].ver.seq \in Nat /\ d[0].ver \in Versions /\ d[1].ver \in Versions
        BY DEF Slots, Versions
    <1>2. CASE d[0].ver.seq = d[1].ver.seq + 1
        <2>1. Older(d) = 1 BY <1>1, <1>2 DEF Older
        <2> QED BY <1>1, <1>2, <2>1 DEF Authority
    <1>3. CASE d[1].ver.seq = d[0].ver.seq + 1
        <2>1. Older(d) = 0 BY <1>1, <1>3 DEF Older
        <2> QED BY <1>1, <1>3, <2>1 DEF Authority
    <1> QED BY <1>2, <1>3 DEF Usable

\* Two slots of one distance have the newer as authority.
LEMMA NewestSlot ==
    ASSUME NEW d \in [SlotIds -> Slots], NEW i \in SlotIds, d[1 - i].ver.seq = d[i].ver.seq + 1
    PROVE  Authority(d) = d[1 - i].ver /\ Older(d) = i
    <1> USE DEF SlotIds
    <1>1. d[0].ver.seq \in Nat /\ d[1].ver.seq \in Nat
        BY DEF Slots, Versions
    <1>2. Older(d) = i BY <1>1 DEF Older
    <1> QED BY <1>2 DEF Authority

\* The slot a commit writes is the one its invariant speaks of.
LEMMA Written ==
    ASSUME TypeOK, CommitInv, at # 0
    PROVE  Target \in SlotIds /\ Writes(Target)
    <1> USE DEF SlotIds
    <1>1. PICK t \in SlotIds : Writes(t) BY DEF CommitInv
    <1>2. /\ disk[0].ver.seq \in Nat /\ disk[1].ver.seq \in Nat
          /\ new.seq \in Nat /\ base.seq \in Nat /\ new.seq = base.seq + 1 /\ at \in Nat
        BY Steps DEF TypeOK, Slots, Versions, CommitInv
    <1>3. disk[1 - t].ver.seq + 1 = new.seq BY <1>1, <1>2 DEF Writes
    <1>4. disk[t].ver.seq + 1 # new.seq BY <1>1, <1>2 DEF Writes
    <1>5. \A i \in SlotIds : disk[1 - i].ver.seq + 1 = new.seq => i = t
        BY <1>3, <1>4
    <1>6. Target = t BY <1>3, <1>5 DEF Target
    <1> QED BY <1>1, <1>6

\* An interrupted request leaves the slot in force alone, and a journal the
\* power may fail on.
LEMMA InterruptedKeeps ==
    ASSUME TypeOK, DiskInv, CommitInv, at # 0, NEW d \in Interrupted
    PROVE  /\ d \in [SlotIds -> Slots]
           /\ Target \in SlotIds /\ 1 - Target \in SlotIds /\ d[1 - Target] = disk[1 - Target]
           /\ Related(platter, d) /\ NewestCovers(platter, d)
    <1> DEFINE t == Target
    <1>1. t \in SlotIds /\ 1 - t \in SlotIds /\ t # 1 - t /\ \A i \in SlotIds : i = t \/ i = 1 - t
        BY Written DEF SlotIds
    <1>2. Writes(t) BY Written
    <1>3. PICK s \in Partly(Kind, disk[t]) : d = [disk EXCEPT ![t] = s] BY DEF Interrupted
    <1>4. disk[t] \in Slots /\ disk[1 - t] \in Slots /\ platter[t] \in Slots /\ new \in Versions
        BY <1>1 DEF TypeOK
    <1>5. at \in 1 .. 8 /\ (at \in 2 .. 6 => ~disk[t].magic)
        BY <1>2, Steps DEF TypeOK, Writes
    <1> HIDE DEF t
    <1>6. /\ s \in Slots
          /\ at \in {2, 3, 5, 7, 8} => s = disk[t]
          /\ at = 1 => s.ver = disk[t].ver /\ s.whole = disk[t].whole /\ (s.magic => disk[t].magic)
          /\ at = 4 => ~s.magic
          /\ at = 6 => s.ver = disk[t].ver /\ s.whole = disk[t].whole
        <2>1. CASE at = 1 BY <1>3, <1>4, <2>1, Steps DEF Partly, Done, Slots
        <2>2. CASE at \in {2, 3, 5, 7, 8} BY <1>3, <1>4, <2>2, Steps DEF Partly, Done
        <2>3. CASE at = 4
            <3>1. s \in Slots /\ s.magic = disk[t].magic
                BY <1>3, <1>4, <2>3, Steps DEF Partly, Done, Slots
            <3> QED BY <1>5, <2>3, <3>1
        <2>4. CASE at = 6 BY <1>3, <1>4, <2>4, Steps DEF Partly, Done, Slots
        <2> QED BY <1>5, <2>1, <2>2, <2>3, <2>4
    <1>7. d \in [SlotIds -> Slots] /\ d[t] = s /\ d[1 - t] = disk[1 - t]
        BY <1>1, <1>3, <1>6 DEF TypeOK
    <1>8. Related(platter, d)
        <2> DEFINE Same == platter[t].ver = s.ver /\ platter[t].whole = s.whole
                   Gone == ~platter[t].magic /\ ~s.magic
        <2>1. CASE at \in {1, 2, 3, 5, 7, 8}
            <3>1. s.ver = disk[t].ver /\ s.whole = disk[t].whole /\ (s.magic => disk[t].magic)
                BY <1>6, <2>1
            <3> QED BY <1>1, <1>7, <3>1 DEF DiskInv, Related
        <2>2. CASE at \in {4, 6}
            <3>1. platter[t] = disk[t] BY <1>2, <2>2 DEF Writes
            <3>2. Same \/ Gone BY <1>5, <1>6, <2>2, <3>1
            <3> QED BY <1>1, <1>7, <3>2 DEF DiskInv, Related
        <2> QED BY <1>5, <2>1, <2>2
    <1>9. NewestCovers(platter, d)
        <2>1. CASE at \in {1, 2, 3, 5, 7, 8}
            <3>1. s.ver = disk[t].ver /\ s.whole = disk[t].whole /\ (s.magic => disk[t].magic)
                BY <1>6, <2>1
            <3>2. \A i \in SlotIds : /\ d[i].ver = disk[i].ver /\ d[1 - i].ver = disk[1 - i].ver
                                     /\ MayParse(platter, d, i) => MayParse(platter, disk, i)
                BY <1>1, <1>7, <3>1 DEF MayParse, SlotIds
            <3>3. MayParse(platter, d, 0) /\ MayParse(platter, d, 1) =>
                    MayParse(platter, disk, 0) /\ MayParse(platter, disk, 1)
                BY <3>2 DEF SlotIds
            <3> QED BY <3>2, <3>3 DEF DiskInv, NewestCovers
        <2>2. CASE at = 4
            <3>1. ~MayParse(platter, d, t) BY <1>2, <1>6, <1>7, <2>2 DEF Writes, MayParse
            <3>2. t = 0 \/ t = 1 BY <1>1 DEF SlotIds
            <3> QED BY <3>1, <3>2 DEF NewestCovers
        <2>3. CASE at = 6
            <3>1. d[t].ver = new /\ d[1 - t].ver = base
                BY <1>2, <1>6, <1>7, <2>3 DEF Writes
            <3>2. \A x \in told : new.seq > x.seq
                BY NextCovers DEF CommitInv, TypeOK
            <3>3. \A i \in SlotIds : d[1 - i].ver.seq = d[i].ver.seq + 1 => 1 - i = t
                BY <1>1, <3>1 DEF CommitInv, TypeOK, Versions, SlotIds
            <3> QED BY <3>1, <3>2, <3>3 DEF NewestCovers, Covers
        <2> QED BY <1>5, <2>1, <2>2, <2>3
    <1> QED BY <1>1, <1>7, <1>8, <1>9 DEF t

\* So does whatever a process leaves behind when it is killed.
LEMMA LeftKeeps ==
    ASSUME TypeOK, DiskInv, CommitInv, NEW d \in LeftBehind
    PROVE  /\ d \in [SlotIds -> Slots] /\ Related(platter, d) /\ NewestCovers(platter, d)
    <1>1. CASE at = 0 BY <1>1 DEF LeftBehind, TypeOK, DiskInv
    <1>2. CASE at # 0 BY <1>2, InterruptedKeeps DEF LeftBehind
    <1> QED BY <1>1, <1>2

\* What SlotKept asks of one journal.
NewestKept(d) == \E i \in SlotIds : Valid(d, i) /\ \A p \in acked : d[i].ver.seq >= p[2].seq

\* The slot that is not written holds everything acknowledged so far.
LEMMA OtherSlotKept ==
    ASSUME TypeOK, CommitInv, AckInv, at # 0, NEW d, d[1 - Target] = disk[1 - Target]
    PROVE  NewestKept(d)
    <1>1. 1 - Target \in SlotIds BY Written DEF SlotIds
    <1>2. Valid(d, 1 - Target) /\ d[1 - Target].ver = base BY Written DEF Writes, Valid
    <1>3. \A p \in acked : base.seq >= p[2].seq
        BY DEF AckInv, CommitInv, Covers, TypeOK, Versions
    <1> QED BY <1>1, <1>2, <1>3 DEF NewestKept

\* When the journal is usable its authority covers what callers were told.
LEMMA AuthorityCovers ==
    ASSUME TypeOK, DiskInv, Usable(disk)
    PROVE  Covers(Authority(disk)) /\ Authority(disk) \in Versions
    <1>1. disk \in [SlotIds -> Slots] BY DEF TypeOK
    <1>2. PICK i \in SlotIds : disk[1 - i].ver.seq = disk[i].ver.seq + 1 /\ Authority(disk) = disk[1 - i].ver
        BY <1>1, UsableSlots
    <1>3. MayParse(platter, disk, 0) /\ MayParse(platter, disk, 1)
        BY DEF Usable, Valid, MayParse
    <1> QED BY <1>1, <1>2, <1>3, UsableSlots DEF DiskInv, NewestCovers

-----------------------------------------------------------------------------
(* The steps.                                                              *)

\* A version that was told joins what callers know: the invariant of the
\* commits and of the tokens.
LEMMA TellKeeps ==
    ASSUME IInv, NEW v \in Versions, MayIssue(v), Tell(v)
    PROVE  /\ issued' \subseteq Versions /\ told' \subseteq Versions
           /\ issued' \subseteq told' /\ IsFiniteSet(issued') /\ Cardinality(issued') <= MaxTokens
           /\ told \subseteq told' /\ v \in told' /\ (Covers(v) => Covers(v)')
    <1>1. IsFiniteSet(issued) /\ Cardinality(issued) \in Nat
        BY FS_CardinalityType DEF IInv, LeaseInv
    <1>2. /\ IsFiniteSet(issued \cup {v})
          /\ Cardinality(issued \cup {v}) = IF v \in issued THEN Cardinality(issued) ELSE Cardinality(issued) + 1
        BY <1>1, FS_AddElement
    <1>3. Cardinality(issued') <= MaxTokens
        BY <1>1, <1>2, LimitsAssumption DEF MayIssue, Tell, IInv, TokensBounded
    <1>4. Covers(v) => Covers(v)' BY DEF Tell, Covers
    <1> QED BY <1>1, <1>2, <1>3, <1>4 DEF Tell, IInv, TypeOK, LeaseInv

LEMMA InitInv == Init => IInv
    <1> SUFFICES ASSUME Init PROVE IInv OBVIOUS
    <1>1. PICK x \in Values : disk = [i \in SlotIds |-> [ver |-> [seq |-> i, val |-> x], magic |-> TRUE, whole |-> TRUE]]
        BY DEF Init
    <1>2. disk \in [SlotIds -> Slots]
        BY <1>1, LimitsAssumption DEF SlotIds, Slots, Versions
    <1>3. Usable(disk) BY <1>1 DEF Usable, Valid, SlotIds
    <1>4. new \in Versions /\ base \in Versions BY <1>2, <1>3, UsableSlots DEF Init
    <1>5. TypeOK BY <1>2, <1>4, Steps, LimitsAssumption DEF Init, TypeOK
    <1>6. DiskInv BY DEF Init, DiskInv, Related, NewestCovers, Covers
    <1>7. CommitInv /\ AckInv /\ NoLostUpdate BY DEF Init, CommitInv, AckInv, NoLostUpdate
    <1>8. LeaseInv /\ TokensBounded
        BY FS_EmptySet, LimitsAssumption DEF Init, LeaseInv, TokensBounded
    <1>9. SlotKept
        <2>1. Valid(disk, 0) BY <1>3 DEF Usable
        <2> QED BY <2>1 DEF Init, SlotKept, SlotIds
    <1> QED BY <1>5, <1>6, <1>7, <1>8, <1>9 DEF IInv

\* The lease moves and nothing else does.
LEMMA LeaseSteps ==
    IInv /\ (Open \/ Close \/ RequestHangs \/ ReadHangs) => IInv'
    <1> SUFFICES ASSUME IInv, Open \/ Close \/ RequestHangs \/ ReadHangs PROVE IInv'
        OBVIOUS
    <1> USE DEF Open, Close, RequestHangs, ReadHangs, Submitted, Idle
    <1>1. /\ UNCHANGED <<disk, platter, at, new, base, cuts, told, acked>>
          /\ lease' \in {"none", "ready", "closed", "quarantined"}
          /\ issued' = issued \/ issued' = {}
        BY DEF IInv, TypeOK
    <1>2. TypeOK' BY <1>1 DEF IInv, TypeOK
    <1>3. DiskInv' BY <1>1 DEF IInv, DiskInv, Related, NewestCovers, MayParse, Covers
    <1>4. CommitInv'
        <2>1. CASE at = 0 BY <1>1, <2>1 DEF CommitInv
        <2>2. CASE at # 0
            <3>1. RequestHangs /\ issued' = issued /\ lease' = "quarantined"
                BY <2>2 DEF IInv, CommitInv
            <3> QED BY <1>1, <3>1 DEF IInv, CommitInv, Covers, MayIssue, Writes, Valid
        <2> QED BY <2>1, <2>2
    <1>5. LeaseInv' /\ TokensBounded'
        <2>1. lease' = "ready" /\ at' = 0 => Usable(disk)' BY <1>1 DEF Usable, Valid
        <2> QED BY <1>1, <2>1, FS_EmptySet, LimitsAssumption DEF IInv, LeaseInv, TokensBounded
    <1>6. AckInv' /\ NoLostUpdate' BY <1>1 DEF IInv, AckInv, NoLostUpdate
    <1>7. SlotKept' BY <1>1 DEF IInv, SlotKept, Valid
    <1> QED BY <1>2, <1>3, <1>4, <1>5, <1>6, <1>7 DEF IInv

\* A caller reads, or is told that its version is out of date.
LEMMA TellSteps ==
    ASSUME IInv, Read \/ \E v \in issued : Conflict(v)
    PROVE  IInv'
    <1>1. Usable(disk) /\ disk \in [SlotIds -> Slots]
        BY DEF IInv, LeaseInv, TypeOK, Idle, Read, Conflict
    <1>2. PICK v \in Versions : v = Authority(disk) BY <1>1, UsableSlots
    <1>3. /\ Idle /\ MayIssue(v) /\ Tell(v) /\ Covers(v)
          /\ UNCHANGED <<disk, platter, lease, at, new, base, cuts, acked>>
        BY <1>1, <1>2, AuthorityCovers DEF Read, Conflict, IInv
    <1>4. PICK i \in SlotIds : disk[1 - i].ver.seq = disk[i].ver.seq + 1 /\ v = disk[1 - i].ver
        BY <1>1, <1>2, UsableSlots
    <1>5. /\ issued' \subseteq Versions /\ told' \subseteq Versions
          /\ issued' \subseteq told' /\ IsFiniteSet(issued') /\ Cardinality(issued') <= MaxTokens
          /\ told \subseteq told' /\ Covers(v)'
        BY <1>3, TellKeeps
    <1>6. TypeOK' BY <1>3, <1>5 DEF IInv, TypeOK
    <1>7. DiskInv'
        <2>1. \A j \in SlotIds : disk[1 - j].ver.seq = disk[j].ver.seq + 1 => disk[1 - j].ver = v
            BY <1>1, <1>2, NewestSlot
        <2>2. \A j \in SlotIds : disk[1 - j].ver.seq = disk[j].ver.seq + 1 => Covers(disk[1 - j].ver)'
            BY <1>3, <1>5, <2>1 DEF Covers
        <2> QED BY <1>3, <2>2 DEF IInv, DiskInv, Related, NewestCovers, Covers
    <1>8. CommitInv' BY <1>3 DEF Idle, CommitInv
    <1>9. LeaseInv' /\ TokensBounded'
        BY <1>1, <1>3, <1>5 DEF IInv, LeaseInv, TokensBounded, Usable, Valid
    <1>10. AckInv' /\ NoLostUpdate' BY <1>3, <1>5 DEF IInv, AckInv, NoLostUpdate
    <1>11. SlotKept' BY <1>3 DEF IInv, SlotKept, Valid
    <1> QED BY <1>6, <1>7, <1>8, <1>9, <1>10, <1>11 DEF IInv

\* A commit is admitted: its first request is submitted.
LEMMA CommitStep ==
    ASSUME IInv, NEW v \in issued, NEW x \in Values, Commit(v, x)
    PROVE  IInv'
    <1>1. /\ Idle /\ v = Authority(disk) /\ new.seq' <= MaxSeq /\ MayIssue(new')
          /\ new' = [seq |-> v.seq + 1, val |-> x] /\ base' = v /\ at' = 1
          /\ UNCHANGED <<disk, platter, lease, issued, cuts, told, acked>>
        BY DEF Commit, Admitted
    <1>2. Usable(disk) /\ disk \in [SlotIds -> Slots] BY <1>1 DEF IInv, LeaseInv, TypeOK, Idle
    <1>3. v \in Versions /\ Covers(v) /\ v \in told
        BY <1>1, <1>2, AuthorityCovers DEF IInv, LeaseInv
    <1>4. new' \in Versions /\ new'.seq = v.seq + 1 BY <1>1, <1>3 DEF Versions
    <1>5. TypeOK' BY <1>1, <1>3, <1>4, Steps DEF IInv, TypeOK
    <1>6. DiskInv' BY <1>1 DEF IInv, DiskInv, Related, NewestCovers, MayParse, Covers
    <1>7. CommitInv'
        <2>1. PICK t \in SlotIds : disk[1 - t].ver.seq = disk[t].ver.seq + 1 /\ v = disk[1 - t].ver
            BY <1>1, <1>2, UsableSlots
        <2>2. \A i \in SlotIds : disk[i].magic /\ disk[i].whole /\ disk[1 - i].magic /\ disk[1 - i].whole
            BY <1>2 DEF Usable, Valid, SlotIds
        <2>3. disk[t].ver.seq + 1 = v.seq BY <2>1
        <2>4. Writes(t)' BY <1>1, <2>1, <2>2, <2>3 DEF Writes, Valid
        <2>5. MayIssue(new)' BY <1>1 DEF MayIssue
        <2>6. Covers(base)' BY <1>1, <1>3 DEF Covers
        <2> QED BY <1>1, <1>3, <1>4, <2>4, <2>5, <2>6 DEF CommitInv, Idle
    <1>8. LeaseInv' /\ TokensBounded' BY <1>1 DEF IInv, LeaseInv, TokensBounded
    <1>9. AckInv' /\ NoLostUpdate' BY <1>1 DEF IInv, AckInv, NoLostUpdate
    <1>10. SlotKept' BY <1>1 DEF IInv, SlotKept, Valid
    <1> QED BY <1>5, <1>6, <1>7, <1>8, <1>9, <1>10 DEF IInv

\* A request completes: the slot it is about, by the request.
LEMMA RequestSlots ==
    ASSUME IInv, RequestDone
    PROVE  /\ disk' \in Interrupted /\ disk' \in [SlotIds -> Slots]
           /\ Target \in SlotIds /\ 1 - Target \in SlotIds /\ Target # 1 - Target
           /\ \A i \in SlotIds : i = Target \/ i = 1 - Target
           /\ disk'[1 - Target] = disk[1 - Target]
           /\ at \in 1 .. 8
           /\ at \notin {1, 4, 6} => disk' = disk
           /\ at = 1 => /\ disk'[Target].ver = disk[Target].ver /\ disk'[Target].whole
                        /\ ~disk'[Target].magic
           /\ at = 4 => /\ disk'[Target].ver = new /\ disk'[Target].whole /\ ~disk'[Target].magic
           /\ at = 6 => /\ disk'[Target].ver = disk[Target].ver /\ disk'[Target].whole
                        /\ disk'[Target].magic
    <1> DEFINE t == Target
    <1>1. at # 0 BY DEF RequestDone, Submitted
    <1>2. disk' \in Interrupted BY DEF RequestDone, Interrupted, Partly
    <1>3. disk' \in [SlotIds -> Slots] /\ disk'[1 - t] = disk[1 - t]
        BY <1>1, <1>2, InterruptedKeeps DEF IInv
    <1>4. t \in SlotIds /\ 1 - t \in SlotIds /\ t # 1 - t /\ \A i \in SlotIds : i = t \/ i = 1 - t
        BY <1>1, Written DEF SlotIds, IInv
    <1>5. disk \in [SlotIds -> Slots] /\ disk[t] \in Slots /\ new \in Versions /\ at \in 1 .. 8
        BY <1>1, <1>4, Steps DEF IInv, TypeOK
    <1>6. disk[t].whole /\ (at \in 2 .. 6 => ~disk[t].magic)
        BY <1>1, <1>5, Written DEF Writes, IInv
    <1>7. disk'[t] = Done(Kind, disk[t]) BY <1>4, <1>5 DEF RequestDone
    <1>8. disk' = [disk EXCEPT ![t] = Done(Kind, disk[t])] BY DEF RequestDone
    <1> HIDE DEF t
    <1>9. CASE at = 1
        <2>1. disk'[t] = [disk[t] EXCEPT !.magic = FALSE] BY <1>7, <1>9, Steps DEF Done
        <2> QED BY <1>2, <1>3, <1>4, <1>5, <1>6, <1>9, <2>1 DEF Slots, t
    <1>10. CASE at = 4
        <2>1. disk'[t] = [disk[t] EXCEPT !.ver = new, !.whole = TRUE] BY <1>7, <1>10, Steps DEF Done
        <2>2. disk'[t].ver = new /\ disk'[t].whole /\ disk'[t].magic = disk[t].magic
            BY <1>5, <2>1 DEF Slots
        <2> QED BY <1>2, <1>3, <1>4, <1>5, <1>6, <1>10, <2>2 DEF t
    <1>11. CASE at = 6
        <2>1. disk'[t] = [disk[t] EXCEPT !.magic = TRUE] BY <1>7, <1>11, Steps DEF Done
        <2> QED BY <1>2, <1>3, <1>4, <1>5, <1>6, <1>11, <2>1 DEF Slots, t
    <1>12. CASE at \in {2, 3, 5, 7, 8}
        <2>1. disk' = [disk EXCEPT ![t] = disk[t]] BY <1>8, <1>12, Steps DEF Done
        <2>2. disk' = disk BY <1>4, <1>5, <2>1
        <2> QED BY <1>2, <1>3, <1>4, <1>5, <1>12, <2>2 DEF t
    <1> QED BY <1>5, <1>9, <1>10, <1>11, <1>12

\* A request before the last one completes.
LEMMA RequestStep ==
    ASSUME IInv, RequestDone, at # 8
    PROVE  IInv'
    <1>0. PICK t \in SlotIds : t = Target BY RequestSlots
    <1>1. /\ lease = "ready" /\ at \in 1 .. 7 /\ at' = at + 1
          /\ UNCHANGED <<lease, issued, new, base, cuts, told, acked>>
        <2>1. at \in 1 .. 7 /\ Kind # "verify" BY RequestSlots, Steps
        <2> QED BY <2>1 DEF RequestDone, Submitted
    <1>2. /\ at \in {2, 5, 7} => platter' = disk
          /\ at \in {1, 3, 4, 6} => platter' = platter
        <2>1. at \in {2, 5, 7} => Kind = "flush" BY Steps
        <2>2. at \in {1, 3, 4, 6} => Kind # "flush" BY Steps
        <2> QED BY <2>1, <2>2 DEF RequestDone
    <1>3. /\ t \in SlotIds /\ 1 - t \in SlotIds /\ t # 1 - t /\ disk' \in [SlotIds -> Slots]
          /\ \A i \in SlotIds : i = t \/ i = 1 - t
          /\ disk'[1 - t] = disk[1 - t]
        BY <1>0, RequestSlots
    <1>4. Writes(t) /\ disk \in [SlotIds -> Slots] BY <1>0, <1>1, Written DEF IInv, TypeOK
    <1>5. /\ at \notin {1, 4, 6} => disk' = disk
          /\ at = 1 => disk'[t].ver = disk[t].ver /\ disk'[t].whole /\ ~disk'[t].magic
          /\ at = 4 => disk'[t].ver = new /\ disk'[t].whole /\ ~disk'[t].magic
          /\ at = 6 => disk'[t].ver = disk[t].ver /\ disk'[t].whole /\ disk'[t].magic
        BY <1>0, RequestSlots
    <1>6. Related(platter, disk') /\ NewestCovers(platter, disk')
        BY <1>1, RequestSlots, InterruptedKeeps DEF IInv
    <1>7. TypeOK' BY <1>1, <1>2, <1>3, Steps DEF IInv, TypeOK
    <1>8. DiskInv'
        <2>1. CASE platter' = platter
            BY <1>1, <1>6, <2>1 DEF DiskInv, Related, NewestCovers, MayParse, Covers
        <2>2. CASE platter' = disk /\ disk' = disk
            BY <1>1, <2>2 DEF IInv, DiskInv, Related, NewestCovers, MayParse, Covers
        <2> QED BY <1>1, <1>2, <1>5, <2>1, <2>2
    <1>9. Writes(t)'
        <2>1. CASE at = 1 BY <1>1, <1>2, <1>3, <1>4, <1>5, <2>1 DEF Writes, Valid
        <2>2. CASE at = 2 BY <1>1, <1>2, <1>3, <1>4, <1>5, <2>2 DEF Writes, Valid
        <2>3. CASE at = 3 BY <1>1, <1>2, <1>3, <1>4, <1>5, <2>3 DEF Writes, Valid
        <2>4. CASE at = 4 BY <1>1, <1>2, <1>3, <1>4, <1>5, <2>4 DEF Writes, Valid
        <2>5. CASE at = 5 BY <1>1, <1>2, <1>3, <1>4, <1>5, <2>5 DEF Writes, Valid
        <2>6. CASE at = 6 BY <1>1, <1>2, <1>3, <1>4, <1>5, <2>6 DEF Writes, Valid
        <2>7. CASE at = 7 BY <1>1, <1>2, <1>3, <1>4, <1>5, <2>7 DEF Writes, Valid
        <2> QED BY <1>1, <2>1, <2>2, <2>3, <2>4, <2>5, <2>6, <2>7
    <1>10. CommitInv' BY <1>1, <1>3, <1>9 DEF IInv, CommitInv, Covers, MayIssue
    <1>11. LeaseInv' /\ TokensBounded' BY <1>1 DEF IInv, LeaseInv, TokensBounded
    <1>12. AckInv' /\ NoLostUpdate' BY <1>1 DEF IInv, AckInv, NoLostUpdate
    <1>13. SlotKept'
        <2>1. NewestKept(disk') /\ NewestKept(disk)
            BY <1>0, <1>1, <1>3, OtherSlotKept DEF IInv
        <2>2. cuts = 0 => NewestKept(platter)
            BY DEF IInv, SlotKept, NewestKept
        <2>3. cuts = 0 => NewestKept(platter') BY <1>1, <1>2, <2>1, <2>2
        <2> QED BY <1>1, <2>1, <2>3 DEF SlotKept, NewestKept, Valid
    <1> QED BY <1>7, <1>8, <1>10, <1>11, <1>12, <1>13 DEF IInv

\* The last request completes: the commit succeeds.
LEMMA SucceedStep ==
    ASSUME IInv, RequestDone, at = 8
    PROVE  IInv'
    <1> DEFINE t == Target
    <1>1. /\ at' = 0 /\ disk' = disk /\ platter' = platter
          /\ Tell(new) /\ acked' = acked \cup {<<base, new>>}
          /\ UNCHANGED <<lease, new, base, cuts>>
        BY RequestSlots, Steps DEF RequestDone, Succeed
    <1>2. Writes(t) /\ t \in SlotIds /\ 1 - t \in SlotIds /\ (\A i \in SlotIds : i = t \/ i = 1 - t)
        BY RequestSlots, Written DEF IInv
    <1>3. /\ new \in Versions /\ base \in Versions /\ new.seq = base.seq + 1
          /\ Covers(base) /\ base \in told /\ MayIssue(new)
          /\ disk \in [SlotIds -> Slots]
        BY DEF IInv, CommitInv, TypeOK
    <1>4. /\ Valid(disk, t) /\ Valid(disk, 1 - t) /\ platter = disk
          /\ disk[t].ver = new /\ disk[1 - t].ver = base
        BY <1>2 DEF Writes, Valid
    <1> HIDE DEF t
    <1>5. \A x \in told : new.seq > x.seq BY <1>3, NextCovers DEF IInv
    <1>6. Covers(new)' BY <1>1, <1>5 DEF Tell, Covers
    <1>7. /\ issued' \subseteq Versions /\ told' \subseteq Versions
          /\ issued' \subseteq told' /\ IsFiniteSet(issued') /\ Cardinality(issued') <= MaxTokens
          /\ told \subseteq told' /\ new \in told'
        BY <1>1, <1>3, TellKeeps
    <1>8. TypeOK' BY <1>1, <1>3, <1>7, Steps DEF IInv, TypeOK
    <1>9. DiskInv'
        <2>1. \A i \in SlotIds : disk[1 - i].ver.seq = disk[i].ver.seq + 1 => 1 - i = t
            BY <1>2, <1>3, <1>4 DEF Versions, SlotIds
        <2>2. NewestCovers(platter, disk)' BY <1>1, <1>4, <1>6, <2>1 DEF NewestCovers, Covers
        <2> QED BY <1>1, <2>2 DEF IInv, DiskInv, Related
    <1>10. CommitInv' BY <1>1 DEF CommitInv
    <1>11. LeaseInv' /\ TokensBounded'
        <2>1. Usable(disk)' BY <1>1, <1>2, <1>3, <1>4 DEF Usable, Valid, SlotIds
        <2> QED BY <1>7, <2>1 DEF LeaseInv, TokensBounded
    <1>12. AckInv' BY <1>1, <1>3, <1>7 DEF IInv, AckInv
    <1>13. NoLostUpdate'
        <2>1. \A q \in acked : q[1] # base
            <3> SUFFICES ASSUME NEW q \in acked, q[1] = base PROVE FALSE OBVIOUS
            <3>1. q[2] \in told /\ q[2].seq = base.seq + 1 BY DEF IInv, AckInv
            <3> QED BY <1>3, <3>1 DEF Covers, Versions, IInv, TypeOK
        <2> QED BY <1>1, <2>1 DEF IInv, NoLostUpdate
    <1>14. SlotKept'
        <2>1. \A p \in acked' : new.seq >= p[2].seq
            <3>1. new.seq \in Nat /\ \A x \in told : x.seq \in Nat
                BY <1>3 DEF IInv, TypeOK, Versions
            <3>2. \A p \in acked : p[2] \in told BY DEF IInv, AckInv
            <3>3. \A p \in acked : new.seq >= p[2].seq BY <1>5, <3>1, <3>2
            <3> QED BY <1>1, <3>1, <3>3
        <2> QED BY <1>1, <1>2, <1>4, <2>1 DEF SlotKept, Valid
    <1> QED BY <1>8, <1>9, <1>10, <1>11, <1>12, <1>13, <1>14 DEF IInv

\* A commit is given up: its request fails, is answered too late or not at
\* all, or the process is killed.
LEMMA AbandonSteps ==
    ASSUME IInv, RequestFails \/ LateEffect \/ Killed
    PROVE  IInv'
    <1>1. /\ disk' \in LeftBehind /\ at' = 0
          /\ lease' \in {"none", "closed", "quarantined"} /\ (issued' = issued \/ issued' = {})
          /\ UNCHANGED <<platter, new, base, cuts, told, acked>>
        BY DEF RequestFails, LateEffect, Killed, Submitted, LeftBehind
    <1>2. disk' \in [SlotIds -> Slots] /\ Related(platter, disk') /\ NewestCovers(platter, disk')
        BY <1>1, LeftKeeps DEF IInv
    <1>3. TypeOK' BY <1>1, <1>2, Steps DEF IInv, TypeOK
    <1>4. DiskInv' BY <1>1, <1>2 DEF DiskInv, Related, NewestCovers, MayParse, Covers
    <1>5. CommitInv' BY <1>1 DEF CommitInv
    <1>6. LeaseInv' /\ TokensBounded'
        BY <1>1, FS_EmptySet, LimitsAssumption DEF IInv, LeaseInv, TokensBounded
    <1>7. AckInv' /\ NoLostUpdate' BY <1>1 DEF IInv, AckInv, NoLostUpdate
    <1>8. SlotKept'
        <2>1. cuts = 0 => NewestKept(disk) /\ NewestKept(platter)
            BY DEF IInv, SlotKept, NewestKept
        <2>2. cuts = 0 => NewestKept(disk')
            <3>1. CASE at = 0 BY <1>1, <2>1, <3>1 DEF LeftBehind
            <3>2. CASE at # 0
                <4>1. disk'[1 - Target] = disk[1 - Target]
                    BY <1>1, <3>2, InterruptedKeeps DEF IInv, LeftBehind
                <4> QED BY <3>2, <4>1, OtherSlotKept DEF IInv
            <3> QED BY <3>1, <3>2
        <2> QED BY <1>1, <2>1, <2>2 DEF SlotKept, NewestKept, Valid
    <1> QED BY <1>3, <1>4, <1>5, <1>6, <1>7, <1>8 DEF IInv

\* A slot that parses after a power failure is one that might have parsed,
\* and holds the version it held before.
LEMMA SurvivorValid ==
    ASSUME NEW p \in Slots, NEW s \in Slots, NEW r \in Survivors(p, s),
           (p.ver = s.ver /\ p.whole = s.whole) \/ (~p.magic /\ ~s.magic)
    PROVE  r \in Slots /\ (r.magic /\ r.whole => s.whole /\ (s.magic \/ p.magic) /\ r.ver = s.ver)
    <1>1. PICK m \in {p.magic, s.magic},
               b \in {p, s} \cup IF p.ver = s.ver /\ p.whole = s.whole THEN {} ELSE {[s EXCEPT !.whole = FALSE]} :
                 r = [b EXCEPT !.magic = m]
        BY DEF Survivors
    <1>2. b \in Slots /\ m \in BOOLEAN BY <1>1 DEF Slots
    <1>3. r \in Slots /\ r.magic = m /\ r.whole = b.whole /\ r.ver = b.ver BY <1>1, <1>2 DEF Slots
    <1>4. CASE m /\ b.whole
        <2>1. p.magic \/ s.magic BY <1>1, <1>4
        <2>2. p.ver = s.ver /\ p.whole = s.whole BY <2>1
        <2>3. b = p \/ b = s BY <1>1, <2>2
        <2>4. s.whole /\ b.ver = s.ver BY <1>4, <2>2, <2>3
        <2> QED BY <1>3, <2>1, <2>4
    <1>5. CASE ~m \/ ~b.whole BY <1>3, <1>5
    <1> QED BY <1>4, <1>5

\* What a power failure leaves on the disk.
LEMMA PowerLeaves ==
    ASSUME TypeOK, DiskInv, CommitInv, PowerFails
    PROVE  \E d \in LeftBehind :
             /\ d \in [SlotIds -> Slots] /\ disk' \in [SlotIds -> Slots] /\ platter' = disk'
             /\ \A i \in SlotIds : Valid(disk', i) => MayParse(platter, d, i) /\ disk'[i].ver = d[i].ver
             /\ NewestCovers(platter, d)
    <1>0. 0 \in SlotIds /\ 1 \in SlotIds BY DEF SlotIds
    <1>1. PICK d \in LeftBehind, a \in Slots, b \in Slots :
            /\ a \in Survivors(platter[0], d[0]) /\ b \in Survivors(platter[1], d[1])
            /\ disk' = [disk EXCEPT ![0] = a, ![1] = b]
        <2>1. PICK d \in LeftBehind :
                \E a \in Survivors(platter[0], d[0]), b \in Survivors(platter[1], d[1]) :
                    disk' = [disk EXCEPT ![0] = a, ![1] = b]
            BY DEF PowerFails
        <2>2. PICK a \in Survivors(platter[0], d[0]), b \in Survivors(platter[1], d[1]) :
                    disk' = [disk EXCEPT ![0] = a, ![1] = b]
            BY <2>1
        <2>3. /\ platter[0] \in Slots /\ platter[1] \in Slots /\ d[0] \in Slots /\ d[1] \in Slots
              /\ Related(platter, d)
            BY LeftKeeps DEF TypeOK, SlotIds
        <2>4. /\ (platter[0].ver = d[0].ver /\ platter[0].whole = d[0].whole) \/ (~platter[0].magic /\ ~d[0].magic)
              /\ (platter[1].ver = d[1].ver /\ platter[1].whole = d[1].whole) \/ (~platter[1].magic /\ ~d[1].magic)
            BY <1>0, <2>3 DEF Related
        <2>5. a \in Slots BY <2>3, <2>4, SurvivorValid
        <2>6. b \in Slots BY <2>3, <2>4, SurvivorValid
        <2> QED BY <2>2, <2>5, <2>6
    <1>2. d \in [SlotIds -> Slots] /\ Related(platter, d) /\ NewestCovers(platter, d)
        BY LeftKeeps
    <1>3. disk' \in [SlotIds -> Slots] /\ disk'[0] = a /\ disk'[1] = b
        BY <1>1 DEF TypeOK, SlotIds
    <1>4. platter[0] \in Slots /\ platter[1] \in Slots /\ d[0] \in Slots /\ d[1] \in Slots
        BY <1>2 DEF TypeOK, SlotIds
    <1>5. /\ a.magic /\ a.whole => d[0].whole /\ (d[0].magic \/ platter[0].magic) /\ a.ver = d[0].ver
          /\ b.magic /\ b.whole => d[1].whole /\ (d[1].magic \/ platter[1].magic) /\ b.ver = d[1].ver
        <2>1. /\ (platter[0].ver = d[0].ver /\ platter[0].whole = d[0].whole) \/ (~platter[0].magic /\ ~d[0].magic)
              /\ (platter[1].ver = d[1].ver /\ platter[1].whole = d[1].whole) \/ (~platter[1].magic /\ ~d[1].magic)
            BY <1>0, <1>2 DEF Related
        <2>2. a.magic /\ a.whole => d[0].whole /\ (d[0].magic \/ platter[0].magic) /\ a.ver = d[0].ver
            BY <1>1, <1>4, <2>1, SurvivorValid
        <2>3. b.magic /\ b.whole => d[1].whole /\ (d[1].magic \/ platter[1].magic) /\ b.ver = d[1].ver
            BY <1>1, <1>4, <2>1, SurvivorValid
        <2> QED BY <2>2, <2>3
    <1>6. \A i \in SlotIds : Valid(disk', i) => MayParse(platter, d, i) /\ disk'[i].ver = d[i].ver
        BY <1>3, <1>5 DEF Valid, MayParse, SlotIds
    <1>7. platter' = disk' BY DEF PowerFails
    <1> QED BY <1>2, <1>3, <1>6, <1>7

LEMMA PowerStep ==
    ASSUME IInv, PowerFails
    PROVE  IInv'
    <1>1. PICK d \in LeftBehind :
             /\ d \in [SlotIds -> Slots] /\ disk' \in [SlotIds -> Slots] /\ platter' = disk'
             /\ \A i \in SlotIds : Valid(disk', i) => MayParse(platter, d, i) /\ disk'[i].ver = d[i].ver
             /\ NewestCovers(platter, d)
        BY PowerLeaves DEF IInv
    <1>2. /\ at' = 0 /\ lease' = "none" /\ issued' = {} /\ cuts' = cuts + 1 /\ cuts' \in 0 .. MaxCuts
          /\ UNCHANGED <<new, base, told, acked>>
        BY LimitsAssumption DEF PowerFails, IInv, TypeOK
    <1>3. TypeOK' BY <1>1, <1>2, Steps DEF IInv, TypeOK
    <1>4. DiskInv'
        <2>1. Related(platter, disk)' BY <1>1 DEF Related
        <2>2. ASSUME MayParse(disk', disk', 0), MayParse(disk', disk', 1), NEW i \in SlotIds,
                     disk'[1 - i].ver.seq = disk'[i].ver.seq + 1
              PROVE  Covers(disk'[1 - i].ver)
            <3>1. Valid(disk', 0) /\ Valid(disk', 1) BY <2>2 DEF MayParse, Valid
            <3>2. MayParse(platter, d, 0) /\ MayParse(platter, d, 1) /\ d[1 - i].ver = disk'[1 - i].ver
                    /\ d[i].ver = disk'[i].ver
                BY <1>1, <3>1 DEF SlotIds
            <3> QED BY <1>1, <2>2, <3>2 DEF NewestCovers
        <2>3. NewestCovers(disk', disk') BY <2>2 DEF NewestCovers
        <2> QED BY <1>1, <1>2, <2>1, <2>3 DEF DiskInv, NewestCovers, MayParse, Covers
    <1>5. CommitInv' BY <1>2 DEF CommitInv
    <1>6. LeaseInv' /\ TokensBounded'
        BY <1>2, FS_EmptySet, LimitsAssumption DEF LeaseInv, TokensBounded
    <1>7. AckInv' /\ NoLostUpdate' BY <1>2 DEF IInv, AckInv, NoLostUpdate
    <1>8. SlotKept' BY <1>2 DEF IInv, TypeOK, SlotKept
    <1> QED BY <1>3, <1>4, <1>5, <1>6, <1>7, <1>8 DEF IInv

LEMMA StutterStep == IInv /\ UNCHANGED vars => IInv'
    BY DEF vars, IInv, TypeOK, DiskInv, Related, NewestCovers, MayParse, Covers, CommitInv, Writes, MayIssue,
           LeaseInv, Usable, Valid, AckInv, SlotKept, NoLostUpdate, TokensBounded

LEMMA StepInv == IInv /\ [Next]_vars => IInv'
    <1> SUFFICES ASSUME IInv, [Next]_vars PROVE IInv' OBVIOUS
    <1>1. CASE Open \/ Close \/ RequestHangs \/ ReadHangs BY <1>1, LeaseSteps
    <1>2. CASE Read \/ \E v \in issued : Conflict(v) BY <1>2, TellSteps
    <1>3. CASE \E v \in issued, x \in Values : Commit(v, x) BY <1>3, CommitStep
    <1>4. CASE RequestDone BY <1>4, RequestStep, SucceedStep
    <1>5. CASE RequestFails \/ LateEffect \/ Killed BY <1>5, AbandonSteps
    <1>6. CASE PowerFails BY <1>6, PowerStep
    <1>7. CASE UNCHANGED vars BY <1>7, StutterStep
    <1> QED BY <1>1, <1>2, <1>3, <1>4, <1>5, <1>6, <1>7 DEF Next

LEMMA Invariant == Spec => []IInv
    BY InitInv, StepInv, PTL DEF Spec

-----------------------------------------------------------------------------
(* The theorems.                                                           *)

\* Every state of the journal has its type: what a power failure tears is
\* still two slots, and a history only holds versions that fit their field.
THEOREM TypeCorrect == Spec => []TypeOK
    <1>1. IInv => TypeOK BY DEF IInv
    <1> QED BY <1>1, Invariant, PTL

\* However many requests fail, hang or are cut short by a kill, one slot
\* always holds what was acknowledged, until the power fails.
THEOREM AcknowledgedIsKept == Spec => []SlotKept
    <1>1. IInv => SlotKept BY DEF IInv
    <1> QED BY <1>1, Invariant, PTL

\* Two commits that expect the same version never both succeed, whatever
\* crashes and power failures come between them.
THEOREM CompareAndSwap == Spec => []NoLostUpdate
    <1>1. IInv => NoLostUpdate BY DEF IInv
    <1> QED BY <1>1, Invariant, PTL

\* A lease never hands out more tokens than its table has room for.
THEOREM TokensFit == Spec => []TokensBounded
    <1>1. IInv => TokensBounded BY DEF IInv
    <1> QED BY <1>1, Invariant, PTL

-----------------------------------------------------------------------------
(* The journal implements the register.                                    *)

\* What the register holds while nothing is in flight and both slots parse.
LEMMA RegisterIdle ==
    ASSUME NEW d \in [SlotIds -> Slots], NEW i \in SlotIds,
           Valid(d, 0), Valid(d, 1), d[1 - i].ver.seq = d[i].ver.seq + 1
    PROVE  Usable(d) /\ Authority(d) = d[1 - i].ver
    BY NewestSlot DEF Usable, SlotIds

\* What the register holds while a commit is in flight: the new version from
\* the moment the magic is back.
LEMMA RegisterInFlight ==
    IInv /\ at # 0 => Readable /\ InForce = IF at > 6 THEN new ELSE base
    <1> SUFFICES ASSUME TypeOK, CommitInv, at # 0
                 PROVE  Readable /\ InForce = IF at > 6 THEN new ELSE base
        BY DEF IInv
    <1> DEFINE t == Target
    <1>1. t \in SlotIds /\ 1 - t \in SlotIds /\ Writes(t) /\ \A i \in SlotIds : i = t \/ i = 1 - t
        BY Written DEF SlotIds
    <1>2. /\ at \in 1 .. 8 /\ disk \in [SlotIds -> Slots] /\ new.seq = base.seq + 1
          /\ disk[1 - t].ver = base /\ Valid(disk, 1 - t) /\ disk[t].whole
          /\ new \in Versions /\ base \in Versions
        BY <1>1, Steps DEF TypeOK, CommitInv, Writes
    <1>3. CASE at = 1
        <2>1. disk[t].magic /\ base.seq = disk[t].ver.seq + 1 BY <1>1, <1>3 DEF Writes
        <2>2. Valid(disk, 0) /\ Valid(disk, 1) BY <1>1, <1>2, <2>1 DEF Valid, SlotIds
        <2>3. Usable(disk) /\ Authority(disk) = base BY <1>1, <1>2, <2>1, <2>2, RegisterIdle
        <2> QED BY <1>3, <2>3 DEF Readable, InForce
    <1>4. CASE at \in 2 .. 6
        <2>1. ~disk[t].magic BY <1>1, <1>4 DEF Writes
        <2>2. ~Usable(disk) BY <1>1, <2>1 DEF Usable, Valid, SlotIds
        <2> QED BY <1>2, <1>4, <2>2 DEF Readable, InForce
    <1>5. CASE at > 6
        <2>1. disk[t].magic /\ disk[t].ver = new BY <1>1, <1>2, <1>5 DEF Writes
        <2>2. Valid(disk, 0) /\ Valid(disk, 1) BY <1>1, <1>2, <2>1 DEF Valid, SlotIds
        <2>3. 1 - (1 - t) = t BY <1>1 DEF SlotIds
        <2>4. Usable(disk) /\ Authority(disk) = new
            BY <1>1, <1>2, <2>1, <2>2, <2>3, RegisterIdle
        <2> QED BY <1>5, <2>4 DEF Readable, InForce
    <1> QED BY <1>2, <1>3, <1>4, <1>5

\* The register always holds a version, and what a reader gets covers what
\* anybody was told.
LEMMA RegisterHolds ==
    IInv => /\ InForce \in Versions /\ Readable \in BOOLEAN
            /\ at = 0 /\ Readable => Usable(disk) /\ InForce = Authority(disk) /\ Covers(InForce)
    <1> SUFFICES ASSUME IInv
                 PROVE  /\ InForce \in Versions /\ Readable \in BOOLEAN
                        /\ at = 0 /\ Readable => Usable(disk) /\ InForce = Authority(disk) /\ Covers(InForce)
        OBVIOUS
    <1>1. CASE at # 0
        <2>1. InForce \in Versions BY <1>1, RegisterInFlight DEF IInv, TypeOK
        <2> QED BY <1>1, <2>1 DEF Readable
    <1>2. CASE at = 0
        <2>1. Readable \in BOOLEAN BY DEF Readable, Usable, Valid
        <2>2. CASE Usable(disk)
            BY <1>2, <2>1, <2>2, AuthorityCovers DEF InForce, IInv
        <2>3. CASE ~Usable(disk)
            <3>1. platter[0].ver \in Versions BY DEF IInv, TypeOK, Slots, SlotIds
            <3> QED BY <1>2, <2>1, <2>3, <3>1 DEF InForce, Readable
        <2> QED BY <2>2, <2>3
    <1> QED BY <1>1, <1>2

\* A journal that a commit in flight may leave behind, if both slots parse,
\* holds the version it had in force, or the new one once the magic was on
\* its way.
LEMMA LeftVersion ==
    ASSUME TypeOK, DiskInv, CommitInv, at # 0, NEW d \in Interrupted,
           MayParse(platter, d, 0), MayParse(platter, d, 1),
           NEW r \in [SlotIds -> Slots], Usable(r), \A i \in SlotIds : r[i].ver = d[i].ver
    PROVE  at # 4 /\ at # 5 /\ Authority(r) = IF at >= 6 THEN new ELSE base
    <1> DEFINE t == Target
    <1>1. /\ t \in SlotIds /\ 1 - t \in SlotIds /\ Writes(t)
          /\ (\A i \in SlotIds : i = t \/ i = 1 - t) /\ 1 - (1 - t) = t
        BY Written DEF SlotIds
    <1>2. d[1 - t] = disk[1 - t] /\ d \in [SlotIds -> Slots] BY InterruptedKeeps
    <1>3. PICK s \in Partly(Kind, disk[t]) : d = [disk EXCEPT ![t] = s] BY DEF Interrupted
    <1>4. /\ at \in 1 .. 8 /\ disk \in [SlotIds -> Slots] /\ disk[t] \in Slots /\ new \in Versions
          /\ new.seq = base.seq + 1 /\ disk[1 - t].ver = base /\ (at \in 2 .. 6 => ~disk[t].magic)
        BY <1>1, Steps DEF TypeOK, CommitInv, Writes
    <1> HIDE DEF t
    <1>5. d[t] = s BY <1>1, <1>3, <1>4
    <1>6. at # 4 => s.ver = disk[t].ver
        <2>1. CASE at = 1 BY <1>3, <1>4, <2>1, Steps DEF Partly, Done, Slots
        <2>2. CASE at \in {2, 3, 5, 7, 8} BY <1>3, <1>4, <2>2, Steps DEF Partly, Done
        <2>3. CASE at = 6 BY <1>3, <1>4, <2>3, Steps DEF Partly, Done, Slots
        <2> QED BY <1>4, <2>1, <2>2, <2>3
    <1>7. MayParse(platter, d, t) BY <1>1 DEF SlotIds
    <1>8. at # 4
        <2> SUFFICES ASSUME at = 4 PROVE FALSE OBVIOUS
        <2>1. s.magic = disk[t].magic BY <1>3, <1>4, Steps DEF Partly, Done, Slots
        <2>2. platter = disk BY <1>1 DEF Writes
        <2> QED BY <1>4, <1>5, <1>7, <2>1, <2>2 DEF MayParse
    <1>9. at # 5
        <2> SUFFICES ASSUME at = 5 PROVE FALSE OBVIOUS
        <2>1. s = disk[t] BY <1>3, Steps DEF Partly, Done
        <2>2. ~platter[t].magic BY <1>1 DEF Writes
        <2> QED BY <1>4, <1>5, <1>7, <2>1, <2>2 DEF MayParse
    <1>10. CASE at < 4
        <2>1. base.seq = disk[t].ver.seq + 1 BY <1>1, <1>4, <1>10 DEF Writes
        <2>2. r[1 - t].ver.seq = r[t].ver.seq + 1 /\ r[1 - t].ver = base
            BY <1>1, <1>2, <1>4, <1>5, <1>6, <1>10, <2>1
        <2> QED BY <1>1, <1>4, <1>10, <2>2, NewestSlot
    <1>11. CASE at > 5
        <2>1. disk[t].ver = new BY <1>1, <1>4, <1>11 DEF Writes
        <2>2. r[t].ver = new /\ r[1 - t].ver = base
            BY <1>1, <1>2, <1>4, <1>5, <1>6, <1>11, <2>1
        <2> QED BY <1>1, <1>4, <1>11, <2>2, NewestSlot
    <1> QED BY <1>4, <1>8, <1>9, <1>10, <1>11

\* Both, after a step.
LEMMA RegisterInFlightNext ==
    (IInv /\ at # 0 => Readable /\ InForce = IF at > 6 THEN new ELSE base)'
    BY RegisterInFlight, PTL

LEMMA RegisterHoldsNext ==
    (IInv => /\ InForce \in Versions /\ Readable \in BOOLEAN
             /\ at = 0 /\ Readable => Usable(disk) /\ InForce = Authority(disk) /\ Covers(InForce))'
    BY RegisterHolds, PTL

\* What a step of the journal is to the register.
Stays == UNCHANGED <<InForce, Readable, told>>
Moves == Stays \/ Register!Next

LEMMA RegisterInit == Init => Register!Init
    <1> SUFFICES ASSUME Init PROVE Register!Init OBVIOUS
    <1>1. IInv BY InitInv
    <1>2. Usable(disk) BY DEF Init, Usable, Valid, SlotIds
    <1>3. InForce \in Versions BY <1>1, RegisterHolds
    <1> QED BY <1>2, <1>3 DEF Init, Readable, Register!Init, Register!Versions, Versions

\* The step that writes, in terms of the register.
LEMMA RegisterWrites ==
    ASSUME IInv, at # 0, InForce = base, Readable', InForce' = new, told' = told
    PROVE  Register!Write
    <1>1. /\ new \in Versions /\ base \in Versions /\ new.seq = base.seq + 1
        BY DEF IInv, TypeOK, CommitInv
    <1>2. new = [seq |-> base.seq + 1, val |-> new.val] /\ new.val \in Values /\ base.seq < MaxSeq
        BY <1>1, LimitsAssumption DEF Versions
    <1>3. Readable = TRUE /\ Readable' = TRUE
        BY RegisterInFlight DEF Readable, Usable, Valid
    <1> QED BY <1>2, <1>3 DEF Register!Write

\* The step that makes the journal unreadable.
LEMMA RegisterBreaks ==
    ASSUME IInv, IInv', Readable, ~Readable', told' = told
    PROVE  Register!Break
    <1>1. Readable = TRUE /\ Readable' = FALSE BY DEF Readable, Usable, Valid
    <1>2. InForce' \in Versions BY RegisterHoldsNext
    <1> QED BY <1>1, <1>2 DEF Register!Break, Register!Versions, Versions

LEMMA RegisterTells ==
    ASSUME Readable, Readable', InForce' = InForce, told' = told \cup {InForce}
    PROVE  Register!Tell
    BY DEF Register!Tell, Readable, Usable, Valid

\* Nothing the register sees of the lease, the tokens or a new commit.
LEMMA QuietMoves ==
    ASSUME IInv, IInv', Open \/ Close \/ RequestHangs \/ ReadHangs \/ UNCHANGED vars
    PROVE  Stays
    <1>1. UNCHANGED <<disk, platter, at, new, base, told>>
        BY DEF Open, Close, RequestHangs, ReadHangs, vars
    <1> QED BY <1>1 DEF Stays, InForce, Readable, Authority, Usable, Valid, Older, Target

LEMMA TellMoves ==
    ASSUME IInv, IInv', Read \/ \E v \in issued : Conflict(v)
    PROVE  Register!Tell
    <1>1. /\ at = 0 /\ Usable(disk) /\ told' = told \cup {Authority(disk)}
          /\ UNCHANGED <<disk, platter, at, new, base>>
        BY DEF IInv, LeaseInv, Read, Conflict, Idle, Tell
    <1>2. InForce' = InForce /\ Readable' = Readable
        BY <1>1 DEF InForce, Readable, Authority, Usable, Valid, Older, Target
    <1>3. Readable /\ InForce = Authority(disk) BY <1>1 DEF Readable, InForce
    <1> QED BY <1>1, <1>2, <1>3, RegisterTells

LEMMA CommitMoves ==
    ASSUME IInv, IInv', NEW v \in issued, NEW x \in Values, Commit(v, x)
    PROVE  Stays
    <1>1. /\ at = 0 /\ Usable(disk) /\ v = Authority(disk)
          /\ at' = 1 /\ base' = v /\ told' = told
        BY DEF IInv, LeaseInv, Commit, Idle, Admitted
    <1>2. Readable = TRUE /\ InForce = v BY <1>1 DEF Readable, InForce, Usable, Valid
    <1>3. Readable' /\ InForce' = v BY <1>1, RegisterInFlightNext
    <1>4. Readable' = TRUE BY <1>3 DEF Readable, Usable, Valid
    <1> QED BY <1>1, <1>2, <1>3, <1>4 DEF Stays

LEMMA RequestMoves ==
    ASSUME IInv, IInv', RequestDone
    PROVE  Moves
    <1>1. /\ at \in 1 .. 8 /\ at # 0 /\ disk' \in [SlotIds -> Slots]
        BY RequestSlots
    <1>2. Readable = TRUE /\ InForce = IF at > 6 THEN new ELSE base
        BY <1>1, RegisterInFlight DEF Readable, Usable, Valid
    <1>3. UNCHANGED <<new, base>> BY DEF RequestDone
    <1>4. CASE at < 8
        <2>1. at' = at + 1 /\ told' = told
            BY <1>1, <1>4, Steps DEF RequestDone
        <2>2. Readable' /\ InForce' = IF at' > 6 THEN new ELSE base
            BY <1>1, <1>3, <2>1, RegisterInFlightNext
        <2>3. Readable' = TRUE BY <2>2 DEF Readable, Usable, Valid
        <2>4. CASE at = 6
            <3>1. InForce = base /\ InForce' = new BY <1>2, <2>1, <2>2, <2>4
            <3>2. Register!Write BY <1>1, <2>1, <2>2, <3>1, RegisterWrites
            <3> QED BY <3>2 DEF Moves, Register!Next
        <2>5. CASE at # 6
            <3>1. InForce' = InForce BY <1>1, <1>2, <1>4, <2>1, <2>2, <2>5
            <3> QED BY <1>2, <2>1, <2>3, <3>1 DEF Moves, Stays
        <2> QED BY <2>4, <2>5
    <1>5. CASE at = 8
        <2>1. at' = 0 /\ disk' = disk /\ told' = told \cup {new}
            BY <1>1, <1>5, RequestSlots, Steps DEF RequestDone, Succeed, Tell
        <2>2. Writes(Target) /\ Target \in SlotIds BY <1>1, Written DEF IInv
        <2>3. disk[Target].ver = new /\ disk[1 - Target].ver = base /\ Usable(disk) /\ Authority(disk) = new
            <3>1. InForce = new /\ disk[Target].ver = new /\ disk[1 - Target].ver = base
                BY <1>2, <1>5, <2>2 DEF Writes
            <3>2. Valid(disk, 0) /\ Valid(disk, 1)
                BY <1>5, <2>2 DEF Writes, Valid, SlotIds
            <3>3. new.seq = base.seq + 1 BY <1>1 DEF IInv, CommitInv
            <3>4. 1 - Target \in SlotIds /\ 1 - (1 - Target) = Target /\ disk \in [SlotIds -> Slots]
                BY <2>2 DEF SlotIds, IInv, TypeOK
            <3> QED BY <3>1, <3>2, <3>3, <3>4, RegisterIdle
        <2>4. Usable(disk)' /\ Authority(disk)' = new
            BY <2>1, <2>3 DEF Usable, Valid, Authority, Older
        <2>5. Readable' /\ InForce' = new BY <2>1, <2>4 DEF Readable, InForce
        <2>6. InForce = new BY <1>2, <1>5
        <2> QED BY <1>2, <2>1, <2>5, <2>6, RegisterTells DEF Moves, Register!Next
    <1> QED BY <1>1, <1>4, <1>5

\* A journal that is left with a commit in flight and parses shows the
\* register unmoved, or the write done.
LEMMA LeftMoves ==
    ASSUME IInv, IInv', at # 0, at' = 0, told' = told, Readable', NEW d \in Interrupted,
           MayParse(platter, d, 0), MayParse(platter, d, 1),
           \A i \in SlotIds : disk'[i].ver = d[i].ver
    PROVE  Moves
    <1>1. /\ Usable(disk)' /\ InForce' = Authority(disk') /\ Readable' = TRUE
        BY RegisterHoldsNext DEF Readable, Usable, Valid
    <1>2. Readable = TRUE /\ InForce = IF at > 6 THEN new ELSE base
        BY RegisterInFlight DEF Readable, Usable, Valid
    <1>3. disk' \in [SlotIds -> Slots] /\ at \in 1 .. 8
        BY Steps DEF IInv, TypeOK
    <1>4. PICK r \in [SlotIds -> Slots] : r = disk' BY <1>3
    <1>5. Usable(r) BY <1>1, <1>4 DEF Usable, Valid
    <1>6. at # 4 /\ at # 5 /\ Authority(r) = IF at >= 6 THEN new ELSE base
        BY <1>4, <1>5, LeftVersion DEF IInv
    <1>7. InForce' = IF at >= 6 THEN new ELSE base BY <1>1, <1>4, <1>6
    <1>8. CASE at = 6
        <2>1. Register!Write BY <1>2, <1>7, <1>8, RegisterWrites
        <2> QED BY <2>1 DEF Moves, Register!Next
    <1>9. CASE at # 6
        <2>1. InForce' = InForce BY <1>2, <1>3, <1>7, <1>9
        <2> QED BY <1>1, <1>2, <2>1 DEF Moves, Stays
    <1> QED BY <1>8, <1>9

LEMMA AbandonMoves ==
    ASSUME IInv, IInv', RequestFails \/ LateEffect \/ Killed
    PROVE  Moves
    <1>1. disk' \in LeftBehind /\ at' = 0 /\ UNCHANGED <<platter, new, base, told>>
        BY DEF RequestFails, LateEffect, Killed, Submitted, LeftBehind
    <1>2. CASE at = 0
        <2>1. UNCHANGED <<disk, platter, at, new, base, told>> BY <1>1, <1>2 DEF LeftBehind
        <2> QED BY <2>1 DEF Moves, Stays, InForce, Readable, Authority, Usable, Valid, Older, Target
    <1>3. CASE at # 0 /\ ~Readable'
        <2>1. Readable BY <1>3, RegisterInFlight
        <2> QED BY <1>1, <1>3, <2>1, RegisterBreaks DEF Moves, Register!Next
    <1>4. CASE at # 0 /\ Readable'
        <2>1. PICK d \in Interrupted : d = disk' BY <1>1, <1>4 DEF LeftBehind
        <2>2. Usable(disk)' BY <1>1, <1>4, RegisterHoldsNext
        <2>3. MayParse(platter, d, 0) /\ MayParse(platter, d, 1)
            BY <2>1, <2>2 DEF Usable, Valid, MayParse
        <2> QED BY <1>1, <1>4, <2>1, <2>3, LeftMoves
    <1> QED BY <1>2, <1>3, <1>4

LEMMA PowerMoves ==
    ASSUME IInv, IInv', PowerFails
    PROVE  Moves
    <1>1. at' = 0 /\ told' = told BY DEF PowerFails
    <1>2. CASE Readable /\ ~Readable'
        BY <1>1, <1>2, RegisterBreaks DEF Moves, Register!Next
    <1>3. CASE ~Readable
        <2>1. Readable = FALSE /\ Readable' \in BOOLEAN BY <1>3 DEF Readable, Usable, Valid
        <2>2. InForce' \in Versions /\ (Readable' => Covers(InForce)') BY <1>1, RegisterHoldsNext
        <2>3. Readable' => \A x \in told : InForce'.seq > x.seq \/ InForce' = x
            BY <1>1, <2>2 DEF Covers
        <2>4. Register!Mend
            BY <1>1, <2>1, <2>2, <2>3
               DEF Register!Mend, Register!Supersedes, Register!Versions, Versions
        <2> QED BY <2>4 DEF Moves, Register!Next
    <1>4. CASE Readable /\ Readable'
        <2>1. PICK d \in LeftBehind :
                /\ d \in [SlotIds -> Slots] /\ disk' \in [SlotIds -> Slots]
                /\ \A i \in SlotIds : Valid(disk', i) => MayParse(platter, d, i) /\ disk'[i].ver = d[i].ver
            BY PowerLeaves DEF IInv
        <2>2. Usable(disk)' /\ InForce' = Authority(disk)' /\ Readable' = TRUE
            BY <1>1, <1>4, RegisterHoldsNext DEF Readable, Usable, Valid
        <2>3. /\ MayParse(platter, d, 0) /\ MayParse(platter, d, 1)
              /\ disk'[0].ver = d[0].ver /\ disk'[1].ver = d[1].ver
            BY <2>1, <2>2 DEF Usable, Valid, SlotIds
        <2>4. CASE at # 0
            <3>1. d \in Interrupted /\ \A i \in SlotIds : disk'[i].ver = d[i].ver
                BY <2>3, <2>4 DEF LeftBehind, SlotIds
            <3> QED BY <1>1, <1>4, <2>3, <2>4, <3>1, LeftMoves
        <2>5. CASE at = 0
            <3>1. d = disk BY <2>5 DEF LeftBehind
            <3>2. Readable = TRUE /\ InForce = Authority(disk)
                BY <1>4, <2>5, RegisterHolds DEF Readable, Usable, Valid
            <3>3. Authority(disk)' = Authority(disk) BY <2>3, <3>1 DEF Authority, Older
            <3> QED BY <1>1, <2>2, <3>2, <3>3 DEF Moves, Stays
        <2> QED BY <2>4, <2>5
    <1> QED BY <1>2, <1>3, <1>4

LEMMA RegisterStep == IInv /\ IInv' /\ [Next]_vars => [Register!Next]_<<InForce, Readable, told>>
    <1> SUFFICES ASSUME IInv, IInv', [Next]_vars PROVE Moves
        BY DEF Moves, Stays
    <1>1. CASE Open \/ Close \/ RequestHangs \/ ReadHangs \/ UNCHANGED vars
        BY <1>1, QuietMoves DEF Moves
    <1>2. CASE Read \/ \E v \in issued : Conflict(v) BY <1>2, TellMoves DEF Moves, Register!Next
    <1>3. CASE \E v \in issued, x \in Values : Commit(v, x) BY <1>3, CommitMoves DEF Moves
    <1>4. CASE RequestDone BY <1>4, RequestMoves
    <1>5. CASE RequestFails \/ LateEffect \/ Killed BY <1>5, AbandonMoves
    <1>6. CASE PowerFails BY <1>6, PowerMoves
    <1> QED BY <1>1, <1>2, <1>3, <1>4, <1>5, <1>6 DEF Next

\* The journal is a register written by compare and swap: every history of
\* leases, commits, failures and power cuts is one the register allows, so
\* a version a caller was told of is never gone while the journal is read.
THEOREM ImplementsRegister == Spec => RegisterKept
    BY RegisterInit, RegisterStep, Invariant, PTL DEF Spec, RegisterKept, Register!Spec
=============================================================================
