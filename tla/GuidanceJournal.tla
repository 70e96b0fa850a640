--------------------------- MODULE GuidanceJournal ---------------------------
(***************************************************************************)
(* The two-slot journal of the revenue guidance store:                     *)
(* NativeStorageLease of scripts/revenue_guidance_storage.py over the      *)
(* native requests of scripts/revenue_guidance_windows.py.                 *)
(*                                                                         *)
(* The journal file is opened without sharing, so at most one lease exists *)
(* at a time, and a lease is serialized by a lock that never waits: the    *)
(* model follows the one lease there may be, opened by one process after   *)
(* another.  A commit overwrites the older slot in eight native requests;  *)
(* each may complete, fail, or stay pending for ever, which poisons the    *)
(* process.  A process may be killed at any point and the power may fail:  *)
(* what was not flushed may then be lost, written, or (the body of a slot) *)
(* written in part.                                                        *)
(***************************************************************************)
EXTENDS Naturals, Sequences, FiniteSets

CONSTANTS
    Values,         \* journal states
    MaxSeq,         \* the largest sequence number (2^64 - 1 in the code)
    MaxTokens,      \* version tokens one lease may issue (64)
    MaxCuts         \* bound: power failures

ASSUME LimitsAssumption == MaxSeq \in Nat \ {0} /\ MaxTokens \in Nat \ {0} /\ MaxCuts \in Nat
ASSUME ValuesAssumption == Values # {}

VARIABLES
    disk,       \* the two slots a read returns
    platter,    \* the two slots as far as they are flushed
    lease,      \* the lease that holds the journal file
    issued,     \* version tokens it has handed out
    at,         \* the native request its commit has submitted; 0 when none
    new,        \* the version that commit writes
    base,       \* the version its caller expects to replace
    cuts,       \* power failures so far
    told,       \* history: versions a caller was told are in force
    acked       \* history: successful commits, as <<expected, written>>

vars == <<disk, platter, lease, issued, at, new, base, cuts, told, acked>>

Versions == [seq : 0 .. MaxSeq, val : Values]
SlotIds == {0, 1}
\* A slot parses when its magic is there and its digest matches its body.
Slots == [ver : Versions, magic : BOOLEAN, whole : BOOLEAN]

Valid(d, i) == d[i].magic /\ d[i].whole

Usable(d) ==
    /\ Valid(d, 0) /\ Valid(d, 1)
    /\ d[0].ver.seq = d[1].ver.seq + 1 \/ d[1].ver.seq = d[0].ver.seq + 1

Older(d) == IF d[0].ver.seq > d[1].ver.seq THEN 1 ELSE 0
Authority(d) == d[1 - Older(d)].ver

\* The native requests of one commit, in order.
Script == <<"invalidate", "flush", "readback", "body", "flush", "magic", "flush", "verify">>
Kind == Script[at]

\* What a request does to the slot it writes once it has completed ...
Done(kind, slot) ==
    CASE kind = "invalidate" -> [slot EXCEPT !.magic = FALSE]
      [] kind = "body" -> [slot EXCEPT !.ver = new, !.whole = TRUE]
      [] kind = "magic" -> [slot EXCEPT !.magic = TRUE]
      [] OTHER -> slot

\* ... and what it may have done when its outcome is not known.
Partly(kind, slot) ==
    {slot, Done(kind, slot)} \cup
        IF kind = "body" THEN {[slot EXCEPT !.ver = new, !.whole = FALSE]} ELSE {}

\* Mutant: the commit overwrites the slot that is in force.
TargetNewest == IF disk[0].ver.seq + 2 = new.seq THEN 1 ELSE 0
\* The slot a commit writes is never the one that is in force.
Target == CHOOSE i \in SlotIds : disk[1 - i].ver.seq + 1 = new.seq

Init ==
    /\ \E x \in Values :
        disk = [i \in SlotIds |-> [ver |-> [seq |-> i, val |-> x], magic |-> TRUE, whole |-> TRUE]]
    /\ platter = disk
    /\ lease = "none" /\ issued = {}
    /\ at = 0 /\ new = Authority(disk) /\ base = new
    /\ cuts = 0 /\ told = {} /\ acked = {}

-----------------------------------------------------------------------------
(* The lease.                                                              *)

\* Acquisition validates both slots before the lease is usable; a journal
\* that does not parse is refused and the handles are closed again.
Open ==
    /\ lease = "none" /\ Usable(disk)
    /\ lease' = "ready" /\ issued' = {}
    /\ UNCHANGED <<disk, platter, at, new, base, cuts, told, acked>>

Idle == lease = "ready" /\ at = 0

MayIssue(v) == v \in issued \/ Cardinality(issued) < MaxTokens

Tell(v) == issued' = issued \cup {v} /\ told' = told \cup {v}

Succeed == Tell(new) /\ acked' = acked \cup {<<base, new>>}

Read ==
    /\ Idle /\ MayIssue(Authority(disk))
    /\ Tell(Authority(disk))
    /\ UNCHANGED <<disk, platter, lease, at, new, base, cuts, acked>>

\* Mutants: a stale version is accepted; the sequence number overflows; the
\* token table is looked at only after the write.
AdmittedStale(expected, ver) == ver.seq <= MaxSeq /\ MayIssue(ver)
AdmittedOverflow(expected, ver) == expected = Authority(disk) /\ MayIssue(ver)
AdmittedLate(expected, ver) == expected = Authority(disk) /\ ver.seq <= MaxSeq
\* Everything that can refuse a commit is checked before its first write.
Admitted(expected, ver) ==
    expected = Authority(disk) /\ ver.seq <= MaxSeq /\ MayIssue(ver)

Commit(expected, x) ==
    LET ver == [seq |-> Authority(disk).seq + 1, val |-> x] IN
    /\ Idle /\ Admitted(expected, ver)
    /\ new' = ver /\ base' = expected /\ at' = 1
    /\ UNCHANGED <<disk, platter, lease, issued, cuts, told, acked>>

\* A commit against a version that is not in force writes nothing and
\* answers with the one that is.
Conflict(expected) ==
    /\ Idle /\ expected # Authority(disk) /\ MayIssue(Authority(disk))
    /\ Tell(Authority(disk))
    /\ UNCHANGED <<disk, platter, lease, at, new, base, cuts, acked>>

\* Closing settles every handle, or one close is not confirmed: the process
\* is poisoned and keeps them all until it is killed.
Close ==
    /\ lease \in {"ready", "closed"} /\ at = 0
    /\ lease' \in {"none", "quarantined"} /\ issued' = {}
    /\ UNCHANGED <<disk, platter, at, new, base, cuts, told, acked>>

-----------------------------------------------------------------------------
(* The native requests of a commit.                                        *)

Submitted == lease = "ready" /\ at # 0

\* Mutant: the commit answers before it has flushed and read the slot again.
RequestDoneEarly ==
    /\ Submitted
    /\ disk' = [disk EXCEPT ![Target] = Done(Kind, @)]
    /\ platter' = IF Kind = "flush" THEN disk ELSE platter
    /\ at' = IF Kind \in {"magic", "verify"} THEN 0 ELSE at + 1
    /\ IF Kind \in {"magic", "verify"} THEN Succeed ELSE UNCHANGED <<issued, told, acked>>
    /\ UNCHANGED <<lease, new, base, cuts>>

RequestDone ==
    /\ Submitted
    /\ disk' = [disk EXCEPT ![Target] = Done(Kind, @)]
    /\ platter' = IF Kind = "flush" THEN disk ELSE platter
    /\ at' = IF Kind = "verify" THEN 0 ELSE at + 1
    /\ IF Kind = "verify" THEN Succeed ELSE UNCHANGED <<issued, told, acked>>
    /\ UNCHANGED <<lease, new, base, cuts>>

\* What a request leaves behind when it does not complete.
Interrupted == {[disk EXCEPT ![Target] = s] : s \in Partly(Kind, disk[Target])}

\* A request fails, or does not read back what was written: the lease takes
\* no further operation and the slot stays as it is.
RequestFails ==
    /\ Submitted
    /\ disk' \in Interrupted
    /\ lease' = "closed" /\ at' = 0
    /\ UNCHANGED <<platter, issued, new, base, cuts, told, acked>>

\* A request is never answered: the lease is quarantined and the request may
\* still take effect.
RequestHangs ==
    /\ Submitted
    /\ lease' = "quarantined"
    /\ UNCHANGED <<disk, platter, issued, at, new, base, cuts, told, acked>>

\* So does a read that is never answered.
ReadHangs ==
    /\ Idle
    /\ lease' = "quarantined"
    /\ UNCHANGED <<disk, platter, issued, at, new, base, cuts, told, acked>>

LateEffect ==
    /\ lease = "quarantined" /\ at # 0
    /\ disk' \in Interrupted
    /\ at' = 0
    /\ UNCHANGED <<platter, lease, issued, new, base, cuts, told, acked>>

-----------------------------------------------------------------------------
(* Crashes.                                                                *)

LeftBehind == IF at = 0 THEN {disk} ELSE Interrupted

Killed ==
    /\ lease # "none"
    /\ disk' \in LeftBehind
    /\ lease' = "none" /\ issued' = {} /\ at' = 0
    /\ UNCHANGED <<platter, new, base, cuts, told, acked>>

\* A slot after a power failure: each part is the flushed or the later one;
\* a body that was on its way may be neither.
Survivors(old, s) ==
    {[b EXCEPT !.magic = m] : m \in {old.magic, s.magic},
        b \in {old, s} \cup
            IF old.ver = s.ver /\ old.whole = s.whole THEN {} ELSE {[s EXCEPT !.whole = FALSE]}}

PowerFails ==
    /\ cuts < MaxCuts /\ cuts' = cuts + 1
    /\ \E d \in LeftBehind :
        \E a \in Survivors(platter[0], d[0]), b \in Survivors(platter[1], d[1]) :
            disk' = [disk EXCEPT ![0] = a, ![1] = b]
    /\ platter' = disk'
    /\ lease' = "none" /\ issued' = {} /\ at' = 0
    /\ UNCHANGED <<new, base, told, acked>>

Next ==
    \/ Open \/ Read \/ Close
    \/ \E v \in issued : Conflict(v) \/ \E x \in Values : Commit(v, x)
    \/ RequestDone \/ RequestFails \/ RequestHangs \/ ReadHangs \/ LateEffect
    \/ Killed \/ PowerFails

Spec == Init /\ [][Next]_vars

-----------------------------------------------------------------------------
(* Properties.                                                             *)

TypeOK ==
    /\ disk \in [SlotIds -> Slots] /\ platter \in [SlotIds -> Slots]
    /\ lease \in {"none", "ready", "closed", "quarantined"}
    /\ issued \subseteq Versions /\ told \subseteq Versions
    /\ at \in 0 .. Len(Script) /\ new \in Versions /\ base \in Versions
    /\ acked \subseteq told \X told
    /\ cuts \in 0 .. MaxCuts

\* Until the power fails for the first time, whatever else fails, hangs or is
\* killed: both as read and as flushed one of the two slots parses and holds
\* the newest version whose commit succeeded, or a later one, so a person
\* who repairs a torn journal by hand loses nothing that was acknowledged.
\* A failure between two flushes may take that slot only when an earlier
\* lease left the other one unflushed.
SlotKept ==
    cuts = 0 =>
        \A d \in {disk, platter} :
            \E i \in SlotIds : Valid(d, i) /\ \A p \in acked : d[i].ver.seq >= p[2].seq

\* No update is lost: of the commits that expect the same version, under one
\* lease or under two, at most one succeeds.
NoLostUpdate == \A p, q \in acked : p[1] = q[1] => p = q

\* A commit that was admitted can always hand out its token, so a full token
\* table never turns a finished write into a failure.
TokensBounded == Cardinality(issued) <= MaxTokens

\* The promise of DurableRegister.  While a commit is in flight the register
\* counts as readable: its next reader is the commit itself.
Readable == at # 0 \/ Usable(disk)
InForce ==
    IF Usable(disk) THEN Authority(disk)
    ELSE IF at # 0 THEN disk[1 - Target].ver ELSE platter[0].ver
Register == INSTANCE DurableRegister WITH current <- InForce, readable <- Readable
RegisterKept == Register!Spec
=============================================================================
