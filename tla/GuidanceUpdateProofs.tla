------------------------ MODULE GuidanceUpdateProofs ------------------------
(***************************************************************************)
(* The updater uses its capture store as the store's own specification     *)
(* says, so what is proved of the store holds in every run of the updater. *)
(* The rest is proved from one invariant, which relates what a run holds   *)
(* in memory to the histories that are published, to the segments and      *)
(* captures on the disk and to the quota.                                  *)
(***************************************************************************)
EXTENDS GuidanceUpdate, GuidanceCapturesProofs, GuidanceHistoryProofs

\* Every step of the updater, of the checker and of an installation is a step
\* of the store or leaves it alone.
LEMMA StepOfStore == Next => [StoreNext]_storeVars
  <1> SUFFICES ASSUME Next PROVE StoreNext \/ UNCHANGED storeVars
    OBVIOUS
  <1>1. CASE Begin
    BY <1>1 DEF Begin, StoreNext
  <1>2. CASE WriteGeneration \/ MovePointer \/ TakeTurn \/ Reuse
    BY <1>2 DEF WriteGeneration, MovePointer, TakeTurn, Reuse
  <1>3. CASE \E i \in Issuer : Skip(i) \/ NoResults(i) \/ Detect(i)
    BY <1>3 DEF Skip, NoResults, Detect, OnlyRun
  <1>4. CASE Fetch
    <2>1. PICK p \in Answers : StoreHeld(p) \/ Reserve(p)
      BY <1>4 DEF Fetch
    <2>2. p \in Page
      BY <2>1, UpdateAssumption DEF Answers
    <2> QED
      BY <2>1, <2>2 DEF StoreNext
  <1>5. CASE WriteCapture
    BY <1>5 DEF WriteCapture, StoreNext
  <1>6. CASE Decide \/ Fails \/ Exhausted
    BY <1>6 DEF Decide, Fails, Exhausted, Goes
  <1>7. CASE Finish
    BY <1>7 DEF Finish, OnlyRun
  <1>8. CASE Break \/ Done \/ Crash
    BY <1>8 DEF Break, Done, Crash, Rests, StoreNext
  <1>9. CASE Check \/ Install
    BY <1>9 DEF Check, Install
  <1> QED
    BY <1>1, <1>2, <1>3, <1>4, <1>5, <1>6, <1>7, <1>8, <1>9 DEF Next, Step

\* The updater implements the store.
THEOREM UpdateImplementsStore == Spec => StoreSpec
  <1>1. Init => StoreInit
    BY DEF Init
  <1>2. [Next]_vars => [StoreNext]_storeVars
    BY StepOfStore DEF vars
  <1> QED
    BY <1>1, <1>2, PTL DEF Spec, StoreSpec

\* In every run of the updater, whatever dies where, the accounting counts every
\* object of the store and at most one reservation is open.
THEOREM UpdateCounted == Spec => []FilesCounted
  BY UpdateImplementsStore, StoreCounted, PTL

\* In every run of the updater, whatever dies where, the accounting counts every
\* byte that is on the disk or still reserved.
THEOREM UpdateBytesCounted == Spec => []BytesCounted
  BY UpdateImplementsStore, StoreBytesCounted, PTL

-----------------------------------------------------------------------------
(* What the values are. *)

\* The documents of an issuer, and the attempts that can be made for it.
Mine(i) == {d \in Doc : Owner[d] = i}
Readings == {Refused} \cup {Reading[v][e] : v \in 1 .. LastVersion, e \in Results}
Preds == {<<"curated", Curated[v][i]>> : v \in 1 .. LastVersion, i \in Issuer}
             \cup ((Results \cup {NoDoc}) \X Readings)
Whys == {"periodic", "refused", "verified", "unresolved", "detected", "interrupted"}
Caps == UNION {[K -> Page] : K \in SUBSET Key}
Keys(i) == [event : (Results \cap Mine(i)) \cup {NoDoc}, about : SUBSET Mine(i)]
Attempts(i) ==
    {a \in [key : Keys(i), docs : SUBSET Mine(i), caps : Caps, pred : Preds,
            outcome : Outcomes, why : Whys, reading : Readings] :
        a.outcome # "WAITING" => a.key.event # NoDoc}

\* Those whose captures are on the disk: what a history may hold.
Held(i) == {a \in Attempts(i) : \A k \in DOMAIN a.caps : Loadable(a.caps[k])}
Producers(i) == Held(i) \cup {NoAttempt}
Seens(i) == [docs : SUBSET Mine(i), over : BOOLEAN]

-----------------------------------------------------------------------------
(* The invariant. *)

\* What is on the disk between runs.
RowsInv ==
    /\ version \in 1 .. LastVersion /\ published \subseteq Doc
    /\ orphan \in BOOLEAN /\ queue \in Issuer \cup {NoIssuer}
    /\ DOMAIN rows = Issuer
    /\ \A i \in Issuer :
          /\ rows[i] \in Seq([ref : Results \cup {NoDoc}, docs : SUBSET Mine(i)])
          /\ Len(rows[i]) <= Keep

StoredInv ==
    \A i \in Issuer :
        /\ Stored.issuers[i] \in Entries(Held(i))
        /\ Sound(Stored.issuers[i], segs)
        /\ Stored.dets[i] \in Seens(i)

\* The quota was compared with at least what the journal counts.
QuotaInv ==
    /\ ledger.bytes <= Quota
    /\ pc # "idle" => /\ run.held \in Nat /\ run.spent \in Nat
                      /\ ledger.bytes <= run.held + run.spent

PcInv ==
    /\ pc \in {"idle", "publish", "pointer", "serve", "queue", "fetch", "done"}
    /\ pc = "idle" <=> run = NoRun
    /\ pc = "idle" <=> stage = "closed"
    /\ pc \notin {"idle", "fetch"} => stage = "open"

RunFields == {"entries", "dets", "seen", "adm", "work", "order", "served", "who", "lead", "caps",
              "spent", "held", "changed", "exhausted", "then"}

\* What a run holds in memory.
RunInv ==
    pc # "idle" =>
        /\ DOMAIN run = RunFields /\ DOMAIN run.entries = Issuer
        /\ run.served \in Issuer \cup {NoIssuer} /\ run.changed \in BOOLEAN
        /\ run.then \in {"serve", "queue", "done"}
        /\ pc \in {"publish", "pointer"} => run.changed
        /\ \A i \in Issuer :
              /\ run.entries[i] \in Entries(Held(i))
              /\ Sound(run.entries[i], segs)
              /\ run.dets[i] \in Seens(i)
              /\ run.adm[i].docs \subseteq Mine(i)
              /\ run.adm[i].producer \in Producers(i)

\* How its histories relate to the published ones.
GrownInv ==
    pc # "idle" =>
        \A i \in Issuer :
            LET old == HistoryOf(Stored.issuers[i])
                new == HistoryOf(run.entries[i])
            IN /\ Stays(old, new)
               /\ Events(old) \subseteq Events(new)
               /\ ~run.changed => new = old

\* The event being served is the issuer's own and is recorded, and published
\* before its place is taken.
Leading == \/ pc \in {"queue", "fetch"}
           \/ pc \in {"publish", "pointer"} /\ run.then = "queue"
LeadInv ==
    /\ Leading => /\ run.who \in Issuer /\ run.lead \in Results /\ Owner[run.lead] = run.who
                  /\ run.lead \in Events(HistoryOf(run.entries[run.who]))
    /\ pc \in {"queue", "fetch"} => run.lead \in Events(HistoryOf(Stored.issuers[run.who]))

\* What it captured is on the disk, the capture being written apart.
CapsInv ==
    /\ (Leading /\ pc # "fetch") => run.caps = <<>>
    /\ pc = "fetch" =>
          /\ run.caps \in Caps
          /\ \A k \in DOMAIN run.caps :
                \/ Loadable(run.caps[k])
                \/ stage \in {"raw", "meta"} /\ run.caps[k] = storing

\* Nothing is held that no published history records.
CommittedInv ==
    \A p \in raw \cup ledger.pending :
        p[1] \in Events(HistoryOf(Stored.issuers[Owner[p[1]]]))

\* A document that was noticed is detected, or the detections overflowed, or a
\* verified attempt of the history accounts for it.
Covered(d, seen, h) ==
    \/ seen.over \/ d \in seen.docs
    \/ \E j \in 1 .. Len(h) : h[j].outcome = "VERIFIED" /\ LeftBy(h[j], {d}) = {}
SeenInv ==
    /\ \A i \in Issuer : \A d \in known[i] :
          Covered(d, Stored.dets[i], HistoryOf(Stored.issuers[i]))
    /\ pc # "idle" =>
          \A i \in Issuer : \A d \in known[i] \cup run.seen[i] :
              Covered(d, run.dets[i], HistoryOf(run.entries[i]))

UpdateInv == /\ RowsInv /\ StoredInv /\ QuotaInv /\ PcInv /\ RunInv
             /\ GrownInv /\ LeadInv /\ CapsInv /\ CommittedInv /\ SeenInv

-----------------------------------------------------------------------------
(* Choices. *)

\* There is an oldest document of any that there are.
LEMMA OldestIsOne ==
    ASSUME NEW E, E \subseteq Doc, E # {}
    PROVE  Oldest(E) \in E
  <1>1. \A e \in E : Day[e] \in Nat
    BY HistoryAssumption
  <1> DEFINE Below(n) == 0 .. n - 1
             T == {Below(Day[e]) : e \in E}
  <1>2. T \subseteq FiniteSubsetsOf(Nat)
    <2>1. ASSUME NEW e \in E
          PROVE  Below(Day[e]) \subseteq Nat /\ IsFiniteSet(Below(Day[e]))
      <3>1. PICK n \in Nat : n = Day[e]
        BY <1>1
      <3>2. n - 1 \in Int /\ 0 \in Int /\ 0 .. n - 1 \subseteq Nat
        OBVIOUS
      <3>3. IsFiniteSet(0 .. n - 1)
        BY <3>2, FS_Interval
      <3> QED BY <3>1, <3>2, <3>3
    <2> QED BY <2>1 DEF FiniteSubsetsOf
  <1>3. T # {}
    OBVIOUS
  <1> HIDE DEF T
  <1>4. PICK x \in T : \A y \in T : ~ (<<y, x>> \in StrictSubsetOrdering(Nat))
    BY <1>2, <1>3, FS_StrictSubsetOrderingWellFounded, WFMin
  <1>5. PICK e \in E : x = Below(Day[e])
    BY DEF T
  <1>6. ASSUME NEW f \in E
        PROVE  Day[e] <= Day[f]
    <2>1. Below(Day[f]) \in T
      BY DEF T
    <2>2. PICK m \in Nat, n \in Nat : m = Day[e] /\ n = Day[f]
      BY <1>1
    <2>3. ~ (<<0 .. n - 1, 0 .. m - 1>> \in StrictSubsetOrdering(Nat))
      BY <1>4, <1>5, <2>1, <2>2
    <2>4. ASSUME n < m PROVE FALSE
      <3>1. 0 .. n - 1 \subseteq 0 .. m - 1 /\ 0 .. m - 1 \subseteq Nat
        BY <2>4
      <3>2. n \in 0 .. m - 1 /\ n \notin 0 .. n - 1
        BY <2>4
      <3>3. <<0 .. n - 1, 0 .. m - 1>> \in StrictSubsetOrdering(Nat)
        BY <3>1, <3>2 DEF StrictSubsetOrdering
      <3> QED BY <2>3, <3>3
    <2> QED BY <2>2, <2>4
  <1>7. \E g \in E : \A f \in E : Day[g] <= Day[f]
    BY <1>6
  <1> QED BY <1>7 DEF Oldest

\* There are so many of more.
LEMMA SmallerSet ==
    ASSUME NEW S, IsFiniteSet(S), NEW n \in Nat, n <= Cardinality(S)
    PROVE  \E T \in SUBSET S : Cardinality(T) = n
  <1>1. PICK m \in Nat : m = Cardinality(S)
    BY FS_CardinalityType
  <1>2. PICK f : f \in Bijection(1 .. m, S)
    BY <1>1, FS_CardinalityType DEF ExistsBijection
  <1>3. /\ f \in [1 .. m -> S]
        /\ \A j, k \in 1 .. m : f[j] = f[k] => j = k
    BY <1>2 DEF Bijection, Injection, IsInjective
  <1>4. PICK T : T = {f[k] : k \in 1 .. n}
    OBVIOUS
  <1>5. \A k \in 1 .. n : k \in 1 .. m
    BY <1>1
  <1>6. T \subseteq S
    BY <1>3, <1>4, <1>5
  <1>7. PICK g : g = [k \in 1 .. n |-> f[k]]
    OBVIOUS
  <1>8. g \in Bijection(1 .. n, T)
    <2>1. g \in [1 .. n -> T] /\ \A t \in T : \E k \in 1 .. n : g[k] = t
      BY <1>4, <1>7
    <2>2. \A j, k \in 1 .. n : g[j] = g[k] => j = k
      BY <1>3, <1>5, <1>7
    <2> QED BY <2>1, <2>2 DEF Bijection, Injection, Surjection, IsInjective
  <1>9. Cardinality(T) = n
    BY <1>8, FS_CountingElements DEF ExistsBijection
  <1> QED BY <1>6, <1>9

\* The detections of an issuer are some of what they are made from.
LEMMA DetectionsAre ==
    ASSUME NEW docs, docs \subseteq Doc, NEW over \in BOOLEAN
    PROVE  Detections(docs, over) \in [docs : SUBSET docs, over : BOOLEAN]
  <1>1. IsFiniteSet(docs)
    BY FS_Subset, UpdateAssumption
  <1>2. PICK c \in Nat, m \in Nat : c = Cardinality(docs) /\ m = MaxDetections
    BY <1>1, FS_CardinalityType, UpdateAssumption
  <1>3. CASE c <= m
    BY <1>2, <1>3 DEF Detections
  <1>4. CASE ~(c <= m)
    <2>1. \E S \in SUBSET docs : Cardinality(S) = MaxDetections
      BY <1>1, <1>2, <1>4, SmallerSet
    <2> QED BY <1>2, <1>4, <2>1 DEF Detections
  <1> QED BY <1>3, <1>4

-----------------------------------------------------------------------------
(* The attempts that are made. *)

LEMMA OutcomesAre == "WAITING" \in Outcomes /\ "BLOCKED" \in Outcomes /\ "VERIFIED" \in Outcomes
  BY DEF Outcomes

\* No attempt is none.
LEMMA NoAttemptIsNone ==
    ASSUME NEW i
    PROVE  NoAttempt \notin Attempts(i)
  BY DEF NoAttempt, Attempts, Outcomes

\* What a verification or a wait gives.
Outcome(e) == [outcome : Outcomes, why : Whys, reading : Readings]

LEMMA VerdictIs ==
    ASSUME RowsInv, NEW e \in Results, NEW caps, NEW predecessor
    PROVE  Verdict(e, caps, predecessor) \in Outcome(e)
  <1>1. Reading[version][e] \in Readings /\ Refused \in Readings
    BY DEF Readings, RowsInv
  <1> QED BY <1>1, OutcomesAre DEF Verdict, Outcome, Whys

LEMMA WaitIs ==
    ASSUME NEW e, NEW why \in Whys
    PROVE  WaitFor(why) \in Outcome(e) /\ WaitFor(why).outcome = "WAITING"
  BY OutcomesAre DEF WaitFor, Outcome, Readings

LEMMA RecordIs ==
    ASSUME RowsInv, NEW i \in Issuer, NEW a \in Producers(i)
    PROVE  RecordOf(a, i) \in Preds
  <1>1. CASE a = NoAttempt
    BY <1>1 DEF RecordOf, Preds, RowsInv
  <1>2. CASE a # NoAttempt
    BY <1>2 DEF RecordOf, Preds, Producers, Held, Attempts, Keys
  <1> QED BY <1>1, <1>2

LEMMA AttemptIs ==
    ASSUME RowsInv, NEW i \in Issuer, NEW key \in Keys(i), NEW docs \in SUBSET Mine(i),
           NEW caps \in Caps, \A k \in DOMAIN caps : Loadable(caps[k]),
           NEW predecessor \in Producers(i), NEW result \in Outcome(key.event),
           result.outcome # "WAITING" => key.event # NoDoc
    PROVE  /\ Attempt(key, docs, caps, predecessor, i, result) \in Held(i)
           /\ Attempt(key, docs, caps, predecessor, i, result).key = key
           /\ Attempt(key, docs, caps, predecessor, i, result).caps = caps
           /\ Attempt(key, docs, caps, predecessor, i, result).outcome = result.outcome
  <1>1. RecordOf(predecessor, i) \in Preds
    BY RecordIs
  <1> QED BY <1>1 DEF Attempt, Held, Attempts, Outcome

LEMMA HeldEvents ==
    ASSUME NEW i, NEW a \in Held(i)
    PROVE  /\ a.key \in Keys(i) /\ a.docs \subseteq Mine(i) /\ a.caps \in Caps
           /\ a.key.event \in Results \cup {NoDoc}
           /\ a.outcome \in Outcomes
           /\ a.outcome # "WAITING" => a.key.event \in Results
           /\ \A k \in DOMAIN a.caps : Loadable(a.caps[k])
  BY DEF Held, Attempts, Keys

-----------------------------------------------------------------------------
(* What is read from an entry. *)

\* A verified attempt the index locates.
LEMMA LocatedIsHeld ==
    ASSUME NEW i, NEW entry \in Entries(Held(i)), Sound(entry, segs),
           NEW k \in 1 .. Len(entry.verified)
    PROVE  /\ AttemptAt(entry, entry.verified[k]) \in Held(i)
           /\ AttemptAt(entry, entry.verified[k]).outcome = "VERIFIED"
           /\ \E j \in 1 .. Len(HistoryOf(entry)) :
                 HistoryOf(entry)[j] = AttemptAt(entry, entry.verified[k])
  <1>1. PICK loc \in Locators(Held(i)) : loc = entry.verified[k]
    BY ElementOfSeq DEF Entries
  <1>2. Located(entry, loc) /\ HistoryOf(entry)[Place(entry, loc)].outcome = "VERIFIED"
    BY <1>1 DEF Sound, Indexed
  <1>3. /\ Place(entry, loc) \in 1 .. Len(HistoryOf(entry))
        /\ AttemptAt(entry, loc) = HistoryOf(entry)[Place(entry, loc)]
    BY <1>2, PlaceInHistory
  <1>4. HistoryOf(entry) \in Seq(Held(i))
    BY HistoryShape
  <1> QED BY <1>1, <1>2, <1>3, <1>4, ElementOfSeq

LEMMA ProducerIsHeld ==
    ASSUME NEW i, NEW entry \in Entries(Held(i)), Sound(entry, segs), entry.verified # <<>>
    PROVE  /\ AttemptAt(entry, Last(entry.verified)) \in Held(i)
           /\ AttemptAt(entry, Last(entry.verified)).outcome = "VERIFIED"
           /\ \E j \in 1 .. Len(HistoryOf(entry)) :
                 HistoryOf(entry)[j] = AttemptAt(entry, Last(entry.verified))
  <1>1. PICK n \in Nat \ {0} : n = Len(entry.verified)
    BY EmptySeq DEF Entries
  <1>2. n \in 1 .. n
    OBVIOUS
  <1> QED BY <1>1, <1>2, LocatedIsHeld DEF Last

LEMMA BeforeIs ==
    ASSUME NEW i, NEW entry \in Entries(Held(i)), Sound(entry, segs)
    PROVE  Before(entry) \in Producers(i)
  <1>1. PICK n \in Nat : n = Len(entry.verified)
    BY LenProperties DEF Entries
  <1>2. CASE n > 1
    <2>1. n - 1 \in 1 .. n
      BY <1>2
    <2> QED BY <1>1, <1>2, <2>1, LocatedIsHeld DEF Before, Producers
  <1>3. CASE ~(n > 1)
    BY <1>1, <1>3 DEF Before, Producers
  <1> QED BY <1>2, <1>3

LEMMA AdmissionIs ==
    ASSUME NEW i, NEW entry \in Entries(Held(i)), Sound(entry, segs), NEW seen \in Seens(i)
    PROVE  /\ Admission(entry, seen, i).docs \subseteq Mine(i)
           /\ Admission(entry, seen, i).producer \in Producers(i)
           /\ Admission(entry, seen, i).over \in BOOLEAN
  <1>1. PICK producer : producer =
          IF entry.verified = <<>> THEN NoAttempt ELSE AttemptAt(entry, Last(entry.verified))
    OBVIOUS
  <1>2. producer \in Producers(i)
    BY <1>1, ProducerIsHeld DEF Producers
  <1>3. PICK observed : observed = UNION {entry.open[k].docs : k \in DOMAIN entry.open}
    OBVIOUS
  <1>4. observed \subseteq Mine(i)
    <2>1. ASSUME NEW k \in DOMAIN entry.open
          PROVE  entry.open[k].docs \subseteq Mine(i)
      <3>1. k \in 1 .. Len(entry.open) /\ entry.open \in Seq(Held(i))
        BY LenProperties DEF Entries
      <3>2. entry.open[k] \in Held(i)
        BY <3>1, ElementOfSeq
      <3> QED BY <3>2, HeldEvents
    <2> QED BY <1>3, <2>1
  <1>5. LeftBy(producer, observed \cup seen.docs) \subseteq Mine(i)
    BY <1>4 DEF LeftBy, Seens
  <1>6. /\ Admission(entry, seen, i).producer = producer
        /\ Admission(entry, seen, i).docs = LeftBy(producer, observed \cup seen.docs)
        /\ Admission(entry, seen, i).over = seen.over
    BY <1>1, <1>3 DEF Admission
  <1> QED BY <1>2, <1>5, <1>6 DEF Seens

-----------------------------------------------------------------------------
(* What a run starts with. *)

LEMMA ListedIsMine ==
    ASSUME RowsInv, NEW i \in Issuer, NEW ref
    PROVE  Listed(i, ref) \subseteq Mine(i)
  <1>1. ASSUME NEW k \in DOMAIN rows[i]
        PROVE  rows[i][k].docs \subseteq Mine(i)
    <2>1. PICK r \in Seq([ref : Results \cup {NoDoc}, docs : SUBSET Mine(i)]) : r = rows[i]
      BY DEF RowsInv
    <2>2. k \in 1 .. Len(r)
      BY <2>1, LenProperties
    <2>3. r[k] \in [ref : Results \cup {NoDoc}, docs : SUBSET Mine(i)]
      BY <2>2, ElementOfSeq
    <2> QED BY <2>1, <2>3
  <1> QED BY <1>1 DEF Listed, RowsOf

LEMMA UnaccountedAreSome ==
    ASSUME NEW producer, NEW docs
    PROVE  Unaccounted(producer, docs) \subseteq docs
  BY DEF Unaccounted

LEMMA AtEntryIs ==
    ASSUME RowsInv, StoredInv, NEW i \in Issuer
    PROVE  AtEntry(i) \in Seens(i) /\ Seen(i) \subseteq Mine(i)
  <1>1. Seen(i) \subseteq Mine(i)
    BY ListedIsMine, UnaccountedAreSome DEF Seen
  <1>2. Stored.dets[i] \in Seens(i)
    BY DEF StoredInv
  <1>3. PICK docs \in SUBSET Mine(i), over \in BOOLEAN :
          docs = Stored.dets[i].docs \cup Seen(i) /\ over = Stored.dets[i].over
    BY <1>1, <1>2 DEF Seens
  <1>4. docs \subseteq Doc
    BY DEF Mine
  <1>5. Detections(docs, over) \in [docs : SUBSET docs, over : BOOLEAN]
    BY <1>4, DetectionsAre
  <1>6. AtEntry(i) = Detections(docs, over)
    BY <1>3 DEF AtEntry
  <1> QED BY <1>1, <1>5, <1>6 DEF Seens

\* A producer that is not reproduced is decided anew, and appended.
LEMMA ReverifiedIs ==
    ASSUME RowsInv, StoredInv, NEW i \in Issuer
    PROVE  /\ Reverified(i) \in Entries(Held(i)) /\ Sound(Reverified(i), segs)
           /\ Later(Held(i), HistoryOf(Stored.issuers[i]), HistoryOf(Reverified(i)))
           /\ Stored.ident = version => Reverified(i) = Stored.issuers[i]
  <1>1. PICK entry \in Entries(Held(i)) : entry = Stored.issuers[i] /\ Sound(entry, segs)
    BY DEF StoredInv
  <1>2. CASE Reverified(i) = entry
    BY <1>1, <1>2 DEF Later
  <1>3. CASE Reverified(i) # entry
    <2>1. entry.verified # <<>> /\ Stored.ident # version
      BY <1>1, <1>3 DEF Reverified
    <2>2. PICK a \in Held(i) :
            a = AttemptAt(entry, Last(entry.verified)) /\ a.outcome = "VERIFIED"
      BY <1>1, <2>1, ProducerIsHeld
    <2>3. a.key.event \in Results /\ a.key \in Keys(i) /\ a.docs \subseteq Mine(i) /\ a.caps \in Caps
          /\ \A k \in DOMAIN a.caps : Loadable(a.caps[k])
      BY <2>2, HeldEvents
    <2>4. PICK predecessor \in Producers(i) : predecessor = Before(entry)
      BY <1>1, BeforeIs
    <2>5. PICK result \in Outcome(a.key.event) :
            result = Verdict(a.key.event, a.caps, predecessor)
      BY <2>3, VerdictIs
    <2>6. a.key.event # NoDoc
      BY <2>3, HistoryAssumption
    <2>7. PICK new : new = Attempt(a.key, a.docs, a.caps, predecessor, i, result)
      OBVIOUS
    <2>8. new \in Held(i) /\ new.key = a.key
      BY <2>3, <2>6, <2>7, AttemptIs
    <2>9. PICK e1 \in Entries(Held(i)) : /\ e1 = Withdrawn(entry) /\ Sound(e1, segs)
                                        /\ HistoryOf(e1) = HistoryOf(entry)
      BY <1>1, <2>1, WithdrawnSound
    <2>10. Reverified(i) = Appended(e1, new)
      BY <1>1, <1>3, <2>2, <2>4, <2>5, <2>7, <2>9 DEF Reverified, Withdrawn
    <2>11. new.key.event \in Results \cup {NoDoc}
      BY <2>3, <2>8
    <2>12. /\ Appended(e1, new) \in Entries(Held(i)) /\ Sound(Appended(e1, new), segs)
           /\ Later(Held(i), HistoryOf(e1), HistoryOf(Appended(e1, new)))
      BY <2>8, <2>9, <2>11, AppendedLater
    <2> QED BY <1>1, <2>1, <2>9, <2>10, <2>12
  <1> QED BY <1>2, <1>3

LEMMA AfterEntryIs ==
    ASSUME RowsInv, StoredInv, NEW i \in Issuer
    PROVE  /\ AfterEntry(i) \in Seens(i)
           /\ Admitted(i).docs \subseteq Mine(i) /\ Admitted(i).producer \in Producers(i)
  <1>1. PICK seen \in Seens(i) : seen = AtEntry(i)
    BY AtEntryIs
  <1>2. PICK adm : adm = Admitted(i)
    OBVIOUS
  <1>3. adm.docs \subseteq Mine(i) /\ adm.producer \in Producers(i)
    BY <1>1, <1>2, ReverifiedIs, AdmissionIs DEF Admitted
  <1>4. PICK material \in SUBSET Mine(i) : material = Material(i)
    <2>1. Listed(i, ReferenceOf(adm.producer)) \cup adm.docs \subseteq Mine(i)
      BY <1>3, ListedIsMine
    <2>2. Material(i) = Unaccounted(adm.producer, Listed(i, ReferenceOf(adm.producer)) \cup adm.docs)
      BY <1>2 DEF Material
    <2> QED BY <2>1, <2>2, UnaccountedAreSome
  <1>5. PICK left : left = LeftBy(adm.producer, seen.docs \cup material)
    OBVIOUS
  <1>6. left \subseteq Mine(i) /\ left \subseteq Doc /\ seen.over \in BOOLEAN
    BY <1>5 DEF LeftBy, Seens, Mine
  <1>7. Detections(left, seen.over) \in [docs : SUBSET left, over : BOOLEAN]
    BY <1>6, DetectionsAre
  <1>8. Detections(left, seen.over) \in Seens(i)
    BY <1>6, <1>7 DEF Seens
  <1>9. AfterEntry(i) = IF adm.bound THEN Detections(left, seen.over) ELSE seen
    BY <1>1, <1>2, <1>4, <1>5 DEF AfterEntry
  <1> QED BY <1>2, <1>3, <1>8, <1>9

-----------------------------------------------------------------------------
(* What every step keeps. *)

LEMMA HeldGrows ==
    ASSUME raw \subseteq raw', meta \subseteq meta', NEW i
    PROVE  Held(i) \subseteq Held(i)'
  BY DEF Held, Loadable

LEMMA EntryKept ==
    ASSUME raw \subseteq raw', meta \subseteq meta', segs \subseteq segs', NEW i,
           NEW entry \in Entries(Held(i)), Sound(entry, segs)
    PROVE  entry \in Entries(Held(i))' /\ Sound(entry, segs')
  <1>1. PICK A, B : A = Held(i) /\ B = Held(i)' /\ A \subseteq B
    BY HeldGrows
  <1>2. entry \in Entries(B)
    BY <1>1, EntriesGrow
  <1>3. Sound(entry, segs')
    BY SoundGrows
  <1> QED BY <1>1, <1>2, <1>3

\* The published histories, while the pointer stays.
LEMMA StoredKept ==
    ASSUME StoredInv, cur' = cur, raw \subseteq raw', meta \subseteq meta', segs \subseteq segs'
    PROVE  /\ StoredInv'
           /\ \A i \in Issuer : (Stored.issuers[i])' = Stored.issuers[i]
  <1>1. ASSUME NEW i \in Issuer
        PROVE  /\ (Stored.issuers[i])' = Stored.issuers[i]
               /\ (Stored.dets[i])' = Stored.dets[i]
    BY DEF Stored
  <1>2. ASSUME NEW i \in Issuer
        PROVE  /\ (Stored.issuers[i])' \in Entries(Held(i))'
               /\ Sound((Stored.issuers[i])', segs')
               /\ (Stored.dets[i])' \in Seens(i)
    <2>1. PICK entry \in Entries(Held(i)) : entry = Stored.issuers[i] /\ Sound(entry, segs)
      BY DEF StoredInv
    <2>2. entry \in Entries(Held(i))' /\ Sound(entry, segs')
      BY <2>1, EntryKept
    <2> QED BY <1>1, <2>1, <2>2 DEF StoredInv
  <1> QED BY <1>1, <1>2 DEF StoredInv

\* The entries a run holds, while it does not change them.
LEMMA RunEntriesKept ==
    ASSUME RunInv, pc # "idle", raw \subseteq raw', meta \subseteq meta', segs \subseteq segs',
           NEW i \in Issuer
    PROVE  run.entries[i] \in Entries(Held(i))' /\ Sound(run.entries[i], segs')
  <1>1. PICK entry \in Entries(Held(i)) : entry = run.entries[i] /\ Sound(entry, segs)
    BY DEF RunInv
  <1> QED BY <1>1, EntryKept

LEMMA ProducersKept ==
    ASSUME RunInv, pc # "idle", raw \subseteq raw', meta \subseteq meta', NEW i \in Issuer
    PROVE  run.adm[i].producer \in Producers(i)'
  BY HeldGrows DEF RunInv, Producers

LEMMA CommittedKept ==
    ASSUME StoreInv, CommittedInv, raw' \cup ledger'.pending \subseteq raw \cup ledger.pending,
           \A i \in Issuer : (Stored.issuers[i])' = Stored.issuers[i]
    PROVE  CommittedInv'
  <1>1. ASSUME NEW p \in raw \cup ledger.pending
        PROVE  Owner[p[1]] \in Issuer
    <2>1. p \in Pages
      BY StoreTypes, UpdateAssumption DEF StoreTypeOK
    <2>2. p[1] \in Doc
      BY <2>1, HistoryAssumption DEF Pages
    <2> QED BY <2>2, UpdateAssumption
  <1>2. ASSUME NEW p \in raw' \cup ledger'.pending
        PROVE  p[1] \in Events(HistoryOf((Stored.issuers[Owner[p[1]]])'))
    BY <1>1, <1>2 DEF CommittedInv
  <1> QED BY <1>2 DEF CommittedInv

LEMMA StoreInvTypes == StoreInv => StoreTypeOK
  BY StoreTypes

\* Settling what was left pending releases bytes only.
LEMMA ReconciledBytes ==
    ASSUME StoreInv
    PROVE  Reconciled.bytes <= ledger.bytes
  <1>1. PICK lost : lost = ledger.pending \ raw
    OBVIOUS
  <1>2. lost = {} \/ \E p \in Page : lost = {p}
    BY <1>1 DEF StoreInv, Writing
  <1>3. Bytes(lost) \in Nat
    BY <1>2, NoBytes, OneBytes, SizeAssumption
  <1>4. ledger.bytes \in Nat
    BY StoreTypes DEF StoreTypeOK
  <1>5. Reconciled.bytes = ledger.bytes - Bytes(lost)
    BY <1>1 DEF Reconciled
  <1> QED BY <1>3, <1>4, <1>5

\* What covers a document covers it one attempt later.
LEMMA LaterCovers ==
    ASSUME NEW A, NEW h \in Seq(A), NEW h2, Later(A, h, h2), NEW d, NEW seen, Covered(d, seen, h)
    PROVE  Covered(d, seen, h2)
  <1>1. CASE seen.over \/ d \in seen.docs
    BY <1>1 DEF Covered
  <1>2. CASE \E j \in 1 .. Len(h) : h[j].outcome = "VERIFIED" /\ LeftBy(h[j], {d}) = {}
    <2>1. PICK n \in Nat : n = Len(h)
      BY LenProperties
    <2>2. PICK j \in 1 .. n : h[j].outcome = "VERIFIED" /\ LeftBy(h[j], {d}) = {}
      BY <1>2, <2>1
    <2>3. \E k \in Nat : k = Len(h2) /\ j \in 1 .. k /\ h2[j] = h[j]
      <3>1. CASE h2 = h
        BY <2>1, <3>1
      <3>2. CASE \E a \in A : h2 = Append(h, a)
        <4>1. PICK a \in A : h2 = Append(h, a)
          BY <3>2
        <4>2. Len(h2) = n + 1 /\ h2[j] = h[j]
          BY <2>1, <4>1, AppendProperties
        <4> QED BY <4>2
      <3>3. CASE \E a \in A : h # <<>> /\ Last(h).outcome = "WAITING" /\ h2 = Append(Front(h), a)
        <4>1. PICK a \in A : h # <<>> /\ Last(h).outcome = "WAITING" /\ h2 = Append(Front(h), a)
          BY <3>3
        <4>2. PICK m \in Nat :
                /\ Len(h) = m + 1 /\ Front(h) \in Seq(A) /\ Len(Front(h)) = m
                /\ \A l \in 1 .. m : Front(h)[l] = h[l]
                /\ Last(h) = h[m + 1]
          BY <4>1, FrontShape
        <4>3. j # m + 1
          <5>1. h[m + 1].outcome = "WAITING"
            BY <4>1, <4>2
          <5>2. h[j].outcome = "VERIFIED"
            BY <2>2
          <5> QED BY <5>1, <5>2
        <4>4. j \in 1 .. m /\ j \in 1 .. m + 1
          BY <2>1, <4>2, <4>3
        <4>5. Len(h2) = m + 1 /\ h2[j] = Front(h)[j]
          BY <4>1, <4>2, <4>4, AppendProperties
        <4> QED BY <4>2, <4>4, <4>5
      <3> QED BY <3>1, <3>2, <3>3 DEF Later
    <2> QED BY <2>2, <2>3 DEF Covered
  <1> QED BY <1>1, <1>2 DEF Covered

\* While a run changes its histories only.
LEMMA SeenKept ==
    ASSUME SeenInv, cur' = cur, known' = known,
           pc' # "idle" =>
              /\ pc # "idle" /\ run'.dets = run.dets /\ run'.seen = run.seen
              /\ \A i \in Issuer : \A d, seen :
                    Covered(d, seen, HistoryOf(run.entries[i])) =>
                        Covered(d, seen, HistoryOf(run'.entries[i]))
    PROVE  SeenInv'
  <1>1. ASSUME NEW i \in Issuer
        PROVE  /\ (Stored.issuers[i])' = Stored.issuers[i]
               /\ (Stored.dets[i])' = Stored.dets[i]
    BY DEF Stored
  <1>2. ASSUME NEW i \in Issuer, NEW d \in known'[i]
        PROVE  Covered(d, (Stored.dets[i])', HistoryOf((Stored.issuers[i])'))
    BY <1>1 DEF SeenInv
  <1>3. ASSUME pc' # "idle", NEW i \in Issuer, NEW d \in known'[i] \cup run'.seen[i]
        PROVE  Covered(d, run'.dets[i], HistoryOf(run'.entries[i]))
    BY <1>3 DEF SeenInv
  <1> QED BY <1>2, <1>3 DEF SeenInv

-----------------------------------------------------------------------------
(* The steps up to the publication. *)

LEMMA InitInv == Init => UpdateInv
  <1> SUFFICES ASSUME Init PROVE UpdateInv
    OBVIOUS
  <1>1. RowsInv
    <2>1. ASSUME NEW i \in Issuer
          PROVE  /\ rows[i] \in Seq([ref : Results \cup {NoDoc}, docs : SUBSET Mine(i)])
                 /\ Len(rows[i]) <= Keep
      <3>1. rows[i] = <<>> /\ Keep \in Nat
        BY UpdateAssumption DEF Init
      <3> QED BY <3>1, EmptySeq
    <2>2. DOMAIN rows = Issuer /\ version \in 1 .. LastVersion
      BY UpdateAssumption DEF Init
    <2> QED BY <2>1, <2>2 DEF RowsInv, Init
  <1>2. StoredInv
    <2>1. ASSUME NEW i \in Issuer
          PROVE  Stored.issuers[i] = NewEntry /\ Stored.dets[i] = NothingSeen
      BY DEF Init, Stored
    <2>2. ASSUME NEW i \in Issuer
          PROVE  NothingSeen \in Seens(i)
      BY DEF NothingSeen, Seens
    <2>3. ASSUME NEW i \in Issuer
          PROVE  NewEntry \in Entries(Held(i)) /\ Sound(NewEntry, segs)
      BY NewEntrySound
    <2> QED BY <2>1, <2>2, <2>3 DEF StoredInv
  <1>3. QuotaInv
    BY UpdateAssumption DEF QuotaInv, Init, StoreInit
  <1>4. PcInv
    BY DEF PcInv, Init, StoreInit
  <1>5. RunInv /\ GrownInv /\ LeadInv /\ CapsInv
    BY DEF RunInv, GrownInv, LeadInv, CapsInv, Leading, Init
  <1>6. CommittedInv
    BY DEF CommittedInv, Init, StoreInit
  <1>7. SeenInv
    BY DEF SeenInv, Init
  <1> QED BY <1>1, <1>2, <1>3, <1>4, <1>5, <1>6, <1>7 DEF UpdateInv

\* Detections drop nothing without remembering it.
LEMMA DetectionsCover ==
    ASSUME NEW docs, NEW over \in BOOLEAN
    PROVE  \/ Detections(docs, over).over
           \/ ~over /\ Detections(docs, over).docs = docs
  BY DEF Detections

\* A run starts with everything that was or is noticed: what it takes off the
\* detections, the producer it admits accounts for.
LEMMA BeginCovers ==
    ASSUME RowsInv, StoredInv, SeenInv, NEW i \in Issuer, NEW d \in known[i] \cup Noticed(i)
    PROVE  Covered(d, AfterEntry(i), HistoryOf(Reverified(i)))
  <1>1. PICK entry \in Entries(Held(i)) : entry = Reverified(i) /\ Sound(entry, segs)
    BY ReverifiedIs
  <1>2. PICK h : h = HistoryOf(entry)
    OBVIOUS
  <1>3. PICK seen \in Seens(i) : seen = AtEntry(i)
    BY AtEntryIs
  <1>4. d \in known[i] => Covered(d, Stored.dets[i], h)
    <2>1. PICK old \in Seq(Held(i)) : old = HistoryOf(Stored.issuers[i])
      BY HistoryShape DEF StoredInv
    <2>2. Later(Held(i), old, h)
      BY <1>1, <1>2, <2>1, ReverifiedIs
    <2>3. d \in known[i] => Covered(d, Stored.dets[i], old)
      BY <2>1 DEF SeenInv
    <2> QED BY <2>1, <2>2, <2>3, LaterCovers
  <1>5. d \in known[i] \cup Seen(i) => Covered(d, seen, h)
    <2>0. PICK over \in BOOLEAN : over = Stored.dets[i].over
      BY DEF StoredInv, Seens
    <2>1. PICK docs :
            /\ docs = Stored.dets[i].docs \cup Seen(i)
            /\ seen = Detections(docs, over)
      BY <1>3, <2>0 DEF AtEntry
    <2>2. seen.over \/ (~over /\ seen.docs = docs)
      BY <2>1, DetectionsCover
    <2> QED BY <1>4, <2>0, <2>1, <2>2 DEF Covered
  <1>6. PICK adm : adm = Admitted(i)
    OBVIOUS
  <1>7. CASE ~adm.bound
    <2>1. AfterEntry(i) = seen /\ Noticed(i) = Seen(i)
      BY <1>3, <1>6, <1>7 DEF AfterEntry, Noticed
    <2> QED BY <1>1, <1>2, <1>5, <2>1
  <1>8. CASE adm.bound
    <2>1. PICK docs, left, after :
            /\ docs = seen.docs \cup Material(i) /\ left = LeftBy(adm.producer, docs)
            /\ after = Detections(left, seen.over) /\ after = AfterEntry(i)
      BY <1>3, <1>6, <1>8 DEF AfterEntry
    <2>2. after.over \/ (~seen.over /\ after.docs = left)
      BY <2>1, DetectionsCover DEF Seens
    <2>3. Covered(d, seen, h) \/ d \in docs
      BY <1>5, <1>6, <1>8, <2>1 DEF Noticed
    <2>4. ASSUME d \in docs
          PROVE  Covered(d, after, h)
      <3>1. CASE LeftBy(adm.producer, {d}) # {}
        <4>1. d \in left
          BY <2>1, <2>4, <3>1 DEF LeftBy
        <4> QED BY <2>2, <4>1 DEF Covered
      <3>2. CASE LeftBy(adm.producer, {d}) = {}
        <4>1. adm.producer # NoAttempt
          BY <3>2 DEF LeftBy
        <4>2. entry.verified # <<>> /\ adm.producer = AttemptAt(entry, Last(entry.verified))
          BY <1>1, <1>6, <4>1 DEF Admitted, Admission
        <4>3. \E j \in 1 .. Len(h) : h[j] = adm.producer /\ h[j].outcome = "VERIFIED"
          BY <1>1, <1>2, <4>2, ProducerIsHeld
        <4> QED BY <3>2, <4>3 DEF Covered
      <3> QED BY <3>1, <3>2
    <2>5. CASE Covered(d, seen, h) /\ d \notin docs
      <3>1. d \notin seen.docs
        BY <2>1, <2>5
      <3> QED BY <1>1, <1>2, <2>1, <2>2, <2>5, <3>1 DEF Covered
    <2> QED BY <1>1, <1>2, <2>1, <2>3, <2>4, <2>5
  <1> QED BY <1>7, <1>8

LEMMA BeginKeeps ==
    ASSUME UpdateInv, StoreInv, StoreInv', Begin
    PROVE  UpdateInv'
  <1>1. /\ pc = "idle" /\ stage' = "open" /\ ledger' = Reconciled
        /\ raw' = raw /\ meta' = meta /\ storing' = storing
        /\ version' = version /\ published' = published /\ rows' = rows /\ cur' = cur
        /\ orphan' = orphan /\ segs' = segs /\ queue' = queue /\ known' = known
        /\ pc' \in {"publish", "serve"}
    BY DEF Begin, OpenStore, Resting
  <1>2. /\ RowsInv /\ StoredInv /\ QuotaInv /\ PcInv /\ CommittedInv /\ SeenInv
    BY DEF UpdateInv
  <1>3. PICK changed \in BOOLEAN :
          /\ ~changed => Stored.ident = version
          /\ run' = [entries |-> [i \in Issuer |-> Reverified(i)],
                     dets |-> [i \in Issuer |-> AfterEntry(i)],
                     seen |-> [i \in Issuer |-> Noticed(i)],
                     adm |-> [i \in Issuer |-> Admitted(i)],
                     work |-> {i \in Issuer : ToServe(i)},
                     order |-> Order(queue), served |-> queue,
                     who |-> NoIssuer, lead |-> NoDoc, caps |-> <<>>,
                     spent |-> 0, held |-> ledger'.bytes,
                     changed |-> changed, exhausted |-> FALSE, then |-> "serve"]
          /\ pc' = IF changed THEN "publish" ELSE "serve"
    <2>1. PICK changed : changed = \/ Stored.ident # version
                                   \/ \E i \in Issuer : {AtEntry(i), AfterEntry(i)} # {Stored.dets[i]}
      OBVIOUS
    <2>2. changed \in BOOLEAN /\ (~changed => Stored.ident = version)
      BY <2>1
    <2>3. \A i \in Issuer : [j \in Issuer |-> AfterEntry(j)][i] = AfterEntry(i)
      OBVIOUS
    <2>4. (\E i \in Issuer : {AtEntry(i), [j \in Issuer |-> AfterEntry(j)][i]} # {Stored.dets[i]})
            <=> (\E i \in Issuer : {AtEntry(i), AfterEntry(i)} # {Stored.dets[i]})
      BY <2>3
    <2> QED BY <2>1, <2>2, <2>4, Zenon DEF Begin
  <1>4. /\ run'.entries = [i \in Issuer |-> Reverified(i)]
        /\ run'.dets = [i \in Issuer |-> AfterEntry(i)]
        /\ run'.seen = [i \in Issuer |-> Noticed(i)]
        /\ run'.adm = [i \in Issuer |-> Admitted(i)]
        /\ run'.served = queue /\ run'.spent = 0 /\ run'.held = ledger'.bytes
        /\ run'.changed = changed /\ run'.then = "serve"
        /\ DOMAIN run' = RunFields
    BY <1>3 DEF RunFields
  <1>5. StoredInv' /\ \A i \in Issuer : (Stored.issuers[i])' = Stored.issuers[i]
    BY <1>1, <1>2, StoredKept
  <1>6. RowsInv'
    BY <1>1, <1>2 DEF RowsInv
  <1>7. QuotaInv'
    <2>1. PICK b \in Nat, c \in Nat : b = ledger'.bytes /\ c = ledger.bytes
      <3>1. StoreTypeOK
        BY StoreTypes
      <3>2. StoreInv' => StoreTypeOK'
        BY StoreInvTypes, PTL
      <3> QED BY <3>1, <3>2 DEF StoreTypeOK
    <2>2. b <= c
      BY <1>1, <2>1, ReconciledBytes
    <2>3. c <= Quota /\ Quota \in Nat
      BY <1>2, <2>1, UpdateAssumption DEF QuotaInv
    <2>4. b <= Quota /\ b <= b + 0
      BY <2>2, <2>3
    <2> QED BY <1>4, <2>1, <2>4 DEF QuotaInv
  <1>8. PcInv'
    <2>1. run' # NoRun
      BY <1>4 DEF NoRun, RunFields
    <2> QED BY <1>1, <2>1 DEF PcInv
  <1>9. RunInv'
    <2>1. ASSUME NEW i \in Issuer
          PROVE  /\ run'.entries[i] \in Entries(Held(i))' /\ Sound(run'.entries[i], segs')
                 /\ run'.dets[i] \in Seens(i)
                 /\ run'.adm[i].docs \subseteq Mine(i)
                 /\ run'.adm[i].producer \in Producers(i)'
      <3>1. PICK entry \in Entries(Held(i)) : entry = Reverified(i) /\ Sound(entry, segs)
        BY <1>2, ReverifiedIs
      <3>2. entry \in Entries(Held(i))' /\ Sound(entry, segs')
        BY <1>1, <3>1, EntryKept
      <3>3. Admitted(i).producer \in Producers(i)'
        BY <1>1, <1>2, AfterEntryIs, HeldGrows DEF Producers
      <3> QED BY <1>2, <1>4, <3>1, <3>2, <3>3, AfterEntryIs
    <2> QED BY <1>1, <1>2, <1>3, <1>4, <2>1 DEF RunInv, RowsInv
  <1>10. GrownInv'
    <2>1. ASSUME NEW i \in Issuer
          PROVE  /\ Stays(HistoryOf(Stored.issuers[i]), HistoryOf(Reverified(i)))
                 /\ Events(HistoryOf(Stored.issuers[i])) \subseteq Events(HistoryOf(Reverified(i)))
                 /\ ~changed => HistoryOf(Reverified(i)) = HistoryOf(Stored.issuers[i])
      <3>1. PICK old \in Seq(Held(i)) : old = HistoryOf(Stored.issuers[i])
        BY <1>2, HistoryShape DEF StoredInv
      <3>2. PICK new : new = HistoryOf(Reverified(i))
        OBVIOUS
      <3>3. Later(Held(i), old, new)
        BY <1>2, <3>1, <3>2, ReverifiedIs
      <3>4. Stays(old, old)
        BY PrefixSelf DEF Stays
      <3>5. Stays(old, new) /\ Events(old) \subseteq Events(new)
        BY <3>3, <3>4, LaterStays, LaterEvents
      <3> QED BY <1>2, <1>3, <3>1, <3>2, <3>5, ReverifiedIs
    <2> QED BY <1>4, <1>5, <2>1 DEF GrownInv
  <1>11. LeadInv' /\ CapsInv'
    BY <1>1, <1>4 DEF LeadInv, CapsInv, Leading
  <1>12. CommittedInv'
    <2>1. raw' \cup ledger'.pending \subseteq raw \cup ledger.pending
      BY <1>1 DEF Reconciled
    <2> QED BY <1>2, <1>5, <2>1, CommittedKept
  <1>13. SeenInv'
    <2>1. ASSUME NEW i \in Issuer
          PROVE  /\ (Stored.dets[i])' = Stored.dets[i]
                 /\ run'.dets[i] = AfterEntry(i) /\ run'.entries[i] = Reverified(i)
                 /\ run'.seen[i] = Noticed(i)
      BY <1>1, <1>4 DEF Stored
    <2>2. \A i \in Issuer : \A d \in known[i] \cup Noticed(i) :
            Covered(d, AfterEntry(i), HistoryOf(Reverified(i)))
      BY <1>2, BeginCovers
    <2>3. \A i \in Issuer : \A d \in known'[i] :
            Covered(d, (Stored.dets[i])', HistoryOf((Stored.issuers[i])'))
      BY <1>1, <1>2, <1>5, <2>1 DEF SeenInv
    <2>4. \A i \in Issuer : \A d \in known'[i] \cup run'.seen[i] :
            Covered(d, run'.dets[i], HistoryOf(run'.entries[i]))
      BY <1>1, <2>1, <2>2
    <2> QED BY <2>3, <2>4 DEF SeenInv
  <1> QED BY <1>5, <1>6, <1>7, <1>8, <1>9, <1>10, <1>11, <1>12, <1>13 DEF UpdateInv

LEMMA WriteGenerationKeeps ==
    ASSUME UpdateInv, StoreInv, WriteGeneration
    PROVE  UpdateInv'
  <1>1. /\ RowsInv /\ StoredInv /\ QuotaInv /\ PcInv /\ RunInv /\ GrownInv /\ LeadInv
        /\ CapsInv /\ CommittedInv /\ SeenInv
    BY DEF UpdateInv
  <1>2. /\ pc = "publish" /\ pc' = "pointer" /\ orphan' \in BOOLEAN
        /\ version' = version /\ published' = published /\ rows' = rows /\ cur' = cur
        /\ queue' = queue /\ ledger' = ledger /\ raw' = raw /\ meta' = meta
        /\ storing' = storing /\ stage' = stage /\ known' = known
    BY DEF WriteGeneration, storeVars
  <1>3. PICK sealing \in SUBSET Issuer :
          /\ segs' = segs \cup UNION {SegmentsWritten(run.entries[i]) : i \in sealing}
          /\ run' = [run EXCEPT !.entries =
                        [i \in Issuer |-> IF i \in sealing THEN Sealed(@[i]) ELSE @[i]]]
    BY DEF WriteGeneration
  <1>4. /\ run'.entries = [i \in Issuer |-> IF i \in sealing THEN Sealed(run.entries[i])
                                                             ELSE run.entries[i]]
        /\ run'.dets = run.dets /\ run'.seen = run.seen
        /\ run'.adm = run.adm /\ run'.served = run.served
        /\ run'.changed = run.changed /\ run'.then = run.then /\ run'.who = run.who
        /\ run'.lead = run.lead /\ run'.caps = run.caps /\ run'.held = run.held
        /\ run'.spent = run.spent /\ DOMAIN run' = RunFields
    BY <1>1, <1>2, <1>3 DEF RunInv, RunFields
  <1>5. StoredInv' /\ \A i \in Issuer : (Stored.issuers[i])' = Stored.issuers[i]
    BY <1>1, <1>2, <1>3, StoredKept
  <1>6. ASSUME NEW i \in Issuer
        PROVE  /\ run'.entries[i] \in Entries(Held(i))' /\ Sound(run'.entries[i], segs')
               /\ HistoryOf(run'.entries[i]) = HistoryOf(run.entries[i])
    <2>1. PICK entry \in Entries(Held(i)) : entry = run.entries[i] /\ Sound(entry, segs)
      BY <1>1, <1>2 DEF RunInv
    <2>2. CASE i \in sealing
      <3>1. PICK e2 \in Entries(Held(i)) : e2 = Sealed(entry)
        BY <2>1, SealedEntry DEF Sound
      <3>2. Sound(e2, segs \cup SegmentsWritten(entry)) /\ HistoryOf(e2) = HistoryOf(entry)
        BY <2>1, <3>1, SealedSound, SealedShape
      <3>3. segs \cup SegmentsWritten(entry) \subseteq segs'
        BY <1>3, <2>1, <2>2
      <3>4. Sound(e2, segs')
        BY <3>2, <3>3, SoundGrows
      <3>5. e2 \in Entries(Held(i))'
        BY <1>2, <3>1, HeldGrows, EntriesGrow
      <3> QED BY <1>4, <2>1, <2>2, <3>1, <3>2, <3>4, <3>5
    <2>3. CASE i \notin sealing
      <3>1. entry \in Entries(Held(i))' /\ Sound(entry, segs')
        BY <1>2, <1>3, <2>1, EntryKept
      <3> QED BY <1>4, <2>1, <2>3, <3>1
    <2> QED BY <2>2, <2>3
  <1>7. RowsInv' /\ QuotaInv'
    BY <1>1, <1>2, <1>4 DEF RowsInv, QuotaInv
  <1>8. PcInv'
    <2>1. run' # NoRun
      BY <1>4 DEF NoRun, RunFields
    <2> QED BY <1>1, <1>2, <2>1 DEF PcInv
  <1>9. RunInv'
    <2>1. \A i \in Issuer : run'.adm[i].producer \in Producers(i)'
      BY <1>1, <1>2, <1>4, ProducersKept
    <2> QED BY <1>1, <1>2, <1>4, <1>6, <2>1 DEF RunInv
  <1>10. GrownInv'
    BY <1>1, <1>2, <1>4, <1>5, <1>6 DEF GrownInv
  <1>11. LeadInv'
    BY <1>1, <1>2, <1>4, <1>6 DEF LeadInv, Leading
  <1>12. CapsInv'
    BY <1>1, <1>2, <1>4 DEF CapsInv, Leading
  <1>13. CommittedInv'
    BY <1>1, <1>2, <1>5, CommittedKept
  <1>14. SeenInv'
    BY <1>1, <1>2, <1>4, <1>6, SeenKept
  <1> QED BY <1>5, <1>7, <1>8, <1>9, <1>10, <1>11, <1>12, <1>13, <1>14 DEF UpdateInv

LEMMA MovePointerKeeps ==
    ASSUME UpdateInv, StoreInv, MovePointer
    PROVE  UpdateInv'
  <1>1. /\ RowsInv /\ StoredInv /\ QuotaInv /\ PcInv /\ RunInv /\ GrownInv /\ LeadInv
        /\ CapsInv /\ CommittedInv /\ SeenInv
    BY DEF UpdateInv
  <1>2. /\ pc = "pointer" /\ pc' = run.then /\ orphan' = FALSE
        /\ cur' = [ident |-> version, issuers |-> run.entries, dets |-> run.dets]
        /\ run' = [run EXCEPT !.changed = FALSE]
        /\ known' = [i \in Issuer |-> known[i] \cup run.seen[i]]
        /\ version' = version /\ published' = published /\ rows' = rows /\ segs' = segs
        /\ queue' = queue /\ ledger' = ledger /\ raw' = raw /\ meta' = meta
        /\ storing' = storing /\ stage' = stage
    BY DEF MovePointer, storeVars
  <1>3. /\ run'.entries = run.entries /\ run'.changed = FALSE
        /\ run'.dets = run.dets /\ run'.seen = run.seen
        /\ run'.adm = run.adm /\ run'.served = run.served
        /\ run'.then = run.then /\ run'.who = run.who
        /\ run'.lead = run.lead /\ run'.caps = run.caps /\ run'.held = run.held
        /\ run'.spent = run.spent /\ DOMAIN run' = RunFields
        /\ run.then \in {"serve", "queue", "done"}
    BY <1>1, <1>2 DEF RunInv, RunFields
  <1>4. Stored' = cur'
    <2>1. cur'.ident = version /\ version # 0
      BY <1>1, <1>2 DEF RowsInv
    <2>2. cur' # NoGen
      BY <2>1 DEF NoGen
    <2> QED BY <2>2 DEF Stored
  <1>5. \A i \in Issuer : (Stored.issuers[i])' = run.entries[i] /\ (Stored.dets[i])' = run.dets[i]
    BY <1>2, <1>4
  <1>6. \A i \in Issuer : run.entries[i] \in Entries(Held(i))' /\ Sound(run.entries[i], segs')
    BY <1>1, <1>2, RunEntriesKept
  <1>7. StoredInv'
    BY <1>1, <1>2, <1>5, <1>6 DEF StoredInv, RunInv
  <1>8. RowsInv' /\ QuotaInv'
    BY <1>1, <1>2, <1>3 DEF RowsInv, QuotaInv
  <1>9. PcInv'
    <2>1. run' # NoRun
      BY <1>3 DEF NoRun, RunFields
    <2> QED BY <1>1, <1>2, <1>3, <2>1 DEF PcInv
  <1>10. RunInv'
    <2>1. \A i \in Issuer : run'.adm[i].producer \in Producers(i)'
      BY <1>1, <1>2, <1>3, ProducersKept
    <2> QED BY <1>1, <1>2, <1>3, <1>6, <2>1 DEF RunInv
  <1>11. GrownInv'
    <2>1. ASSUME NEW i \in Issuer
          PROVE  Stays(HistoryOf(run.entries[i]), HistoryOf(run.entries[i]))
      <3>1. PICK h \in Seq(Held(i)) : h = HistoryOf(run.entries[i])
        BY <1>1, <1>2, HistoryShape DEF RunInv
      <3>2. Stays(h, h)
        BY PrefixSelf DEF Stays
      <3> QED BY <3>1, <3>2
    <2> QED BY <1>3, <1>5, <2>1 DEF GrownInv
  <1>12. LeadInv'
    BY <1>1, <1>2, <1>3, <1>5 DEF LeadInv, Leading
  <1>13. CapsInv'
    BY <1>1, <1>2, <1>3 DEF CapsInv, Leading
  <1>14. CommittedInv'
    <2>1. ASSUME NEW p \in raw \cup ledger.pending
          PROVE  p[1] \in Events(HistoryOf(run.entries[Owner[p[1]]])) /\ Owner[p[1]] \in Issuer
      <3>1. p \in Pages
        BY StoreTypes, UpdateAssumption DEF StoreTypeOK
      <3>2. p[1] \in Doc
        BY <3>1, HistoryAssumption DEF Pages
      <3>3. Owner[p[1]] \in Issuer
        BY <3>2, UpdateAssumption
      <3>4. p[1] \in Events(HistoryOf(Stored.issuers[Owner[p[1]]]))
        BY <1>1 DEF CommittedInv
      <3> QED BY <1>1, <1>2, <3>3, <3>4 DEF GrownInv
    <2> QED BY <1>2, <1>5, <2>1 DEF CommittedInv
  <1>15. SeenInv'
    <2>1. \A i \in Issuer : known'[i] = known[i] \cup run.seen[i]
      BY <1>2
    <2>2. \A i \in Issuer : \A d \in known[i] \cup run.seen[i] :
            Covered(d, run.dets[i], HistoryOf(run.entries[i]))
      BY <1>1, <1>2 DEF SeenInv
    <2> QED BY <1>3, <1>5, <2>1, <2>2 DEF SeenInv
  <1> QED BY <1>7, <1>8, <1>9, <1>10, <1>11, <1>12, <1>13, <1>14, <1>15 DEF UpdateInv

-----------------------------------------------------------------------------
(* The steps that serve an issuer. *)

LEMMA NoCaps == <<>> \in Caps /\ DOMAIN <<>> = {}
  <1>1. <<>> \in [1 .. 0 -> Page] /\ 1 .. 0 = {}
    <2>1. <<>> \in Seq(Page) /\ Len(<<>>) = 0
      BY EmptySeq
    <2>2. <<>> \in [1 .. Len(<<>>) -> Page]
      BY <2>1, LenProperties
    <2> QED BY <2>1, <2>2
  <1>2. <<>> \in [{} -> Page]
    BY <1>1
  <1> QED BY <1>1, <1>2 DEF Caps

LEMMA CapsMerge ==
    ASSUME NEW f \in Caps, NEW g \in Caps
    PROVE  /\ WithCaptures(f, g) \in Caps
           /\ \A k \in DOMAIN WithCaptures(f, g) :
                 \/ k \in DOMAIN f /\ WithCaptures(f, g)[k] = f[k]
                 \/ k \in DOMAIN g /\ WithCaptures(f, g)[k] = g[k]
  <1>1. PICK K \in SUBSET Key, L \in SUBSET Key : f \in [K -> Page] /\ g \in [L -> Page]
    BY DEF Caps
  <1>2. WithCaptures(f, g) = [k \in K \cup L |-> IF k \in K THEN f[k] ELSE g[k]]
    BY <1>1 DEF WithCaptures
  <1>3. WithCaptures(f, g) \in [K \cup L -> Page]
    BY <1>1, <1>2
  <1>4. K \cup L \in SUBSET Key
    BY <1>1
  <1>5. WithCaptures(f, g) \in Caps
    BY <1>3, <1>4 DEF Caps
  <1> QED BY <1>1, <1>2, <1>5

LEMMA MergedIsHeld ==
    ASSUME NEW i, NEW entry \in Entries(Held(i)), NEW a \in Held(i), Waits(entry, a.key)
    PROVE  Merged(entry, a) \in Held(i) /\ Merged(entry, a).key = a.key
  <1>1. PICK last \in Held(i) : last = Last(entry.open)
    BY DroppedShape DEF Waits
  <1>2. PICK caps : caps = IF a.outcome = "WAITING" THEN WithCaptures(a.caps, last.caps) ELSE a.caps
    OBVIOUS
  <1>3. /\ a.caps \in Caps /\ last.caps \in Caps
        /\ \A k \in DOMAIN a.caps : Loadable(a.caps[k])
        /\ \A k \in DOMAIN last.caps : Loadable(last.caps[k])
    BY <1>1, HeldEvents
  <1>4. caps \in Caps /\ \A k \in DOMAIN caps : Loadable(caps[k])
    BY <1>2, <1>3, CapsMerge
  <1>5. Merged(entry, a) = [a EXCEPT !.caps = caps]
    BY <1>1, <1>2 DEF Merged
  <1> QED BY <1>4, <1>5 DEF Held, Attempts

\* One entry is brought forward, or none; the store rests.
LEMMA ServiceKeeps ==
    ASSUME UpdateInv, StoreInv, pc # "idle", pc' # "idle", NEW i \in Issuer, NEW e2 \in Entries(Held(i)),
           Sound(e2, segs), Later(Held(i), HistoryOf(run.entries[i]), HistoryOf(e2)),
           DOMAIN run'.entries = Issuer,
           \A j \in Issuer : run'.entries[j] = IF j = i THEN e2 ELSE run.entries[j],
           DOMAIN run' = RunFields,
           run'.dets = run.dets, run'.seen = run.seen, run'.adm = run.adm,
           run'.served \in Issuer \cup {NoIssuer}, run'.changed \in BOOLEAN,
           run'.then \in {"serve", "queue", "done"},
           pc' \in {"publish", "pointer"} => run'.changed,
           ~run'.changed => ~run.changed /\ e2 = run.entries[i],
           version' = version, published' = published, rows' = rows, cur' = cur, known' = known,
           orphan' = orphan, segs' = segs, queue' \in Issuer \cup {NoIssuer},
           ledger' = ledger, raw' = raw, meta' = meta
    PROVE  /\ RowsInv' /\ StoredInv' /\ RunInv' /\ GrownInv' /\ CommittedInv' /\ SeenInv'
           /\ \A j \in Issuer : (Stored.issuers[j])' = Stored.issuers[j]
           /\ \A j \in Issuer : Events(HistoryOf(run.entries[j])) \subseteq Events(HistoryOf(run'.entries[j]))
  <1>1. /\ RowsInv /\ StoredInv /\ RunInv /\ GrownInv /\ CommittedInv /\ SeenInv
    BY DEF UpdateInv
  <1>2. StoredInv' /\ \A j \in Issuer : (Stored.issuers[j])' = Stored.issuers[j]
    BY <1>1, StoredKept
  <1>3. ASSUME NEW j \in Issuer
        PROVE  run'.entries[j] = IF j = i THEN e2 ELSE run.entries[j]
    OBVIOUS
  <1>4. DOMAIN run'.entries = Issuer
    OBVIOUS
  <1>5. ASSUME NEW j \in Issuer
        PROVE  run'.entries[j] \in Entries(Held(j))' /\ Sound(run'.entries[j], segs')
    <2>1. PICK entry \in Entries(Held(j)) : entry = run'.entries[j] /\ Sound(entry, segs)
      BY <1>1, <1>3 DEF RunInv
    <2> QED BY <2>1, EntryKept
  <1>6. RunInv'
    <2>1. \A j \in Issuer : run'.adm[j].producer \in Producers(j)'
      BY <1>1, ProducersKept
    <2> QED BY <1>1, <1>4, <1>5, <2>1 DEF RunInv
  <1>7. ASSUME NEW j \in Issuer
        PROVE  /\ Stays(HistoryOf(Stored.issuers[j]), HistoryOf(run'.entries[j]))
               /\ Events(HistoryOf(Stored.issuers[j])) \subseteq Events(HistoryOf(run'.entries[j]))
               /\ Events(HistoryOf(run.entries[j])) \subseteq Events(HistoryOf(run'.entries[j]))
               /\ ~run'.changed => HistoryOf(run'.entries[j]) = HistoryOf(Stored.issuers[j])
    <2>1. PICK old \in Seq(Held(j)), h \in Seq(Held(j)) :
            old = HistoryOf(Stored.issuers[j]) /\ h = HistoryOf(run.entries[j])
      BY <1>1, HistoryShape DEF StoredInv, RunInv
    <2>2. Stays(old, h) /\ Events(old) \subseteq Events(h) /\ (~run.changed => h = old)
      BY <1>1, <2>1 DEF GrownInv
    <2>3. CASE j # i
      BY <1>3, <2>1, <2>2, <2>3
    <2>4. CASE j = i
      <3>1. PICK h2 : h2 = HistoryOf(e2)
        OBVIOUS
      <3>2. Later(Held(j), h, h2)
        BY <2>1, <2>4, <3>1
      <3>3. Stays(old, h2) /\ Events(h) \subseteq Events(h2)
        BY <2>2, <3>2, LaterStays, LaterEvents
      <3> QED BY <1>3, <2>1, <2>2, <2>4, <3>1, <3>3
    <2> QED BY <2>3, <2>4
  <1>8. GrownInv'
    BY <1>2, <1>7 DEF GrownInv
  <1>9. RowsInv'
    BY <1>1 DEF RowsInv
  <1>10. CommittedInv'
    BY <1>1, <1>2, CommittedKept
  <1>11. SeenInv'
    <2>1. ASSUME NEW j \in Issuer, NEW d, NEW seen, Covered(d, seen, HistoryOf(run.entries[j]))
          PROVE  Covered(d, seen, HistoryOf(run'.entries[j]))
      <3>1. PICK h \in Seq(Held(j)) : h = HistoryOf(run.entries[j])
        BY <1>1, HistoryShape DEF RunInv
      <3>2. PICK h2 : h2 = HistoryOf(run'.entries[j])
        OBVIOUS
      <3>3. Later(Held(j), h, h2)
        <4>1. CASE j # i
          BY <1>3, <3>1, <3>2, <4>1 DEF Later
        <4>2. CASE j = i
          BY <1>3, <3>1, <3>2, <4>2
        <4> QED BY <4>1, <4>2
      <3> QED BY <2>1, <3>1, <3>2, <3>3, LaterCovers
    <2> QED BY <1>1, <2>1, SeenKept
  <1> QED BY <1>2, <1>6, <1>7, <1>8, <1>9, <1>10, <1>11

\* The candidates are results filings of the issuer.
LEMMA CandidatesAre ==
    ASSUME RowsInv, RunInv, pc # "idle", NEW i \in Issuer
    PROVE  Candidates(i) \subseteq Results \cap Mine(i)
  <1>1. Listed(i, ReferenceOf(run.adm[i].producer)) \cup run.adm[i].docs \subseteq Mine(i)
    BY ListedIsMine DEF RunInv
  <1> QED BY <1>1 DEF Candidates

\* What the steps of the service leave alone.
ServiceRest ==
    /\ version' = version /\ published' = published /\ rows' = rows /\ cur' = cur
    /\ orphan' = orphan /\ segs' = segs /\ known' = known
    /\ ledger' = ledger /\ raw' = raw /\ meta' = meta /\ storing' = storing /\ stage' = stage

\* What a run keeps while it serves.
SameService == /\ run'.dets = run.dets /\ run'.seen = run.seen /\ run'.adm = run.adm
               /\ run'.held = run.held /\ DOMAIN run' = RunFields

\* The attempt of an issuer without a results filing among its documents.
LEMMA NoResultsKeeps ==
    ASSUME UpdateInv, StoreInv, NEW i \in Issuer, NoResults(i)
    PROVE  UpdateInv'
  <1>1. /\ RowsInv /\ StoredInv /\ QuotaInv /\ PcInv /\ RunInv /\ GrownInv /\ LeadInv
        /\ CapsInv /\ CommittedInv
    BY DEF UpdateInv
  <1>2. pc = "serve" /\ pc' = pc /\ queue' = queue /\ ServiceRest
    BY DEF NoResults, Turn, OnlyRun, ServiceRest, storeVars
  <1>3. PICK entry \in Entries(Held(i)) : entry = run.entries[i] /\ Sound(entry, segs)
    BY <1>1, <1>2 DEF RunInv
  <1>4. PICK producer \in Producers(i), docs \in SUBSET Mine(i), material \in SUBSET Mine(i) :
          /\ producer = run.adm[i].producer /\ docs = run.dets[i].docs
          /\ material = Unaccounted(producer, Listed(i, ReferenceOf(producer)) \cup run.adm[i].docs)
    <2>1. run.adm[i].producer \in Producers(i) /\ run.dets[i].docs \subseteq Mine(i)
          /\ run.adm[i].docs \subseteq Mine(i)
      BY <1>1, <1>2 DEF RunInv, Seens
    <2>2. \A p : Listed(i, ReferenceOf(p)) \cup run.adm[i].docs \subseteq Mine(i)
      BY <1>1, <2>1, ListedIsMine
    <2>3. \A p : Unaccounted(p, Listed(i, ReferenceOf(p)) \cup run.adm[i].docs) \subseteq Mine(i)
      BY <2>2, UnaccountedAreSome
    <2> QED BY <2>1, <2>3
  <1>5. PICK new \in Held(i) :
          /\ new = Attempt(UnresolvedKey(material), docs, <<>>, producer, i, WaitFor("unresolved"))
          /\ new.key = UnresolvedKey(material)
    <2>1. UnresolvedKey(material) \in Keys(i)
      BY DEF UnresolvedKey, Keys
    <2>2. /\ WaitFor("unresolved") \in Outcome(UnresolvedKey(material).event)
          /\ WaitFor("unresolved").outcome = "WAITING"
      BY WaitIs DEF Whys
    <2> QED BY <1>1, <2>1, <2>2, NoCaps, AttemptIs
  <1>6. new.key.event = NoDoc
    BY <1>5 DEF UnresolvedKey
  <1>7. PICK prior :
          /\ prior = IF /\ entry.open # <<>> /\ Last(entry.open).outcome = "WAITING"
                        /\ Last(entry.open).key.event = NoDoc
                     THEN Dropped(entry) ELSE entry
          /\ \/ run' = Passed
             \/ run' = [Passed EXCEPT !.entries[i] = Appended(prior, new), !.changed = TRUE]
    BY <1>3, <1>4, <1>5 DEF NoResults, Dropped
  <1>8. PICK e2 \in Entries(Held(i)) :
          /\ Sound(e2, segs) /\ Later(Held(i), HistoryOf(entry), HistoryOf(e2))
          /\ \/ run' = Passed /\ e2 = entry
             \/ run' = [Passed EXCEPT !.entries[i] = e2, !.changed = TRUE]
    <2>1. CASE run' = Passed
      BY <1>3, <2>1 DEF Later
    <2>2. CASE run' = [Passed EXCEPT !.entries[i] = Appended(prior, new), !.changed = TRUE]
      <3>1. CASE prior = entry
        BY <1>3, <1>6, <2>2, <3>1, AppendedLater
      <3>2. CASE prior # entry
        BY <1>3, <1>6, <1>7, <2>2, <3>2, ReplacedLater
      <3> QED BY <3>1, <3>2
    <2> QED BY <1>7, <2>1, <2>2
  <1>9. /\ SameService /\ run'.spent = run.spent
        /\ DOMAIN run'.entries = Issuer
        /\ \A j \in Issuer : run'.entries[j] = IF j = i THEN e2 ELSE run.entries[j]
        /\ run'.served = run.served /\ run'.then = run.then
        /\ run'.changed \in BOOLEAN
        /\ ~run'.changed => ~run.changed /\ e2 = run.entries[i]
    <2>1. CASE run' = Passed /\ e2 = entry
      BY <1>1, <1>2, <1>3, <2>1 DEF RunInv, RunFields, Passed, SameService
    <2>2. CASE run' = [Passed EXCEPT !.entries[i] = e2, !.changed = TRUE]
      BY <1>1, <1>2, <2>2 DEF RunInv, RunFields, Passed, SameService
    <2> QED BY <1>8, <2>1, <2>2
  <1>10. RowsInv' /\ StoredInv' /\ RunInv' /\ GrownInv' /\ CommittedInv' /\ SeenInv'
    <2>1. /\ run'.served \in Issuer \cup {NoIssuer} /\ run'.then \in {"serve", "queue", "done"}
          /\ queue' \in Issuer \cup {NoIssuer} /\ pc' = "serve"
      BY <1>1, <1>2, <1>9 DEF RunInv, RowsInv
    <2> QED BY <1>2, <1>3, <1>8, <1>9, <2>1, ServiceKeeps DEF ServiceRest, SameService
  <1>11. QuotaInv'
    BY <1>1, <1>2, <1>9 DEF QuotaInv, ServiceRest, SameService
  <1>12. PcInv'
    <2>1. run' # NoRun
      BY <1>9 DEF NoRun, RunFields, SameService
    <2> QED BY <1>1, <1>2, <2>1 DEF PcInv, ServiceRest
  <1>13. LeadInv' /\ CapsInv'
    BY <1>2 DEF LeadInv, CapsInv, Leading
  <1> QED BY <1>10, <1>11, <1>12, <1>13 DEF UpdateInv

LEMMA DetectKeeps ==
    ASSUME UpdateInv, StoreInv, NEW i \in Issuer, Detect(i)
    PROVE  UpdateInv'
  <1>1. /\ RowsInv /\ StoredInv /\ QuotaInv /\ PcInv /\ RunInv /\ GrownInv /\ LeadInv
        /\ CapsInv /\ CommittedInv
    BY DEF UpdateInv
  <1>2. pc = "serve" /\ queue' = queue /\ ServiceRest /\ Unsettled(i) # {}
    BY DEF Detect, Turn, OnlyRun, ServiceRest, storeVars
  <1>3. PICK entry \in Entries(Held(i)) : entry = run.entries[i] /\ Sound(entry, segs)
    BY <1>1, <1>2 DEF RunInv
  <1>4. PICK e \in Results \cap Mine(i) : e = Oldest(Unsettled(i))
    <2>1. Unsettled(i) \subseteq Results \cap Mine(i)
      BY <1>1, <1>2, CandidatesAre DEF Unsettled
    <2>2. Unsettled(i) \subseteq Doc
      BY <2>1 DEF Mine
    <2> QED BY <1>2, <2>1, <2>2, OldestIsOne
  <1>5. PICK producer \in Producers(i), docs \in SUBSET Mine(i) :
          producer = run.adm[i].producer /\ docs = run.dets[i].docs
    BY <1>1, <1>2 DEF RunInv, Seens
  <1>6. PICK new \in Held(i) :
          /\ new = Attempt(EventKey(e), docs, <<>>, producer, i, WaitFor("detected"))
          /\ new.key = EventKey(e)
    <2>1. EventKey(e) \in Keys(i)
      BY DEF EventKey, Keys
    <2>2. /\ WaitFor("detected") \in Outcome(EventKey(e).event)
          /\ WaitFor("detected").outcome = "WAITING"
      BY WaitIs DEF Whys
    <2> QED BY <1>1, <2>1, <2>2, NoCaps, AttemptIs
  <1>7. new.key.event = e /\ e # NoDoc
    BY <1>6, HistoryAssumption DEF EventKey
  <1>8. PICK there \in BOOLEAN :
          /\ there <=> \E k \in DOMAIN entry.open : entry.open[k].key = EventKey(e)
          /\ run' = [run EXCEPT !.entries[i] = IF there THEN @ ELSE Recorded(@, new),
                                !.changed = @ \/ ~there,
                                !.who = i, !.lead = e, !.caps = <<>>, !.then = "queue"]
          /\ pc' = IF run.changed \/ ~there THEN "publish" ELSE "queue"
    <2>1. PICK there : there = \E k \in DOMAIN entry.open : entry.open[k].key = EventKey(e)
      OBVIOUS
    <2>2. there \in BOOLEAN
      BY <2>1
    <2> QED BY <1>3, <1>4, <1>5, <1>6, <2>1, <2>2, Zenon DEF Detect
  <1>9. PICK e2 \in Entries(Held(i)) :
          /\ Sound(e2, segs) /\ Later(Held(i), HistoryOf(entry), HistoryOf(e2))
          /\ e2 = IF there THEN entry ELSE Recorded(entry, new)
          /\ e \in Events(HistoryOf(e2))
    <2>1. CASE there
      <3>1. e \in Events(HistoryOf(entry))
        BY <1>7, <1>8, <2>1, OpenEvents DEF EventKey
      <3> QED BY <1>3, <2>1, <3>1 DEF Later
    <2>2. CASE ~there
      <3>1. Waits(entry, new.key) => Merged(entry, new) \in Held(i) /\ Merged(entry, new).key = new.key
        BY MergedIsHeld
      <3>2. new.key.event \in Results \cup {NoDoc}
        BY <1>7
      <3>3. /\ Recorded(entry, new) \in Entries(Held(i)) /\ Sound(Recorded(entry, new), segs)
            /\ Later(Held(i), HistoryOf(entry), HistoryOf(Recorded(entry, new)))
            /\ new.key.event \in {NoDoc} \cup Events(HistoryOf(Recorded(entry, new)))
        BY <1>3, <3>1, <3>2, RecordedLater
      <3> QED BY <1>7, <2>2, <3>3
    <2> QED BY <2>1, <2>2
  <1>10. /\ SameService /\ run'.spent = run.spent
         /\ DOMAIN run'.entries = Issuer
         /\ \A j \in Issuer : run'.entries[j] = IF j = i THEN e2 ELSE run.entries[j]
         /\ run'.served = run.served /\ run'.then = "queue"
         /\ run'.who = i /\ run'.lead = e /\ run'.caps = <<>>
         /\ run'.changed = (run.changed \/ ~there)
    BY <1>1, <1>2, <1>3, <1>8, <1>9 DEF RunInv, RunFields, SameService
  <1>11. /\ run'.changed \in BOOLEAN
         /\ ~run'.changed => ~run.changed /\ e2 = run.entries[i]
         /\ pc' \in {"publish", "queue"}
         /\ pc' = "publish" <=> run'.changed
    BY <1>3, <1>8, <1>9, <1>10
  <1>12. /\ RowsInv' /\ StoredInv' /\ RunInv' /\ GrownInv' /\ CommittedInv' /\ SeenInv'
         /\ \A j \in Issuer : (Stored.issuers[j])' = Stored.issuers[j]
    <2>1. /\ run'.served \in Issuer \cup {NoIssuer} /\ run'.then \in {"serve", "queue", "done"}
          /\ queue' \in Issuer \cup {NoIssuer} /\ pc' # "idle"
          /\ pc' \in {"publish", "pointer"} => run'.changed
      BY <1>1, <1>2, <1>10, <1>11 DEF RunInv, RowsInv
    <2> QED BY <1>2, <1>3, <1>9, <1>10, <1>11, <2>1, ServiceKeeps DEF ServiceRest, SameService
  <1>13. QuotaInv'
    BY <1>1, <1>2, <1>10, <1>11 DEF QuotaInv, ServiceRest, SameService
  <1>14. PcInv'
    <2>1. run' # NoRun
      BY <1>10 DEF NoRun, RunFields, SameService
    <2> QED BY <1>1, <1>2, <1>11, <2>1 DEF PcInv, ServiceRest
  <1>15. LeadInv'
    <2>1. run'.entries[i] = e2
      BY <1>1, <1>2, <1>10 DEF RunInv
    <2>2. Owner[e] = i
      BY DEF Mine
    <2>3. pc' = "queue" => e \in Events(HistoryOf((Stored.issuers[i])'))
      <3>1. pc' = "queue" => ~run.changed /\ e2 = entry
        BY <1>3, <1>11
      <3>2. ~run.changed => HistoryOf(entry) = HistoryOf(Stored.issuers[i])
        BY <1>1, <1>2, <1>3 DEF GrownInv
      <3> QED BY <1>9, <1>12, <3>1, <3>2
    <2> QED BY <1>9, <1>10, <1>11, <2>1, <2>2, <2>3 DEF LeadInv, Leading
  <1>16. CapsInv'
    BY <1>10, <1>11 DEF CapsInv
  <1> QED BY <1>12, <1>13, <1>14, <1>15, <1>16 DEF UpdateInv

-----------------------------------------------------------------------------
(* The capture of an event. *)

\* The capture touches neither the histories nor what is published.
LEMMA CaptureKeeps ==
    ASSUME UpdateInv, pc \in {"queue", "fetch"}, pc' = "fetch",
           version' = version, published' = published, rows' = rows, cur' = cur, known' = known,
           orphan' = orphan, segs' = segs, queue' \in Issuer \cup {NoIssuer},
           raw \subseteq raw', meta \subseteq meta', stage' # "closed", DOMAIN run' = RunFields,
           run'.entries = run.entries, run'.dets = run.dets, run'.seen = run.seen, run'.adm = run.adm,
           run'.served = run.served, run'.changed = run.changed, run'.then = run.then,
           run'.who = run.who, run'.lead = run.lead
    PROVE  /\ RowsInv' /\ StoredInv' /\ PcInv' /\ RunInv' /\ GrownInv' /\ LeadInv' /\ SeenInv'
           /\ \A i \in Issuer : (Stored.issuers[i])' = Stored.issuers[i]
  <1>1. /\ RowsInv /\ StoredInv /\ PcInv /\ RunInv /\ GrownInv /\ LeadInv /\ SeenInv
    BY DEF UpdateInv
  <1>2. StoredInv' /\ \A i \in Issuer : (Stored.issuers[i])' = Stored.issuers[i]
    BY <1>1, StoredKept
  <1>3. RowsInv'
    BY <1>1 DEF RowsInv
  <1>4. PcInv'
    <2>1. run' # NoRun
      BY DEF NoRun, RunFields
    <2> QED BY <1>1, <2>1 DEF PcInv
  <1>5. RunInv'
    <2>1. \A i \in Issuer : run.entries[i] \in Entries(Held(i))' /\ Sound(run.entries[i], segs')
      BY <1>1, RunEntriesKept
    <2>2. \A i \in Issuer : run'.adm[i].producer \in Producers(i)'
      BY <1>1, ProducersKept
    <2> QED BY <1>1, <2>1, <2>2 DEF RunInv
  <1>6. GrownInv'
    BY <1>1, <1>2 DEF GrownInv
  <1>7. LeadInv'
    BY <1>1, <1>2 DEF LeadInv, Leading
  <1>8. SeenInv'
    BY <1>1, SeenKept
  <1> QED BY <1>2, <1>3, <1>4, <1>5, <1>6, <1>7, <1>8

LEMMA TakeTurnKeeps ==
    ASSUME UpdateInv, StoreInv, TakeTurn
    PROVE  UpdateInv'
  <1>1. /\ QuotaInv /\ PcInv /\ RunInv /\ LeadInv /\ CapsInv /\ CommittedInv
    BY DEF UpdateInv
  <1>2. /\ pc = "queue" /\ pc' = "fetch" /\ queue' = run.who /\ run' = run
        /\ version' = version /\ published' = published /\ rows' = rows /\ cur' = cur
        /\ orphan' = orphan /\ segs' = segs /\ known' = known
        /\ ledger' = ledger /\ raw' = raw /\ meta' = meta /\ storing' = storing /\ stage' = stage
    BY DEF TakeTurn, storeVars
  <1>3. run.who \in Issuer /\ run.caps = <<>>
    BY <1>1, <1>2 DEF LeadInv, CapsInv, Leading
  <1>4. stage = "open" /\ DOMAIN run = RunFields
    BY <1>1, <1>2 DEF PcInv, RunInv
  <1>5. /\ RowsInv' /\ StoredInv' /\ PcInv' /\ RunInv' /\ GrownInv' /\ LeadInv' /\ SeenInv'
        /\ \A i \in Issuer : (Stored.issuers[i])' = Stored.issuers[i]
    BY <1>2, <1>3, <1>4, CaptureKeeps
  <1>6. QuotaInv'
    BY <1>1, <1>2 DEF QuotaInv
  <1>7. CapsInv'
    <2>1. Caps' = Caps
      BY DEF Caps
    <2> QED BY <1>2, <1>3, <2>1, NoCaps DEF CapsInv, Leading
  <1>8. CommittedInv'
    BY <1>1, <1>2, <1>5, CommittedKept
  <1> QED BY <1>5, <1>6, <1>7, <1>8 DEF UpdateInv

\* One more document is captured for the event.
LEMMA TookCaps ==
    ASSUME CapsInv, pc = "fetch", stage = "open", NEW p \in Page
    PROVE  /\ WithCaptures(run.caps, [l \in {Wanted} |-> p]) \in Caps
           /\ \A k \in DOMAIN WithCaptures(run.caps, [l \in {Wanted} |-> p]) :
                 \/ Loadable(WithCaptures(run.caps, [l \in {Wanted} |-> p])[k])
                 \/ WithCaptures(run.caps, [l \in {Wanted} |-> p])[k] = p
  <1>1. PICK f \in Caps : f = run.caps /\ \A k \in DOMAIN f : Loadable(f[k])
    BY DEF CapsInv
  <1>2. PICK w \in Key : w = Wanted
    BY DEF Wanted, Key
  <1>3. PICK g : g = [k \in {w} |-> p]
    OBVIOUS
  <1>4. g \in [{w} -> Page] /\ {w} \in SUBSET Key
    BY <1>3
  <1>5. g \in Caps
    BY <1>4 DEF Caps
  <1>6. /\ WithCaptures(f, g) \in Caps
        /\ \A k \in DOMAIN WithCaptures(f, g) :
              \/ k \in DOMAIN f /\ WithCaptures(f, g)[k] = f[k]
              \/ k \in DOMAIN g /\ WithCaptures(f, g)[k] = g[k]
    BY <1>5, CapsMerge
  <1>7. \A k \in DOMAIN g : g[k] = p
    BY <1>3
  <1> QED BY <1>1, <1>2, <1>3, <1>6, <1>7

LEMMA ReuseKeeps ==
    ASSUME UpdateInv, StoreInv, Reuse
    PROVE  UpdateInv'
  <1>1. /\ QuotaInv /\ PcInv /\ RunInv /\ LeadInv /\ CapsInv /\ CommittedInv
    BY DEF UpdateInv
  <1>2. PICK p : p = <<run.lead, "file">>
    OBVIOUS
  <1>3. /\ pc = "fetch" /\ pc' = pc /\ stage = "open" /\ p \in Reusable /\ run' = Took(p)
        /\ version' = version /\ published' = published /\ rows' = rows /\ cur' = cur
        /\ orphan' = orphan /\ segs' = segs /\ queue' = queue /\ known' = known
        /\ ledger' = ledger /\ raw' = raw /\ meta' = meta /\ storing' = storing /\ stage' = stage
    BY <1>2 DEF Reuse, Capturing, UnlessStored, storeVars
  <1>4. Loadable(p)
    BY <1>3 DEF Reusable
  <1>5. p \in Page
    BY <1>4, StoreTypes DEF StoreTypeOK, Loadable
  <1>6. /\ DOMAIN run' = RunFields
        /\ run'.entries = run.entries /\ run'.dets = run.dets /\ run'.seen = run.seen
        /\ run'.adm = run.adm
        /\ run'.served = run.served /\ run'.changed = run.changed /\ run'.then = run.then
        /\ run'.who = run.who /\ run'.lead = run.lead
        /\ run'.spent = run.spent /\ run'.held = run.held
        /\ run'.caps = WithCaptures(run.caps, [k \in {Wanted} |-> p])
    BY <1>1, <1>3 DEF RunInv, RunFields, Took
  <1>7. /\ RowsInv' /\ StoredInv' /\ PcInv' /\ RunInv' /\ GrownInv' /\ LeadInv' /\ SeenInv'
        /\ \A i \in Issuer : (Stored.issuers[i])' = Stored.issuers[i]
    <2>1. queue' \in Issuer \cup {NoIssuer}
      BY <1>3 DEF UpdateInv, RowsInv
    <2> QED BY <1>3, <1>6, <2>1, CaptureKeeps
  <1>8. QuotaInv'
    BY <1>1, <1>3, <1>6 DEF QuotaInv
  <1>9. CapsInv'
    <2>1. /\ run'.caps \in Caps
          /\ \A k \in DOMAIN run'.caps : Loadable(run'.caps[k]) \/ run'.caps[k] = p
      BY <1>1, <1>3, <1>5, <1>6, TookCaps
    <2>2. \A q : Loadable(q)' <=> Loadable(q)
      BY <1>3 DEF Loadable
    <2> QED BY <1>3, <1>4, <2>1, <2>2 DEF CapsInv, Caps, Leading
  <1>10. CommittedInv'
    BY <1>1, <1>3, <1>7, CommittedKept
  <1> QED BY <1>7, <1>8, <1>9, <1>10 DEF UpdateInv

LEMMA FetchKeeps ==
    ASSUME UpdateInv, StoreInv, Fetch
    PROVE  UpdateInv'
  <1>1. /\ QuotaInv /\ PcInv /\ RunInv /\ LeadInv /\ CapsInv /\ CommittedInv
    BY DEF UpdateInv
  <1>2. PICK p \in Page : /\ p \in Answers /\ Fits(p) /\ (StoreHeld(p) \/ Reserve(p))
                          /\ run' = [Took(p) EXCEPT !.spent = @ + Size[p]]
    BY UpdateAssumption DEF Fetch, Answers
  <1>3. /\ pc = "fetch" /\ pc' = pc /\ stage = "open"
        /\ version' = version /\ published' = published /\ rows' = rows /\ cur' = cur
        /\ orphan' = orphan /\ segs' = segs /\ queue' = queue /\ known' = known
    BY DEF Fetch, Requests, Capturing, UnlessStored
  <1>4. /\ raw' = raw /\ meta \subseteq meta' /\ stage' # "closed"
        /\ \/ ledger' = ledger /\ stage' = "open" /\ Loadable(p)'
           \/ /\ ledger'.bytes = ledger.bytes + Size[p] /\ ledger'.pending = ledger.pending \cup {p}
              /\ storing' = p /\ stage' = "raw"
    BY <1>2 DEF StoreHeld, Reserve, Loadable
  <1>5. /\ DOMAIN run' = RunFields
        /\ run'.entries = run.entries /\ run'.dets = run.dets /\ run'.seen = run.seen
        /\ run'.adm = run.adm
        /\ run'.served = run.served /\ run'.changed = run.changed /\ run'.then = run.then
        /\ run'.who = run.who /\ run'.lead = run.lead
        /\ run'.spent = run.spent + Size[p] /\ run'.held = run.held
        /\ run'.caps = WithCaptures(run.caps, [k \in {Wanted} |-> p])
    BY <1>1, <1>2, <1>3 DEF RunInv, RunFields, Took
  <1>6. /\ RowsInv' /\ StoredInv' /\ PcInv' /\ RunInv' /\ GrownInv' /\ LeadInv' /\ SeenInv'
        /\ \A i \in Issuer : (Stored.issuers[i])' = Stored.issuers[i]
    <2>1. queue' \in Issuer \cup {NoIssuer}
      BY <1>3 DEF UpdateInv, RowsInv
    <2> QED BY <1>3, <1>4, <1>5, <2>1, CaptureKeeps
  <1>7. QuotaInv'
    <2>1. PICK h \in Nat, s \in Nat, z \in Nat, b \in Nat, q \in Nat :
            h = run.held /\ s = run.spent /\ z = Size[p] /\ b = ledger.bytes /\ q = Quota
      BY <1>1, <1>3, SizeAssumption, UpdateAssumption, StoreTypes DEF QuotaInv, StoreTypeOK
    <2>2. b <= h + s /\ h + s + z <= q
      BY <1>1, <1>2, <1>3, <2>1 DEF QuotaInv, Fits
    <2>3. s + z \in Nat /\ b <= h + (s + z) /\ b + z <= h + (s + z) /\ b <= q /\ b + z <= q
      BY <2>2
    <2>4. ledger'.bytes = b \/ ledger'.bytes = b + z
      BY <1>4, <2>1
    <2> QED BY <1>5, <2>1, <2>3, <2>4 DEF QuotaInv
  <1>8. CapsInv'
    <2>1. /\ run'.caps \in Caps
          /\ \A k \in DOMAIN run'.caps : Loadable(run'.caps[k]) \/ run'.caps[k] = p
      <3>1. PICK caps : caps = WithCaptures(run.caps, [l \in {Wanted} |-> p]) /\ run'.caps = caps
        BY <1>5
      <3>2. /\ caps \in Caps
            /\ \A k \in DOMAIN caps : Loadable(caps[k]) \/ caps[k] = p
        BY <1>1, <1>3, <3>1, TookCaps
      <3> QED BY <3>1, <3>2
    <2>2. \A q : Loadable(q) => Loadable(q)'
      BY <1>4 DEF Loadable
    <2> QED BY <1>3, <1>4, <2>1, <2>2 DEF CapsInv, Caps, Leading
  <1>9. CommittedInv'
    <2>1. p[1] = run.lead
      BY <1>2 DEF Answers
    <2>2. /\ run.who \in Issuer /\ Owner[run.lead] = run.who
          /\ run.lead \in Events(HistoryOf(Stored.issuers[run.who]))
      BY <1>1, <1>3 DEF LeadInv, Leading
    <2>3. p[1] \in Events(HistoryOf((Stored.issuers[Owner[p[1]]])'))
      BY <1>6, <2>1, <2>2
    <2>4. ASSUME NEW q \in raw \cup ledger.pending
          PROVE  q[1] \in Events(HistoryOf((Stored.issuers[Owner[q[1]]])'))
      <3>1. q \in Pages
        BY StoreTypes, UpdateAssumption DEF StoreTypeOK
      <3>2. q[1] \in Doc
        BY <3>1, HistoryAssumption DEF Pages
      <3>3. Owner[q[1]] \in Issuer
        BY <3>2, UpdateAssumption
      <3> QED BY <1>1, <1>6, <3>3 DEF CommittedInv
    <2> QED BY <1>4, <2>3, <2>4 DEF CommittedInv
  <1> QED BY <1>6, <1>7, <1>8, <1>9 DEF UpdateInv

LEMMA WriteCaptureKeeps ==
    ASSUME UpdateInv, StoreInv, WriteCapture
    PROVE  UpdateInv'
  <1>1. /\ QuotaInv /\ PcInv /\ RunInv /\ LeadInv /\ CapsInv /\ CommittedInv
    BY DEF UpdateInv
  <1>2. /\ pc = "fetch" /\ pc' = pc /\ run' = run
        /\ version' = version /\ published' = published /\ rows' = rows /\ cur' = cur
        /\ orphan' = orphan /\ segs' = segs /\ queue' = queue /\ known' = known
        /\ WriteRaw \/ WriteMeta \/ Settle
    BY DEF WriteCapture, UnlessStored
  <1>3. StoreTypeOK /\ Writing /\ DOMAIN run = RunFields
    BY <1>1, <1>2, StoreTypes DEF StoreInv, RunInv
  <1>4. /\ raw \subseteq raw' /\ meta \subseteq meta' /\ stage' # "closed"
        /\ ledger'.bytes = ledger.bytes
        /\ raw' \cup ledger'.pending \subseteq raw \cup ledger.pending
    BY <1>2, <1>3 DEF WriteRaw, WriteMeta, Settle, Writing, StoreTypeOK
  <1>5. /\ RowsInv' /\ StoredInv' /\ PcInv' /\ RunInv' /\ GrownInv' /\ LeadInv' /\ SeenInv'
        /\ \A i \in Issuer : (Stored.issuers[i])' = Stored.issuers[i]
    <2>1. queue' \in Issuer \cup {NoIssuer}
      BY <1>2 DEF UpdateInv, RowsInv
    <2> QED BY <1>2, <1>3, <1>4, <2>1, CaptureKeeps
  <1>6. QuotaInv'
    BY <1>1, <1>2, <1>4 DEF QuotaInv
  <1>7. CapsInv'
    <2>1. \A q : Loadable(q) => Loadable(q)'
      BY <1>4 DEF Loadable
    <2>2. stage \in {"raw", "meta"} => storing' = storing /\ (stage' = "meta" \/ Loadable(storing)')
      BY <1>2, <1>3 DEF WriteRaw, WriteMeta, Settle, Writing, Loadable
    <2>3. \A k \in DOMAIN run.caps :
            \/ Loadable(run.caps[k])'
            \/ stage' \in {"raw", "meta"} /\ run.caps[k] = storing'
      BY <1>1, <1>2, <2>1, <2>2 DEF CapsInv
    <2> QED BY <1>1, <1>2, <2>3 DEF CapsInv, Caps, Leading
  <1>8. CommittedInv'
    BY <1>1, <1>4, <1>5, CommittedKept
  <1> QED BY <1>5, <1>6, <1>7, <1>8 DEF UpdateInv

-----------------------------------------------------------------------------
(* The outcome of a capture. *)

\* The attempt is recorded, whatever it gave, and the run goes on.
LEMMA RecordingKeeps ==
    ASSUME UpdateInv, StoreInv, pc = "fetch", stage = "open", pc' = "serve", queue' = queue,
           ServiceRest, NEW result \in Outcome(NoDoc), NEW spent \in Nat, run.spent <= spent,
           \/ run' = Recording(result, run.caps, spent)
           \/ run' = [Recording(result, run.caps, spent) EXCEPT !.exhausted = TRUE]
    PROVE  UpdateInv'
  <1>1. /\ RowsInv /\ StoredInv /\ QuotaInv /\ PcInv /\ RunInv /\ GrownInv /\ LeadInv
        /\ CapsInv /\ CommittedInv
    BY DEF UpdateInv
  <1>2. PICK i \in Issuer, e \in Results : i = run.who /\ e = run.lead /\ e \in Mine(i)
    <2>1. run.who \in Issuer /\ run.lead \in Results /\ Owner[run.lead] = run.who
      BY <1>1 DEF LeadInv, Leading
    <2> QED BY <2>1, HistoryAssumption DEF Mine
  <1>3. PICK entry \in Entries(Held(i)) : entry = run.entries[i] /\ Sound(entry, segs)
    BY <1>1 DEF RunInv
  <1>4. PICK producer \in Producers(i), docs \in SUBSET Mine(i), caps \in Caps :
          /\ producer = run.adm[i].producer /\ docs = run.dets[i].docs /\ caps = run.caps
          /\ \A k \in DOMAIN caps : Loadable(caps[k])
    BY <1>1 DEF RunInv, Seens, CapsInv
  <1>5. PICK new \in Held(i) :
          /\ new = Attempt(EventKey(e), docs, caps, producer, i, result)
          /\ new.key = EventKey(e)
    <2>1. EventKey(e) \in Keys(i) /\ EventKey(e).event = e /\ e # NoDoc
      BY <1>2, HistoryAssumption DEF EventKey, Keys
    <2>2. result \in Outcome(EventKey(e).event)
      BY DEF Outcome
    <2> QED BY <1>1, <1>4, <2>1, <2>2, AttemptIs
  <1>6. new.key.event \in Results \cup {NoDoc}
    BY <1>5 DEF EventKey
  <1>7. PICK after \in Entries(Held(i)) :
          /\ after = Recorded(entry, new) /\ Sound(after, segs)
          /\ Later(Held(i), HistoryOf(entry), HistoryOf(after))
    <2>1. Waits(entry, new.key) => Merged(entry, new) \in Held(i) /\ Merged(entry, new).key = new.key
      BY MergedIsHeld
    <2> QED BY <1>3, <1>6, <2>1, RecordedLater
  <1>8. PICK e2 \in Entries(Held(i)), changed \in BOOLEAN :
          /\ Sound(e2, segs) /\ Later(Held(i), HistoryOf(entry), HistoryOf(e2))
          /\ e2 = IF SettledFits(after) THEN after ELSE entry
          /\ changed <=> (run.changed \/ (SettledFits(after) /\ after # entry))
    <2>1. Later(Held(i), HistoryOf(entry), HistoryOf(entry))
      BY DEF Later
    <2>2. PICK changed \in BOOLEAN :
            changed <=> (run.changed \/ (SettledFits(after) /\ after # entry))
      OBVIOUS
    <2>3. CASE SettledFits(after)
      BY <1>7, <2>2, <2>3
    <2>4. CASE ~SettledFits(after)
      BY <1>3, <2>1, <2>2, <2>4
    <2> QED BY <2>3, <2>4
  <1>9. DOMAIN run = RunFields /\ DOMAIN run.entries = Issuer
    BY <1>1 DEF RunInv
  <1>10. Recording(result, run.caps, spent) =
              [Passed EXCEPT !.who = NoIssuer, !.lead = NoDoc, !.caps = <<>>, !.spent = spent,
                  !.served = run.who,
                  !.entries[i] = IF SettledFits(after) THEN after ELSE @,
                  !.changed = @ \/ (SettledFits(after) /\ after # run.entries[i])]
    BY <1>2, <1>3, <1>4, <1>5, <1>7 DEF Recording
  <1>11. /\ SameService /\ run'.spent = spent /\ run'.served = i /\ run'.then = run.then
         /\ DOMAIN run'.entries = Issuer
         /\ \A j \in Issuer : run'.entries[j] = IF j = i THEN e2 ELSE run.entries[j]
         /\ run'.changed = (run.changed \/ (SettledFits(after) /\ after # run.entries[i]))
    <2>1. PICK fits : fits = SettledFits(after)
      OBVIOUS
    <2>2. PICK r : /\ r = [Passed EXCEPT !.who = NoIssuer, !.lead = NoDoc, !.caps = <<>>, !.spent = spent,
                                !.served = run.who, !.entries[i] = IF fits THEN after ELSE @,
                                !.changed = @ \/ (fits /\ after # run.entries[i])]
                   /\ run' = r \/ run' = [r EXCEPT !.exhausted = TRUE]
      BY <1>10, <2>1
    <2>3. /\ DOMAIN r = RunFields /\ r.dets = run.dets /\ r.seen = run.seen
          /\ r.adm = run.adm /\ r.held = run.held
          /\ r.spent = spent /\ r.served = i /\ r.then = run.then
          /\ r.entries = [run.entries EXCEPT ![i] = IF fits THEN after ELSE @]
          /\ r.changed = (run.changed \/ (fits /\ after # run.entries[i]))
      BY <1>2, <1>9, <2>2 DEF RunFields, Passed
    <2>4. /\ SameService /\ run'.spent = r.spent /\ run'.served = r.served /\ run'.then = r.then
          /\ run'.entries = r.entries /\ run'.changed = r.changed
      <3>1. CASE run' = r
        BY <2>3, <3>1 DEF SameService
      <3>2. CASE run' = [r EXCEPT !.exhausted = TRUE]
        <4>1. DOMAIN run' = DOMAIN r
          BY <3>2
        <4>2. \A f \in RunFields \ {"exhausted"} : run'[f] = r[f]
          BY <2>3, <3>2
        <4>3. /\ run'.dets = r.dets /\ run'.seen = r.seen /\ run'.adm = r.adm /\ run'.held = r.held
              /\ run'.spent = r.spent /\ run'.served = r.served /\ run'.then = r.then
              /\ run'.entries = r.entries /\ run'.changed = r.changed
          BY <4>2 DEF RunFields
        <4> QED BY <2>3, <4>1, <4>3 DEF SameService
      <3> QED BY <2>2, <3>1, <3>2
    <2>5. \A j \in Issuer : r.entries[j] = IF j = i THEN e2 ELSE run.entries[j]
      BY <1>3, <1>8, <1>9, <2>1, <2>3
    <2>6. DOMAIN r.entries = Issuer
      BY <1>9, <2>3
    <2> QED BY <2>1, <2>3, <2>4, <2>5, <2>6
  <1>12. /\ run'.changed \in BOOLEAN
         /\ ~run'.changed => ~run.changed /\ e2 = run.entries[i]
         /\ run'.then \in {"serve", "queue", "done"} /\ queue' \in Issuer \cup {NoIssuer}
    BY <1>1, <1>3, <1>8, <1>11 DEF RunInv, RowsInv
  <1>13. RowsInv' /\ StoredInv' /\ RunInv' /\ GrownInv' /\ CommittedInv' /\ SeenInv'
    BY <1>3, <1>8, <1>11, <1>12, ServiceKeeps DEF ServiceRest, SameService
  <1>14. QuotaInv'
    <2>1. PICK h \in Nat, s \in Nat, b \in Nat : h = run.held /\ s = run.spent /\ b = ledger.bytes
      BY <1>1, StoreTypes DEF QuotaInv, StoreTypeOK
    <2>2. b <= h + s /\ s <= spent
      BY <1>1, <2>1 DEF QuotaInv
    <2>3. b <= h + spent
      BY <2>2
    <2> QED BY <1>1, <1>11, <2>1, <2>3 DEF QuotaInv, ServiceRest, SameService
  <1>15. PcInv'
    <2>1. run' # NoRun
      BY <1>11 DEF NoRun, RunFields, SameService
    <2> QED BY <1>1, <2>1 DEF PcInv, ServiceRest
  <1>16. LeadInv' /\ CapsInv'
    BY DEF LeadInv, CapsInv, Leading
  <1> QED BY <1>13, <1>14, <1>15, <1>16 DEF UpdateInv

LEMMA GoesRest == Goes => ServiceRest /\ pc' = "serve"
  BY DEF Goes, ServiceRest, storeVars

LEMMA DecideKeeps ==
    ASSUME UpdateInv, StoreInv, Decide
    PROVE  UpdateInv'
  <1>1. pc = "fetch" /\ stage = "open" /\ queue' = queue /\ ServiceRest /\ pc' = "serve"
    BY GoesRest DEF Decide
  <1>2. run.lead \in Results
    BY <1>1 DEF UpdateInv, LeadInv, Leading
  <1>3. PICK e \in Results : e = run.lead
    BY <1>2
  <1>4. PICK result \in Outcome(NoDoc) :
          result = Verdict(run.lead, run.caps, run.adm[run.who].producer)
    <2>1. Verdict(e, run.caps, run.adm[run.who].producer) \in Outcome(e)
      BY VerdictIs DEF UpdateInv
    <2> QED BY <1>3, <2>1 DEF Outcome
  <1>5. PICK spent \in Nat : spent = run.spent /\ run.spent <= spent
    BY <1>1 DEF UpdateInv, QuotaInv
  <1>6. run' = Recording(result, run.caps, spent)
    BY <1>4, <1>5 DEF Decide
  <1> QED BY <1>1, <1>5, <1>6, RecordingKeeps

LEMMA FailsKeeps ==
    ASSUME UpdateInv, StoreInv, Fails
    PROVE  UpdateInv'
  <1>1. pc = "fetch" /\ stage = "open" /\ queue' = queue /\ ServiceRest /\ pc' = "serve"
    BY GoesRest DEF Fails, Requests, Capturing
  <1>2. PICK result \in Outcome(NoDoc) : result = WaitFor("interrupted")
    BY WaitIs DEF Whys
  <1>3. PICK s \in Nat : s = run.spent
    BY <1>1 DEF UpdateInv, QuotaInv
  <1>4. PICK spent \in Nat : s <= spent /\ run' = Recording(result, run.caps, spent)
    <2>1. CASE run' = Recording(WaitFor("interrupted"), run.caps, run.spent)
      BY <1>2, <1>3, <2>1
    <2>2. CASE \E p \in Answers :
                  run' = Recording(WaitFor("interrupted"), run.caps,
                            IF run.held + run.spent >= Quota THEN run.spent ELSE run.spent + Size[p])
      <3>1. PICK p \in Answers :
                  run' = Recording(WaitFor("interrupted"), run.caps,
                            IF run.held + run.spent >= Quota THEN run.spent ELSE run.spent + Size[p])
        BY <2>2
      <3>2. PICK z \in Nat : z = Size[p]
        BY UpdateAssumption, SizeAssumption DEF Answers
      <3>3. s + z \in Nat /\ s <= s + z /\ s <= s
        OBVIOUS
      <3> QED BY <1>2, <1>3, <3>1, <3>2, <3>3
    <2> QED BY <2>1, <2>2 DEF Fails
  <1> QED BY <1>1, <1>3, <1>4, RecordingKeeps

-----------------------------------------------------------------------------
(* The turns that record nothing, and the end of a run. *)

LEMMA PassKeeps ==
    ASSUME UpdateInv, StoreInv, ServiceRest, stage = "open", pc # "idle",
           pc' \in {"serve", "publish", "done"}, queue' \in Issuer \cup {NoIssuer},
           SameService, run'.entries = run.entries, run'.spent = run.spent,
           run'.served = run.served, run'.changed = run.changed,
           run'.then \in {"serve", "queue", "done"},
           pc' = "publish" => run.changed /\ run'.then # "queue"
    PROVE  UpdateInv'
  <1>1. /\ RowsInv /\ StoredInv /\ QuotaInv /\ PcInv /\ RunInv /\ GrownInv /\ CommittedInv
        /\ SeenInv
    BY DEF UpdateInv
  <1>2. StoredInv' /\ \A i \in Issuer : (Stored.issuers[i])' = Stored.issuers[i]
    BY <1>1, StoredKept DEF ServiceRest
  <1>3. RowsInv' /\ QuotaInv'
    BY <1>1 DEF RowsInv, QuotaInv, ServiceRest, SameService
  <1>4. PcInv'
    <2>1. run' # NoRun
      BY DEF NoRun, RunFields, SameService
    <2> QED BY <1>1, <2>1 DEF PcInv, ServiceRest
  <1>5. RunInv'
    <2>1. \A i \in Issuer : run.entries[i] \in Entries(Held(i))' /\ Sound(run.entries[i], segs')
      BY <1>1, RunEntriesKept DEF ServiceRest
    <2>2. \A i \in Issuer : run'.adm[i].producer \in Producers(i)'
      BY <1>1, ProducersKept DEF ServiceRest, SameService
    <2> QED BY <1>1, <2>1, <2>2 DEF RunInv, SameService
  <1>6. GrownInv'
    BY <1>1, <1>2 DEF GrownInv
  <1>7. LeadInv' /\ CapsInv'
    BY DEF LeadInv, CapsInv, Leading
  <1>8. CommittedInv'
    BY <1>1, <1>2, CommittedKept DEF ServiceRest
  <1>9. SeenInv'
    BY <1>1, SeenKept DEF ServiceRest, SameService
  <1> QED BY <1>2, <1>3, <1>4, <1>5, <1>6, <1>7, <1>8, <1>9 DEF UpdateInv

LEMMA SkipKeeps ==
    ASSUME UpdateInv, StoreInv, NEW i \in Issuer, Skip(i)
    PROVE  UpdateInv'
  <1>1. pc = "serve" /\ pc' = pc /\ queue' = queue /\ ServiceRest /\ run' = Passed
    BY DEF Skip, Turn, OnlyRun, ServiceRest, storeVars
  <1>2. /\ SameService /\ run'.entries = run.entries /\ run'.spent = run.spent
        /\ run'.served = run.served /\ run'.changed = run.changed /\ run'.then = run.then
    BY <1>1 DEF UpdateInv, RunInv, RunFields, Passed, SameService
  <1>3. stage = "open" /\ run.then \in {"serve", "queue", "done"} /\ queue \in Issuer \cup {NoIssuer}
    BY <1>1 DEF UpdateInv, PcInv, RunInv, RowsInv
  <1> QED BY <1>1, <1>2, <1>3, PassKeeps

\* The time of the run is used up.
LEMMA ExhaustedKeeps ==
    ASSUME UpdateInv, StoreInv, Exhausted
    PROVE  UpdateInv'
  <1>1. pc = "fetch" /\ stage = "open" /\ ServiceRest /\ pc' = "serve"
    BY GoesRest DEF Exhausted, Requests, Capturing
  <1>2. CASE run.caps = <<>>
    <2>1. run' = [Passed EXCEPT !.who = NoIssuer, !.lead = NoDoc, !.exhausted = TRUE]
          /\ queue' = run.served
      BY <1>2 DEF Exhausted
    <2>2. /\ SameService /\ run'.entries = run.entries /\ run'.spent = run.spent
          /\ run'.served = run.served /\ run'.changed = run.changed /\ run'.then = run.then
      BY <1>1, <2>1 DEF UpdateInv, RunInv, RunFields, Passed, SameService
    <2>3. run.then \in {"serve", "queue", "done"} /\ run.served \in Issuer \cup {NoIssuer}
      BY <1>1 DEF UpdateInv, RunInv
    <2> QED BY <1>1, <2>1, <2>2, <2>3, PassKeeps
  <1>3. CASE run.caps # <<>>
    <2>1. /\ run' = [Recording(WaitFor("interrupted"), run.caps, run.spent) EXCEPT !.exhausted = TRUE]
          /\ queue' = queue
      BY <1>3 DEF Exhausted
    <2>2. PICK result \in Outcome(NoDoc) : result = WaitFor("interrupted")
      BY WaitIs DEF Whys
    <2>3. PICK spent \in Nat : spent = run.spent /\ run.spent <= spent
      BY <1>1 DEF UpdateInv, QuotaInv
    <2>4. run' = [Recording(result, run.caps, spent) EXCEPT !.exhausted = TRUE]
      BY <2>1, <2>2, <2>3
    <2> QED BY <1>1, <2>1, <2>3, <2>4, RecordingKeeps
  <1> QED BY <1>2, <1>3

LEMMA FinishKeeps ==
    ASSUME UpdateInv, StoreInv, Finish
    PROVE  UpdateInv'
  <1>1. /\ pc = "serve" /\ queue' = queue /\ ServiceRest
        /\ \/ run.changed /\ pc' = "publish" /\ run' = [run EXCEPT !.then = "done"]
           \/ pc' = "done" /\ run' = run
    BY DEF Finish, OnlyRun, ServiceRest, storeVars
  <1>2. /\ SameService /\ run'.entries = run.entries /\ run'.spent = run.spent
        /\ run'.served = run.served /\ run'.changed = run.changed
        /\ run'.then \in {"serve", "queue", "done"}
        /\ pc' = "publish" => run.changed /\ run'.then # "queue"
    BY <1>1 DEF UpdateInv, RunInv, RunFields, SameService
  <1>3. stage = "open" /\ queue \in Issuer \cup {NoIssuer}
    BY <1>1 DEF UpdateInv, PcInv, RowsInv
  <1> QED BY <1>1, <1>2, <1>3, PassKeeps

\* A run ends, breaks or is killed.
LEMMA RestsKeeps ==
    ASSUME UpdateInv, StoreInv, Rests
    PROVE  UpdateInv'
  <1>1. /\ pc' = "idle" /\ run' = NoRun /\ stage' = "closed"
        /\ version' = version /\ published' = published /\ rows' = rows /\ cur' = cur
        /\ orphan' = orphan /\ segs' = segs /\ queue' = queue /\ known' = known
        /\ ledger' = ledger /\ raw' = raw /\ meta' = meta
    BY DEF Rests, CloseStore
  <1>2. RowsInv /\ StoredInv /\ QuotaInv /\ CommittedInv /\ SeenInv
    BY DEF UpdateInv
  <1>3. StoredInv' /\ \A i \in Issuer : (Stored.issuers[i])' = Stored.issuers[i]
    BY <1>1, <1>2, StoredKept
  <1>4. RowsInv' /\ QuotaInv' /\ PcInv' /\ RunInv' /\ GrownInv' /\ LeadInv' /\ CapsInv'
    BY <1>1, <1>2 DEF RowsInv, QuotaInv, PcInv, RunInv, GrownInv, LeadInv, CapsInv, Leading
  <1>5. CommittedInv'
    BY <1>1, <1>2, <1>3, CommittedKept
  <1>6. SeenInv'
    BY <1>1, <1>2, SeenKept
  <1> QED BY <1>3, <1>4, <1>5, <1>6 DEF UpdateInv

-----------------------------------------------------------------------------
(* Between the runs. *)

LEMMA ReferenceIs ==
    ASSUME RowsInv, StoredInv, NEW i \in Issuer
    PROVE  ReferenceOf(Discovery(i)) \in Results \cup {NoDoc}
  <1>1. PICK entry \in Entries(Held(i)), seen \in Seens(i) :
          entry = Stored.issuers[i] /\ seen = Stored.dets[i] /\ Sound(entry, segs)
    BY DEF StoredInv
  <1>2. Admission(entry, seen, i).producer \in Producers(i)
    BY <1>1, AdmissionIs
  <1>3. PICK producer \in Producers(i) : producer = Discovery(i)
    BY <1>1, <1>2 DEF Discovery, StoredAdmission, Producers
  <1>4. producer # NoAttempt => producer.key.event \in Results \cup {NoDoc}
    BY HeldEvents DEF Producers
  <1> QED BY <1>3, <1>4 DEF ReferenceOf

\* The newest rows are retained.
LEMMA RetainedRows ==
    ASSUME NEW R, NEW s \in Seq(R), NEW r \in R, Len(s) <= Keep
    PROVE  LET all == Append(s, r)
               kept == IF Len(all) > Keep THEN Tail(all) ELSE all
           IN kept \in Seq(R) /\ Len(kept) <= Keep
  <1>1. PICK n \in Nat, m \in Nat : n = Len(s) /\ m = Keep /\ n <= m
    BY LenProperties, UpdateAssumption
  <1>2. PICK all \in Seq(R) : all = Append(s, r) /\ Len(all) = n + 1 /\ all # <<>>
    BY <1>1, AppendProperties
  <1>3. Tail(all) \in Seq(R) /\ Len(Tail(all)) = n
    BY <1>1, <1>2, HeadTailProperties
  <1>4. CASE n + 1 > m
    BY <1>1, <1>2, <1>3, <1>4
  <1>5. CASE ~(n + 1 > m)
    BY <1>1, <1>2, <1>5
  <1> QED BY <1>4, <1>5

LEMMA CheckKeeps ==
    ASSUME UpdateInv, StoreInv, Check
    PROVE  UpdateInv'
  <1>1. /\ pc = "idle" /\ pc' = pc /\ run' = run
        /\ version' = version /\ cur' = cur /\ orphan' = orphan /\ segs' = segs /\ queue' = queue
        /\ known' = known
        /\ ledger' = ledger /\ raw' = raw /\ meta' = meta /\ storing' = storing /\ stage' = stage
    BY DEF Check, storeVars
  <1>2. RowsInv /\ StoredInv /\ QuotaInv /\ PcInv /\ CommittedInv /\ SeenInv
    BY DEF UpdateInv
  <1>3. PICK listing :
          /\ published' \subseteq Doc
          /\ \A i \in Issuer : listing[i] \in Listings(i, published')
          /\ rows' = [i \in Issuer |->
                        LET all == Append(rows[i], [ref |-> ReferenceOf(Discovery(i)), docs |-> listing[i]]) IN
                        IF Len(all) > Keep THEN Tail(all) ELSE all]
    BY <1>2 DEF Check, RowsInv
  <1>4. ASSUME NEW i \in Issuer
        PROVE  /\ rows'[i] \in Seq([ref : Results \cup {NoDoc}, docs : SUBSET Mine(i)])
               /\ Len(rows'[i]) <= Keep
    <2>1. listing[i] \subseteq Mine(i)
      BY <1>3 DEF Listings, Mine
    <2>2. PICK s \in Seq([ref : Results \cup {NoDoc}, docs : SUBSET Mine(i)]) :
            s = rows[i] /\ Len(s) <= Keep
      BY <1>2 DEF RowsInv
    <2>3. PICK r \in [ref : Results \cup {NoDoc}, docs : SUBSET Mine(i)] :
            r = [ref |-> ReferenceOf(Discovery(i)), docs |-> listing[i]]
      BY <1>2, <2>1, ReferenceIs
    <2>4. rows'[i] = IF Len(Append(s, r)) > Keep THEN Tail(Append(s, r)) ELSE Append(s, r)
      BY <1>3, <2>2, <2>3
    <2>5. PICK all, kept : all = Append(s, r) /\ kept = IF Len(all) > Keep THEN Tail(all) ELSE all
      OBVIOUS
    <2>6. /\ kept \in Seq([ref : Results \cup {NoDoc}, docs : SUBSET Mine(i)])
          /\ Len(kept) <= Keep
      BY <2>2, <2>3, <2>5, RetainedRows
    <2> QED BY <2>4, <2>5, <2>6
  <1>5. RowsInv'
    BY <1>1, <1>2, <1>3, <1>4 DEF RowsInv
  <1>6. StoredInv' /\ \A i \in Issuer : (Stored.issuers[i])' = Stored.issuers[i]
    BY <1>1, <1>2, StoredKept
  <1>7. QuotaInv' /\ PcInv' /\ RunInv' /\ GrownInv' /\ LeadInv' /\ CapsInv'
    BY <1>1, <1>2 DEF QuotaInv, PcInv, RunInv, GrownInv, LeadInv, CapsInv, Leading
  <1>8. CommittedInv'
    BY <1>1, <1>2, <1>6, CommittedKept
  <1>9. SeenInv'
    BY <1>1, <1>2, SeenKept
  <1> QED BY <1>5, <1>6, <1>7, <1>8, <1>9 DEF UpdateInv

LEMMA InstallKeeps ==
    ASSUME UpdateInv, StoreInv, Install
    PROVE  UpdateInv'
  <1>1. /\ pc = "idle" /\ pc' = pc /\ run' = run
        /\ version < LastVersion /\ version' = version + 1 /\ published' = published /\ rows' = rows
        /\ cur' = cur /\ orphan' = orphan /\ segs' = segs /\ queue' = queue /\ known' = known
        /\ ledger' = ledger /\ raw' = raw /\ meta' = meta /\ storing' = storing /\ stage' = stage
    BY DEF Install, storeVars
  <1>2. RowsInv /\ StoredInv /\ QuotaInv /\ PcInv /\ CommittedInv /\ SeenInv
    BY DEF UpdateInv
  <1>3. version' \in 1 .. LastVersion
    BY <1>1, <1>2, UpdateAssumption DEF RowsInv
  <1>4. RowsInv'
    BY <1>1, <1>2, <1>3 DEF RowsInv
  <1>5. ASSUME NEW i \in Issuer
        PROVE  (Stored.issuers[i])' = Stored.issuers[i]
    BY <1>1 DEF Stored
  <1>6. StoredInv'
    BY <1>1, <1>2, StoredKept
  <1>7. QuotaInv' /\ PcInv' /\ RunInv' /\ GrownInv' /\ LeadInv' /\ CapsInv'
    BY <1>1, <1>2 DEF QuotaInv, PcInv, RunInv, GrownInv, LeadInv, CapsInv, Leading
  <1>8. CommittedInv'
    BY <1>1, <1>2, <1>5, CommittedKept
  <1>9. SeenInv'
    <2>1. ASSUME NEW i \in Issuer
          PROVE  (Stored.dets[i])' = Stored.dets[i]
      BY <1>1 DEF Stored
    <2> QED BY <1>1, <1>2, <1>5, <2>1 DEF SeenInv
  <1> QED BY <1>4, <1>6, <1>7, <1>8, <1>9 DEF UpdateInv

-----------------------------------------------------------------------------
(* The invariant holds. *)

LEMMA UpdateStep == UpdateInv /\ StoreInv /\ StoreInv' /\ [Next]_vars => UpdateInv'
  <1> SUFFICES ASSUME UpdateInv, StoreInv, StoreInv', [Next]_vars
               PROVE  UpdateInv'
    OBVIOUS
  <1>1. CASE Begin
    BY <1>1, BeginKeeps
  <1>2. CASE WriteGeneration
    BY <1>2, WriteGenerationKeeps
  <1>3. CASE MovePointer
    BY <1>3, MovePointerKeeps
  <1>4. ASSUME NEW i \in Issuer, Skip(i) \/ NoResults(i) \/ Detect(i)
        PROVE  UpdateInv'
    BY <1>4, SkipKeeps, NoResultsKeeps, DetectKeeps
  <1>5. CASE TakeTurn
    BY <1>5, TakeTurnKeeps
  <1>6. CASE Reuse
    BY <1>6, ReuseKeeps
  <1>7. CASE Fetch
    BY <1>7, FetchKeeps
  <1>8. CASE WriteCapture
    BY <1>8, WriteCaptureKeeps
  <1>9. CASE Decide
    BY <1>9, DecideKeeps
  <1>10. CASE Fails
    BY <1>10, FailsKeeps
  <1>11. CASE Exhausted
    BY <1>11, ExhaustedKeeps
  <1>12. CASE Finish
    BY <1>12, FinishKeeps
  <1>13. CASE Break \/ Done \/ Crash
    <2>1. Rests
      BY <1>13 DEF Break, Done, Crash
    <2> QED BY <2>1, RestsKeeps
  <1>14. CASE Check
    BY <1>14, CheckKeeps
  <1>15. CASE Install
    BY <1>15, InstallKeeps
  <1>16. CASE UNCHANGED vars
    <2>1. /\ version' = version /\ published' = published /\ rows' = rows /\ cur' = cur
          /\ orphan' = orphan /\ segs' = segs /\ queue' = queue /\ pc' = pc /\ run' = run
          /\ known' = known
          /\ ledger' = ledger /\ raw' = raw /\ meta' = meta /\ storing' = storing /\ stage' = stage
      BY <1>16 DEF vars, storeVars
    <2>2. StoredInv' /\ \A i \in Issuer : (Stored.issuers[i])' = Stored.issuers[i]
      BY <2>1, StoredKept DEF UpdateInv
    <2>3. RowsInv' /\ QuotaInv' /\ PcInv'
      BY <2>1 DEF UpdateInv, RowsInv, QuotaInv, PcInv
    <2>4. \A i : Held(i)' = Held(i) /\ Producers(i)' = Producers(i)
      BY <2>1 DEF Held, Producers, Loadable
    <2>5. RunInv' /\ GrownInv'
      BY <2>1, <2>2, <2>4 DEF UpdateInv, RunInv, GrownInv
    <2>6. LeadInv' /\ CapsInv'
      BY <2>1, <2>2 DEF UpdateInv, LeadInv, CapsInv, Leading, Caps, Loadable
    <2>7. CommittedInv'
      BY <2>1, <2>2, CommittedKept DEF UpdateInv
    <2>8. SeenInv'
      BY <2>1, SeenKept DEF UpdateInv
    <2> QED BY <2>2, <2>3, <2>5, <2>6, <2>7, <2>8 DEF UpdateInv
  <1> QED
    BY <1>1, <1>2, <1>3, <1>4, <1>5, <1>6, <1>7, <1>8, <1>9, <1>10, <1>11, <1>12, <1>13, <1>14,
       <1>15, <1>16 DEF Next, Step

LEMMA UpdateInvariant == Spec => [](UpdateInv /\ StoreInv)
  <1>1. Spec => []StoreInv
    BY UpdateImplementsStore, StoreInvariant, PTL
  <1> QED
    BY <1>1, InitInv, UpdateStep, PTL DEF Spec

-----------------------------------------------------------------------------
(* What follows. *)

LEMMA PublishedShape ==
    ASSUME StoredInv, NEW i \in Issuer
    PROVE  /\ Stored.issuers[i].settled \subseteq Results
           /\ HistoryOf(Stored.issuers[i]) \in Seq(Held(i))
           /\ \A k \in DOMAIN HistoryOf(Stored.issuers[i]) :
                 HistoryOf(Stored.issuers[i])[k] \in Held(i)
  <1>1. PICK entry \in Entries(Held(i)) : entry = Stored.issuers[i]
    BY DEF StoredInv
  <1>2. PICK h \in Seq(Held(i)) : h = HistoryOf(entry)
    BY HistoryShape
  <1>3. ASSUME NEW k \in DOMAIN h
        PROVE  h[k] \in Held(i)
    <2>1. k \in 1 .. Len(h)
      BY LenProperties
    <2> QED BY <2>1, ElementOfSeq
  <1> QED BY <1>1, <1>2, <1>3 DEF Entries

\* The updater's state is well formed in every behaviour, whatever dies where
\* and whatever is installed between the runs.
THEOREM TypeCorrect == Spec => []TypeOK
  <1>1. UpdateInv /\ StoreInv => TypeOK
    <2> SUFFICES ASSUME UpdateInv, StoreInv PROVE TypeOK
      OBVIOUS
    <2>1. /\ version \in 1 .. LastVersion /\ published \subseteq Doc
          /\ \A i \in Issuer : Len(rows[i]) <= Keep
          /\ orphan \in BOOLEAN /\ queue \in Issuer \cup {NoIssuer}
      BY DEF UpdateInv, RowsInv
    <2>2. /\ pc \in {"idle", "publish", "pointer", "serve", "queue", "fetch", "done"}
          /\ (pc = "idle") <=> (run = NoRun)
          /\ (pc = "idle") <=> (stage = "closed")
      BY DEF UpdateInv, PcInv
    <2>3. pc = "fetch" => run.who = Owner[run.lead]
      BY DEF UpdateInv, LeadInv, Leading
    <2>4. \A i \in Issuer :
            /\ Stored.issuers[i].settled \subseteq Results
            /\ \A k \in DOMAIN HistoryOf(Stored.issuers[i]) :
                  HistoryOf(Stored.issuers[i])[k].outcome \in Outcomes
      BY PublishedShape, HeldEvents DEF UpdateInv
    <2>5. StoreTypeOK
      BY StoreTypes
    <2> QED BY <2>1, <2>2, <2>3, <2>4, <2>5 DEF TypeOK
  <1> QED
    BY <1>1, UpdateInvariant, PTL

\* The captures never exceed the quota, although it is compared before each
\* capture with a total the run keeps in memory.
THEOREM QuotaRespected == Spec => []QuotaKept
  <1>1. UpdateInv /\ StoreInv => QuotaKept
    <2> SUFFICES ASSUME UpdateInv, StoreInv PROVE QuotaKept
      OBVIOUS
    <2>1. ledger.bytes = Bytes(raw \cup ledger.pending)
      BY DEF StoreInv, BytesExact
    <2>2. Content(raw) \subseteq Content(raw \cup ledger.pending)
      BY DEF Content
    <2>3. IsFiniteSet(Content(raw \cup ledger.pending))
      BY HeldIsFinite
    <2>4. /\ Cardinality(Content(raw)) \in Nat
          /\ Cardinality(Content(raw \cup ledger.pending)) \in Nat
          /\ Cardinality(Content(raw)) <= Cardinality(Content(raw \cup ledger.pending))
      BY <2>2, <2>3, FS_Subset, FS_CardinalityType
    <2>5. PICK a \in Nat, b \in Nat, q \in Nat :
            a = Bytes(raw) /\ b = Bytes(raw \cup ledger.pending) /\ a <= b /\ q = Quota
      BY <2>4, UpdateAssumption DEF Bytes
    <2>6. b <= q
      BY <2>1, <2>5 DEF UpdateInv, QuotaInv
    <2>7. a <= q
      BY <2>5, <2>6
    <2> QED BY <2>5, <2>7 DEF QuotaKept
  <1> QED
    BY <1>1, UpdateInvariant, PTL

\* Nothing is captured for an event before a published history records it,
\* whatever died between the two.
THEOREM CommittedBefore == Spec => []CommittedFirst
  <1>1. UpdateInv /\ StoreInv => CommittedFirst
    <2> SUFFICES ASSUME UpdateInv, StoreInv, NEW p \in raw \cup ledger.pending
                 PROVE  \E a \in Range(HistoryOf(Stored.issuers[Owner[p[1]]])) : a.key.event = p[1]
      BY DEF CommittedFirst
    <2>1. p[1] \in Events(HistoryOf(Stored.issuers[Owner[p[1]]]))
      BY DEF UpdateInv, CommittedInv
    <2>2. Owner[p[1]] \in Issuer
      <3>1. p \in Pages
        BY StoreTypes, UpdateAssumption DEF StoreTypeOK
      <3>2. p[1] \in Doc
        BY <3>1, HistoryAssumption DEF Pages
      <3> QED BY <3>2, UpdateAssumption
    <2>3. PICK h \in Seq(Held(Owner[p[1]])) : h = HistoryOf(Stored.issuers[Owner[p[1]]])
      BY <2>2, PublishedShape DEF UpdateInv
    <2>4. PICK j \in 1 .. Len(h) : h[j].key.event = p[1]
      BY <2>1, <2>3 DEF Events
    <2>5. j \in DOMAIN h
      BY LenProperties
    <2> QED BY <2>3, <2>4, <2>5 DEF Range
  <1> QED
    BY <1>1, UpdateInvariant, PTL

\* Every history in force passes its audit and references captures that are
\* there: however often it was sealed, re-verified and superseded, and wherever
\* a run died.
THEOREM HistoriesPassAudit == Spec => []HistoryAudits
  <1>1. UpdateInv => HistoryAudits
    <2> SUFFICES ASSUME UpdateInv, NEW i \in Issuer
                 PROVE  /\ Audited(Stored.issuers[i], segs)
                        /\ \A a \in Range(HistoryOf(Stored.issuers[i])) :
                              \A k \in DOMAIN a.caps : Loadable(a.caps[k])
      BY DEF HistoryAudits
    <2>1. PICK entry \in Entries(Held(i)) : entry = Stored.issuers[i] /\ Sound(entry, segs)
      BY DEF UpdateInv, StoredInv
    <2>2. Audited(entry, segs)
      BY <2>1, SoundIsAudited
    <2>3. ASSUME NEW a \in Range(HistoryOf(Stored.issuers[i]))
          PROVE  a \in Held(i)
      BY PublishedShape DEF UpdateInv, Range
    <2>4. \A a \in Range(HistoryOf(Stored.issuers[i])) : \A k \in DOMAIN a.caps : Loadable(a.caps[k])
      BY <2>3, HeldEvents
    <2> QED BY <2>1, <2>2, <2>4
  <1> QED
    BY <1>1, UpdateInvariant, PTL

\* What a publication may do to the published history of an issuer.
Continues(old, new) ==
    \/ IsPrefix(old, new)
    \/ old # <<>> /\ Last(old).outcome = "WAITING" /\ IsPrefix(Front(old), new)

LEMMA StaysContinues ==
    ASSUME NEW A, NEW old \in Seq(A), NEW new \in Seq(A), Stays(old, new)
    PROVE  Continues(old, new)
  <1>1. CASE IsPrefix(old, new)
    BY <1>1 DEF Continues
  <1>2. CASE /\ old # <<>> /\ Last(old).outcome = "WAITING"
             /\ new # <<>> /\ IsPrefix(Front(old), Front(new))
    <2>1. Front(new) \in Seq(A) /\ IsPrefix(Front(new), new) /\ Front(old) \in Seq(A)
      BY <1>2, FrontIsPrefix
    <2>2. IsPrefix(Front(old), new)
      BY <1>2, <2>1, PrefixTransitive
    <2> QED BY <1>2, <2>2 DEF Continues
  <1> QED BY <1>1, <1>2 DEF Stays

\* The published histories change by the move of the pointer only.
LEMMA OnlyPointer ==
    ASSUME [Next]_vars, ~MovePointer
    PROVE  cur' = cur
  BY DEF Next, Step, Begin, Resting, WriteGeneration, Skip, NoResults, Detect, OnlyRun, TakeTurn,
         Reuse, Fetch, WriteCapture, UnlessStored, Decide, Fails, Exhausted, Goes, Finish, Break,
         Done, Crash, Rests, Check, Install, vars

\* A published attempt is never changed or dropped, a wait that came last apart.
THEOREM HistoryIsKept == Spec => HistoryKept
  <1>1. UpdateInv /\ [Next]_vars =>
          [\A i \in Issuer :
             LET old == HistoryOf(Stored.issuers[i])
                 new == HistoryOf(Stored'.issuers[i])
             IN \/ IsPrefix(old, new)
                \/ old # <<>> /\ Last(old).outcome = "WAITING" /\ IsPrefix(Front(old), new)]_vars
    <2> SUFFICES ASSUME UpdateInv, [Next]_vars, NEW i \in Issuer
                 PROVE  Continues(HistoryOf(Stored.issuers[i]), HistoryOf(Stored'.issuers[i]))
      BY DEF Continues
    <2>1. PICK old \in Seq(Held(i)) : old = HistoryOf(Stored.issuers[i])
      BY PublishedShape DEF UpdateInv
    <2>2. CASE MovePointer
      <3>1. version # 0 /\ pc # "idle"
        BY <2>2 DEF MovePointer, UpdateInv, RowsInv
      <3>2. Stored' = cur' /\ cur'.issuers = run.entries
        BY <2>2, <3>1 DEF MovePointer, Stored, NoGen
      <3>3. PICK new \in Seq(Held(i)) : new = HistoryOf(run.entries[i])
        BY <3>1, HistoryShape DEF UpdateInv, RunInv
      <3>4. Stays(old, new)
        BY <2>1, <3>1, <3>3 DEF UpdateInv, GrownInv
      <3> QED BY <2>1, <3>2, <3>3, <3>4, StaysContinues
    <2>3. CASE ~MovePointer
      <3>1. cur' = cur
        BY <2>3, OnlyPointer
      <3>2. Stored'.issuers[i] = Stored.issuers[i]
        BY <3>1 DEF Stored
      <3> QED BY <2>1, <3>2, PrefixSelf DEF Continues
    <2> QED BY <2>2, <2>3
  <1> QED
    BY <1>1, UpdateInvariant, PTL DEF Spec, HistoryKept

\* Nothing a publishing run noticed is forgotten: it stays detected until a
\* verified release accounts for it, whatever dies, ages out or is withdrawn.
THEOREM NothingIsForgotten == Spec => []NothingForgotten
  <1>1. UpdateInv => NothingForgotten
    <2> SUFFICES ASSUME UpdateInv, NEW i \in Issuer, NEW d \in known[i]
                 PROVE  \/ Stored.dets[i].over \/ d \in Stored.dets[i].docs
                        \/ \E a \in Range(HistoryOf(Stored.issuers[i])) :
                              a.outcome = "VERIFIED" /\ LeftBy(a, {d}) = {}
      BY DEF NothingForgotten
    <2>1. PICK h \in Seq(Held(i)) : h = HistoryOf(Stored.issuers[i])
      BY PublishedShape DEF UpdateInv
    <2>2. Covered(d, Stored.dets[i], h)
      BY <2>1 DEF UpdateInv, SeenInv
    <2>3. \A j \in 1 .. Len(h) : h[j] \in Range(h)
      BY LenProperties DEF Range
    <2> QED BY <2>1, <2>2, <2>3 DEF Covered
  <1> QED
    BY <1>1, UpdateInvariant, PTL
=============================================================================
