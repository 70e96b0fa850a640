--------------------------- MODULE GuidanceUpdate ---------------------------
(***************************************************************************)
(* The automatic renewal of revenue guidance: run of                       *)
(* scripts/revenue_guidance_autoupdate.py over the state of                *)
(* scripts/revenue_guidance_overlay.py, with the release checker that      *)
(* feeds it and the reader that admits its records.                        *)
(*                                                                         *)
(* Issuers publish documents; the checker keeps a few rows of what the     *)
(* feeds listed after each issuer's current reference.  An updater run     *)
(* commits what it detected, then serves one issuer after another: it      *)
(* captures the oldest unsettled results filing, verifies it and records   *)
(* the attempt.  State is published as an immutable generation and a       *)
(* pointer to it.  A run may die between any two durable writes.  The      *)
(* installed code and the reviewed registry may change between runs.       *)
(***************************************************************************)
EXTENDS GuidanceHistory, GuidanceCaptures

CONSTANTS
    Issuer,
    Owner,          \* the issuer of a document
    Proves,         \* the documents a verified event proves to be itself
    Reachable,      \* documents whose sources answer at all
    LateReport,     \* events whose periodic report may be filed later
    LastVersion,    \* installed identities are 1 .. LastVersion
    Reading,        \* what an identity reads in an event: a number, or Refused
    Curated,        \* an identity's curated record of an issuer, by its digest
    Reviewed,       \* documents its human review found irrelevant
    Refused,
    Keep,           \* rows the checker retains (8)
    MaxDetections,  \* detections an issuer may have (256)
    Quota,          \* bytes the capture store may hold
    RunBytes,       \* bytes one run may capture
    Poison,         \* issuers whose source may break the run
    Slow,           \* issuers whose source may use up the run's time at once
    Symbols         \* the issuers in the order of the profiles

Key == {"feed", "file"}     \* what the planner captures for an event

\* The documents captured for an event, as <<event, kind>>: the feeds before and
\* after the periodic report is listed, and the filing itself.
Pages == {<<e, k>> : e \in Results, k \in {"early", "late", "file"}}

ASSUME UpdateAssumption ==
    /\ Owner \in [Doc -> Issuer] /\ LateReport \subseteq Results
    /\ Proves \in [Results -> SUBSET Doc] /\ \A e \in Results : e \in Proves[e]
    /\ LastVersion \in Nat \ {0}
    /\ {Keep, MaxDetections, Quota, RunBytes} \subseteq Nat
    /\ Page = Pages /\ Reachable \subseteq Page
    /\ IsFiniteSet(Doc)

\* The profiles are a mapping: each issuer is in their order once.
ASSUME SymbolsAssumption ==
    /\ Symbols \in Seq(Issuer)
    /\ \A i \in Issuer : \E n \in 1 .. Len(Symbols) : Symbols[n] = i
    /\ \A m, n \in 1 .. Len(Symbols) : Symbols[m] = Symbols[n] => m = n

VARIABLES
    version,    \* the installed code, profiles and registry
    published,  \* documents that are out
    rows,       \* the checker's retained rows, per issuer
    cur,        \* the generation the pointer names; NoGen before the first
    orphan,     \* a generation file is there and no pointer
    segs,       \* segments on the disk
    queue,      \* the issuer served last, on the disk
    pc,         \* where the updater's run is
    run,        \* what that run holds in memory; its field seen is history
    known       \* history: documents a publishing run saw, per issuer

vars == <<version, published, rows, cur, orphan, segs, queue, pc, run, known, storeVars>>

NoIssuer == "none"
NoGen == [ident |-> 0]
NoAttempt == [outcome |-> "none"]
NoRun == [who |-> NoIssuer]
NothingSeen == [docs |-> {}, over |-> FALSE]

-----------------------------------------------------------------------------
\* Verification and admission

\* The record an attempt gave, by its digest, and the day it anchors.
RecordOf(a, i) == IF a = NoAttempt THEN <<"curated", Curated[version][i]>>
                  ELSE <<a.key.event, a.reading>>
AnchorOf(a) == IF a = NoAttempt THEN 0 ELSE Day[a.key.event]

\* build_successor: deterministic in the captures, the installed identity and
\* the anchor of the predecessor.
Verdict(e, caps, predecessor) ==
    IF caps["feed"] = <<e, "early">>
    THEN [outcome |-> "WAITING", why |-> "periodic", reading |-> Refused]
    ELSE IF Reading[version][e] = Refused \/ AnchorOf(predecessor) >= Day[e]
    THEN [outcome |-> "BLOCKED", why |-> "refused", reading |-> Refused]
    ELSE [outcome |-> "VERIFIED", why |-> "verified", reading |-> Reading[version][e]]

Attempt(key, docs, caps, predecessor, i, result) ==
    [key |-> key, docs |-> docs, caps |-> caps, pred |-> RecordOf(predecessor, i),
     outcome |-> result.outcome, why |-> result.why, reading |-> result.reading]

WaitFor(why) == [outcome |-> "WAITING", why |-> why, reading |-> Refused]

Before(entry) == IF Len(entry.verified) > 1
                 THEN AttemptAt(entry, entry.verified[Len(entry.verified) - 1]) ELSE NoAttempt

Reproduces(a, predecessor) ==
    /\ \A k \in DOMAIN a.caps : Loadable(a.caps[k])
    /\ Verdict(a.key.event, a.caps, predecessor).reading = a.reading

\* What the newest verified attempt proves to be itself, or what is older than
\* its filing day, is accounted for.  Nothing else ever is.
LeftBy(producer, docs) ==
    IF producer = NoAttempt THEN docs
    ELSE {d \in docs : d \notin Proves[producer.key.event] /\ Day[d] >= Day[producer.key.event]}

\* admit, for one issuer: bound is FALSE when the stored producer cannot be
\* re-derived, which blocks the issuer.
Admission(entry, seen, i) ==
    LET tail == entry.verified
        producer == IF tail = <<>> THEN NoAttempt ELSE AttemptAt(entry, Last(tail))
        bound == IF tail = <<>> THEN ~entry.truncated
                 ELSE /\ Len(tail) > 1 \/ ~entry.truncated
                      /\ producer.pred = RecordOf(Before(entry), i)
                      /\ Reproduces(producer, Before(entry))
        last == IF HistoryOf(entry) = <<>> THEN NoAttempt ELSE LastAttempt(entry)
        observed == UNION {entry.open[k].docs : k \in DOMAIN entry.open}
    IN [bound |-> bound /\ (last # NoAttempt /\ last.outcome = "VERIFIED" => last = producer),
        mode |-> IF last = NoAttempt THEN "CURATED" ELSE last.outcome,
        producer |-> producer,
        docs |-> LeftBy(producer, observed \cup seen.docs),
        over |-> seen.over]

\* What a reader and the next run start from.
Stored == IF cur = NoGen
          THEN [ident |-> version, issuers |-> [i \in Issuer |-> NewEntry],
                dets |-> [i \in Issuer |-> NothingSeen]]
          ELSE cur
StoredAdmission(i) == Admission(Stored.issuers[i], Stored.dets[i], i)
Damaged == cur = NoGen /\ orphan

\* The record whose reference the checker and phase 0 use: the producer the
\* installed identity re-derives, else the curated one.
Discovery(i) == IF StoredAdmission(i).bound THEN StoredAdmission(i).producer ELSE NoAttempt
ReferenceOf(producer) == IF producer = NoAttempt THEN NoDoc ELSE producer.key.event

RowsOf(i, ref) == {k \in DOMAIN rows[i] : rows[i][k].ref = ref}
Listed(i, ref) == UNION {rows[i][k].docs : k \in RowsOf(i, ref)}

\* A human review accounts for documents of a curated record only.
Unaccounted(producer, docs) ==
    IF producer = NoAttempt THEN docs \ Reviewed[version]
    ELSE docs \ Proves[producer.key.event]

\* load_effective_inputs: the issuer has a record the order model may use.
Usable(i) ==
    LET a == StoredAdmission(i)
        listed == Listed(i, ReferenceOf(a.producer))
    IN /\ ~Damaged /\ Stored.ident = version
       /\ a.bound /\ ~a.over
       /\ RowsOf(i, ReferenceOf(a.producer)) # {}
       /\ \/ a.mode = "VERIFIED" /\ Unaccounted(a.producer, listed \cup a.docs) = {}
          \/ a.mode = "CURATED" /\ a.docs = {} /\ listed \subseteq Reviewed[version]

-----------------------------------------------------------------------------
\* A run of the updater: what it does before it fetches anything

\* Mutant: the overflow is not remembered.
DetectionsForget(docs, over) ==
    [docs |-> IF Cardinality(docs) <= MaxDetections THEN docs
              ELSE CHOOSE S \in SUBSET docs : Cardinality(S) = MaxDetections, over |-> over]
\* The detections of an issuer: beyond the limit some are dropped, and the
\* overflow is remembered for ever.
Detections(docs, over) ==
    IF Cardinality(docs) <= MaxDetections THEN [docs |-> docs, over |-> over]
    ELSE [docs |-> CHOOSE S \in SUBSET docs : Cardinality(S) = MaxDetections, over |-> TRUE]

\* Listed for the discovery reference, and not accounted for.
Seen(i) == Unaccounted(Discovery(i), Listed(i, ReferenceOf(Discovery(i))))

\* Mutant: no phase 0.
AtEntryLate(i) == Stored.dets[i]
\* Phase 0: everything seen joins the detections, before a re-verification may
\* switch the reference.
AtEntry(i) == Detections(Stored.dets[i].docs \cup Seen(i), Stored.dets[i].over)

\* reverify: a producer the installed identity does not reproduce leaves the
\* index and is decided anew from the same captures.
Reverified(i) ==
    LET entry == Stored.issuers[i]
        tail == entry.verified
        a == AttemptAt(entry, Last(tail))
        result == Verdict(a.key.event, a.caps, Before(entry))
        again == Appended([entry EXCEPT !.verified = Front(@)],
                          Attempt(a.key, a.docs, a.caps, Before(entry), i, result))
    IN IF \/ tail = <<>> \/ Stored.ident = version
          \/ Len(tail) = 1 /\ entry.truncated
          \/ \E k \in DOMAIN a.caps : ~Loadable(a.caps[k])
          \/ Reproduces(a, Before(entry))
          \/ ~SettledFits(again)
       THEN entry ELSE again

\* What phase 1 finds for an issuer, and what its record leaves unaccounted.
Admitted(i) == Admission(Reverified(i), AtEntry(i), i)
Material(i) == LET a == Admitted(i) IN
               Unaccounted(a.producer, Listed(i, ReferenceOf(a.producer)) \cup a.docs)

\* Phase 1: what the admitted record does not account for joins the detections,
\* what it accounts for leaves them.  An unadmitted issuer keeps what it has.
AfterEntry(i) ==
    IF Admitted(i).bound
    THEN Detections(LeftBy(Admitted(i).producer, AtEntry(i).docs \cup Material(i)), AtEntry(i).over)
    ELSE AtEntry(i)

\* What a run takes notice of: phase 0, and phase 1 of an admitted issuer.
Noticed(i) == Seen(i) \cup (IF Admitted(i).bound THEN Material(i) ELSE {})

\* The issuers there is something to do for.
ToServe(i) == Admitted(i).bound /\ ~AfterEntry(i).over /\ Material(i) # {}

\* Mutant: always in the order of the profiles.
OrderFixed(last) == Symbols
\* The order of service starts after the issuer served last.
Order(last) ==
    IF last = NoIssuer THEN Symbols
    ELSE LET k == CHOOSE n \in DOMAIN Symbols : Symbols[n] = last IN
         SubSeq(Symbols, k + 1, Len(Symbols)) \o SubSeq(Symbols, 1, k)

Resting == <<version, published, rows, cur, orphan, segs, queue, known>>

\* Everything up to the first publication, under the lock.  A state root with a
\* generation and no pointer is refused.
Begin ==
    /\ pc = "idle" /\ ~Damaged
    /\ OpenStore
    /\ LET entries == [i \in Issuer |-> Reverified(i)]
           dets == [i \in Issuer |-> AfterEntry(i)]
           changed == \/ Stored.ident # version
                      \/ \E i \in Issuer : {AtEntry(i), dets[i]} # {Stored.dets[i]}
       IN /\ run' = [entries |-> entries, dets |-> dets,
                     seen |-> [i \in Issuer |-> Noticed(i)],
                     adm |-> [i \in Issuer |-> Admitted(i)],
                     work |-> {i \in Issuer : ToServe(i)},
                     order |-> Order(queue), served |-> queue,
                     who |-> NoIssuer, lead |-> NoDoc, caps |-> <<>>,
                     spent |-> 0, held |-> ledger'.bytes,
                     changed |-> changed, exhausted |-> FALSE, then |-> "serve"]
          /\ pc' = IF changed THEN "publish" ELSE "serve"
    /\ UNCHANGED Resting

-----------------------------------------------------------------------------
\* Publication: segments, the generation file, then the pointer

\* The segments sealed and the generation that names them are new files nobody
\* reads before the pointer moves.
WriteGeneration ==
    /\ pc = "publish"
    /\ LET sealing == {i \in Issuer : run.adm[i].bound} IN
       /\ segs' = segs \cup UNION {SegmentsWritten(run.entries[i]) : i \in sealing}
       /\ run' = [run EXCEPT !.entries =
                     [i \in Issuer |-> IF i \in sealing THEN Sealed(@[i]) ELSE @[i]]]
    /\ orphan' = (cur = NoGen)
    /\ pc' = "pointer"
    /\ UNCHANGED <<version, published, rows, cur, queue, known, storeVars>>

MovePointer ==
    /\ pc = "pointer"
    /\ cur' = [ident |-> version, issuers |-> run.entries, dets |-> run.dets]
    /\ orphan' = FALSE
    /\ known' = [i \in Issuer |-> known[i] \cup run.seen[i]]
    /\ run' = [run EXCEPT !.changed = FALSE]
    /\ pc' = run.then
    /\ UNCHANGED <<version, published, rows, segs, queue, storeVars>>

-----------------------------------------------------------------------------
\* Service: one issuer at a time

\* The results filings listed for an issuer or detected, its reference aside.
Candidates(i) ==
    LET producer == run.adm[i].producer IN
    ((Listed(i, ReferenceOf(producer)) \cup run.adm[i].docs) \cap Results) \ {ReferenceOf(producer)}
Unsettled(i) == Candidates(i) \ run.entries[i].settled
Oldest(E) == CHOOSE e \in E : \A f \in E : Day[e] <= Day[f]

\* Next to serve: there is work, and budget left for it.
Turn(i) == pc = "serve" /\ run.order # <<>> /\ i = Head(run.order)
Passed == [run EXCEPT !.order = Tail(@)]
OnlyRun == <<version, published, rows, cur, orphan, segs, queue, known, storeVars>>

\* Nothing to do, no budget left, or every event settled.
Skip(i) ==
    /\ Turn(i)
    /\ \/ i \notin run.work \/ run.exhausted
       \/ Candidates(i) # {} /\ Unsettled(i) = {}
    /\ run' = Passed
    /\ UNCHANGED <<OnlyRun, pc>>

\* Material documents and no results filing among them: the issuer waits, and
\* an earlier wait of this kind gives way to it.
NoResults(i) ==
    LET docs == run.dets[i].docs
        producer == run.adm[i].producer
        material == Unaccounted(producer, Listed(i, ReferenceOf(producer)) \cup run.adm[i].docs)
        entry == run.entries[i]
        new == Attempt(UnresolvedKey(material), docs, <<>>, producer, i, WaitFor("unresolved"))
        trailing == entry.open # <<>>
        gone == trailing /\ Last(entry.open).outcome = "WAITING" /\ Last(entry.open).key.event = NoDoc
        prior == IF gone THEN [entry EXCEPT !.open = Front(@)] ELSE entry
    IN /\ Turn(i) /\ i \in run.work /\ ~run.exhausted /\ Candidates(i) = {}
       /\ run' = IF trailing /\ Last(entry.open).key = new.key THEN Passed
                 ELSE [Passed EXCEPT !.entries[i] = Appended(prior, new), !.changed = TRUE]
       /\ UNCHANGED <<OnlyRun, pc>>

\* Mutant: nothing is committed before the capture.
DetectLater(i) ==
    /\ Turn(i) /\ i \in run.work /\ ~run.exhausted /\ Unsettled(i) # {}
    /\ run' = [run EXCEPT !.who = i, !.lead = Oldest(Unsettled(i)), !.caps = <<>>, !.then = "queue"]
    /\ pc' = "queue"
    /\ UNCHANGED OnlyRun
\* The event is recorded as detected, and that is committed, with whatever else
\* is pending, before anything is fetched.
Detect(i) ==
    LET e == Oldest(Unsettled(i))
        entry == run.entries[i]
        new == Attempt(EventKey(e), run.dets[i].docs, <<>>, run.adm[i].producer, i, WaitFor("detected"))
        there == \E k \in DOMAIN entry.open : entry.open[k].key = EventKey(e)
    IN /\ Turn(i) /\ i \in run.work /\ ~run.exhausted /\ Unsettled(i) # {}
       /\ run' = [run EXCEPT !.entries[i] = IF there THEN @ ELSE Recorded(@, new),
                             !.changed = @ \/ ~there,
                             !.who = i, !.lead = e, !.caps = <<>>, !.then = "queue"]
       /\ pc' = IF run.changed \/ ~there THEN "publish" ELSE "queue"
       /\ UNCHANGED OnlyRun

\* The place in the order is written before the fetch.
TakeTurn ==
    /\ pc = "queue"
    /\ queue' = run.who
    /\ pc' = "fetch"
    /\ UNCHANGED <<version, published, rows, cur, orphan, segs, run, known, storeVars>>

-----------------------------------------------------------------------------
\* Capture of one event

Wanted == IF "feed" \notin DOMAIN run.caps THEN "feed" ELSE "file"
Incomplete == DOMAIN run.caps # Key
Capturing == pc = "fetch" /\ stage = "open" /\ Incomplete

\* Archive documents that the open attempts, or the producer, reference.
Reusable ==
    LET Of(i) == {run.entries[i].open[k] : k \in DOMAIN run.entries[i].open}
                     \cup ({run.adm[i].producer} \ {NoAttempt})
        all == UNION {Of(i) : i \in {j \in Issuer : run.adm[j].bound}}
    IN {p \in UNION {{a.caps[k] : k \in DOMAIN a.caps} : a \in all} : p[2] = "file" /\ Loadable(p)}

Took(p) == [run EXCEPT !.caps = WithCaptures(@, [k \in {Wanted} |-> p])]
UnlessStored == <<version, published, rows, cur, orphan, segs, queue, pc, known>>

Reuse ==
    /\ Capturing /\ Wanted = "file" /\ <<run.lead, "file">> \in Reusable
    /\ run' = Took(<<run.lead, "file">>)
    /\ UNCHANGED <<UnlessStored, storeVars>>

\* The feed may list the periodic report, or not yet; the filing never changes.
Answers ==
    Reachable \cap
        {<<run.lead, k>> : k \in IF Wanted = "file" THEN {"file"}
                                 ELSE {"late"} \cup (IF run.lead \in LateReport THEN {"early"} ELSE {})}

\* Mutant: the quota is compared before the answer only.
FitsBefore(p) == run.held + run.spent < Quota /\ run.spent + Size[p] <= RunBytes
\* The bytes of an answer count against the run and the store whether or not
\* they are held already.
Fits(p) ==
    /\ run.held + run.spent < Quota
    /\ run.spent + Size[p] <= RunBytes
    /\ run.held + run.spent + Size[p] <= Quota

Requests == Capturing /\ ~(Wanted = "file" /\ <<run.lead, "file">> \in Reusable)

Fetch ==
    /\ Requests
    /\ \E p \in Answers :
          /\ Fits(p)
          /\ StoreHeld(p) \/ Reserve(p)
          /\ run' = [Took(p) EXCEPT !.spent = @ + Size[p]]
    /\ UNCHANGED UnlessStored

WriteCapture ==
    /\ pc = "fetch"
    /\ WriteRaw \/ WriteMeta \/ Settle
    /\ UNCHANGED <<UnlessStored, run>>

\* The entry of the issuer after its attempt, and the run that goes on.
Recording(result, caps, spent) ==
    LET i == run.who
        new == Attempt(EventKey(run.lead), run.dets[i].docs, caps, run.adm[i].producer, i, result)
        entry == Recorded(run.entries[i], new)
    IN [Passed EXCEPT !.who = NoIssuer, !.lead = NoDoc, !.caps = <<>>, !.spent = spent,
            !.served = run.who,
            !.entries[i] = IF SettledFits(entry) THEN entry ELSE @,
            !.changed = @ \/ (SettledFits(entry) /\ entry # run.entries[i])]

Goes == /\ pc' = "serve"
        /\ UNCHANGED <<version, published, rows, cur, orphan, segs, known, storeVars>>

\* Everything is captured: the verifier decides.
Decide ==
    /\ pc = "fetch" /\ stage = "open" /\ ~Incomplete
    /\ run' = Recording(Verdict(run.lead, run.caps, run.adm[run.who].producer), run.caps, run.spent)
    /\ UNCHANGED queue /\ Goes

\* The source refuses or is unreachable, or the store has no room: the issuer
\* waits, and keeps what was captured.
Fails ==
    /\ Requests
    /\ \/ run' = Recording(WaitFor("interrupted"), run.caps, run.spent)
       \/ \E p \in Answers :
             /\ run.spent + Size[p] <= RunBytes \/ run.held + run.spent >= Quota
             /\ ~Fits(p)
             /\ run' = Recording(WaitFor("interrupted"), run.caps,
                                 IF run.held + run.spent >= Quota THEN run.spent ELSE run.spent + Size[p])
    /\ UNCHANGED queue /\ Goes

\* The time, requests or bytes of the run are used up.  An issuer for which
\* nothing was captured keeps its place and no attempt is recorded.
Exhausted ==
    /\ Requests
    /\ \/ run.caps # <<>> \/ run.who \in Slow
       \/ run.held + run.spent < Quota /\ \E p \in Answers : run.spent + Size[p] > RunBytes
    /\ IF run.caps = <<>>
       THEN /\ run' = [Passed EXCEPT !.who = NoIssuer, !.lead = NoDoc, !.exhausted = TRUE]
            /\ queue' = run.served
       ELSE /\ run' = [Recording(WaitFor("interrupted"), run.caps, run.spent) EXCEPT !.exhausted = TRUE]
            /\ UNCHANGED queue
    /\ Goes

\* Every issuer has had its turn.
Finish ==
    /\ pc = "serve" /\ run.order = <<>>
    /\ IF run.changed
       THEN /\ pc' = "publish" /\ run' = [run EXCEPT !.then = "done"]
            /\ UNCHANGED OnlyRun
       ELSE /\ pc' = "done"
            /\ UNCHANGED <<OnlyRun, run>>

Rests ==
    /\ pc' = "idle" /\ run' = NoRun
    /\ CloseStore
    /\ UNCHANGED <<version, published, rows, cur, orphan, segs, queue, known>>

Done == pc = "done" /\ Rests

\* An error nobody expected ends the run: the process exits as it is.
Break == pc = "fetch" /\ run.who \in Poison /\ Requests /\ Rests

Crash == pc # "idle" /\ Rests

-----------------------------------------------------------------------------
\* Outside the updater, between its runs

\* What the feeds may list after a reference: filings never leave theirs.
Listings(i, out) ==
    LET ref == Discovery(i)
        later == {d \in out : Owner[d] = i /\ Day[d] >= AnchorOf(ref)} \ {ReferenceOf(ref)}
    IN {S \in SUBSET later : later \cap Results \subseteq S}

\* Issuers publish; some time later the release checker appends one row per
\* issuer and retains the newest.
Check ==
    /\ pc = "idle"
    /\ \E new \in SUBSET (Doc \ published) :
       \E listing \in [Issuer -> SUBSET (published \cup new)] :
          /\ published' = published \cup new
          /\ \A i \in Issuer : listing[i] \in Listings(i, published')
          /\ rows' = [i \in Issuer |->
                        LET all == Append(rows[i], [ref |-> ReferenceOf(Discovery(i)), docs |-> listing[i]]) IN
                        IF Len(all) > Keep THEN Tail(all) ELSE all]
    /\ UNCHANGED <<version, cur, orphan, segs, queue, pc, run, known, storeVars>>

\* New code, profiles or a new registry are installed.
Install ==
    /\ pc = "idle" /\ version < LastVersion
    /\ version' = version + 1
    /\ UNCHANGED <<published, rows, cur, orphan, segs, queue, pc, run, known, storeVars>>

Init ==
    /\ version = 1 /\ published = {}
    /\ rows = [i \in Issuer |-> <<>>]
    /\ cur = NoGen /\ orphan = FALSE /\ segs = {} /\ queue = NoIssuer
    /\ pc = "idle" /\ run = NoRun
    /\ known = [i \in Issuer |-> {}]
    /\ StoreInit

Step ==
    \/ Begin \/ WriteGeneration \/ MovePointer
    \/ \E i \in Issuer : Skip(i) \/ NoResults(i) \/ Detect(i)
    \/ TakeTurn \/ Reuse \/ Fetch \/ WriteCapture
    \/ Decide \/ Fails \/ Exhausted \/ Break
    \/ Finish \/ Done

Next == Step \/ Crash \/ Check \/ Install

Spec == Init /\ [][Next]_vars

\* The updater is scheduled, and a run that is not killed goes on: weak fairness
\* of Step, with its ENABLED written out (there always is a step unless the
\* next run is refused), because TLC is slow to find it.
CanStep == pc # "idle" \/ ~Damaged
FairSpec == Spec /\ ([]<>~CanStep \/ []<><<Step>>_vars)

-----------------------------------------------------------------------------
\* Properties

Outcomes == {"WAITING", "BLOCKED", "VERIFIED"}
TypeOK ==
    /\ version \in 1 .. LastVersion /\ published \subseteq Doc
    /\ \A i \in Issuer : Len(rows[i]) <= Keep
    /\ orphan \in BOOLEAN /\ queue \in Issuer \cup {NoIssuer}
    /\ pc \in {"idle", "publish", "pointer", "serve", "queue", "fetch", "done"}
    /\ (pc = "idle") <=> (run = NoRun)
    /\ (pc = "idle") <=> (stage = "closed")
    /\ pc = "fetch" => run.who = Owner[run.lead]
    /\ \A i \in Issuer :
          /\ Stored.issuers[i].settled \subseteq Results
          /\ \A k \in DOMAIN HistoryOf(Stored.issuers[i]) :
                HistoryOf(Stored.issuers[i])[k].outcome \in Outcomes
    /\ StoreTypeOK

\* What is known of the releases and of the installed verifiers when an issuer's
\* record is said never to outlive a later document (OldNumbersBarred).  What an
\* event proves to be its own release is older than the issuer's next release;
ReleasesInOrder ==
    \A e, f \in Results :
        e # f /\ Owner[e] = Owner[f] /\ Day[e] <= Day[f] => \A d \in Proves[e] : Day[d] < Day[f]

\* and an identity that refuses an event an identity before it read leaves the
\* readings of the issuer's older events as they were: from then on none of them
\* is read again that was refused, and none is read differently.
Withdraws(v, e) == Reading[v][e] = Refused /\ \E u \in 1 .. v : Reading[u][e] # Refused
OlderReadingsStand ==
    \A e, f \in Results, v \in 1 .. LastVersion :
        Owner[e] = Owner[f] /\ Day[e] < Day[f] /\ Withdraws(v, f) =>
            \A w \in v .. LastVersion : \A x \in 1 .. w :
                Reading[w][e] # Refused /\ Reading[x][e] # Refused =>
                    /\ \A y \in x .. w : Reading[y][e] # Refused
                    /\ v < w => Reading[x][e] = Reading[w][e]

\* A record is never used past a later document: whatever a run that published
\* has seen listed for an issuer bars its record until the producer in force, which
\* the installed code re-derives, proves the document to be its own release or
\* is newer than it.  Crashes, feeds that no longer list the document, rows that
\* age out, and changes of the installed code or registry do not lift the bar.
OldNumbersBarred ==
    \A i \in Issuer : Usable(i) => LeftBy(StoredAdmission(i).producer, known[i]) = {}

\* Nothing a publishing run noticed is forgotten, whatever listings, rows, segments
\* and verdicts later go: it is among the issuer's detections, or these overflowed,
\* or some release that was verified accounts for it.
NothingForgotten ==
    \A i \in Issuer : \A d \in known[i] :
        \/ Stored.dets[i].over \/ d \in Stored.dets[i].docs
        \/ \E a \in Range(HistoryOf(Stored.issuers[i])) :
              a.outcome = "VERIFIED" /\ LeftBy(a, {d}) = {}

\* Nothing is captured for an event before a committed generation records it.
CommittedFirst ==
    \A p \in raw \cup ledger.pending :
        \E a \in Range(HistoryOf(Stored.issuers[Owner[p[1]]])) : a.key.event = p[1]

\* Every history in force passes its audit, and what it references is there.
HistoryAudits ==
    \A i \in Issuer :
        LET entry == Stored.issuers[i] IN
        /\ Audited(entry, segs)
        /\ \A a \in Range(HistoryOf(entry)) : \A k \in DOMAIN a.caps : Loadable(a.caps[k])

\* Histories only grow: an attempt that was published is never changed or
\* dropped, a wait that came last apart.
HistoryKept ==
    [][\A i \in Issuer :
          LET old == HistoryOf(Stored.issuers[i])
              new == HistoryOf(Stored'.issuers[i])
          IN \/ IsPrefix(old, new)
             \/ old # <<>> /\ Last(old).outcome = "WAITING" /\ IsPrefix(Front(old), new)]_vars

\* The captures stay within the quota.
QuotaKept == Bytes(raw) <= Quota

\* An issuer with a detected, unsettled results filing that it admits gets its
\* turn, however often the service of other issuers breaks the run, unless
\* runs are killed for ever.
Due(i) ==
    /\ cur # NoGen /\ cur.ident = version
    /\ StoredAdmission(i).bound /\ ~StoredAdmission(i).over
    /\ ((StoredAdmission(i).docs \cap Results) \ Stored.issuers[i].settled) # {}
ServedInTurn ==
    \/ []<><<Crash /\ ~Break>>_vars
    \/ \A i \in Issuer : Due(i) ~> (~Due(i) \/ (pc = "fetch" /\ run.who = i))

\* docs/REVENUE_GUIDANCE_AUTOUPDATE.md, on an issuer that is BLOCKED, for one
\* because its stored producer is not re-derived: "a later results release can
\* still renew the issuer".  So when a run ends that had the time for it, some
\* results filing detected after that producer has an attempt.
LaterReleaseTried ==
    pc = "done" /\ ~run.exhausted =>
        \A i \in Issuer :
            LET a == run.adm[i]
                later == {e \in run.dets[i].docs \cap Results : Day[e] > AnchorOf(a.producer)}
            IN /\ a.producer # NoAttempt /\ (~a.bound \/ a.mode = "BLOCKED")
               /\ later # {} /\ ~run.dets[i].over
               => \E t \in Range(HistoryOf(run.entries[i])) : t.key.event \in later
=============================================================================
