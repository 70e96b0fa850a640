-------------------------- MODULE GuidanceHistory --------------------------
(***************************************************************************)
(* One issuer's history of verification attempts, as                       *)
(* scripts/revenue_guidance_overlay.py keeps it: sealed segments chained   *)
(* by digest, the open attempts, and the index admission reads.            *)
(*                                                                         *)
(* A segment's digest covers the digest of the segment before it, so it    *)
(* stands for all attempts up to its end; that sequence is its name here.  *)
(***************************************************************************)
EXTENDS Naturals, Sequences, SequencesExt, FiniteSets

CONSTANTS
    Doc,            \* documents an issuer publishes
    Results,        \* those that are filings of a results release
    Day,            \* the day a document is dated
    NoDoc,
    SegmentSize,    \* attempts per sealed segment (32)
    IndexTail,      \* verified attempts the index locates (8)
    MaxSettled      \* settled events the index holds

ASSUME HistoryAssumption ==
    /\ Results \subseteq Doc /\ NoDoc \notin Doc
    /\ Day \in [Doc -> Nat \ {0}]
    /\ SegmentSize \in Nat \ {0} /\ IndexTail \in Nat \ {0} /\ MaxSettled \in Nat \ {0}

\* What an attempt is about: an event, or documents none of which is one.
EventKey(e) == [event |-> e, about |-> {}]
UnresolvedKey(docs) == [event |-> NoDoc, about |-> docs]

NewEntry == [head |-> <<>>, open |-> <<>>, verified |-> <<>>, truncated |-> FALSE, settled |-> {}]

HistoryOf(entry) == entry.head \o entry.open

\* A locator names a segment (the empty one: the open attempts) and a place.
AttemptAt(entry, loc) ==
    IF loc.seg = <<>> THEN entry.open[loc.pos]
    ELSE loc.seg[Len(loc.seg) - SegmentSize + loc.pos]

LastAttempt(entry) == Last(HistoryOf(entry))

\* Mutant: a wait settles its event too.
AppendedAll(entry, a) ==
    [entry EXCEPT !.open = Append(@, a), !.settled = @ \cup {a.key.event}]
\* A verified attempt becomes the producer, and what was settled before its
\* filing day is dropped; a verified or refused event is settled.
Appended(entry, a) ==
    LET verified == a.outcome = "VERIFIED"
        index == IF verified
                 THEN Append(entry.verified, [seg |-> <<>>, pos |-> Len(entry.open) + 1])
                 ELSE entry.verified
        over == Len(index) > IndexTail
        kept == {e \in entry.settled : verified => Day[e] >= Day[a.key.event]}
    IN [entry EXCEPT
           !.open = Append(@, a),
           !.verified = IF over THEN Tail(index) ELSE index,
           !.truncated = @ \/ over,
           !.settled = IF a.outcome # "WAITING" /\ a.key.event # NoDoc
                       THEN kept \cup {a.key.event} ELSE kept]

\* append_attempt refuses an entry whose settled index is full.
SettledFits(entry) == Cardinality(entry.settled) <= MaxSettled

\* The captures of both; where both have one, the newer.
WithCaptures(new, old) ==
    [k \in DOMAIN new \cup DOMAIN old |-> IF k \in DOMAIN new THEN new[k] ELSE old[k]]

Waits(entry, key) ==
    /\ entry.open # <<>>
    /\ Last(entry.open).key = key /\ Last(entry.open).outcome = "WAITING"

\* Mutant: whatever came last is superseded.
RecordedOver(entry, a) ==
    Appended(IF entry.open # <<>> THEN [entry EXCEPT !.open = Front(@)] ELSE entry, a)
\* An attempt supersedes a trailing wait of the same event; a wait that does
\* keeps the captures the earlier one referenced, and an identical wait
\* changes nothing.
Recorded(entry, a) ==
    IF ~Waits(entry, a.key) THEN Appended(entry, a)
    ELSE LET last == Last(entry.open)
             caps == IF a.outcome = "WAITING" THEN WithCaptures(a.caps, last.caps) ELSE a.caps
             new == [a EXCEPT !.caps = caps]
         IN IF /\ a.outcome = "WAITING"
               /\ <<last.why, last.docs, last.caps>> = <<new.why, new.docs, new.caps>>
            THEN entry
            ELSE Appended([entry EXCEPT !.open = Front(@)], new)

\* How many segments seal cuts: it goes on while more than one would fill.
Chunks(entry) == IF entry.open = <<>> THEN 0 ELSE (Len(entry.open) - 1) \div SegmentSize

SegmentUpTo(entry, n) == SubSeq(HistoryOf(entry), 1, Len(entry.head) + n * SegmentSize)

SegmentsWritten(entry) == {SegmentUpTo(entry, n) : n \in 1 .. Chunks(entry)}

\* Mutant: the locators do not follow.
SealedStuck(entry) ==
    LET moved == Chunks(entry) * SegmentSize IN
    [entry EXCEPT !.head = SegmentUpTo(entry, Chunks(entry)),
                  !.open = SubSeq(@, moved + 1, Len(@))]
\* The oldest open attempts move into new segments and the locators follow.
Sealed(entry) ==
    LET moved == Chunks(entry) * SegmentSize
        Follow(loc) ==
            IF loc.seg # <<>> THEN loc
            ELSE IF loc.pos > moved THEN [loc EXCEPT !.pos = @ - moved]
            ELSE LET n == (loc.pos - 1) \div SegmentSize IN
                 [seg |-> SegmentUpTo(entry, n + 1), pos |-> loc.pos - n * SegmentSize]
    IN [entry EXCEPT
           !.head = SegmentUpTo(entry, Chunks(entry)),
           !.open = SubSeq(@, moved + 1, Len(@)),
           !.verified = [k \in DOMAIN @ |-> Follow(@[k])]]

\* verify_history: every segment is stored, and the index locates verified
\* attempts in the order of the history.
Audited(entry, stored) ==
    LET place(loc) == IF loc.seg = <<>> THEN Len(entry.head) + loc.pos
                      ELSE Len(loc.seg) - SegmentSize + loc.pos
    IN /\ \A n \in 1 .. Len(entry.head) \div SegmentSize :
              SubSeq(entry.head, 1, n * SegmentSize) \in stored
       /\ Len(entry.head) % SegmentSize = 0
       /\ \A k \in DOMAIN entry.verified :
              LET loc == entry.verified[k] IN
              /\ IF loc.seg = <<>> THEN loc.pos \in DOMAIN entry.open
                 ELSE IsPrefix(loc.seg, entry.head) /\ loc.pos \in 1 .. SegmentSize
              /\ AttemptAt(entry, loc).outcome = "VERIFIED"
              /\ k > 1 => place(entry.verified[k - 1]) < place(loc)
=============================================================================
