----------------------- MODULE GuidanceHistoryProofs -----------------------
(***************************************************************************)
(* Lemmas about the operators on one issuer's history: what appending,     *)
(* superseding and sealing do to the sequence of its attempts, to the      *)
(* segments it rests on and to the index of its verified attempts.  The    *)
(* attempts are the members of any set A.                                  *)
(***************************************************************************)
EXTENDS GuidanceHistory, SequenceTheorems, TLAPS

Locators(A) == [seg : Seq(A), pos : Nat \ {0}]
Entries(A) == [head : Seq(A), open : Seq(A), verified : Seq(Locators(A)),
               truncated : BOOLEAN, settled : SUBSET Results]

\* A locator by its place in the whole history, and that it names one.
Place(entry, loc) == IF loc.seg = <<>> THEN Len(entry.head) + loc.pos
                     ELSE Len(loc.seg) - SegmentSize + loc.pos
Located(entry, loc) ==
    IF loc.seg = <<>> THEN loc.pos \in 1 .. Len(entry.open)
    ELSE /\ IsPrefix(loc.seg, entry.head)
         /\ SegmentSize <= Len(loc.seg) /\ loc.pos \in 1 .. SegmentSize

\* The sealed part is a chain of whole segments, all of them stored.
Chained(entry, stored) ==
    \E m \in Nat :
        /\ Len(entry.head) = m * SegmentSize
        /\ \A n \in 1 .. m : SubSeq(entry.head, 1, n * SegmentSize) \in stored

\* The index locates verified attempts, in the order of the history.
Indexed(entry) ==
    /\ \A k \in 1 .. Len(entry.verified) :
          /\ Located(entry, entry.verified[k])
          /\ HistoryOf(entry)[Place(entry, entry.verified[k])].outcome = "VERIFIED"
    /\ \A k \in 2 .. Len(entry.verified) :
          Place(entry, entry.verified[k - 1]) < Place(entry, entry.verified[k])

\* What the audit of an entry rests on.
Sound(entry, stored) == Chained(entry, stored) /\ Indexed(entry)

-----------------------------------------------------------------------------
(* Arithmetic of segments. *)

LEMMA DivBound ==
    ASSUME NEW n \in Nat, NEW s \in Nat \ {0}
    PROVE  /\ n \div s \in Nat
           /\ (n \div s) * s <= n
           /\ n < (n \div s) * s + s
  BY SMT

LEMMA DivExact ==
    ASSUME NEW m \in Nat, NEW s \in Nat \ {0}
    PROVE  (m * s) \div s = m /\ (m * s) % s = 0
  BY SMT

LEMMA TimesOrder ==
    ASSUME NEW a \in Nat, NEW b \in Nat, NEW s \in Nat \ {0}
    PROVE  /\ a * s \in Nat
           /\ a < b => a * s + s <= b * s
           /\ a * s < b * s => a < b
           /\ (a + 1) * s = a * s + s
           /\ (a + b) * s = a * s + b * s
  BY SMT

LEMMA WholeSegments ==
    ASSUME NEW a \in Nat, NEW b \in Nat, NEW s \in Nat \ {0}, a <= b
    PROVE  a * s <= b * s
  BY SMT

-----------------------------------------------------------------------------
(* The history of an entry. *)

LEMMA HistoryShape ==
    ASSUME NEW A, NEW entry \in Entries(A)
    PROVE  /\ HistoryOf(entry) \in Seq(A)
           /\ \E h \in Nat, o \in Nat :
                 /\ h = Len(entry.head) /\ o = Len(entry.open)
                 /\ Len(HistoryOf(entry)) = h + o
                 /\ \A j \in 1 .. h : HistoryOf(entry)[j] = entry.head[j]
                 /\ \A j \in 1 .. o : HistoryOf(entry)[h + j] = entry.open[j]
  <1>1. entry.head \in Seq(A) /\ entry.open \in Seq(A)
    BY DEF Entries
  <1>2. PICK h \in Nat, o \in Nat : h = Len(entry.head) /\ o = Len(entry.open)
    BY <1>1, LenProperties
  <1>3. /\ HistoryOf(entry) \in Seq(A)
        /\ Len(HistoryOf(entry)) = h + o
        /\ \A j \in 1 .. h + o : HistoryOf(entry)[j] =
              IF j <= h THEN entry.head[j] ELSE entry.open[j - h]
    BY <1>1, <1>2, ConcatProperties DEF HistoryOf
  <1>4. ASSUME NEW j \in 1 .. o
        PROVE  HistoryOf(entry)[h + j] = entry.open[j]
    <2>1. h + j \in 1 .. h + o /\ ~(h + j <= h) /\ (h + j) - h = j
      OBVIOUS
    <2> QED
      BY <1>3, <2>1
  <1>5. \A j \in 1 .. h : HistoryOf(entry)[j] = entry.head[j]
    BY <1>3
  <1> QED
    BY <1>2, <1>3, <1>4, <1>5

\* A locator leads to the attempt at its place.
LEMMA PlaceInHistory ==
    ASSUME NEW A, NEW entry \in Entries(A), NEW loc \in Locators(A), Located(entry, loc)
    PROVE  /\ Place(entry, loc) \in 1 .. Len(HistoryOf(entry))
           /\ AttemptAt(entry, loc) = HistoryOf(entry)[Place(entry, loc)]
  <1>1. /\ loc.seg \in Seq(A) /\ loc.pos \in Nat \ {0}
        /\ entry.head \in Seq(A) /\ entry.open \in Seq(A)
    BY DEF Locators, Entries
  <1>2. PICK h \in Nat, o \in Nat :
          /\ h = Len(entry.head) /\ o = Len(entry.open)
          /\ Len(HistoryOf(entry)) = h + o
          /\ \A j \in 1 .. h : HistoryOf(entry)[j] = entry.head[j]
          /\ \A j \in 1 .. o : HistoryOf(entry)[h + j] = entry.open[j]
    BY HistoryShape
  <1>3. CASE loc.seg = <<>>
    <2>1. loc.pos \in 1 .. o /\ Place(entry, loc) = h + loc.pos
      BY <1>2, <1>3 DEF Located, Place
    <2>2. h + loc.pos \in 1 .. h + o
      BY <2>1
    <2> QED
      BY <1>2, <1>3, <2>1, <2>2 DEF AttemptAt
  <1>4. CASE loc.seg # <<>>
    <2>1. PICK l \in Nat : l = Len(loc.seg)
      BY <1>1, LenProperties
    <2>2. /\ l <= h /\ SegmentSize <= l /\ loc.pos \in 1 .. SegmentSize
          /\ SubSeq(loc.seg, 1, l) = SubSeq(entry.head, 1, l)
      BY <1>2, <1>4, <2>1 DEF Located, IsPrefix
    <2>3. PICK p : p = l - SegmentSize + loc.pos
      OBVIOUS
    <2>4. p \in 1 .. l /\ p \in 1 .. h /\ p \in 1 .. h + o
      BY <2>2, <2>3, HistoryAssumption
    <2>5. Place(entry, loc) = p
      BY <1>4, <2>1, <2>3 DEF Place
    <2>6. loc.seg[p] = entry.head[p]
      <3>1. SubSeq(loc.seg, 1, l)[p] = loc.seg[p]
        BY <1>1, <2>1, <2>4
      <3>2. SubSeq(entry.head, 1, l)[p] = entry.head[p]
        BY <1>1, <1>2, <2>2, <2>4
      <3> QED
        BY <2>2, <3>1, <3>2
    <2>7. AttemptAt(entry, loc) = loc.seg[p]
      BY <1>4, <2>1, <2>3 DEF AttemptAt
    <2> QED
      BY <1>2, <2>4, <2>5, <2>6, <2>7
  <1> QED
    BY <1>3, <1>4

\* What Sound promises is what the audit looks for.
LEMMA SoundIsAudited ==
    ASSUME NEW A, NEW entry \in Entries(A), NEW stored, Sound(entry, stored)
    PROVE  Audited(entry, stored)
  <1>0. /\ entry.verified \in Seq(Locators(A)) /\ entry.open \in Seq(A)
        /\ DOMAIN entry.verified = 1 .. Len(entry.verified)
        /\ DOMAIN entry.open = 1 .. Len(entry.open)
    BY LenProperties DEF Entries
  <1>1. PICK m \in Nat :
          /\ Len(entry.head) = m * SegmentSize
          /\ \A n \in 1 .. m : SubSeq(entry.head, 1, n * SegmentSize) \in stored
    BY DEF Sound, Chained
  <1>2. Len(entry.head) \div SegmentSize = m /\ Len(entry.head) % SegmentSize = 0
    BY <1>1, DivExact, HistoryAssumption
  <1>3. \A k \in 1 .. Len(entry.verified) :
          /\ IF entry.verified[k].seg = <<>> THEN entry.verified[k].pos \in DOMAIN entry.open
             ELSE IsPrefix(entry.verified[k].seg, entry.head) /\ entry.verified[k].pos \in 1 .. SegmentSize
          /\ AttemptAt(entry, entry.verified[k]).outcome = "VERIFIED"
    BY <1>0, PlaceInHistory DEF Sound, Indexed, Located
  <1>4. \A k \in 1 .. Len(entry.verified) : k > 1 =>
          Place(entry, entry.verified[k - 1]) < Place(entry, entry.verified[k])
    BY <1>0, LenProperties DEF Sound, Indexed
  <1> QED
    BY <1>0, <1>1, <1>2, <1>3, <1>4 DEF Audited, Place
-----------------------------------------------------------------------------
(* Changes of an entry. *)

\* An index shortened at either end.
LEMMA ShorterIndex ==
    ASSUME NEW A, NEW entry \in Entries(A), NEW e2 \in Entries(A), Indexed(entry),
           e2.head = entry.head, e2.open = entry.open,
           NEW d \in Nat, Len(e2.verified) + d <= Len(entry.verified),
           \A k \in 1 .. Len(e2.verified) : e2.verified[k] = entry.verified[k + d]
    PROVE  Indexed(e2)
  <1>1. PICK n \in Nat, l \in Nat : n = Len(e2.verified) /\ l = Len(entry.verified)
    BY LenProperties DEF Entries
  <1>2. \A k \in 1 .. n : k + d \in 1 .. l
    BY <1>1
  <1>3. \A k \in 2 .. n : k + d \in 2 .. l /\ (k + d) - 1 = (k - 1) + d /\ k - 1 \in 1 .. n /\ k \in 1 .. n
    BY <1>1
  <1>4. HistoryOf(e2) = HistoryOf(entry)
    BY DEF HistoryOf
  <1>5. \A loc : Place(e2, loc) = Place(entry, loc) /\ (Located(e2, loc) <=> Located(entry, loc))
    BY DEF Place, Located
  <1>6. \A k \in 1 .. n : /\ Located(e2, e2.verified[k])
                          /\ HistoryOf(e2)[Place(e2, e2.verified[k])].outcome = "VERIFIED"
    BY <1>1, <1>2, <1>4, <1>5 DEF Indexed
  <1>7. ASSUME NEW k \in 2 .. n
        PROVE  Place(e2, e2.verified[k - 1]) < Place(e2, e2.verified[k])
    <2>1. Place(entry, entry.verified[(k + d) - 1]) < Place(entry, entry.verified[k + d])
      BY <1>1, <1>3 DEF Indexed
    <2>2. e2.verified[k - 1] = entry.verified[(k + d) - 1] /\ e2.verified[k] = entry.verified[k + d]
      BY <1>1, <1>3
    <2> QED
      BY <1>5, <2>1, <2>2
  <1> QED
    BY <1>1, <1>6, <1>7 DEF Indexed

\* A wait that came last is dropped: the index never located it.
Dropped(entry) == [entry EXCEPT !.open = Front(@)]

LEMMA DroppedShape ==
    ASSUME NEW A, NEW entry \in Entries(A), entry.open # <<>>
    PROVE  /\ Dropped(entry) \in Entries(A)
           /\ HistoryOf(Dropped(entry)) = Front(HistoryOf(entry))
           /\ HistoryOf(entry) # <<>>
           /\ Last(HistoryOf(entry)) = Last(entry.open)
           /\ Last(entry.open) \in A
           /\ \A j \in 1 .. Len(Dropped(entry).open) : Dropped(entry).open[j] = entry.open[j]
           /\ Len(Dropped(entry).open) = Len(entry.open) - 1
           /\ Dropped(entry).head = entry.head /\ Dropped(entry).verified = entry.verified
           /\ Dropped(entry).truncated = entry.truncated /\ Dropped(entry).settled = entry.settled
  <1>1. /\ entry.head \in Seq(A) /\ entry.open \in Seq(A)
        /\ Dropped(entry) = [entry EXCEPT !.open = Front(@)]
    BY DEF Entries, Dropped
  <1>2. PICK h \in Nat, o \in Nat :
          /\ h = Len(entry.head) /\ o = Len(entry.open)
          /\ Len(HistoryOf(entry)) = h + o
          /\ \A j \in 1 .. h : HistoryOf(entry)[j] = entry.head[j]
          /\ \A j \in 1 .. o : HistoryOf(entry)[h + j] = entry.open[j]
    BY HistoryShape
  <1>3. o # 0
    BY <1>1, <1>2, EmptySeq
  <1>4. PICK f : f = Front(entry.open)
    OBVIOUS
  <1>5. /\ f \in Seq(A) /\ Len(f) = o - 1
        /\ \A j \in 1 .. o - 1 : f[j] = entry.open[j]
    <2>1. \A j \in 1 .. o - 1 : entry.open[j] \in A
      BY <1>1, <1>2, ElementOfSeq
    <2>2. f = SubSeq(entry.open, 1, o - 1)
      BY <1>2, <1>4 DEF Front
    <2> QED
      BY <1>3, <2>1, <2>2, SubSeqProperties
  <1>6. PICK e2 : e2 = Dropped(entry)
    OBVIOUS
  <1>7. /\ e2 \in Entries(A) /\ e2.open = f /\ e2.head = entry.head /\ e2.verified = entry.verified
        /\ e2.truncated = entry.truncated /\ e2.settled = entry.settled
    BY <1>1, <1>4, <1>5, <1>6 DEF Entries
  <1>8. HistoryOf(e2) = Front(HistoryOf(entry))
    <2>1. PICK g : g = Front(HistoryOf(entry))
      OBVIOUS
    <2>2. HistoryOf(entry) \in Seq(A) /\ \A j \in 1 .. h + o - 1 : HistoryOf(entry)[j] \in A
      <3>1. HistoryOf(entry) \in Seq(A)
        BY HistoryShape
      <3>2. \A j \in 1 .. h + o - 1 : j \in 1 .. h + o
        OBVIOUS
      <3> QED
        BY <1>2, <3>1, <3>2, ElementOfSeq
    <2>3. g = SubSeq(HistoryOf(entry), 1, h + o - 1)
      BY <1>2, <2>1 DEF Front
    <2>4. /\ g \in Seq(A) /\ Len(g) = h + o - 1
          /\ \A j \in 1 .. h + o - 1 : g[j] = HistoryOf(entry)[j]
      BY <1>3, <2>2, <2>3, SubSeqProperties
    <2>5. /\ HistoryOf(e2) \in Seq(A) /\ Len(HistoryOf(e2)) = h + (o - 1)
          /\ \A j \in 1 .. h : HistoryOf(e2)[j] = entry.head[j]
          /\ \A j \in 1 .. o - 1 : HistoryOf(e2)[h + j] = f[j]
      <3>1. PICK h2 \in Nat, o2 \in Nat :
              /\ h2 = Len(e2.head) /\ o2 = Len(e2.open)
              /\ Len(HistoryOf(e2)) = h2 + o2
              /\ \A j \in 1 .. h2 : HistoryOf(e2)[j] = e2.head[j]
              /\ \A j \in 1 .. o2 : HistoryOf(e2)[h2 + j] = e2.open[j]
        BY <1>7, HistoryShape
      <3>2. h2 = h /\ o2 = o - 1
        BY <1>2, <1>5, <1>7, <3>1
      <3>3. HistoryOf(e2) \in Seq(A)
        BY <1>7, HistoryShape
      <3> QED
        BY <1>7, <3>1, <3>2, <3>3
    <2>6. ASSUME NEW j \in 1 .. h + o - 1
          PROVE  HistoryOf(e2)[j] = g[j]
      <3>1. CASE j <= h
        <4>1. j \in 1 .. h
          BY <3>1
        <4> QED
          BY <1>2, <2>4, <2>5, <4>1
      <3>2. CASE j > h
        <4>1. PICK i \in 1 .. o - 1 : j = h + i
          <5>1. j - h \in 1 .. o - 1 /\ j = h + (j - h)
            BY <3>2
          <5> QED BY <5>1
        <4>2. i \in 1 .. o
          OBVIOUS
        <4>3. HistoryOf(e2)[j] = entry.open[i]
          BY <1>5, <2>5, <4>1
        <4>4. g[j] = entry.open[i]
          BY <1>2, <2>4, <4>1, <4>2
        <4> QED
          BY <4>3, <4>4
      <3> QED BY <3>1, <3>2
    <2>7. Len(HistoryOf(e2)) = Len(g)
      BY <2>4, <2>5
    <2>8. Len(HistoryOf(e2)) = h + o - 1
      BY <2>5
    <2> QED
      BY <2>1, <2>4, <2>5, <2>6, <2>7, <2>8, SeqEqual
  <1>9. /\ HistoryOf(entry) # <<>> /\ Last(HistoryOf(entry)) = Last(entry.open)
        /\ Last(entry.open) \in A
    <2>1. h + o # 0 /\ o \in 1 .. o
      BY <1>3
    <2>2. HistoryOf(entry) # <<>>
      BY <1>2, <2>1, EmptySeq
    <2>3. Last(HistoryOf(entry)) = HistoryOf(entry)[h + o] /\ Last(entry.open) = entry.open[o]
      BY <1>2 DEF Last
    <2>4. entry.open[o] \in A
      BY <1>1, <1>2, <2>1, ElementOfSeq
    <2> QED
      BY <1>2, <2>1, <2>2, <2>3, <2>4
  <1> QED
    BY <1>2, <1>5, <1>6, <1>7, <1>8, <1>9

LEMMA DroppedSound ==
    ASSUME NEW A, NEW entry \in Entries(A), NEW stored, Sound(entry, stored),
           entry.open # <<>>, Last(entry.open).outcome # "VERIFIED"
    PROVE  Sound(Dropped(entry), stored)
  <1>1. PICK e2 : e2 = Dropped(entry)
    OBVIOUS
  <1>2. PICK h \in Nat, o \in Nat :
          /\ h = Len(entry.head) /\ o = Len(entry.open)
          /\ Len(HistoryOf(entry)) = h + o
          /\ \A j \in 1 .. h : HistoryOf(entry)[j] = entry.head[j]
          /\ \A j \in 1 .. o : HistoryOf(entry)[h + j] = entry.open[j]
    BY HistoryShape
  <1>3. /\ e2 \in Entries(A) /\ Len(e2.open) = o - 1 /\ e2.head = entry.head
        /\ e2.verified = entry.verified /\ HistoryOf(e2) = Front(HistoryOf(entry))
    BY <1>1, <1>2, DroppedShape
  <1>4. Chained(e2, stored)
    BY <1>3 DEF Sound, Chained
  <1>5. \A loc : Place(e2, loc) = Place(entry, loc)
    BY <1>3 DEF Place
  <1>6. ASSUME NEW k \in 1 .. Len(entry.verified)
        PROVE  /\ Located(e2, entry.verified[k])
               /\ HistoryOf(e2)[Place(e2, entry.verified[k])].outcome = "VERIFIED"
    <2>1. PICK loc \in Locators(A) : loc = entry.verified[k]
      BY ElementOfSeq DEF Entries
    <2>2. PICK p : p = Place(entry, loc)
      OBVIOUS
    <2>3. Located(entry, loc) /\ HistoryOf(entry)[p].outcome = "VERIFIED"
      BY <2>1, <2>2 DEF Sound, Indexed
    <2>4. p \in 1 .. h + o
      BY <1>2, <2>2, <2>3, PlaceInHistory
    <2>5. Last(entry.open) = HistoryOf(entry)[h + o]
      <3>1. o # 0
        BY <1>2, EmptySeq DEF Entries
      <3>2. o \in 1 .. o
        BY <3>1
      <3> QED BY <1>2, <3>2 DEF Last
    <2>6. p # h + o
      BY <2>3, <2>5
    <2>7. p \in 1 .. h + o - 1
      BY <2>4, <2>6
    <2>8. HistoryOf(e2)[p] = HistoryOf(entry)[p]
      <3>1. HistoryOf(e2) = SubSeq(HistoryOf(entry), 1, h + o - 1)
        BY <1>2, <1>3 DEF Front
      <3>2. HistoryOf(entry) \in Seq(A) /\ Len(HistoryOf(entry)) = h + o
        BY <1>2, HistoryShape
      <3>3. \A j \in 1 .. h + o - 1 : HistoryOf(entry)[j] \in A
        BY <3>2, ElementOfSeq
      <3> QED
        BY <2>7, <3>1, <3>3, SubSeqProperties
    <2>9. Located(e2, loc)
      <3>1. CASE loc.seg = <<>>
        <4>1. loc.pos \in 1 .. o /\ p = h + loc.pos
          BY <1>2, <2>2, <2>3, <3>1 DEF Located, Place
        <4>2. loc.pos \in 1 .. o - 1
          BY <2>6, <4>1
        <4> QED
          BY <1>3, <3>1, <4>2 DEF Located
      <3>2. CASE loc.seg # <<>>
        BY <1>3, <2>3, <3>2 DEF Located
      <3> QED BY <3>1, <3>2
    <2> QED
      BY <1>5, <2>1, <2>2, <2>3, <2>8, <2>9
  <1>7. Indexed(e2)
    BY <1>3, <1>5, <1>6 DEF Sound, Indexed
  <1> QED
    BY <1>1, <1>4, <1>7 DEF Sound

\* An attempt is appended, and a verified one is located last.
LEMMA AppendedShape ==
    ASSUME NEW A, NEW entry \in Entries(A), NEW a \in A,
           a.key.event \in Results \cup {NoDoc}
    PROVE  /\ Appended(entry, a) \in Entries(A)
           /\ Appended(entry, a).head = entry.head
           /\ Appended(entry, a).open = Append(entry.open, a)
           /\ HistoryOf(Appended(entry, a)) = Append(HistoryOf(entry), a)
  <1>1. /\ entry.head \in Seq(A) /\ entry.open \in Seq(A)
        /\ entry.verified \in Seq(Locators(A)) /\ entry.settled \subseteq Results
        /\ entry = [head |-> entry.head, open |-> entry.open, verified |-> entry.verified,
                    truncated |-> entry.truncated, settled |-> entry.settled]
        /\ entry.truncated \in BOOLEAN
    BY DEF Entries
  <1>2. PICK new : new = [seg |-> <<>>, pos |-> Len(entry.open) + 1]
    OBVIOUS
  <1>3. new \in Locators(A)
    BY <1>1, <1>2, LenProperties, EmptySeq DEF Locators
  <1>4. PICK index : index = IF a.outcome = "VERIFIED" THEN Append(entry.verified, new)
                                                       ELSE entry.verified
    OBVIOUS
  <1>5. index \in Seq(Locators(A))
    BY <1>1, <1>3, <1>4, AppendProperties
  <1>6. PICK verified : verified = IF Len(index) > IndexTail THEN Tail(index) ELSE index
    OBVIOUS
  <1>7. verified \in Seq(Locators(A))
    <2>1. CASE Len(index) > IndexTail
      <3>1. index # <<>>
        BY <2>1, EmptySeq, HistoryAssumption
      <3> QED BY <1>5, <1>6, <2>1, <3>1, HeadTailProperties
    <2>2. CASE ~(Len(index) > IndexTail)
      BY <1>5, <1>6, <2>2
    <2> QED BY <2>1, <2>2
  <1>8. PICK truncated \in BOOLEAN, settled \in SUBSET Results :
          Appended(entry, a) = [entry EXCEPT !.open = Append(@, a), !.verified = verified,
                                             !.truncated = truncated, !.settled = settled]
    <2>1. PICK truncated : truncated = (entry.truncated \/ Len(index) > IndexTail)
      OBVIOUS
    <2>2. PICK settled : settled =
            LET kept == {e \in entry.settled : a.outcome = "VERIFIED" => Day[e] >= Day[a.key.event]}
            IN IF a.outcome # "WAITING" /\ a.key.event # NoDoc
               THEN kept \cup {a.key.event} ELSE kept
      OBVIOUS
    <2>3. truncated \in BOOLEAN /\ settled \in SUBSET Results
      BY <1>1, <2>1, <2>2
    <2>4. Appended(entry, a) = [entry EXCEPT !.open = Append(@, a), !.verified = verified,
                                             !.truncated = truncated, !.settled = settled]
      BY <1>2, <1>4, <1>6, <2>1, <2>2, Zenon DEF Appended
    <2> QED BY <2>3, <2>4
  <1>9. Append(entry.open, a) \in Seq(A)
    BY <1>1, AppendProperties
  <1>10. PICK e2 : e2 = Appended(entry, a)
    OBVIOUS
  <1>11. e2 \in Entries(A) /\ e2.head = entry.head /\ e2.open = Append(entry.open, a)
    BY <1>1, <1>7, <1>8, <1>9, <1>10 DEF Entries
  <1>12. HistoryOf(e2) = Append(HistoryOf(entry), a)
    <2>1. HistoryOf(e2) = entry.head \o Append(entry.open, a)
      BY <1>11 DEF HistoryOf
    <2>2. Append(entry.open, a) = entry.open \o <<a>> /\ <<a>> \in Seq(A)
      BY <1>1, AppendIsConcat
    <2>3. entry.head \o (entry.open \o <<a>>) = (entry.head \o entry.open) \o <<a>>
      BY <1>1, <2>2, ConcatAssociative
    <2>4. (entry.head \o entry.open) \o <<a>> = Append(entry.head \o entry.open, a)
      BY <1>1, ConcatProperties, AppendIsConcat
    <2> QED BY <2>1, <2>2, <2>3, <2>4 DEF HistoryOf
  <1> QED BY <1>10, <1>11, <1>12

LEMMA AppendedSound ==
    ASSUME NEW A, NEW entry \in Entries(A), NEW a \in A, NEW stored,
           a.key.event \in Results \cup {NoDoc}, Sound(entry, stored)
    PROVE  Sound(Appended(entry, a), stored)
  <1>1. PICK e2 : e2 = Appended(entry, a)
    OBVIOUS
  <1>2. /\ e2 \in Entries(A) /\ e2.head = entry.head /\ e2.open = Append(entry.open, a)
        /\ HistoryOf(e2) = Append(HistoryOf(entry), a)
    BY <1>1, AppendedShape
  <1>3. PICK h \in Nat, o \in Nat :
          /\ h = Len(entry.head) /\ o = Len(entry.open)
          /\ Len(HistoryOf(entry)) = h + o
    BY HistoryShape
  <1>4. /\ entry.open \in Seq(A) /\ entry.verified \in Seq(Locators(A))
        /\ HistoryOf(entry) \in Seq(A)
    BY HistoryShape DEF Entries
  <1>5. /\ \A p \in 1 .. h + o : HistoryOf(e2)[p] = HistoryOf(entry)[p]
        /\ HistoryOf(e2)[h + o + 1] = a
        /\ Len(e2.open) = o + 1
    <2>1. Len(Append(entry.open, a)) = o + 1
      BY <1>3, <1>4, AppendProperties
    <2>2. PICK g \in Seq(A) : g = HistoryOf(entry)
      BY <1>4
    <2>3. Len(g) = h + o /\ HistoryOf(e2) = Append(g, a)
      BY <1>2, <1>3, <2>2
    <2>4. /\ \A p \in 1 .. Len(g) : Append(g, a)[p] = g[p]
          /\ Append(g, a)[Len(g) + 1] = a
      BY <2>2, AppendProperties
    <2> QED BY <1>2, <2>1, <2>2, <2>3, <2>4
  (* The same entry with its index not yet cut.                               *)
  <1>6. PICK new \in Locators(A) : new = [seg |-> <<>>, pos |-> o + 1]
    <2>1. [seg |-> <<>>, pos |-> o + 1] \in Locators(A)
      BY EmptySeq DEF Locators
    <2> QED BY <2>1
  <1>7. PICK index \in Seq(Locators(A)) :
          index = IF a.outcome = "VERIFIED" THEN Append(entry.verified, new) ELSE entry.verified
    BY <1>4, AppendProperties
  <1>8. PICK e1 : e1 = [e2 EXCEPT !.verified = index]
    OBVIOUS
  <1>9. /\ e1 \in Entries(A) /\ e1.verified = index
        /\ e1.head = entry.head /\ e1.open = e2.open /\ e2.head = e1.head
    BY <1>2, <1>7, <1>8 DEF Entries
  <1>10. HistoryOf(e1) = HistoryOf(e2)
    BY <1>9 DEF HistoryOf
  <1>11. PICK n \in Nat : n = Len(entry.verified)
    BY <1>4, LenProperties
  <1>12. ASSUME NEW k \in 1 .. n
         PROVE  /\ Place(e1, entry.verified[k]) = Place(entry, entry.verified[k])
                /\ Place(entry, entry.verified[k]) \in 1 .. h + o
                /\ Located(e1, entry.verified[k])
                /\ HistoryOf(e1)[Place(e1, entry.verified[k])].outcome = "VERIFIED"
    <2>1. PICK loc \in Locators(A) : loc = entry.verified[k]
      BY <1>4, <1>11, ElementOfSeq
    <2>2. Located(entry, loc) /\ HistoryOf(entry)[Place(entry, loc)].outcome = "VERIFIED"
      BY <1>11, <2>1 DEF Sound, Indexed
    <2>3. Place(entry, loc) \in 1 .. h + o
      BY <1>3, <2>2, PlaceInHistory
    <2>4. Place(e1, loc) = Place(entry, loc)
      BY <1>9 DEF Place
    <2>5. Located(e1, loc)
      <3>1. CASE loc.seg = <<>>
        <4>1. loc.pos \in 1 .. o
          BY <1>3, <2>2, <3>1 DEF Located
        <4>2. loc.pos \in 1 .. o + 1
          BY <4>1
        <4> QED BY <1>5, <1>9, <3>1, <4>2 DEF Located
      <3>2. CASE loc.seg # <<>>
        BY <1>9, <2>2, <3>2 DEF Located
      <3> QED BY <3>1, <3>2
    <2> QED BY <1>5, <1>10, <2>1, <2>2, <2>3, <2>4, <2>5
  <1>13. \A k \in 2 .. n : Place(e1, entry.verified[k - 1]) < Place(e1, entry.verified[k])
    <2>1. \A k \in 2 .. n : k \in 1 .. n /\ k - 1 \in 1 .. n
      OBVIOUS
    <2> QED BY <1>11, <1>12, <2>1 DEF Sound, Indexed
  <1>14. Indexed(e1)
    <2>1. CASE a.outcome # "VERIFIED"
      BY <1>7, <1>9, <1>11, <1>12, <1>13, <2>1 DEF Indexed
    <2>2. CASE a.outcome = "VERIFIED"
      <3>1. /\ Len(index) = n + 1 /\ index[n + 1] = new
            /\ \A k \in 1 .. n : index[k] = entry.verified[k]
        BY <1>4, <1>7, <1>11, <2>2, AppendProperties
      <3>2. Place(e1, new) = h + (o + 1) /\ Located(e1, new)
        <4>1. o + 1 \in 1 .. o + 1
          OBVIOUS
        <4> QED BY <1>3, <1>5, <1>6, <1>9, <4>1 DEF Place, Located
      <3>3. HistoryOf(e1)[Place(e1, new)].outcome = "VERIFIED"
        BY <1>5, <1>10, <2>2, <3>2
      <3>4. ASSUME NEW k \in 1 .. n + 1
            PROVE  /\ Located(e1, index[k])
                   /\ HistoryOf(e1)[Place(e1, index[k])].outcome = "VERIFIED"
        <4>1. CASE k = n + 1
          BY <3>1, <3>2, <3>3, <4>1
        <4>2. CASE k # n + 1
          <5>1. k \in 1 .. n
            BY <4>2
          <5> QED BY <1>12, <3>1, <5>1
        <4> QED BY <4>1, <4>2
      <3>5. ASSUME NEW k \in 2 .. n + 1
            PROVE  Place(e1, index[k - 1]) < Place(e1, index[k])
        <4>1. CASE k = n + 1
          <5>1. n \in 1 .. n /\ k - 1 = n
            BY <4>1
          <5>2. Place(e1, index[k - 1]) \in 1 .. h + o
            BY <1>12, <3>1, <5>1
          <5> QED BY <3>1, <3>2, <4>1, <5>2
        <4>2. CASE k # n + 1
          <5>1. k \in 2 .. n /\ k \in 1 .. n /\ k - 1 \in 1 .. n
            BY <4>2
          <5> QED BY <1>13, <3>1, <5>1
        <4> QED BY <4>1, <4>2
      <3> QED BY <1>9, <3>1, <3>4, <3>5 DEF Indexed
    <2> QED BY <2>1, <2>2
  <1>15. e2.verified = IF Len(index) > IndexTail THEN Tail(index) ELSE index
    <2>1. PICK t, s :
            Appended(entry, a) = [entry EXCEPT !.open = Append(@, a),
                !.verified = IF Len(index) > IndexTail THEN Tail(index) ELSE index,
                !.truncated = t, !.settled = s]
      BY <1>3, <1>6, <1>7, Zenon DEF Appended
    <2> QED BY <1>1, <2>1 DEF Entries
  <1>16. Indexed(e2)
    <2>1. PICK l \in Nat : l = Len(index)
      BY LenProperties
    <2>2. CASE l > IndexTail
      <3>1. index # <<>> /\ l >= 1
        BY <2>1, <2>2, EmptySeq, HistoryAssumption
      <3>2. Len(e2.verified) = l - 1 /\ \A k \in 1 .. l - 1 : e2.verified[k] = index[k + 1]
        BY <1>15, <2>1, <2>2, <3>1, HeadTailProperties
      <3>3. Len(e2.verified) + 1 <= Len(e1.verified)
        BY <1>9, <2>1, <3>2
      <3>4. \A k \in 1 .. Len(e2.verified) : e2.verified[k] = e1.verified[k + 1]
        BY <1>9, <3>2
      <3> QED BY <1>2, <1>9, <1>14, <3>3, <3>4, ShorterIndex
    <2>3. CASE ~(l > IndexTail)
      <3>1. e2.verified = index
        BY <1>15, <2>1, <2>3
      <3>2. Len(e2.verified) + 0 <= Len(e1.verified)
        BY <1>9, <2>1, <3>1
      <3>3. \A k \in 1 .. Len(e2.verified) : e2.verified[k] = e1.verified[k + 0]
        BY <1>9, <3>1
      <3> QED BY <1>2, <1>9, <1>14, <3>2, <3>3, ShorterIndex
    <2> QED BY <2>2, <2>3
  <1>17. Chained(e2, stored)
    BY <1>2 DEF Sound, Chained
  <1> QED BY <1>1, <1>16, <1>17 DEF Sound

-----------------------------------------------------------------------------
(* Sealing. *)

LEMMA PrefixShape ==
    ASSUME NEW A, NEW s \in Seq(A), NEW l \in Nat, l = Len(s), NEW m \in 0 .. l
    PROVE  /\ SubSeq(s, 1, m) \in Seq(A) /\ Len(SubSeq(s, 1, m)) = m
           /\ \A j \in 1 .. m : SubSeq(s, 1, m)[j] = s[j]
  <1>1. \A j \in 1 .. m : j \in 1 .. l
    OBVIOUS
  <1>2. \A j \in 1 .. m : s[j] \in A
    BY <1>1, ElementOfSeq
  <1> QED BY <1>2, SubSeqProperties

LEMMA PrefixOfPrefix ==
    ASSUME NEW A, NEW s \in Seq(A), NEW l \in Nat, l = Len(s), NEW n \in 0 .. l, NEW m \in 0 .. n
    PROVE  /\ SubSeq(SubSeq(s, 1, n), 1, m) = SubSeq(s, 1, m)
           /\ IsPrefix(SubSeq(s, 1, m), SubSeq(s, 1, n))
  <1>1. PICK t : t = SubSeq(s, 1, n)
    OBVIOUS
  <1>2. t \in Seq(A) /\ Len(t) = n /\ \A j \in 1 .. n : t[j] = s[j]
    BY <1>1, PrefixShape
  <1>3. PICK u : u = SubSeq(t, 1, m)
    OBVIOUS
  <1>4. u \in Seq(A) /\ Len(u) = m /\ \A j \in 1 .. m : u[j] = t[j]
    BY <1>2, <1>3, PrefixShape
  <1>5. PICK v : v = SubSeq(s, 1, m)
    OBVIOUS
  <1>6. v \in Seq(A) /\ Len(v) = m /\ \A j \in 1 .. m : v[j] = s[j]
    <2>1. m \in 0 .. l
      OBVIOUS
    <2> QED BY <1>5, <2>1, PrefixShape
  <1>7. u = v
    <2>1. \A j \in 1 .. m : j \in 1 .. n
      OBVIOUS
    <2>2. \A j \in 1 .. m : u[j] = v[j]
      BY <1>2, <1>4, <1>6, <2>1
    <2> QED BY <1>4, <1>6, <2>2, SeqEqual
  <1>8. SubSeq(v, 1, Len(v)) = v
    BY <1>6, SubSeqFull
  <1>9. Len(v) <= Len(t) /\ SubSeq(v, 1, Len(v)) = SubSeq(t, 1, Len(v))
    BY <1>2, <1>3, <1>6, <1>7, <1>8
  <1> QED BY <1>1, <1>3, <1>5, <1>7, <1>9 DEF IsPrefix

LEMMA SamePrefix ==
    ASSUME NEW A, NEW s \in Seq(A), NEW t \in Seq(A), NEW h \in Nat, h = Len(s), NEW l \in Nat,
           l = Len(t), h <= l, \A j \in 1 .. h : t[j] = s[j], NEW n \in Nat, n <= h
    PROVE  SubSeq(s, 1, n) = SubSeq(t, 1, n)
  <1>1. n \in 0 .. h /\ n \in 0 .. l
    OBVIOUS
  <1>2. PICK u, v : u = SubSeq(s, 1, n) /\ v = SubSeq(t, 1, n)
    OBVIOUS
  <1>3. u \in Seq(A) /\ Len(u) = n /\ \A j \in 1 .. n : u[j] = s[j]
    BY <1>1, <1>2, PrefixShape
  <1>4. v \in Seq(A) /\ Len(v) = n /\ \A j \in 1 .. n : v[j] = t[j]
    BY <1>1, <1>2, PrefixShape
  <1>5. \A j \in 1 .. n : j \in 1 .. h
    OBVIOUS
  <1>6. \A j \in 1 .. n : u[j] = v[j]
    BY <1>3, <1>4, <1>5
  <1> QED BY <1>2, <1>3, <1>4, <1>6, SeqEqual

\* Sealing moves whole segments and leaves an open attempt where there was one.
LEMMA ChunksFit ==
    ASSUME NEW A, NEW entry \in Entries(A)
    PROVE  \E c \in Nat, moved \in Nat :
              /\ c = Chunks(entry) /\ moved = c * SegmentSize
              /\ moved \in 0 .. Len(entry.open)
              /\ entry.open # <<>> => moved < Len(entry.open)
  <1>1. PICK o \in Nat : o = Len(entry.open)
    BY LenProperties DEF Entries
  <1>2. CASE entry.open = <<>>
    <2>1. Chunks(entry) = 0 /\ 0 * SegmentSize = 0
      BY <1>2, HistoryAssumption DEF Chunks
    <2> QED BY <1>1, <1>2, <2>1
  <1>3. CASE entry.open # <<>>
    <2>1. o - 1 \in Nat
      BY <1>1, <1>3, EmptySeq DEF Entries
    <2>2. PICK c \in Nat : c = (o - 1) \div SegmentSize /\ c * SegmentSize <= o - 1
      BY <2>1, DivBound, HistoryAssumption
    <2>3. c = Chunks(entry)
      BY <1>1, <1>3, <2>2 DEF Chunks
    <2>4. PICK moved : moved = c * SegmentSize
      OBVIOUS
    <2>5. moved \in Nat /\ moved <= o - 1
      BY <2>2, <2>4, TimesOrder, HistoryAssumption
    <2>6. moved \in 0 .. o /\ moved < o
      BY <1>1, <2>5
    <2> QED BY <1>1, <2>3, <2>4, <2>5, <2>6
  <1> QED BY <1>2, <1>3

\* Where a place of the history is after the first moved open attempts went to
\* the head.
LEMMA SplitPlaces ==
    ASSUME NEW h \in Nat, NEW o \in Nat, NEW moved \in 0 .. o
    PROVE  /\ h + moved \in 0 .. h + o /\ (h + moved) + (o - moved) = h + o
           /\ h + moved \in Nat /\ o - moved \in Nat /\ h + o \in Nat
           /\ \A j \in 1 .. h + o :
                 \/ j \in 1 .. h + moved /\ j <= h + moved
                 \/ /\ ~(j <= h + moved)
                    /\ \E i \in 1 .. o - moved :
                          i = j - (h + moved) /\ moved + i \in 1 .. o /\ h + (moved + i) = j
  <1>1. ASSUME NEW j \in 1 .. h + o, ~(j <= h + moved)
        PROVE  \E i \in 1 .. o - moved :
                  i = j - (h + moved) /\ moved + i \in 1 .. o /\ h + (moved + i) = j
    <2>1. PICK i : i = j - (h + moved)
      OBVIOUS
    <2>2. i \in 1 .. o - moved /\ moved + i \in 1 .. o /\ h + (moved + i) = j
      BY <1>1, <2>1
    <2> QED BY <2>1, <2>2
  <1> QED BY <1>1

\* The history is the same sequence before and after.
LEMMA SealedShape ==
    ASSUME NEW A, NEW entry \in Entries(A)
    PROVE  /\ HistoryOf(Sealed(entry)) = HistoryOf(entry)
           /\ \E c \in Nat, h \in Nat, o \in Nat : \E moved \in 0 .. o :
                /\ c = Chunks(entry) /\ moved = c * SegmentSize
                /\ h = Len(entry.head) /\ o = Len(entry.open)
                /\ Sealed(entry).head = SubSeq(HistoryOf(entry), 1, h + moved)
                /\ Sealed(entry).head \in Seq(A) /\ Len(Sealed(entry).head) = h + moved
                /\ Sealed(entry).open \in Seq(A) /\ Len(Sealed(entry).open) = o - moved
                /\ \A j \in 1 .. o - moved : Sealed(entry).open[j] = entry.open[moved + j]
                /\ Sealed(entry).truncated = entry.truncated
                /\ Sealed(entry).settled = entry.settled
  <1>0. PICK h \in Nat, o \in Nat :
          /\ h = Len(entry.head) /\ o = Len(entry.open)
          /\ Len(HistoryOf(entry)) = h + o
          /\ \A j \in 1 .. h : HistoryOf(entry)[j] = entry.head[j]
          /\ \A j \in 1 .. o : HistoryOf(entry)[h + j] = entry.open[j]
    BY HistoryShape
  <1>a. PICK c \in Nat, moved \in 0 .. o : c = Chunks(entry) /\ moved = c * SegmentSize
    BY <1>0, ChunksFit
  <1>b. moved \in Nat
    OBVIOUS
  <1>1. PICK g \in Seq(A) :
          /\ g = HistoryOf(entry) /\ Len(g) = h + o
          /\ \A j \in 1 .. h : g[j] = entry.head[j]
          /\ \A j \in 1 .. o : g[h + j] = entry.open[j]
    BY <1>0, HistoryShape
  <1>2. PICK e2 : e2 = Sealed(entry)
    OBVIOUS
  <1>3. /\ e2.head = SegmentUpTo(entry, c)
        /\ e2.open = SubSeq(entry.open, moved + 1, o)
        /\ e2.truncated = entry.truncated /\ e2.settled = entry.settled
    BY <1>0, <1>a, <1>2 DEF Sealed, Entries
  <1>4. e2.head = SubSeq(g, 1, h + moved)
    BY <1>0, <1>a, <1>1, <1>3 DEF SegmentUpTo
  <1>5. /\ e2.head \in Seq(A) /\ Len(e2.head) = h + moved
        /\ \A j \in 1 .. h + moved : e2.head[j] = g[j]
    <2>1. h + moved \in 0 .. h + o /\ h + o \in Nat
      BY SplitPlaces
    <2> QED BY <1>1, <1>4, <2>1, PrefixShape
  <1>6. /\ e2.open \in Seq(A) /\ Len(e2.open) = o - moved
        /\ \A j \in 1 .. o - moved : e2.open[j] = entry.open[moved + j]
    <2>1. \A j \in moved + 1 .. o : entry.open[j] \in A
      <3>1. entry.open \in Seq(A) /\ \A j \in moved + 1 .. o : j \in 1 .. o
        BY DEF Entries
      <3> QED BY <1>0, <3>1, ElementOfSeq
    <2>2. PICK m \in Int : m = moved + 1
      OBVIOUS
    <2>3. /\ e2.open \in Seq(A) /\ Len(e2.open) = IF m <= o THEN o - m + 1 ELSE 0
          /\ \A j \in 1 .. o - m + 1 : e2.open[j] = entry.open[m + j - 1]
      BY <1>3, <2>1, <2>2, SubSeqProperties
    <2>4. /\ (IF m <= o THEN o - m + 1 ELSE 0) = o - moved
          /\ o - m + 1 = o - moved /\ \A j \in 1 .. o - moved : m + j - 1 = moved + j
      BY <2>2
    <2> QED BY <2>3, <2>4
  <1>7. HistoryOf(e2) = g
    <2>1. PICK f : f = HistoryOf(e2)
      OBVIOUS
    <2>2. /\ f \in Seq(A) /\ Len(f) = (h + moved) + (o - moved)
          /\ \A j \in 1 .. (h + moved) + (o - moved) : f[j] =
                IF j <= h + moved THEN e2.head[j] ELSE e2.open[j - (h + moved)]
      <3>1. /\ e2.head \o e2.open \in Seq(A)
            /\ Len(e2.head \o e2.open) = Len(e2.head) + Len(e2.open)
            /\ \A j \in 1 .. Len(e2.head) + Len(e2.open) : (e2.head \o e2.open)[j] =
                  IF j <= Len(e2.head) THEN e2.head[j] ELSE e2.open[j - Len(e2.head)]
        BY <1>5, <1>6, ConcatProperties, Zenon
      <3> QED BY <1>5, <1>6, <2>1, <3>1, Zenon DEF HistoryOf
    <2>3. (h + moved) + (o - moved) = h + o
      BY SplitPlaces
    <2>4. ASSUME NEW j \in 1 .. h + o
          PROVE  f[j] = g[j]
      <3>1. CASE j \in 1 .. h + moved /\ j <= h + moved
        BY <1>5, <2>2, <2>3, <3>1
      <3>2. ASSUME ~(j <= h + moved), NEW i \in 1 .. o - moved,
                   i = j - (h + moved), moved + i \in 1 .. o, h + (moved + i) = j
            PROVE  f[j] = g[j]
        <4>1. f[j] = e2.open[i]
          BY <2>2, <2>3, <3>2
        <4>2. g[j] = entry.open[moved + i]
          BY <1>1, <3>2
        <4> QED BY <1>6, <4>1, <4>2
      <3> QED BY <3>1, <3>2, SplitPlaces
    <2>5. \A j \in 1 .. Len(f) : f[j] = g[j]
      BY <2>2, <2>3, <2>4
    <2> QED BY <1>1, <2>1, <2>2, <2>3, <2>5, SeqEqual
  <1>8. /\ HistoryOf(e2) = HistoryOf(entry)
        /\ e2.head = SubSeq(HistoryOf(entry), 1, h + moved)
    BY <1>1, <1>4, <1>7
  <1> QED BY <1>0, <1>a, <1>2, <1>3, <1>5, <1>6, <1>8, Zenon

\* Where a locator points after sealing: the same place of the history.
Followed(entry, loc) ==
    LET moved == Chunks(entry) * SegmentSize
        n == (loc.pos - 1) \div SegmentSize
    IN IF loc.seg # <<>> THEN loc
       ELSE IF loc.pos > moved THEN [loc EXCEPT !.pos = @ - moved]
       ELSE [seg |-> SegmentUpTo(entry, n + 1), pos |-> loc.pos - n * SegmentSize]

LEMMA FollowedPlace ==
    ASSUME NEW A, NEW entry \in Entries(A), NEW loc \in Locators(A), Located(entry, loc)
    PROVE  /\ Followed(entry, loc) \in Locators(A)
           /\ Located(Sealed(entry), Followed(entry, loc))
           /\ Place(Sealed(entry), Followed(entry, loc)) = Place(entry, loc)
  <1>1. PICK e2 : e2 = Sealed(entry)
    OBVIOUS
  <1>2. PICK c \in Nat, h \in Nat, o \in Nat, moved \in Nat :
          /\ moved \in 0 .. o
          /\ c = Chunks(entry) /\ moved = c * SegmentSize
          /\ h = Len(entry.head) /\ o = Len(entry.open)
          /\ Sealed(entry).head = SubSeq(HistoryOf(entry), 1, h + moved)
          /\ Sealed(entry).head \in Seq(A) /\ Len(Sealed(entry).head) = h + moved
          /\ Sealed(entry).open \in Seq(A) /\ Len(Sealed(entry).open) = o - moved
    <2>1. PICK c \in Nat, h \in Nat, o \in Nat : \E moved \in 0 .. o :
            /\ c = Chunks(entry) /\ moved = c * SegmentSize
            /\ h = Len(entry.head) /\ o = Len(entry.open)
            /\ Sealed(entry).head = SubSeq(HistoryOf(entry), 1, h + moved)
            /\ Sealed(entry).head \in Seq(A) /\ Len(Sealed(entry).head) = h + moved
            /\ Sealed(entry).open \in Seq(A) /\ Len(Sealed(entry).open) = o - moved
            /\ \A j \in 1 .. o - moved : Sealed(entry).open[j] = entry.open[moved + j]
            /\ Sealed(entry).truncated = entry.truncated
            /\ Sealed(entry).settled = entry.settled
      BY SealedShape, Zenon
    <2>2. 0 .. o \subseteq Nat
      OBVIOUS
    <2> QED BY <2>1, <2>2, Zenon
  <1>2a. moved \in 0 .. o
    BY <1>2
  <1>3. /\ e2.head = SubSeq(HistoryOf(entry), 1, h + moved)
        /\ e2.head \in Seq(A) /\ Len(e2.head) = h + moved
        /\ e2.open \in Seq(A) /\ Len(e2.open) = o - moved
        /\ c = Chunks(entry) /\ moved = c * SegmentSize
        /\ h = Len(entry.head) /\ o = Len(entry.open)
    BY <1>1, <1>2
  <1>4. PICK g \in Seq(A) :
          g = HistoryOf(entry) /\ Len(g) = h + o /\ \A j \in 1 .. h : g[j] = entry.head[j]
    <2>1. PICK h2 \in Nat, o2 \in Nat :
            /\ h2 = Len(entry.head) /\ o2 = Len(entry.open)
            /\ Len(HistoryOf(entry)) = h2 + o2
            /\ \A j \in 1 .. h2 : HistoryOf(entry)[j] = entry.head[j]
            /\ \A j \in 1 .. o2 : HistoryOf(entry)[h2 + j] = entry.open[j]
      BY HistoryShape
    <2>2. HistoryOf(entry) \in Seq(A)
      BY HistoryShape
    <2>3. h2 = h /\ o2 = o
      BY <1>3, <2>1
    <2> QED BY <2>1, <2>2, <2>3
  <1>5. PICK l2 \in Locators(A) : l2 = loc
    OBVIOUS
  <1>6. l2.seg \in Seq(A) /\ l2.pos \in Nat \ {0} /\ Located(entry, l2)
    BY <1>5 DEF Locators
  <1>7. CASE l2.seg # <<>>
    <2>1. Followed(entry, l2) = l2
      BY <1>7 DEF Followed
    <2>2. PICK l \in Nat : l = Len(l2.seg)
      BY <1>6, LenProperties
    <2>3. /\ l <= h /\ SegmentSize <= l /\ l2.pos \in 1 .. SegmentSize
          /\ SubSeq(l2.seg, 1, l) = SubSeq(entry.head, 1, l)
      BY <1>3, <1>6, <1>7, <2>2 DEF Located, IsPrefix
    <2>4. SubSeq(e2.head, 1, l) = SubSeq(entry.head, 1, l)
      <3>1. l \in 0 .. h /\ l \in 0 .. h + moved /\ h + moved \in Nat /\ h + moved \in 0 .. h + o
            /\ h + o \in Nat
        BY <1>2a, <2>3
      <3>2. SubSeq(e2.head, 1, l) = SubSeq(g, 1, l)
        <4>1. PICK m \in 0 .. h + o : m = h + moved
          BY <3>1
        <4>2. l \in 0 .. m
          BY <3>1, <4>1
        <4>3. PICK k \in Nat : k = h + o /\ k = Len(g) /\ m \in 0 .. k
          BY <1>4, <3>1, <4>1
        <4>4. SubSeq(SubSeq(g, 1, m), 1, l) = SubSeq(g, 1, l)
          BY <4>2, <4>3, PrefixOfPrefix
        <4>5. e2.head = SubSeq(g, 1, m)
          BY <1>3, <1>4, <4>1
        <4> QED BY <4>4, <4>5
      <3>3. PICK hd \in Seq(A) : hd = entry.head
        BY DEF Entries
      <3>4. PICK u : u = SubSeq(hd, 1, l)
        OBVIOUS
      <3>5. u \in Seq(A) /\ Len(u) = l /\ \A j \in 1 .. l : u[j] = hd[j]
        <4>1. h = Len(hd)
          BY <1>3, <3>3
        <4> QED BY <3>1, <3>3, <3>4, <4>1, PrefixShape
      <3>6. PICK v : v = SubSeq(g, 1, l)
        OBVIOUS
      <3>7. v \in Seq(A) /\ Len(v) = l /\ \A j \in 1 .. l : v[j] = g[j]
        <4>1. l \in 0 .. h + o
          BY <3>1
        <4> QED BY <1>4, <3>1, <3>6, <4>1, PrefixShape
      <3>8. \A j \in 1 .. l : u[j] = v[j]
        <4>1. \A j \in 1 .. l : j \in 1 .. h
          BY <3>1
        <4> QED BY <1>4, <3>3, <3>5, <3>7, <4>1
      <3>9. u = v
        BY <3>5, <3>7, <3>8, SeqEqual
      <3> QED BY <3>2, <3>3, <3>4, <3>6, <3>9
    <2>5. l <= h + moved
      BY <2>3
    <2>6. Located(e2, l2)
      BY <1>3, <1>7, <2>2, <2>3, <2>4, <2>5 DEF Located, IsPrefix
    <2>7. Place(e2, l2) = Place(entry, l2)
      BY <1>7 DEF Place
    <2> QED BY <1>1, <1>5, <2>1, <2>6, <2>7
  <1>8. CASE l2.seg = <<>> /\ l2.pos > moved
    <2>1. l2.pos \in 1 .. o
      BY <1>3, <1>6, <1>8 DEF Located
    <2>2. PICK f : f = [seg |-> <<>>, pos |-> l2.pos - moved]
      OBVIOUS
    <2>3. f = Followed(entry, l2)
      BY <1>3, <1>8, <2>2 DEF Followed, Locators
    <2>4. l2.pos - moved \in Nat \ {0} /\ l2.pos - moved \in 1 .. o - moved
          /\ (h + moved) + (l2.pos - moved) = h + l2.pos
      BY <1>8, <2>1
    <2>5. f \in Locators(A)
      BY <2>2, <2>4, EmptySeq DEF Locators
    <2>6. Located(e2, f) /\ Place(e2, f) = (h + moved) + (l2.pos - moved)
      BY <1>3, <2>2, <2>4 DEF Located, Place
    <2>7. Place(entry, l2) = h + l2.pos
      BY <1>3, <1>8 DEF Place
    <2> QED BY <1>1, <1>5, <2>3, <2>4, <2>5, <2>6, <2>7
  <1>9. CASE l2.seg = <<>> /\ ~(l2.pos > moved)
    <2>1. l2.pos - 1 \in Nat /\ l2.pos <= moved
      BY <1>6, <1>9
    <2>2. PICK n \in Nat : /\ n = (l2.pos - 1) \div SegmentSize
                           /\ n * SegmentSize <= l2.pos - 1
                           /\ l2.pos - 1 < n * SegmentSize + SegmentSize
      BY <2>1, DivBound, HistoryAssumption
    <2>3. PICK low \in Nat : low = n * SegmentSize
      BY TimesOrder, HistoryAssumption
    <2>2a. PICK q \in Nat \ {0} : q = l2.pos
      BY <1>6
    <2>4. low < moved
      <3>1. low <= q - 1 /\ q <= moved
        BY <2>1, <2>2, <2>3, <2>2a
      <3> QED BY <3>1
    <2>5. n < c
      BY <1>3, <2>3, <2>4, TimesOrder, HistoryAssumption
    <2>6. low + SegmentSize <= moved /\ (n + 1) * SegmentSize = low + SegmentSize
      BY <1>3, <2>3, <2>5, TimesOrder, HistoryAssumption
    <2>7. PICK top \in Nat : top = h + (low + SegmentSize)
      BY HistoryAssumption
    <2>8. top \in 0 .. h + moved /\ top \in 0 .. h + o /\ h + moved \in 0 .. h + o
          /\ h + o \in Nat /\ SegmentSize <= top /\ top <= h + moved
      BY <1>2a, <2>6, <2>7, HistoryAssumption
    <2>9. PICK seg : seg = SubSeq(g, 1, top)
      OBVIOUS
    <2>10. seg \in Seq(A) /\ Len(seg) = top /\ IsPrefix(seg, e2.head)
      <3>1. seg \in Seq(A) /\ Len(seg) = top
        BY <1>4, <2>8, <2>9, PrefixShape
      <3>2. IsPrefix(seg, SubSeq(g, 1, h + moved))
        BY <1>4, <2>8, <2>9, PrefixOfPrefix
      <3> QED BY <1>3, <1>4, <3>1, <3>2
    <2>11. seg = SegmentUpTo(entry, n + 1)
      BY <1>3, <1>4, <2>6, <2>7, <2>9 DEF SegmentUpTo
    <2>12. PICK pos : pos = l2.pos - low
      OBVIOUS
    <2>13. pos \in 1 .. SegmentSize /\ pos \in Nat \ {0}
      <3>1. low <= q - 1 /\ q - 1 < low + SegmentSize /\ pos = q - low
        BY <2>2, <2>3, <2>12, <2>2a
      <3> QED BY <3>1, HistoryAssumption
    <2>14. PICK f : f = [seg |-> seg, pos |-> pos]
      OBVIOUS
    <2>15. f = Followed(entry, l2)
      BY <1>3, <1>9, <2>2, <2>3, <2>11, <2>12, <2>14 DEF Followed
    <2>16. seg # <<>>
      BY <2>8, <2>10, EmptySeq, HistoryAssumption
    <2>17. f \in Locators(A)
      BY <2>10, <2>13, <2>14 DEF Locators
    <2>18. Located(e2, f)
      BY <2>8, <2>10, <2>13, <2>14, <2>16 DEF Located
    <2>19. Place(e2, f) = top - SegmentSize + pos
      BY <2>10, <2>14, <2>16 DEF Place
    <2>20. top - SegmentSize + pos = h + l2.pos
      BY <1>6, <2>7, <2>12, HistoryAssumption
    <2>21. Place(entry, l2) = h + l2.pos
      BY <1>3, <1>9 DEF Place
    <2> QED BY <1>1, <1>5, <2>15, <2>17, <2>18, <2>19, <2>20, <2>21
  <1> QED BY <1>7, <1>8, <1>9

\* The fields of a sealed entry.
LEMMA SealedEntry ==
    ASSUME NEW A, NEW entry \in Entries(A), Indexed(entry)
    PROVE  /\ Sealed(entry) \in Entries(A)
           /\ Len(Sealed(entry).verified) = Len(entry.verified)
           /\ \A k \in 1 .. Len(entry.verified) :
                 Sealed(entry).verified[k] = Followed(entry, entry.verified[k])
  <1>1. PICK e2 : e2 = Sealed(entry)
    OBVIOUS
  <1>2. PICK n \in Nat : n = Len(entry.verified)
    BY LenProperties DEF Entries
  <1>3. entry.verified \in Seq(Locators(A)) /\ DOMAIN entry.verified = 1 .. n
    BY <1>2, LenProperties DEF Entries
  <1>4. PICK v : v = [k \in DOMAIN entry.verified |-> Followed(entry, entry.verified[k])]
    OBVIOUS
  <1>5. PICK hd, op : e2 = [entry EXCEPT !.head = hd, !.open = op, !.verified = v]
    <2>1. Sealed(entry) = [entry EXCEPT
             !.head = SegmentUpTo(entry, Chunks(entry)),
             !.open = SubSeq(@, Chunks(entry) * SegmentSize + 1, Len(@)),
             !.verified = v]
      BY <1>4 DEF Sealed, Followed, Entries
    <2> QED BY <1>1, <2>1
  <1>6. \A k \in 1 .. n : v[k] \in Locators(A)
    <2>1. ASSUME NEW k \in 1 .. n
          PROVE  Followed(entry, entry.verified[k]) \in Locators(A)
      <3>1. PICK loc \in Locators(A) : loc = entry.verified[k]
        BY <1>2, <1>3, ElementOfSeq
      <3>2. Located(entry, loc)
        BY <1>2, <3>1 DEF Indexed
      <3> QED BY <3>1, <3>2, FollowedPlace
    <2> QED BY <1>3, <1>4, <2>1
  <1>7. v \in Seq(Locators(A)) /\ Len(v) = n
    <2>1. v \in [1 .. n -> Locators(A)]
      BY <1>3, <1>4, <1>6
    <2>2. v \in Seq(Locators(A))
      BY <2>1, SeqDef
    <2> QED BY <2>1, <2>2, LenProperties
  <1>8. e2.verified = v /\ e2.head = hd /\ e2.open = op
    BY <1>5 DEF Entries
  <1>9. e2.head \in Seq(A) /\ e2.open \in Seq(A)
    BY <1>1, SealedShape, Zenon
  <1>10. e2 \in Entries(A)
    BY <1>5, <1>7, <1>8, <1>9 DEF Entries
  <1> QED BY <1>1, <1>2, <1>3, <1>4, <1>7, <1>8, <1>10

\* Sealing writes the segments its entry rests on; the index follows.
LEMMA SealedSound ==
    ASSUME NEW A, NEW entry \in Entries(A), NEW stored, Sound(entry, stored)
    PROVE  Sound(Sealed(entry), stored \cup SegmentsWritten(entry))
  <1>1. PICK e2 \in Entries(A) : e2 = Sealed(entry)
    BY SealedEntry DEF Sound
  <1>2. PICK c \in Nat, h \in Nat, o \in Nat, moved \in Nat :
          /\ moved \in 0 .. o
          /\ c = Chunks(entry) /\ moved = c * SegmentSize
          /\ h = Len(entry.head) /\ o = Len(entry.open)
          /\ Sealed(entry).head = SubSeq(HistoryOf(entry), 1, h + moved)
          /\ Len(Sealed(entry).head) = h + moved
    <2>1. PICK c \in Nat, h \in Nat, o \in Nat : \E moved \in 0 .. o :
            /\ c = Chunks(entry) /\ moved = c * SegmentSize
            /\ h = Len(entry.head) /\ o = Len(entry.open)
            /\ Sealed(entry).head = SubSeq(HistoryOf(entry), 1, h + moved)
            /\ Sealed(entry).head \in Seq(A) /\ Len(Sealed(entry).head) = h + moved
            /\ Sealed(entry).open \in Seq(A) /\ Len(Sealed(entry).open) = o - moved
            /\ \A j \in 1 .. o - moved : Sealed(entry).open[j] = entry.open[moved + j]
            /\ Sealed(entry).truncated = entry.truncated
            /\ Sealed(entry).settled = entry.settled
      BY SealedShape, Zenon
    <2>2. 0 .. o \subseteq Nat
      OBVIOUS
    <2> QED BY <2>1, <2>2, Zenon
  <1>2a. moved \in 0 .. o
    BY <1>2
  <1>3. PICK m \in Nat :
          /\ h = m * SegmentSize
          /\ \A n \in 1 .. m : SubSeq(entry.head, 1, n * SegmentSize) \in stored
    BY <1>2 DEF Sound, Chained
  <1>4. PICK g \in Seq(A) :
          /\ g = HistoryOf(entry) /\ Len(g) = h + o /\ \A j \in 1 .. h : g[j] = entry.head[j]
    <2>1. PICK h2 \in Nat, o2 \in Nat :
            /\ h2 = Len(entry.head) /\ o2 = Len(entry.open)
            /\ Len(HistoryOf(entry)) = h2 + o2
            /\ \A j \in 1 .. h2 : HistoryOf(entry)[j] = entry.head[j]
            /\ \A j \in 1 .. o2 : HistoryOf(entry)[h2 + j] = entry.open[j]
      BY HistoryShape
    <2>2. HistoryOf(entry) \in Seq(A)
      BY HistoryShape
    <2>3. h2 = h /\ o2 = o
      BY <1>2, <2>1
    <2> QED BY <2>1, <2>2, <2>3
  <1>5. h + moved = (m + c) * SegmentSize /\ m + c \in Nat
    BY <1>2, <1>3, TimesOrder, HistoryAssumption
  <1>6. ASSUME NEW n \in 1 .. m + c
        PROVE  SubSeq(e2.head, 1, n * SegmentSize) \in stored \cup SegmentsWritten(entry)
    <2>1. PICK u \in Nat : u = n * SegmentSize
      BY TimesOrder, HistoryAssumption
    <2>2. u <= h + moved
      BY <1>5, <2>1, WholeSegments, HistoryAssumption
    <2>3. PICK big \in 0 .. h + o : big = h + moved
      BY <1>2a
    <2>4. SubSeq(e2.head, 1, u) = SubSeq(g, 1, u)
      <3>1. u \in 0 .. big
        BY <2>2, <2>3
      <3>2. PICK k \in Nat : k = h + o /\ k = Len(g) /\ big \in 0 .. k
        BY <1>4, <2>3
      <3>3. SubSeq(SubSeq(g, 1, big), 1, u) = SubSeq(g, 1, u)
        BY <3>1, <3>2, PrefixOfPrefix
      <3>4. e2.head = SubSeq(g, 1, big)
        BY <1>1, <1>2, <1>4, <2>3
      <3> QED BY <3>3, <3>4
    <2>5. CASE n <= m
      <3>1. u <= h
        BY <1>3, <2>1, <2>5, WholeSegments, HistoryAssumption
      <3>2. SubSeq(entry.head, 1, u) = SubSeq(g, 1, u)
        <4>1. PICK hd \in Seq(A) : hd = entry.head
          BY DEF Entries
        <4>2. PICK k \in Nat : k = h + o /\ k = Len(g) /\ h <= k
          BY <1>4
        <4>3. h = Len(hd) /\ \A j \in 1 .. h : g[j] = hd[j]
          BY <1>2, <1>4, <4>1
        <4> QED BY <3>1, <4>1, <4>2, <4>3, SamePrefix
      <3>3. n \in 1 .. m
        BY <2>5
      <3>4. SubSeq(entry.head, 1, u) \in stored
        BY <1>3, <2>1, <3>3
      <3> QED BY <2>1, <2>4, <3>2, <3>4
    <2>6. CASE ~(n <= m)
      <3>1. PICK j \in 1 .. c : n = m + j
        <4>1. n - m \in 1 .. c /\ n = m + (n - m)
          BY <2>6
        <4> QED BY <4>1
      <3>2. u = h + j * SegmentSize
        BY <1>3, <2>1, <3>1, TimesOrder, HistoryAssumption
      <3>3. SubSeq(g, 1, u) = SegmentUpTo(entry, j)
        BY <1>2, <1>4, <3>2 DEF SegmentUpTo
      <3>4. SubSeq(g, 1, u) \in SegmentsWritten(entry)
        BY <1>2, <3>1, <3>3 DEF SegmentsWritten
      <3> QED BY <2>1, <2>4, <3>4
    <2> QED BY <2>5, <2>6
  <1>7. Chained(e2, stored \cup SegmentsWritten(entry))
    <2>1. Len(e2.head) = (m + c) * SegmentSize
      BY <1>1, <1>2, <1>5
    <2> QED BY <1>5, <1>6, <2>1 DEF Chained
  <1>8. HistoryOf(e2) = HistoryOf(entry)
    BY <1>1, SealedShape
  <1>9. PICK l \in Nat : l = Len(entry.verified)
    BY LenProperties DEF Entries
  <1>10. Len(e2.verified) = l /\ \A k \in 1 .. l : e2.verified[k] = Followed(entry, entry.verified[k])
    BY <1>1, <1>9, SealedEntry DEF Sound
  <1>11. ASSUME NEW k \in 1 .. l
         PROVE  /\ Located(e2, e2.verified[k])
                /\ Place(e2, e2.verified[k]) = Place(entry, entry.verified[k])
    <2>1. PICK loc \in Locators(A) : loc = entry.verified[k]
      BY <1>9, ElementOfSeq DEF Entries
    <2>2. Located(entry, loc)
      BY <1>9, <2>1 DEF Sound, Indexed
    <2> QED BY <1>1, <1>10, <2>1, <2>2, FollowedPlace
  <1>12. \A k \in 2 .. l : k \in 1 .. l /\ k - 1 \in 1 .. l
    OBVIOUS
  <1>13. Indexed(e2)
    BY <1>8, <1>9, <1>10, <1>11, <1>12 DEF Sound, Indexed
  <1> QED BY <1>1, <1>7, <1>13 DEF Sound

-----------------------------------------------------------------------------
(* Entries in general. *)

\* An entry stays one, and sound, when more is known and more is stored.
LEMMA EntriesGrow ==
    ASSUME NEW A, NEW B, A \subseteq B, NEW entry \in Entries(A)
    PROVE  entry \in Entries(B)
  <1>1. Locators(A) \subseteq Locators(B)
    <2>1. \A q \in Seq(A) : q \in Seq(B)
      BY SeqMonotonic
    <2> QED BY <2>1 DEF Locators
  <1>2. /\ entry.head \in Seq(A) /\ entry.open \in Seq(A)
        /\ entry.verified \in Seq(Locators(A))
    BY DEF Entries
  <1>3. /\ entry.head \in Seq(B) /\ entry.open \in Seq(B)
        /\ entry.verified \in Seq(Locators(B))
    BY <1>1, <1>2, SeqMonotonic
  <1> QED BY <1>3 DEF Entries

LEMMA SoundGrows ==
    ASSUME NEW entry, NEW stored, NEW more, stored \subseteq more, Sound(entry, stored)
    PROVE  Sound(entry, more)
  BY DEF Sound, Chained

LEMMA NewEntrySound ==
    ASSUME NEW A, NEW stored
    PROVE  NewEntry \in Entries(A) /\ Sound(NewEntry, stored) /\ HistoryOf(NewEntry) = <<>>
  <1>1. <<>> \in Seq(A) /\ <<>> \in Seq(Locators(A)) /\ Len(<<>>) = 0
    BY EmptySeq
  <1>2. NewEntry \in Entries(A)
    BY <1>1 DEF NewEntry, Entries
  <1>3. HistoryOf(NewEntry) = <<>>
    BY <1>1, ConcatEmptySeq DEF HistoryOf, NewEntry
  <1>4. Chained(NewEntry, stored)
    <2>1. 0 * SegmentSize = 0 /\ \A n \in 1 .. 0 : FALSE
      BY HistoryAssumption
    <2>2. Len(NewEntry.head) = 0
      BY <1>1 DEF NewEntry
    <2>3. /\ 0 \in Nat /\ Len(NewEntry.head) = 0 * SegmentSize
          /\ \A n \in 1 .. 0 : SubSeq(NewEntry.head, 1, n * SegmentSize) \in stored
      BY <2>1, <2>2
    <2> QED BY <2>3 DEF Chained
  <1>5. Indexed(NewEntry)
    <2>1. Len(NewEntry.verified) = 0
      BY <1>1 DEF NewEntry
    <2> QED BY <2>1 DEF Indexed
  <1> QED BY <1>2, <1>3, <1>4, <1>5 DEF Sound

\* The newest verified attempt leaves the index.
Withdrawn(entry) == [entry EXCEPT !.verified = Front(@)]

LEMMA WithdrawnSound ==
    ASSUME NEW A, NEW entry \in Entries(A), NEW stored, Sound(entry, stored),
           entry.verified # <<>>
    PROVE  /\ Withdrawn(entry) \in Entries(A)
           /\ Sound(Withdrawn(entry), stored)
           /\ HistoryOf(Withdrawn(entry)) = HistoryOf(entry)
  <1>1. PICK e2 : e2 = Withdrawn(entry)
    OBVIOUS
  <1>2. PICK l \in Nat \ {0} : l = Len(entry.verified)
    BY EmptySeq DEF Entries
  <1>3. PICK v : v = Front(entry.verified)
    OBVIOUS
  <1>4. /\ v \in Seq(Locators(A)) /\ Len(v) = l - 1
        /\ \A k \in 1 .. l - 1 : v[k] = entry.verified[k]
    <2>1. v = SubSeq(entry.verified, 1, l - 1)
      BY <1>2, <1>3 DEF Front
    <2>2. l - 1 \in 0 .. l /\ l \in Nat
      OBVIOUS
    <2>3. PICK w \in Seq(Locators(A)) : w = entry.verified
      BY DEF Entries
    <2>4. PICK m \in 0 .. l : m = l - 1
      OBVIOUS
    <2>5. /\ SubSeq(w, 1, m) \in Seq(Locators(A)) /\ Len(SubSeq(w, 1, m)) = m
          /\ \A k \in 1 .. m : SubSeq(w, 1, m)[k] = w[k]
      BY <1>2, <2>3, PrefixShape
    <2> QED BY <2>1, <2>3, <2>4, <2>5
  <1>5. /\ e2 \in Entries(A) /\ e2.verified = v
        /\ e2.head = entry.head /\ e2.open = entry.open
    BY <1>1, <1>3, <1>4 DEF Withdrawn, Entries
  <1>6. Chained(e2, stored)
    BY <1>5 DEF Sound, Chained
  <1>7. Indexed(e2)
    <2>1. Len(e2.verified) + 0 <= Len(entry.verified)
      BY <1>2, <1>4, <1>5
    <2>2. \A k \in 1 .. Len(e2.verified) : e2.verified[k] = entry.verified[k + 0]
      BY <1>4, <1>5
    <2>3. Indexed(entry)
      BY DEF Sound
    <2> QED BY <1>5, <2>1, <2>2, <2>3, ShorterIndex
  <1>8. HistoryOf(e2) = HistoryOf(entry)
    BY <1>5 DEF HistoryOf
  <1> QED BY <1>1, <1>5, <1>6, <1>7, <1>8 DEF Sound

-----------------------------------------------------------------------------
(* What may become of a history while its issuer is served. *)

\* One attempt later: appended, or in the place of a wait that came last and was
\* about the same event or about none.
Later(A, h, h2) ==
    \/ h2 = h
    \/ \E a \in A : h2 = Append(h, a)
    \/ \E a \in A :
              /\ h # <<>> /\ Last(h).outcome = "WAITING"
              /\ Last(h).key.event \in {NoDoc, a.key.event}
              /\ h2 = Append(Front(h), a)

\* The events attempts of a history are about.
Events(h) == {h[j].key.event : j \in 1 .. Len(h)} \ {NoDoc}

\* Nothing of the published history is lost, a wait that came last apart.
Stays(old, h) ==
    \/ IsPrefix(old, h)
    \/ /\ old # <<>> /\ Last(old).outcome = "WAITING"
       /\ h # <<>> /\ IsPrefix(Front(old), Front(h))

LEMMA PrefixMeans ==
    ASSUME NEW A, NEW s \in Seq(A), NEW t \in Seq(A)
    PROVE  IsPrefix(s, t) <=>
              \E n \in Nat, l \in Nat : /\ n = Len(s) /\ l = Len(t) /\ n <= l
                                        /\ \A j \in 1 .. n : s[j] = t[j]
  <1>1. PICK n \in Nat, l \in Nat : n = Len(s) /\ l = Len(t)
    BY LenProperties
  <1>2. SubSeq(s, 1, n) = s
    BY <1>1, SubSeqFull
  <1>3. ASSUME n <= l
        PROVE  SubSeq(s, 1, n) = SubSeq(t, 1, n) <=> \A j \in 1 .. n : s[j] = t[j]
    <2>1. n \in 0 .. l
      BY <1>3
    <2>2. PICK u : u = SubSeq(t, 1, n)
      OBVIOUS
    <2>3. u \in Seq(A) /\ Len(u) = n /\ \A j \in 1 .. n : u[j] = t[j]
      BY <1>1, <2>1, <2>2, PrefixShape
    <2>4. ASSUME \A j \in 1 .. n : s[j] = t[j] PROVE s = u
      BY <1>1, <2>3, <2>4, SeqEqual
    <2>5. s = u => \A j \in 1 .. n : s[j] = t[j]
      BY <2>3
    <2> QED BY <1>2, <2>2, <2>4, <2>5
  <1>4. IsPrefix(s, t) <=> n <= l /\ SubSeq(s, 1, n) = SubSeq(t, 1, n)
    BY <1>1 DEF IsPrefix
  <1> QED BY <1>1, <1>3, <1>4

LEMMA PrefixSelf ==
    ASSUME NEW A, NEW s \in Seq(A)
    PROVE  IsPrefix(s, s)
  <1>1. PICK n \in Nat : n = Len(s)
    BY LenProperties
  <1>2. n <= n
    OBVIOUS
  <1> QED BY <1>1, <1>2, PrefixMeans

LEMMA PrefixTransitive ==
    ASSUME NEW A, NEW s \in Seq(A), NEW t \in Seq(A), NEW u \in Seq(A),
           IsPrefix(s, t), IsPrefix(t, u)
    PROVE  IsPrefix(s, u)
  <1>1. PICK n \in Nat, l \in Nat : /\ n = Len(s) /\ l = Len(t) /\ n <= l
                                    /\ \A j \in 1 .. n : s[j] = t[j]
    BY PrefixMeans
  <1>2. PICK k \in Nat, m \in Nat : /\ k = Len(t) /\ m = Len(u) /\ k <= m
                                    /\ \A j \in 1 .. k : t[j] = u[j]
    BY PrefixMeans
  <1>3. n <= m /\ \A j \in 1 .. n : j \in 1 .. k
    BY <1>1, <1>2
  <1>4. \A j \in 1 .. n : s[j] = u[j]
    BY <1>1, <1>2, <1>3
  <1> QED BY <1>1, <1>2, <1>3, <1>4, PrefixMeans

LEMMA FrontShape ==
    ASSUME NEW A, NEW s \in Seq(A), s # <<>>
    PROVE  \E n \in Nat :
              /\ Len(s) = n + 1 /\ Front(s) \in Seq(A) /\ Len(Front(s)) = n
              /\ \A j \in 1 .. n : Front(s)[j] = s[j]
              /\ Last(s) = s[n + 1] /\ Last(s) \in A
  <1>1. PICK l \in Nat \ {0} : l = Len(s)
    BY EmptySeq
  <1>2. PICK n \in 0 .. l : n + 1 = l /\ n = l - 1
    <2>1. l - 1 \in 0 .. l /\ (l - 1) + 1 = l
      OBVIOUS
    <2> QED BY <2>1
  <1>3. n \in Nat /\ l \in Nat
    OBVIOUS
  <1>4. PICK f : f = SubSeq(s, 1, n)
    OBVIOUS
  <1>5. f \in Seq(A) /\ Len(f) = n /\ \A j \in 1 .. n : f[j] = s[j]
    BY <1>1, <1>3, <1>4, PrefixShape
  <1>6. f = Front(s)
    BY <1>1, <1>2, <1>4 DEF Front
  <1>7. Last(s) = s[l] /\ s[l] \in A
    <2>1. l \in 1 .. l
      OBVIOUS
    <2> QED BY <1>1, <2>1, ElementOfSeq DEF Last
  <1> QED BY <1>1, <1>2, <1>3, <1>5, <1>6, <1>7

LEMMA FrontOfAppend ==
    ASSUME NEW A, NEW s \in Seq(A), NEW a \in A
    PROVE  /\ Append(s, a) \in Seq(A) /\ Append(s, a) # <<>>
           /\ Front(Append(s, a)) = s /\ Last(Append(s, a)) = a
           /\ IsPrefix(s, Append(s, a))
  <1>1. PICK t : t = Append(s, a)
    OBVIOUS
  <1>2. PICK n \in Nat : n = Len(s)
    BY LenProperties
  <1>3. /\ t \in Seq(A) /\ t # <<>> /\ Len(t) = n + 1
        /\ \A j \in 1 .. n : t[j] = s[j]
        /\ t[n + 1] = a
    BY <1>1, <1>2, AppendProperties
  <1>4. PICK m \in Nat : /\ Len(t) = m + 1 /\ Front(t) \in Seq(A) /\ Len(Front(t)) = m
                         /\ \A j \in 1 .. m : Front(t)[j] = t[j]
                         /\ Last(t) = t[m + 1]
    BY <1>3, FrontShape
  <1>5. m = n
    BY <1>3, <1>4
  <1>6. Front(t) = s
    <2>1. PICK f \in Seq(A) : f = Front(t)
      BY <1>4
    <2>2. Len(f) = n /\ Len(s) = n /\ \A j \in 1 .. n : f[j] = s[j]
      BY <1>2, <1>3, <1>4, <1>5, <2>1
    <2> QED BY <2>1, <2>2, SeqEqual
  <1>7. IsPrefix(s, t)
    <2>1. PICK k \in Nat : k = Len(t) /\ n <= k
      BY <1>3
    <2> QED BY <1>2, <1>3, <2>1, PrefixMeans
  <1> QED BY <1>1, <1>3, <1>4, <1>5, <1>6, <1>7

\* A history without its last attempt is a prefix of it.
LEMMA FrontIsPrefix ==
    ASSUME NEW A, NEW s \in Seq(A), s # <<>>
    PROVE  Front(s) \in Seq(A) /\ IsPrefix(Front(s), s)
  <1>1. PICK n \in Nat :
              /\ Len(s) = n + 1 /\ Front(s) \in Seq(A) /\ Len(Front(s)) = n
              /\ \A j \in 1 .. n : Front(s)[j] = s[j]
    BY FrontShape
  <1>2. PICK k \in Nat : k = Len(s) /\ n <= k
    BY <1>1
  <1> QED BY <1>1, <1>2, PrefixMeans

\* A proper prefix does not reach the last attempt.
LEMMA PrefixOrWhole ==
    ASSUME NEW A, NEW s \in Seq(A), NEW t \in Seq(A), IsPrefix(s, t), t # <<>>
    PROVE  s = t \/ IsPrefix(s, Front(t))
  <1>1. PICK n \in Nat, l \in Nat : /\ n = Len(s) /\ l = Len(t) /\ n <= l
                                    /\ \A j \in 1 .. n : s[j] = t[j]
    BY PrefixMeans
  <1>2. CASE n = l
    BY <1>1, <1>2, SeqEqual
  <1>3. CASE n # l
    <2>1. PICK m \in Nat :
              /\ Len(t) = m + 1 /\ Front(t) \in Seq(A) /\ Len(Front(t)) = m
              /\ \A j \in 1 .. m : Front(t)[j] = t[j]
      BY FrontShape
    <2>2. n <= m /\ \A j \in 1 .. n : j \in 1 .. m
      BY <1>1, <1>3, <2>1
    <2>3. PICK f \in Seq(A) : f = Front(t)
      BY <2>1
    <2>4. m = Len(f) /\ \A j \in 1 .. n : s[j] = f[j]
      BY <1>1, <2>1, <2>2, <2>3
    <2> QED BY <1>1, <2>2, <2>3, <2>4, PrefixMeans
  <1> QED BY <1>2, <1>3

\* What stays stays, and the recorded events with it, one attempt later.
LEMMA LaterStays ==
    ASSUME NEW A, NEW old \in Seq(A), NEW h \in Seq(A), NEW h2,
           Stays(old, h), Later(A, h, h2)
    PROVE  h2 \in Seq(A) /\ Stays(old, h2)
  <1>1. CASE h2 = h
    BY <1>1
  <1>2. ASSUME NEW a \in A, h2 = Append(h, a)
        PROVE  h2 \in Seq(A) /\ Stays(old, h2)
    <2>1. h2 \in Seq(A) /\ h2 # <<>> /\ Front(h2) = h /\ IsPrefix(h, h2)
      BY <1>2, FrontOfAppend
    <2>2. CASE IsPrefix(old, h)
      BY <2>1, <2>2, PrefixTransitive DEF Stays
    <2>3. CASE /\ old # <<>> /\ Last(old).outcome = "WAITING"
               /\ h # <<>> /\ IsPrefix(Front(old), Front(h))
      <3>1. PICK fo \in Seq(A), fh \in Seq(A) : fo = Front(old) /\ fh = Front(h)
        BY <2>3, FrontIsPrefix
      <3>2. IsPrefix(fo, fh) /\ IsPrefix(fh, h)
        BY <2>3, <3>1, FrontIsPrefix
      <3>3. IsPrefix(fo, h)
        BY <3>2, PrefixTransitive
      <3> QED BY <2>1, <2>3, <3>1, <3>3 DEF Stays
    <2> QED BY <2>1, <2>2, <2>3 DEF Stays
  <1>3. ASSUME NEW a \in A, h # <<>>, Last(h).outcome = "WAITING", h2 = Append(Front(h), a)
        PROVE  h2 \in Seq(A) /\ Stays(old, h2)
    <2>1. PICK fh \in Seq(A) : fh = Front(h)
      BY <1>3, FrontIsPrefix
    <2>2. h2 \in Seq(A) /\ h2 # <<>> /\ Front(h2) = fh /\ IsPrefix(fh, h2)
      BY <1>3, <2>1, FrontOfAppend
    <2>3. CASE IsPrefix(old, h)
      <3>1. CASE old = h
        BY <1>3, <2>1, <2>2, <3>1, PrefixSelf DEF Stays
      <3>2. CASE IsPrefix(old, Front(h))
        <4>1. IsPrefix(old, fh)
          BY <2>1, <3>2
        <4> QED BY <2>2, <4>1, PrefixTransitive DEF Stays
      <3> QED BY <1>3, <2>3, <3>1, <3>2, PrefixOrWhole
    <2>4. CASE /\ old # <<>> /\ Last(old).outcome = "WAITING"
               /\ h # <<>> /\ IsPrefix(Front(old), Front(h))
      BY <2>1, <2>2, <2>4 DEF Stays
    <2> QED BY <2>2, <2>3, <2>4 DEF Stays
  <1> QED BY <1>1, <1>2, <1>3 DEF Later

LEMMA LaterEvents ==
    ASSUME NEW A, NEW h \in Seq(A), NEW h2, Later(A, h, h2)
    PROVE  Events(h) \subseteq Events(h2)
  <1>1. CASE h2 = h
    BY <1>1
  <1>2. ASSUME NEW s \in Seq(A), NEW a \in A, h2 = Append(s, a)
        PROVE  a.key.event \in {NoDoc} \cup Events(h2) /\ Events(s) \subseteq Events(h2)
    <2>1. PICK n \in Nat : n = Len(s)
      BY LenProperties
    <2>2. /\ Len(h2) = n + 1 /\ h2[n + 1] = a /\ \A j \in 1 .. n : h2[j] = s[j]
      BY <1>2, <2>1, AppendProperties
    <2>3. n + 1 \in 1 .. n + 1 /\ \A j \in 1 .. n : j \in 1 .. n + 1
      OBVIOUS
    <2>4. Events(h2) = {h2[j].key.event : j \in 1 .. n + 1} \ {NoDoc}
      BY <2>2 DEF Events
    <2>5. Events(s) = {s[j].key.event : j \in 1 .. n} \ {NoDoc}
      BY <2>1 DEF Events
    <2> QED BY <2>2, <2>3, <2>4, <2>5
  <1>3. ASSUME NEW a \in A, h # <<>>, Last(h).key.event \in {NoDoc, a.key.event},
               h2 = Append(Front(h), a)
        PROVE  Events(h) \subseteq Events(h2)
    <2>1. PICK n \in Nat :
              /\ Len(h) = n + 1 /\ Front(h) \in Seq(A) /\ Len(Front(h)) = n
              /\ \A j \in 1 .. n : Front(h)[j] = h[j]
              /\ Last(h) = h[n + 1]
      BY <1>3, FrontShape
    <2>2. PICK f \in Seq(A) : f = Front(h)
      BY <2>1
    <2>3. a.key.event \in {NoDoc} \cup Events(h2) /\ Events(f) \subseteq Events(h2)
      BY <1>2, <1>3, <2>2
    <2>4. Events(f) = {h[j].key.event : j \in 1 .. n} \ {NoDoc}
      BY <2>1, <2>2 DEF Events
    <2>5. Events(h) = {h[j].key.event : j \in 1 .. n + 1} \ {NoDoc}
      BY <2>1 DEF Events
    <2>6. \A j \in 1 .. n + 1 : j \in 1 .. n \/ j = n + 1
      OBVIOUS
    <2> QED BY <1>3, <2>1, <2>3, <2>4, <2>5, <2>6
  <1> QED BY <1>1, <1>2, <1>3 DEF Later

LEMMA LastEvent ==
    ASSUME NEW A, NEW h \in Seq(A), h # <<>>
    PROVE  Last(h).key.event \in {NoDoc} \cup Events(h)
  <1>1. PICK n \in Nat : Len(h) = n + 1 /\ Last(h) = h[n + 1]
    BY FrontShape
  <1>2. n + 1 \in 1 .. n + 1
    OBVIOUS
  <1> QED BY <1>1, <1>2 DEF Events

\* An attempt appended to an entry, or in the place of the wait that came last.
LEMMA AppendedLater ==
    ASSUME NEW A, NEW entry \in Entries(A), NEW a \in A, NEW stored,
           a.key.event \in Results \cup {NoDoc}, Sound(entry, stored)
    PROVE  /\ Appended(entry, a) \in Entries(A) /\ Sound(Appended(entry, a), stored)
           /\ Later(A, HistoryOf(entry), HistoryOf(Appended(entry, a)))
           /\ a.key.event \in {NoDoc} \cup Events(HistoryOf(Appended(entry, a)))
  <1>1. /\ Appended(entry, a) \in Entries(A) /\ Sound(Appended(entry, a), stored)
        /\ HistoryOf(Appended(entry, a)) = Append(HistoryOf(entry), a)
    BY AppendedShape, AppendedSound
  <1>2. PICK h \in Seq(A) : h = HistoryOf(entry)
    BY HistoryShape
  <1>3. Append(h, a) \in Seq(A) /\ Append(h, a) # <<>> /\ Last(Append(h, a)) = a
    BY FrontOfAppend
  <1>4. PICK h2 \in Seq(A) : h2 = Append(h, a)
    BY <1>3
  <1>5. a.key.event \in {NoDoc} \cup Events(h2)
    BY <1>3, <1>4, LastEvent
  <1> QED BY <1>1, <1>2, <1>4, <1>5 DEF Later

LEMMA ReplacedLater ==
    ASSUME NEW A, NEW entry \in Entries(A), NEW a \in A, NEW stored,
           a.key.event \in Results \cup {NoDoc}, Sound(entry, stored),
           entry.open # <<>>, Last(entry.open).outcome = "WAITING",
           Last(entry.open).key.event \in {NoDoc, a.key.event}
    PROVE  /\ Appended(Dropped(entry), a) \in Entries(A)
           /\ Sound(Appended(Dropped(entry), a), stored)
           /\ Later(A, HistoryOf(entry), HistoryOf(Appended(Dropped(entry), a)))
           /\ a.key.event \in {NoDoc} \cup Events(HistoryOf(Appended(Dropped(entry), a)))
  <1>1. PICK e1 \in Entries(A) : e1 = Dropped(entry)
    BY DroppedShape
  <1>2. /\ Sound(e1, stored) /\ HistoryOf(e1) = Front(HistoryOf(entry))
        /\ HistoryOf(entry) # <<>> /\ Last(HistoryOf(entry)) = Last(entry.open)
    BY <1>1, DroppedShape, DroppedSound
  <1>3. /\ Appended(e1, a) \in Entries(A) /\ Sound(Appended(e1, a), stored)
        /\ a.key.event \in {NoDoc} \cup Events(HistoryOf(Appended(e1, a)))
    BY <1>2, AppendedLater
  <1>4. HistoryOf(Appended(e1, a)) = Append(Front(HistoryOf(entry)), a)
    BY <1>2, AppendedShape
  <1> QED BY <1>1, <1>2, <1>3, <1>4 DEF Later

\* The wait an attempt supersedes leaves it its captures if it waits as well.
Merged(entry, a) ==
    [a EXCEPT !.caps = IF a.outcome = "WAITING" THEN WithCaptures(a.caps, Last(entry.open).caps)
                       ELSE a.caps]

LEMMA RecordedLater ==
    ASSUME NEW A, NEW entry \in Entries(A), NEW a \in A, NEW stored,
           a.key.event \in Results \cup {NoDoc}, Sound(entry, stored),
           Waits(entry, a.key) => Merged(entry, a) \in A /\ Merged(entry, a).key = a.key
    PROVE  /\ Recorded(entry, a) \in Entries(A) /\ Sound(Recorded(entry, a), stored)
           /\ Later(A, HistoryOf(entry), HistoryOf(Recorded(entry, a)))
           /\ a.key.event \in {NoDoc} \cup Events(HistoryOf(Recorded(entry, a)))
  <1>1. CASE ~Waits(entry, a.key)
    <2>1. Recorded(entry, a) = Appended(entry, a)
      BY <1>1 DEF Recorded
    <2> QED BY <2>1, AppendedLater
  <1>2. CASE Waits(entry, a.key)
    <2>1. PICK b \in A : b = Merged(entry, a) /\ b.key = a.key
      BY <1>2
    <2>2. /\ entry.open # <<>> /\ Last(entry.open).outcome = "WAITING"
          /\ Last(entry.open).key = a.key
      BY <1>2 DEF Waits
    <2>3. Recorded(entry, a) = entry \/ Recorded(entry, a) = Appended(Dropped(entry), b)
      BY <1>2, <2>1 DEF Recorded, Merged, Dropped
    <2>4. CASE Recorded(entry, a) = entry
      <3>1. PICK h \in Seq(A) : h = HistoryOf(entry)
        BY HistoryShape
      <3>2. h # <<>> /\ Last(h).key = a.key
        BY <2>2, <3>1, DroppedShape
      <3>3. a.key.event \in {NoDoc} \cup Events(h)
        BY <3>2, LastEvent
      <3> QED BY <2>4, <3>1, <3>3 DEF Later
    <2>5. CASE Recorded(entry, a) = Appended(Dropped(entry), b)
      BY <2>1, <2>2, <2>5, ReplacedLater
    <2> QED BY <2>3, <2>4, <2>5
  <1> QED BY <1>1, <1>2

\* An open attempt is one of the history.
LEMMA OpenEvents ==
    ASSUME NEW A, NEW entry \in Entries(A), NEW k \in DOMAIN entry.open
    PROVE  entry.open[k].key.event \in {NoDoc} \cup Events(HistoryOf(entry))
  <1>1. PICK h \in Nat, o \in Nat :
          /\ h = Len(entry.head) /\ o = Len(entry.open)
          /\ Len(HistoryOf(entry)) = h + o
          /\ \A j \in 1 .. h : HistoryOf(entry)[j] = entry.head[j]
          /\ \A j \in 1 .. o : HistoryOf(entry)[h + j] = entry.open[j]
    BY HistoryShape
  <1>2. k \in 1 .. o
    BY <1>1, LenProperties DEF Entries
  <1>3. h + k \in 1 .. h + o
    BY <1>2
  <1> QED BY <1>1, <1>2, <1>3 DEF Events

=============================================================================
