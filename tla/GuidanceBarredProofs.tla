------------------------ MODULE GuidanceBarredProofs ------------------------
(***************************************************************************)
(* A record is never used past a later document: OldNumbersBarred, for any *)
(* issuers, documents, identities and limits under which the releases are  *)
(* in order and the verifiers let older readings stand.                    *)
(*                                                                         *)
(* Whether the bar holds is decided by verified attempts that the index of *)
(* a history may no longer locate.  The invariant says what becomes of     *)
(* them: the located events ascend in days, and a verified event that is   *)
(* not located was refused by a later identity or is older than all that   *)
(* are.  So whatever was verified after the producer in force is listed    *)
(* after it in every row the checker keeps, and that row bars the record.  *)
(***************************************************************************)
EXTENDS GuidanceUpdateProofs

\* The events a history verified, and those its index locates, in order.
VerifiedEvents(h) == {h[j].key.event : j \in {m \in 1 .. Len(h) : h[m].outcome = "VERIFIED"}}
TailEvents(entry) ==
    [k \in 1 .. Len(entry.verified) |-> AttemptAt(entry, entry.verified[k]).key.event]

\* They ascend in days.
Ascending(t) == \A j, k \in 1 .. Len(t) : j < k => Day[t[j]] < Day[t[k]]

\* An identity up to id refuses the event after one read it.
Refuted(e, id) == \E v \in 1 .. id : Withdraws(v, e)

\* A verified event is located, or refuted, or older than all that are located.
Explained(t, V, cut, id) ==
    \A f \in V :
        \/ \E k \in 1 .. Len(t) : f = t[k]
        \/ Refuted(f, id)
        \/ cut /\ t # <<>> /\ \A k \in 1 .. Len(t) : Day[f] < Day[t[k]]

-----------------------------------------------------------------------------
(* Ascending sequences of events. *)

\* The days are numbers.
LEMMA DaysAre == \A e \in Results : Day[e] \in Nat /\ Day[e] >= 1
  BY HistoryAssumption

\* What appending and dropping the first do, place by place.
LEMMA AppendShape ==
    ASSUME NEW A, NEW s \in Seq(A), NEW a \in A
    PROVE  \E l \in Nat :
              /\ l = Len(s) /\ Append(s, a) \in Seq(A) /\ Len(Append(s, a)) = l + 1
              /\ Append(s, a) # <<>>
              /\ \A k \in 1 .. l : Append(s, a)[k] = s[k]
              /\ Append(s, a)[l + 1] = a
  <1>1. PICK l \in Nat : l = Len(s)
    BY LenProperties
  <1> QED BY <1>1, AppendProperties

LEMMA TailShape ==
    ASSUME NEW A, NEW s \in Seq(A), s # <<>>
    PROVE  \E l \in Nat :
              /\ l + 1 = Len(s) /\ Tail(s) \in Seq(A) /\ Len(Tail(s)) = l
              /\ \A k \in 1 .. l : Tail(s)[k] = s[k + 1]
  <1>1. PICK n \in Nat : n = Len(s) /\ n # 0
    BY LenProperties, EmptySeq
  <1>2. PICK l \in Nat : l = n - 1 /\ l + 1 = n
    <2>1. n - 1 \in Nat /\ (n - 1) + 1 = n
      BY <1>1
    <2> QED BY <2>1
  <1>3. Tail(s) \in Seq(A) /\ Len(Tail(s)) = l
    BY <1>1, <1>2, HeadTailProperties
  <1> QED BY <1>1, <1>2, <1>3, HeadTailProperties

\* The first of them may leave: it is older than the rest.
LEMMA CutTail ==
    ASSUME NEW t \in Seq(Results), t # <<>>, Tail(t) # <<>>, NEW V, NEW cut, NEW id,
           Ascending(t), Explained(t, V, cut, id)
    PROVE  Ascending(Tail(t)) /\ Explained(Tail(t), V, TRUE, id)
  <1>0. PICK u \in Seq(Results) : u = Tail(t)
    BY HeadTailProperties
  <1>1. PICK l \in Nat :
          /\ l + 1 = Len(t) /\ u = Tail(t) /\ Len(u) = l
          /\ \A k \in 1 .. l : u[k] = t[k + 1]
    BY <1>0, TailShape
  <1>2. /\ \A k \in 1 .. l : k + 1 \in 1 .. l + 1
        /\ 1 \in 1 .. l + 1
    OBVIOUS
  <1>3. \A k \in 1 .. l + 1 : Day[t[k]] \in Nat
    BY <1>1, DaysAre, ElementOfSeq
  <1>4. Ascending(u)
    <2> SUFFICES ASSUME NEW j \in 1 .. l, NEW k \in 1 .. l, j < k
                 PROVE  Day[u[j]] < Day[u[k]]
      BY <1>1 DEF Ascending
    <2>1. j + 1 \in 1 .. l + 1 /\ k + 1 \in 1 .. l + 1 /\ j + 1 < k + 1
      OBVIOUS
    <2> QED BY <1>1, <2>1 DEF Ascending
  <1>5. ASSUME NEW f \in V
        PROVE  \/ \E k \in 1 .. l : f = u[k]
               \/ Refuted(f, id)
               \/ \A k \in 1 .. l : Day[f] < Day[u[k]]
    <2>1. CASE \E k \in 1 .. l + 1 : f = t[k]
      <3>1. PICK k \in 1 .. l + 1 : f = t[k]
        BY <2>1
      <3>2. CASE k = 1
        <4>1. ASSUME NEW j \in 1 .. l PROVE Day[f] < Day[u[j]]
          <5>1. j + 1 \in 1 .. l + 1 /\ 1 < j + 1
            OBVIOUS
          <5> QED BY <1>1, <1>2, <3>1, <3>2, <5>1 DEF Ascending
        <4> QED BY <4>1
      <3>3. CASE k # 1
        <4>1. k - 1 \in 1 .. l /\ (k - 1) + 1 = k
          BY <3>3
        <4> QED BY <1>1, <3>1, <4>1
      <3> QED BY <3>2, <3>3
    <2>2. CASE Refuted(f, id)
      BY <2>2
    <2>3. CASE \A k \in 1 .. l + 1 : Day[f] < Day[t[k]]
      BY <1>1, <1>2, <2>3
    <2> QED BY <1>1, <2>1, <2>2, <2>3 DEF Explained
  <1> QED BY <1>1, <1>4, <1>5 DEF Explained

\* A later event may join them.
LEMMA GrownTail ==
    ASSUME NEW t \in Seq(Results), NEW e \in Results, NEW V, NEW cut \in BOOLEAN, NEW id,
           Ascending(t), \A k \in 1 .. Len(t) : Day[t[k]] < Day[e],
           \A f \in V : \/ f = e \/ \E k \in 1 .. Len(t) : f = t[k]
                        \/ Refuted(f, id)
                        \/ cut /\ t # <<>> /\ \A k \in 1 .. Len(t) : Day[f] < Day[t[k]],
           V \subseteq Results
    PROVE  /\ Append(t, e) \in Seq(Results)
           /\ Ascending(Append(t, e)) /\ Explained(Append(t, e), V \cup {e}, cut, id)
  <1>0. PICK u \in Seq(Results) : u = Append(t, e)
    BY AppendProperties
  <1>1. PICK l \in Nat :
          /\ l = Len(t) /\ u = Append(t, e) /\ Len(u) = l + 1 /\ u # <<>>
          /\ \A k \in 1 .. l : u[k] = t[k]
          /\ u[l + 1] = e
    BY <1>0, AppendShape
  <1>2. \A k \in 1 .. l : Day[t[k]] \in Nat
    BY <1>1, DaysAre, ElementOfSeq
  <1>3. \A k \in 1 .. l + 1 : k \in 1 .. l \/ k = l + 1
    OBVIOUS
  <1>4. Ascending(u)
    <2> SUFFICES ASSUME NEW j \in 1 .. l + 1, NEW k \in 1 .. l + 1, j < k
                 PROVE  Day[u[j]] < Day[u[k]]
      BY <1>1 DEF Ascending
    <2>1. j \in 1 .. l
      OBVIOUS
    <2> QED BY <1>1, <1>3, <2>1 DEF Ascending
  <1>5. ASSUME NEW f \in V \cup {e}
        PROVE  \/ \E k \in 1 .. l + 1 : f = u[k]
               \/ Refuted(f, id)
               \/ cut /\ \A k \in 1 .. l + 1 : Day[f] < Day[u[k]]
    <2>1. CASE f = e
      <3>1. l + 1 \in 1 .. l + 1
        OBVIOUS
      <3> QED BY <1>1, <2>1, <3>1
    <2>2. CASE \E k \in 1 .. l : f = t[k]
      <3>1. PICK k \in 1 .. l : f = t[k]
        BY <2>2
      <3>2. k \in 1 .. l + 1
        OBVIOUS
      <3> QED BY <1>1, <3>1, <3>2
    <2>3. CASE Refuted(f, id)
      BY <2>3
    <2>4. CASE f \in V /\ cut /\ t # <<>> /\ \A k \in 1 .. l : Day[f] < Day[t[k]]
      <3>1. 1 \in 1 .. l
        BY <1>1, <2>4, EmptySeq
      <3>2. Day[f] \in Nat /\ Day[e] \in Nat
        BY <2>4, DaysAre
      <3>3. Day[f] < Day[e]
        BY <1>1, <1>2, <2>4, <3>1, <3>2
      <3>4. \A k \in 1 .. l + 1 : Day[f] < Day[u[k]]
        BY <1>1, <1>3, <2>4, <3>3
      <3> QED BY <2>4, <3>4
    <2> QED BY <1>1, <2>1, <2>2, <2>3, <2>4
  <1> QED BY <1>1, <1>4, <1>5 DEF Explained

\* What a front of them is.
LEMMA FrontTail ==
    ASSUME NEW t \in Seq(Results), t # <<>>, Ascending(t)
    PROVE  \E n \in Nat :
              /\ Len(t) = n + 1 /\ Front(t) \in Seq(Results) /\ Len(Front(t)) = n
              /\ \A k \in 1 .. n : Front(t)[k] = t[k]
              /\ Last(t) = t[n + 1] /\ Last(t) \in Results
              /\ Ascending(Front(t))
              /\ \A k \in 1 .. n : Day[Front(t)[k]] < Day[Last(t)]
  <1>1. PICK n \in Nat :
           /\ Len(t) = n + 1 /\ Front(t) \in Seq(Results) /\ Len(Front(t)) = n
           /\ \A k \in 1 .. n : Front(t)[k] = t[k]
           /\ Last(t) = t[n + 1] /\ Last(t) \in Results
    BY FrontShape
  <1>2. \A k \in 1 .. n : k \in 1 .. n + 1 /\ n + 1 \in 1 .. n + 1 /\ k < n + 1
    OBVIOUS
  <1>3. \A k \in 1 .. n : Day[Front(t)[k]] < Day[Last(t)]
    BY <1>1, <1>2 DEF Ascending
  <1>4. Ascending(Front(t))
    BY <1>1, <1>2 DEF Ascending
  <1> QED BY <1>1, <1>3, <1>4

-----------------------------------------------------------------------------
(* The verified events of a history. *)

LEMMA VerifiedAre ==
    ASSUME NEW A, NEW h \in Seq(A), NEW e
    PROVE  /\ e \in VerifiedEvents(h) =>
                 \E j \in 1 .. Len(h) : h[j] \in A /\ h[j].outcome = "VERIFIED" /\ h[j].key.event = e
           /\ (\E j \in 1 .. Len(h) : h[j].outcome = "VERIFIED" /\ h[j].key.event = e) =>
                 e \in VerifiedEvents(h)
  BY ElementOfSeq DEF VerifiedEvents

\* An attempt more.
LEMMA VerifiedOfAppend ==
    ASSUME NEW A, NEW h \in Seq(A), NEW a \in A
    PROVE  VerifiedEvents(Append(h, a)) =
               VerifiedEvents(h) \cup (IF a.outcome = "VERIFIED" THEN {a.key.event} ELSE {})
  <1>1. PICK h2 : h2 = Append(h, a)
    OBVIOUS
  <1>2. PICK l \in Nat :
          /\ l = Len(h) /\ Len(h2) = l + 1
          /\ \A k \in 1 .. l : h2[k] = h[k]
          /\ h2[l + 1] = a
    BY <1>1, AppendShape
  <1>3. \A k \in 1 .. l + 1 : k \in 1 .. l \/ k = l + 1
    OBVIOUS
  <1>4. \A k \in 1 .. l : k \in 1 .. l + 1
    OBVIOUS
  <1>5. l + 1 \in 1 .. l + 1
    OBVIOUS
  <1> QED BY <1>1, <1>2, <1>3, <1>4, <1>5 DEF VerifiedEvents

\* The last one dropped, when it is not verified.
LEMMA VerifiedOfFront ==
    ASSUME NEW A, NEW h \in Seq(A), h # <<>>, Last(h).outcome # "VERIFIED"
    PROVE  VerifiedEvents(Front(h)) = VerifiedEvents(h)
  <1>1. PICK n \in Nat :
          /\ Len(h) = n + 1 /\ Len(Front(h)) = n
          /\ \A j \in 1 .. n : Front(h)[j] = h[j]
          /\ Last(h) = h[n + 1]
    BY FrontShape
  <1>2. \A k \in 1 .. n + 1 : k \in 1 .. n \/ k = n + 1
    OBVIOUS
  <1>3. \A k \in 1 .. n : k \in 1 .. n + 1
    OBVIOUS
  <1> QED BY <1>1, <1>2, <1>3 DEF VerifiedEvents

\* A longer history.
LEMMA VerifiedOfPrefix ==
    ASSUME NEW A, NEW s \in Seq(A), NEW t \in Seq(A), IsPrefix(s, t)
    PROVE  VerifiedEvents(s) \subseteq VerifiedEvents(t)
  <1>1. PICK n \in Nat, l \in Nat : /\ n = Len(s) /\ l = Len(t) /\ n <= l
                                    /\ \A j \in 1 .. n : s[j] = t[j]
    BY PrefixMeans
  <1>2. \A j \in 1 .. n : j \in 1 .. l
    BY <1>1
  <1> QED BY <1>1, <1>2 DEF VerifiedEvents

\* What a history verified stays verified in what becomes of it.
LEMMA VerifiedStays ==
    ASSUME NEW A, NEW old \in Seq(A), NEW h \in Seq(A), Stays(old, h)
    PROVE  VerifiedEvents(old) \subseteq VerifiedEvents(h)
  <1>1. CASE IsPrefix(old, h)
    BY <1>1, VerifiedOfPrefix
  <1>2. CASE /\ old # <<>> /\ Last(old).outcome = "WAITING"
             /\ h # <<>> /\ IsPrefix(Front(old), Front(h))
    <2>1. VerifiedEvents(old) = VerifiedEvents(Front(old))
      BY <1>2, VerifiedOfFront
    <2>2. Front(old) \in Seq(A) /\ Front(h) \in Seq(A)
      BY <1>2, FrontIsPrefix
    <2>3. VerifiedEvents(Front(old)) \subseteq VerifiedEvents(Front(h))
      BY <1>2, <2>2, VerifiedOfPrefix
    <2>4. VerifiedEvents(Front(h)) \subseteq VerifiedEvents(h)
      BY <1>2, <2>2, FrontIsPrefix, VerifiedOfPrefix
    <2> QED BY <2>1, <2>3, <2>4
  <1> QED BY <1>1, <1>2 DEF Stays

-----------------------------------------------------------------------------
(* The located events of an entry. *)

\* What the index locates is a verified attempt of the history.
LEMMA LocatedIsVerified ==
    ASSUME NEW A, NEW entry \in Entries(A), Indexed(entry), NEW k \in 1 .. Len(entry.verified)
    PROVE  /\ AttemptAt(entry, entry.verified[k]) \in A
           /\ AttemptAt(entry, entry.verified[k]).outcome = "VERIFIED"
           /\ AttemptAt(entry, entry.verified[k]).key.event = TailEvents(entry)[k]
           /\ TailEvents(entry)[k] \in VerifiedEvents(HistoryOf(entry))
  <1>1. PICK loc \in Locators(A) : loc = entry.verified[k]
    BY ElementOfSeq DEF Entries
  <1>2. Located(entry, loc) /\ HistoryOf(entry)[Place(entry, loc)].outcome = "VERIFIED"
    BY <1>1 DEF Indexed
  <1>3. /\ Place(entry, loc) \in 1 .. Len(HistoryOf(entry))
        /\ AttemptAt(entry, loc) = HistoryOf(entry)[Place(entry, loc)]
    BY <1>2, PlaceInHistory
  <1>4. HistoryOf(entry) \in Seq(A)
    BY HistoryShape
  <1>5. AttemptAt(entry, loc) \in A
    BY <1>3, <1>4, ElementOfSeq
  <1>6. TailEvents(entry)[k] = AttemptAt(entry, loc).key.event
    BY <1>1 DEF TailEvents
  <1>7. TailEvents(entry)[k] \in VerifiedEvents(HistoryOf(entry))
    BY <1>2, <1>3, <1>4, <1>6, VerifiedAre
  <1> QED BY <1>1, <1>2, <1>3, <1>5, <1>6, <1>7

\* They are a sequence of events.
LEMMA TailEventsAre ==
    ASSUME NEW A, \A a \in A : a.outcome = "VERIFIED" => a.key.event \in Results,
           NEW entry \in Entries(A), Indexed(entry)
    PROVE  /\ TailEvents(entry) \in Seq(Results)
           /\ Len(TailEvents(entry)) = Len(entry.verified)
           /\ TailEvents(entry) = <<>> <=> entry.verified = <<>>
  <1>1. PICK l \in Nat : l = Len(entry.verified)
    BY LenProperties DEF Entries
  <1>2. \A k \in 1 .. l : TailEvents(entry)[k] \in Results
    BY <1>1, LocatedIsVerified
  <1>3. TailEvents(entry) \in [1 .. l -> Results]
    BY <1>1, <1>2 DEF TailEvents
  <1>4. TailEvents(entry) \in Seq(Results)
    BY <1>1, <1>3, SeqDef
  <1>5. Len(TailEvents(entry)) = l
    BY <1>1, <1>3, <1>4, LenProperties
  <1>6. PICK t \in Seq(Results) : t = TailEvents(entry)
    BY <1>4
  <1>7. t = <<>> <=> Len(t) = 0
    BY EmptySeq
  <1>8. entry.verified = <<>> <=> Len(entry.verified) = 0
    BY EmptySeq DEF Entries
  <1> QED BY <1>1, <1>4, <1>5, <1>6, <1>7, <1>8

\* Dropping a wait that came last moves none of them.
LEMMA DroppedTail ==
    ASSUME NEW A, NEW entry \in Entries(A), NEW stored, Sound(entry, stored),
           entry.open # <<>>, Last(entry.open).outcome # "VERIFIED"
    PROVE  TailEvents(Dropped(entry)) = TailEvents(entry)
  <1>1. PICK e2 : e2 = Dropped(entry)
    OBVIOUS
  <1>2. /\ e2 \in Entries(A) /\ e2.verified = entry.verified
        /\ \A j \in 1 .. Len(e2.open) : e2.open[j] = entry.open[j]
    BY <1>1, DroppedShape
  <1>3. Indexed(e2)
    BY <1>1, DroppedSound DEF Sound
  <1>4. ASSUME NEW k \in 1 .. Len(entry.verified)
        PROVE  AttemptAt(e2, entry.verified[k]) = AttemptAt(entry, entry.verified[k])
    <2>1. Located(e2, entry.verified[k])
      BY <1>2, <1>3 DEF Indexed
    <2> QED BY <1>2, <2>1 DEF Located, AttemptAt
  <1> QED BY <1>1, <1>2, <1>4 DEF TailEvents

\* Nor does sealing.
LEMMA SealedTail ==
    ASSUME NEW A, NEW entry \in Entries(A), Indexed(entry)
    PROVE  TailEvents(Sealed(entry)) = TailEvents(entry)
  <1>1. PICK e2 \in Entries(A) :
          /\ e2 = Sealed(entry) /\ Len(e2.verified) = Len(entry.verified)
          /\ \A k \in 1 .. Len(entry.verified) :
                e2.verified[k] = Followed(entry, entry.verified[k])
          /\ HistoryOf(e2) = HistoryOf(entry)
    BY SealedEntry, SealedShape
  <1>2. ASSUME NEW k \in 1 .. Len(entry.verified)
        PROVE  AttemptAt(e2, e2.verified[k]) = AttemptAt(entry, entry.verified[k])
    <2>1. PICK loc \in Locators(A) : loc = entry.verified[k] /\ Located(entry, loc)
      BY ElementOfSeq DEF Entries, Indexed
    <2>2. PICK new \in Locators(A) : /\ new = Followed(entry, loc) /\ Located(e2, new)
                                    /\ Place(e2, new) = Place(entry, loc)
      BY <1>1, <2>1, FollowedPlace
    <2>3. AttemptAt(e2, new) = HistoryOf(e2)[Place(e2, new)]
      BY <2>2, PlaceInHistory
    <2>4. AttemptAt(entry, loc) = HistoryOf(entry)[Place(entry, loc)]
      BY <2>1, PlaceInHistory
    <2> QED BY <1>1, <2>1, <2>2, <2>3, <2>4
  <1> QED BY <1>1, <1>2 DEF TailEvents

\* Withdrawing the producer drops the last of them.
LEMMA WithdrawnTail ==
    ASSUME NEW A, \A a \in A : a.outcome = "VERIFIED" => a.key.event \in Results,
           NEW entry \in Entries(A), NEW stored, Sound(entry, stored), entry.verified # <<>>
    PROVE  /\ TailEvents(Withdrawn(entry)) = Front(TailEvents(entry))
           /\ Withdrawn(entry).truncated = entry.truncated
  <1>1. PICK e2 \in Entries(A) : /\ e2 = Withdrawn(entry) /\ Sound(e2, stored)
                                /\ e2.verified = Front(entry.verified)
                                /\ e2.open = entry.open /\ e2.truncated = entry.truncated
    BY WithdrawnSound DEF Withdrawn, Entries
  <1>2. PICK n \in Nat :
          /\ Len(entry.verified) = n + 1 /\ Len(e2.verified) = n
          /\ \A j \in 1 .. n : e2.verified[j] = entry.verified[j]
    <2>1. PICK w \in Seq(Locators(A)) : w = entry.verified
      BY DEF Entries
    <2> QED BY <1>1, <2>1, FrontShape
  <1>3. PICK t \in Seq(Results) : t = TailEvents(entry) /\ Len(t) = n + 1 /\ t # <<>>
    BY <1>2, TailEventsAre DEF Sound
  <1>4. PICK u \in Seq(Results) : u = TailEvents(e2) /\ Len(u) = n
    BY <1>1, <1>2, TailEventsAre DEF Sound
  <1>5. PICK m \in Nat : /\ Len(t) = m + 1 /\ Front(t) \in Seq(Results) /\ Len(Front(t)) = m
                         /\ \A j \in 1 .. m : Front(t)[j] = t[j]
    BY <1>3, FrontShape
  <1>6. m = n
    BY <1>3, <1>5
  <1>7. \A k \in 1 .. n : k \in 1 .. n + 1
    OBVIOUS
  <1>8. \A k \in 1 .. n : u[k] = t[k]
    BY <1>1, <1>2, <1>3, <1>4, <1>7 DEF TailEvents, AttemptAt
  <1>9. u = Front(t)
    <2>1. PICK f \in Seq(Results) : f = Front(t)
      BY <1>5
    <2>2. Len(u) = Len(f) /\ \A k \in 1 .. Len(u) : u[k] = f[k]
      BY <1>4, <1>5, <1>6, <1>8, <2>1
    <2> QED BY <2>1, <2>2, SeqEqual
  <1> QED BY <1>1, <1>3, <1>4, <1>9

\* An attempt appended is located last when it is verified; beyond the limit of
\* the index the first of them leaves, and the entry says so.
LEMMA AppendedTail ==
    ASSUME NEW A, \A b \in A : b.outcome = "VERIFIED" => b.key.event \in Results,
           NEW entry \in Entries(A), NEW a \in A, NEW stored, Sound(entry, stored),
           a.key.event \in Results \cup {NoDoc},
           NEW t, t = IF a.outcome = "VERIFIED" THEN Append(TailEvents(entry), a.key.event)
                      ELSE TailEvents(entry)
    PROVE  /\ t \in Seq(Results)
           /\ \/ TailEvents(Appended(entry, a)) = t /\ Appended(entry, a).truncated = entry.truncated
              \/ /\ t # <<>> /\ Tail(t) # <<>>
                 /\ TailEvents(Appended(entry, a)) = Tail(t) /\ Appended(entry, a).truncated
  <1>1. PICK e2 \in Entries(A) : e2 = Appended(entry, a) /\ e2.open = Append(entry.open, a)
                                 /\ Sound(e2, stored)
    BY AppendedShape, AppendedSound
  <1>2. PICK h \in Nat, o \in Nat : h = Len(entry.head) /\ o = Len(entry.open)
    BY HistoryShape
  <1>3. PICK v \in Seq(Locators(A)), n \in Nat : v = entry.verified /\ n = Len(v)
    BY LenProperties DEF Entries
  <1>4. /\ Len(e2.open) = o + 1 /\ e2.open[o + 1] = a
        /\ \A j \in 1 .. o : e2.open[j] = entry.open[j]
    <2>1. PICK w \in Seq(A) : w = entry.open
      BY DEF Entries
    <2> QED BY <1>1, <1>2, <2>1, AppendShape
  <1>5. PICK new \in Locators(A) : new = [seg |-> <<>>, pos |-> o + 1]
    <2>1. [seg |-> <<>>, pos |-> o + 1] \in Locators(A)
      BY EmptySeq DEF Locators
    <2> QED BY <2>1
  <1>6. PICK index \in Seq(Locators(A)) :
          index = IF a.outcome = "VERIFIED" THEN Append(v, new) ELSE v
    BY <1>3, AppendProperties
  <1>7. PICK u \in Seq(Results) : u = TailEvents(entry) /\ Len(u) = n
    BY <1>3, TailEventsAre DEF Sound
  <1>8. t \in Seq(Results)
    BY <1>7, AppendProperties
  <1>9. \A k \in 1 .. n : AttemptAt(e2, v[k]).key.event = u[k]
    <2> SUFFICES ASSUME NEW k \in 1 .. n
                 PROVE  AttemptAt(e2, v[k]).key.event = u[k]
      OBVIOUS
    <2>1. Located(entry, v[k])
      BY <1>3 DEF Sound, Indexed
    <2>2. AttemptAt(e2, v[k]) = AttemptAt(entry, v[k])
      BY <1>2, <1>4, <2>1 DEF Located, AttemptAt
    <2> QED BY <1>3, <1>7, <2>2 DEF TailEvents
  <1>10. PICK l \in Nat : /\ l = Len(index) /\ l = Len(t)
                          /\ \A k \in 1 .. l : AttemptAt(e2, index[k]).key.event = t[k]
    <2>1. CASE a.outcome # "VERIFIED"
      BY <1>3, <1>6, <1>7, <1>9, <2>1
    <2>2. CASE a.outcome = "VERIFIED"
      <3>1. /\ Len(index) = n + 1 /\ index[n + 1] = new
            /\ \A k \in 1 .. n : index[k] = v[k]
        BY <1>3, <1>6, <2>2, AppendProperties
      <3>2. PICK e \in Results : e = a.key.event
        BY <2>2
      <3>3. /\ Len(t) = n + 1 /\ t[n + 1] = e
            /\ \A k \in 1 .. n : t[k] = u[k]
        BY <1>7, <2>2, <3>2, AppendProperties
      <3>4. AttemptAt(e2, new) = a
        BY <1>4, <1>5 DEF AttemptAt
      <3>5. \A k \in 1 .. n + 1 : k \in 1 .. n \/ k = n + 1
        OBVIOUS
      <3>6. \A k \in 1 .. n + 1 : AttemptAt(e2, index[k]).key.event = t[k]
        BY <1>9, <3>1, <3>2, <3>3, <3>4, <3>5
      <3>7. n + 1 \in Nat
        OBVIOUS
      <3> QED BY <3>1, <3>3, <3>6, <3>7
    <2> QED BY <2>1, <2>2
  <1>11. /\ e2.verified = IF Len(index) > IndexTail THEN Tail(index) ELSE index
         /\ e2.truncated = (entry.truncated \/ Len(index) > IndexTail)
    <2>1. PICK s :
            Appended(entry, a) = [entry EXCEPT !.open = Append(@, a),
                !.verified = IF Len(index) > IndexTail THEN Tail(index) ELSE index,
                !.truncated = @ \/ Len(index) > IndexTail, !.settled = s]
      BY <1>2, <1>3, <1>5, <1>6, Zenon DEF Appended
    <2> QED BY <1>1, <2>1 DEF Entries
  <1>12. PICK u2 \in Seq(Results) : u2 = TailEvents(e2) /\ Len(u2) = Len(e2.verified)
    BY <1>1, TailEventsAre DEF Sound
  <1>13. CASE ~(l > IndexTail)
    <2>1. e2.verified = index /\ e2.truncated = entry.truncated
      BY <1>1, <1>10, <1>11, <1>13 DEF Entries
    <2>2. Len(u2) = l /\ \A k \in 1 .. l : u2[k] = t[k]
      BY <1>10, <1>12, <2>1 DEF TailEvents
    <2>3. u2 = t
      BY <1>8, <1>10, <2>2, SeqEqual
    <2> QED BY <1>1, <1>8, <1>12, <2>1, <2>3
  <1>14. CASE l > IndexTail
    <2>1. l > 1 /\ index # <<>> /\ t # <<>>
      <3>1. IndexTail \in Nat /\ IndexTail >= 1
        BY HistoryAssumption
      <3>2. l > 1 /\ l # 0
        BY <1>14, <3>1
      <3>3. index # <<>>
        BY <1>10, <3>2, EmptySeq
      <3>4. t # <<>>
        BY <1>8, <1>10, <3>2, EmptySeq
      <3> QED BY <3>2, <3>3, <3>4
    <2>2. e2.verified = Tail(index) /\ e2.truncated
      BY <1>10, <1>11, <1>14
    <2>3. PICK m \in Nat : /\ m + 1 = Len(index) /\ Len(Tail(index)) = m
                           /\ \A k \in 1 .. m : Tail(index)[k] = index[k + 1]
      BY <2>1, TailShape
    <2>4. PICK w \in Seq(Results) : w = Tail(t)
      BY <1>8, <2>1, TailShape
    <2>5. Len(w) = m /\ \A k \in 1 .. m : w[k] = t[k + 1]
      <3>1. PICK q \in Nat : q + 1 = Len(t) /\ Len(Tail(t)) = q
                             /\ \A k \in 1 .. q : Tail(t)[k] = t[k + 1]
        BY <1>8, <2>1, TailShape
      <3>2. q = m
        BY <1>10, <2>3, <3>1
      <3> QED BY <2>4, <3>1, <3>2
    <2>6. \A k \in 1 .. m : k + 1 \in 1 .. l
      BY <1>10, <2>3
    <2>7. Len(u2) = m /\ \A k \in 1 .. m : u2[k] = w[k]
      <3>1. Len(e2.verified) = m /\ \A k \in 1 .. m : e2.verified[k] = index[k + 1]
        BY <2>2, <2>3
      <3>2. \A k \in 1 .. m : u2[k] = AttemptAt(e2, index[k + 1]).key.event
        BY <1>12, <3>1 DEF TailEvents
      <3>3. \A k \in 1 .. m : u2[k] = t[k + 1]
        BY <1>10, <2>6, <3>2
      <3> QED BY <1>12, <2>5, <3>1, <3>3
    <2>8. u2 = w
      BY <2>5, <2>7, SeqEqual
    <2>9. w # <<>>
      <3>1. m # 0
        BY <1>10, <2>1, <2>3
      <3> QED BY <2>5, <3>1, EmptySeq
    <2> QED BY <1>1, <1>8, <1>12, <2>1, <2>2, <2>4, <2>8, <2>9
  <1> QED BY <1>10, <1>13, <1>14, HistoryAssumption

-----------------------------------------------------------------------------
(* The invariant. *)

\* A verified attempt holds what an identity up to id read in its event, from a
\* feed that listed the periodic report.
ReadBy(a, id) ==
    a.outcome = "VERIFIED" =>
        /\ a.reading # Refused /\ a.caps["feed"] # <<a.key.event, "early">>
        /\ \E x \in 1 .. id : a.reading = Reading[x][a.key.event]

\* Such attempts of an issuer, about what is out.
Told(i, id) ==
    {a \in Attempts(i) :
        ReadBy(a, id) /\ a.docs \subseteq published /\ a.key.event \in published \cup {NoDoc}}

\* An entry of them whose index tells what became of the verified events.
Honest(i, entry, id) ==
    /\ entry \in Entries(Told(i, id))
    /\ Ascending(TailEvents(entry))
    /\ Explained(TailEvents(entry), VerifiedEvents(HistoryOf(entry)), entry.truncated, id)

\* Every row that starts after the event verified last lists what was ever
\* verified and is later.
BarsLater(i, entry) ==
    LET h == HistoryOf(entry) IN
    h # <<>> /\ Last(h).outcome = "VERIFIED" =>
        \A f \in VerifiedEvents(h) : \A k \in 1 .. Len(rows[i]) :
            /\ rows[i][k].ref = Last(h).key.event
            /\ Day[f] > Day[Last(h).key.event]
            => f \in rows[i][k].docs

\* The published state: its identity, histories and detections, and the rows.
OldIdent == Stored.ident \in 1 .. version
OldStored ==
    \A i \in Issuer :
        /\ Honest(i, Stored.issuers[i], Stored.ident) /\ BarsLater(i, Stored.issuers[i])
        /\ Stored.dets[i].docs \subseteq published
OldRows ==
    \A i \in Issuer : \A k \in 1 .. Len(rows[i]) :
        /\ rows[i][k].docs \subseteq published
        /\ rows[i][k].ref \in {NoDoc} \cup VerifiedEvents(HistoryOf(Stored.issuers[i]))

\* The located events are of a day or before.
Within(entry, day) == \A k \in 1 .. Len(TailEvents(entry)) : Day[TailEvents(entry)[k]] <= day

\* What the run holds, and that it serves issuers no later event of which it
\* has decided.
OldRun ==
    pc # "idle" =>
        \A i \in Issuer :
            /\ Honest(i, run.entries[i], version) /\ BarsLater(i, run.entries[i])
            /\ run.dets[i].docs \subseteq published /\ run.adm[i].docs \subseteq published
            /\ AnchorOf(run.adm[i].producer) \in Nat
OldOrder ==
    pc # "idle" =>
        /\ run.order \in Seq(Issuer)
        /\ \A m, n \in 1 .. Len(run.order) : run.order[m] = run.order[n] => m = n
        /\ \A n \in 1 .. Len(run.order) :
              Within(run.entries[run.order[n]], AnchorOf(run.adm[run.order[n]].producer))
OldLead == Leading => run.order # <<>> /\ run.who = Head(run.order) /\ run.lead \in published

OldInv == OldIdent /\ OldStored /\ OldRows /\ OldRun /\ OldOrder /\ OldLead

-----------------------------------------------------------------------------
(* Honest entries. *)

LEMMA ToldAre ==
    ASSUME NEW i, NEW id
    PROVE  /\ Told(i, id) \subseteq Attempts(i)
           /\ \A a \in Told(i, id) :
                 /\ a.key.event \in Results \cup {NoDoc}
                 /\ a.docs \subseteq published /\ a.key.event \in published \cup {NoDoc}
                 /\ a.outcome \in Outcomes /\ ReadBy(a, id)
                 /\ a.outcome # "WAITING" =>
                       /\ a.key.event \in Results /\ a.key.event \in Mine(i)
                       /\ a.key.event \in published
           /\ \A a \in Told(i, id) : a.outcome = "VERIFIED" => a.key.event \in Results
  <1> SUFFICES ASSUME NEW a \in Told(i, id)
               PROVE  /\ a \in Attempts(i) /\ a.key.event \in Results \cup {NoDoc}
                      /\ a.docs \subseteq published /\ a.key.event \in published \cup {NoDoc}
                      /\ a.outcome \in Outcomes /\ ReadBy(a, id)
                      /\ a.outcome # "WAITING" =>
                            /\ a.key.event \in Results /\ a.key.event \in Mine(i)
                            /\ a.key.event \in published
    <2>1. "VERIFIED" # "WAITING"
      OBVIOUS
    <2> QED BY <2>1
  <1>1. a \in Attempts(i) /\ ReadBy(a, id) /\ a.docs \subseteq published
        /\ a.key.event \in published \cup {NoDoc}
    BY DEF Told
  <1>2. a.key \in Keys(i) /\ a.outcome \in Outcomes /\ (a.outcome # "WAITING" => a.key.event # NoDoc)
    BY <1>1 DEF Attempts
  <1>3. a.key.event \in (Results \cap Mine(i)) \cup {NoDoc}
    BY <1>2 DEF Keys
  <1> QED BY <1>1, <1>2, <1>3

\* They stay honest as identities and documents come.
LEMMA ExplainedGrows ==
    ASSUME NEW id \in Nat, NEW id2 \in Nat, id <= id2, NEW t, NEW V, NEW cut, Explained(t, V, cut, id)
    PROVE  Explained(t, V, cut, id2)
  <1>1. \A f : Refuted(f, id) => Refuted(f, id2)
    BY DEF Refuted
  <1> QED BY <1>1 DEF Explained

LEMMA HonestGrows ==
    ASSUME NEW id \in Nat, NEW id2 \in Nat, id <= id2, NEW i, NEW entry, Honest(i, entry, id)
    PROVE  Honest(i, entry, id2)
  <1>1. Told(i, id) \subseteq Told(i, id2)
    <2>1. \A x \in 1 .. id : x \in 1 .. id2
      OBVIOUS
    <2> QED BY <2>1 DEF Told, ReadBy
  <1>2. entry \in Entries(Told(i, id2))
    BY <1>1, EntriesGrow DEF Honest
  <1> QED BY <1>2, ExplainedGrows DEF Honest

LEMMA HonestKept ==
    ASSUME published \subseteq published', NEW id, NEW i, NEW entry, Honest(i, entry, id)
    PROVE  Honest(i, entry, id)'
  <1>1. PICK A, B : A = Told(i, id) /\ B = Told(i, id)'
    OBVIOUS
  <1>2. A \subseteq B
    BY <1>1 DEF Told
  <1>3. entry \in Entries(A)
    BY <1>1 DEF Honest
  <1>4. entry \in Entries(B)
    BY <1>2, <1>3, EntriesGrow
  <1> QED BY <1>1, <1>4 DEF Honest

\* What is verified is an event of the issuer, and out.
LEMMA HonestVerified ==
    ASSUME NEW i, NEW id, NEW entry, Honest(i, entry, id)
    PROVE  /\ VerifiedEvents(HistoryOf(entry)) \subseteq Results \cap Mine(i) \cap published
           /\ HistoryOf(entry) \in Seq(Told(i, id))
  <1>1. HistoryOf(entry) \in Seq(Told(i, id))
    BY HistoryShape DEF Honest
  <1>2. ASSUME NEW f \in VerifiedEvents(HistoryOf(entry))
        PROVE  f \in Results \cap Mine(i) \cap published
    <2>1. PICK j \in 1 .. Len(HistoryOf(entry)) :
            /\ HistoryOf(entry)[j] \in Told(i, id) /\ HistoryOf(entry)[j].outcome = "VERIFIED"
            /\ HistoryOf(entry)[j].key.event = f
      BY <1>1, VerifiedAre
    <2>2. "VERIFIED" # "WAITING"
      OBVIOUS
    <2> QED BY <2>1, <2>2, ToldAre
  <1> QED BY <1>1, <1>2

\* An attempt more leaves an entry honest: a verified one when its event is
\* later than all that are located, and whatever else was verified is explained.
LEMMA HonestAppended ==
    ASSUME NEW i, NEW id, NEW stored, NEW entry \in Entries(Told(i, id)), Sound(entry, stored),
           entry.truncated \in BOOLEAN, NEW a \in Told(i, id), Ascending(TailEvents(entry)),
           a.outcome = "VERIFIED" =>
               \A k \in 1 .. Len(TailEvents(entry)) : Day[TailEvents(entry)[k]] < Day[a.key.event],
           \A f \in VerifiedEvents(HistoryOf(entry)) :
               \/ a.outcome = "VERIFIED" /\ f = a.key.event
               \/ \E k \in 1 .. Len(TailEvents(entry)) : f = TailEvents(entry)[k]
               \/ Refuted(f, id)
               \/ /\ entry.truncated /\ TailEvents(entry) # <<>>
                  /\ \A k \in 1 .. Len(TailEvents(entry)) : Day[f] < Day[TailEvents(entry)[k]]
    PROVE  Honest(i, Appended(entry, a), id)
  <1>1. PICK A : A = Told(i, id)
    OBVIOUS
  <1>2. /\ a.key.event \in Results \cup {NoDoc}
        /\ \A b \in A : b.outcome = "VERIFIED" => b.key.event \in Results
        /\ a.outcome = "VERIFIED" => a.key.event \in Results
    BY <1>1, ToldAre
  <1>3. PICK t \in Seq(Results) : t = TailEvents(entry)
    BY <1>1, <1>2, TailEventsAre DEF Sound
  <1>4. PICK V : V = VerifiedEvents(HistoryOf(entry))
    OBVIOUS
  <1>5. HistoryOf(entry) \in Seq(A)
    BY <1>1, HistoryShape
  <1>6. V \subseteq Results
    BY <1>2, <1>4, <1>5, VerifiedAre
  <1>7. PICK e2 : e2 = Appended(entry, a)
    OBVIOUS
  <1>8. e2 \in Entries(A) /\ HistoryOf(e2) = Append(HistoryOf(entry), a)
    BY <1>1, <1>2, <1>7, AppendedShape
  <1>9. PICK V2 : /\ V2 = VerifiedEvents(HistoryOf(e2))
                  /\ V2 = V \cup (IF a.outcome = "VERIFIED" THEN {a.key.event} ELSE {})
    BY <1>1, <1>4, <1>5, <1>8, VerifiedOfAppend
  <1>10. PICK cut \in BOOLEAN : cut = entry.truncated
    OBVIOUS
  <1>11. PICK u : u = IF a.outcome = "VERIFIED" THEN Append(t, a.key.event) ELSE t
    OBVIOUS
  <1>12. u \in Seq(Results) /\ Ascending(u) /\ Explained(u, V2, cut, id)
    <2>1. CASE a.outcome = "VERIFIED"
      <3>1. PICK e \in Results : e = a.key.event
        BY <1>2, <2>1
      <3>2. Ascending(t) /\ \A k \in 1 .. Len(t) : Day[t[k]] < Day[e]
        BY <1>3, <2>1, <3>1
      <3>3. \A f \in V : \/ f = e \/ \E k \in 1 .. Len(t) : f = t[k]
                         \/ Refuted(f, id)
                         \/ cut /\ t # <<>> /\ \A k \in 1 .. Len(t) : Day[f] < Day[t[k]]
        BY <1>3, <1>4, <1>10, <3>1
      <3>4. u = Append(t, e) /\ V2 = V \cup {e}
        BY <1>9, <1>11, <2>1, <3>1
      <3> QED BY <1>6, <3>2, <3>3, <3>4, GrownTail
    <2>2. CASE a.outcome # "VERIFIED"
      BY <1>3, <1>4, <1>9, <1>10, <1>11, <2>2 DEF Explained
    <2> QED BY <2>1, <2>2
  <1>13. \/ TailEvents(e2) = u /\ e2.truncated = cut
         \/ u # <<>> /\ Tail(u) # <<>> /\ TailEvents(e2) = Tail(u) /\ e2.truncated
    BY <1>1, <1>2, <1>3, <1>7, <1>10, <1>11, AppendedTail
  <1>14. Ascending(TailEvents(e2)) /\ Explained(TailEvents(e2), V2, e2.truncated, id)
    <2>1. CASE TailEvents(e2) = u /\ e2.truncated = cut
      BY <1>12, <2>1
    <2>2. CASE u # <<>> /\ Tail(u) # <<>> /\ TailEvents(e2) = Tail(u) /\ e2.truncated
      <3>1. Ascending(Tail(u)) /\ Explained(Tail(u), V2, TRUE, id)
        BY <1>12, <2>2, CutTail
      <3>2. e2.truncated = TRUE
        BY <1>8, <2>2 DEF Entries
      <3> QED BY <2>2, <3>1, <3>2
    <2> QED BY <1>13, <2>1, <2>2
  <1> QED BY <1>1, <1>7, <1>8, <1>9, <1>14 DEF Honest

\* So does an attempt in the place of a wait that came last.
LEMMA HonestDropped ==
    ASSUME NEW i, NEW id, NEW stored, NEW entry, Honest(i, entry, id), Sound(entry, stored),
           entry.open # <<>>, Last(entry.open).outcome # "VERIFIED"
    PROVE  /\ Honest(i, Dropped(entry), id) /\ Sound(Dropped(entry), stored)
           /\ TailEvents(Dropped(entry)) = TailEvents(entry)
           /\ VerifiedEvents(HistoryOf(Dropped(entry))) = VerifiedEvents(HistoryOf(entry))
  <1>1. PICK A : A = Told(i, id)
    OBVIOUS
  <1>2. entry \in Entries(A)
    BY <1>1 DEF Honest
  <1>3. /\ Dropped(entry) \in Entries(A) /\ HistoryOf(Dropped(entry)) = Front(HistoryOf(entry))
        /\ HistoryOf(entry) # <<>> /\ Last(HistoryOf(entry)) = Last(entry.open)
        /\ Dropped(entry).truncated = entry.truncated
    BY <1>2, DroppedShape
  <1>4. HistoryOf(entry) \in Seq(A)
    BY <1>2, HistoryShape
  <1>5. VerifiedEvents(HistoryOf(Dropped(entry))) = VerifiedEvents(HistoryOf(entry))
    BY <1>3, <1>4, VerifiedOfFront
  <1>6. TailEvents(Dropped(entry)) = TailEvents(entry) /\ Sound(Dropped(entry), stored)
    BY <1>2, DroppedTail, DroppedSound
  <1> QED BY <1>1, <1>3, <1>5, <1>6 DEF Honest

\* And sealing.
LEMMA HonestSealed ==
    ASSUME NEW i, NEW id, NEW stored, NEW entry, Honest(i, entry, id), Sound(entry, stored)
    PROVE  /\ Honest(i, Sealed(entry), id) /\ HistoryOf(Sealed(entry)) = HistoryOf(entry)
           /\ TailEvents(Sealed(entry)) = TailEvents(entry)
  <1>1. PICK A : A = Told(i, id)
    OBVIOUS
  <1>2. entry \in Entries(A) /\ Indexed(entry)
    BY <1>1 DEF Honest, Sound
  <1>3. /\ Sealed(entry) \in Entries(A) /\ Sealed(entry).truncated = entry.truncated
        /\ HistoryOf(Sealed(entry)) = HistoryOf(entry)
        /\ TailEvents(Sealed(entry)) = TailEvents(entry)
    BY <1>2, SealedEntry, SealedShape, SealedTail
  <1> QED BY <1>1, <1>3 DEF Honest

-----------------------------------------------------------------------------
(* What an attempt that is recorded does to its entry. *)

LEMMA HonestShape ==
    ASSUME NEW i, NEW id, NEW entry, Honest(i, entry, id)
    PROVE  /\ entry \in Entries(Told(i, id)) /\ entry.truncated \in BOOLEAN
           /\ HistoryOf(entry) \in Seq(Told(i, id))
  BY HistoryShape DEF Honest, Entries

\* Without a verified attempt the located events only lose their first.
LEMMA WithinKept ==
    ASSUME NEW i, NEW id, NEW stored, NEW entry \in Entries(Told(i, id)), Sound(entry, stored),
           NEW a \in Told(i, id), a.outcome # "VERIFIED", NEW day, Within(entry, day)
    PROVE  Within(Appended(entry, a), day)
  <1>1. PICK A : A = Told(i, id)
    OBVIOUS
  <1>2. /\ a.key.event \in Results \cup {NoDoc}
        /\ \A b \in A : b.outcome = "VERIFIED" => b.key.event \in Results
    BY <1>1, ToldAre
  <1>3. PICK t \in Seq(Results) :
          /\ t = TailEvents(entry)
          /\ \/ TailEvents(Appended(entry, a)) = t
             \/ t # <<>> /\ TailEvents(Appended(entry, a)) = Tail(t)
    BY <1>1, <1>2, AppendedTail
  <1>4. CASE TailEvents(Appended(entry, a)) = t
    BY <1>3, <1>4 DEF Within
  <1>5. CASE t # <<>> /\ TailEvents(Appended(entry, a)) = Tail(t)
    <2>1. PICK l \in Nat : /\ l + 1 = Len(t) /\ Len(Tail(t)) = l
                           /\ \A k \in 1 .. l : Tail(t)[k] = t[k + 1]
      BY <1>5, TailShape
    <2>2. \A k \in 1 .. l : k + 1 \in 1 .. l + 1
      OBVIOUS
    <2> QED BY <1>3, <1>5, <2>1, <2>2 DEF Within
  <1> QED BY <1>3, <1>4, <1>5

\* An attempt appended.
Tells(i, id, entry, a, e2) ==
    /\ Honest(i, e2, id)
    /\ \/ e2 = entry /\ a.outcome = "WAITING"
       \/ /\ HistoryOf(e2) # <<>>
          /\ Last(HistoryOf(e2)).outcome = a.outcome /\ Last(HistoryOf(e2)).key = a.key
    /\ VerifiedEvents(HistoryOf(e2)) =
           VerifiedEvents(HistoryOf(entry)) \cup (IF a.outcome = "VERIFIED" THEN {a.key.event} ELSE {})
    /\ a.outcome # "VERIFIED" => \A day : Within(entry, day) => Within(e2, day)

LEMMA AppendedTells ==
    ASSUME NEW i, NEW id, NEW stored, NEW entry, Honest(i, entry, id), Sound(entry, stored),
           NEW a \in Told(i, id),
           a.outcome = "VERIFIED" =>
               \A k \in 1 .. Len(TailEvents(entry)) : Day[TailEvents(entry)[k]] < Day[a.key.event]
    PROVE  Tells(i, id, entry, a, Appended(entry, a))
  <1>1. PICK A : A = Told(i, id)
    OBVIOUS
  <1>2. entry \in Entries(A) /\ entry.truncated \in BOOLEAN /\ HistoryOf(entry) \in Seq(A)
    BY <1>1, HonestShape
  <1>3. a.key.event \in Results \cup {NoDoc}
    BY ToldAre
  <1>4. Honest(i, Appended(entry, a), id)
    <2>1. Ascending(TailEvents(entry))
      BY DEF Honest
    <2>2. \A f \in VerifiedEvents(HistoryOf(entry)) :
             \/ \E k \in 1 .. Len(TailEvents(entry)) : f = TailEvents(entry)[k]
             \/ Refuted(f, id)
             \/ /\ entry.truncated /\ TailEvents(entry) # <<>>
                /\ \A k \in 1 .. Len(TailEvents(entry)) : Day[f] < Day[TailEvents(entry)[k]]
      BY DEF Honest, Explained
    <2> QED BY <1>1, <1>2, <2>1, <2>2, HonestAppended
  <1>5. HistoryOf(Appended(entry, a)) = Append(HistoryOf(entry), a)
    BY <1>1, <1>2, <1>3, AppendedShape
  <1>6. HistoryOf(Appended(entry, a)) # <<>> /\ Last(HistoryOf(Appended(entry, a))) = a
    BY <1>1, <1>2, <1>5, FrontOfAppend
  <1>7. VerifiedEvents(HistoryOf(Appended(entry, a))) =
           VerifiedEvents(HistoryOf(entry)) \cup (IF a.outcome = "VERIFIED" THEN {a.key.event} ELSE {})
    BY <1>1, <1>2, <1>5, VerifiedOfAppend
  <1>8. a.outcome # "VERIFIED" => \A day : Within(entry, day) => Within(Appended(entry, a), day)
    BY <1>1, <1>2, WithinKept
  <1> QED BY <1>4, <1>6, <1>7, <1>8 DEF Tells

\* Appended in the place of a wait that came last.
LEMMA ReplacedTells ==
    ASSUME NEW i, NEW id, NEW stored, NEW entry, Honest(i, entry, id), Sound(entry, stored),
           entry.open # <<>>, Last(entry.open).outcome = "WAITING",
           NEW a \in Told(i, id),
           a.outcome = "VERIFIED" =>
               \A k \in 1 .. Len(TailEvents(entry)) : Day[TailEvents(entry)[k]] < Day[a.key.event]
    PROVE  Tells(i, id, entry, a, Appended(Dropped(entry), a))
  <1>1. Last(entry.open).outcome # "VERIFIED"
    OBVIOUS
  <1>2. PICK prior : prior = Dropped(entry)
    OBVIOUS
  <1>3. /\ Honest(i, prior, id) /\ Sound(prior, stored)
        /\ TailEvents(prior) = TailEvents(entry)
        /\ VerifiedEvents(HistoryOf(prior)) = VerifiedEvents(HistoryOf(entry))
    BY <1>1, <1>2, HonestDropped
  <1>4. Tells(i, id, prior, a, Appended(prior, a))
    BY <1>3, AppendedTells
  <1>5. \A day : Within(prior, day) <=> Within(entry, day)
    BY <1>3 DEF Within
  <1>6. \/ Appended(prior, a) = prior /\ a.outcome = "WAITING"
        \/ /\ HistoryOf(Appended(prior, a)) # <<>>
           /\ Last(HistoryOf(Appended(prior, a))).outcome = a.outcome
           /\ Last(HistoryOf(Appended(prior, a))).key = a.key
    BY <1>4 DEF Tells
  <1>7. Appended(prior, a) # prior
    <2>1. PICK A : A = Told(i, id)
      OBVIOUS
    <2>2. prior \in Entries(A) /\ a \in A /\ a.key.event \in Results \cup {NoDoc}
      BY <1>3, <2>1, HonestShape, ToldAre
    <2>3. PICK o \in Seq(A) : o = prior.open
      BY <2>2 DEF Entries
    <2>4. Appended(prior, a).open = Append(o, a)
      BY <2>2, <2>3, AppendedShape
    <2>5. PICK l \in Nat : l = Len(o) /\ Len(Append(o, a)) = l + 1
      BY <2>1, <2>3, AppendShape
    <2>6. l # l + 1
      OBVIOUS
    <2> QED BY <2>3, <2>4, <2>5, <2>6
  <1> QED BY <1>2, <1>3, <1>4, <1>5, <1>6, <1>7 DEF Tells

LEMMA MergedIsTold ==
    ASSUME NEW i, NEW id, NEW entry \in Entries(Told(i, id)), NEW a \in Told(i, id),
           Waits(entry, a.key)
    PROVE  /\ Merged(entry, a) \in Told(i, id)
           /\ Merged(entry, a).key = a.key /\ Merged(entry, a).outcome = a.outcome
  <1>1. PICK last \in Told(i, id) : last = Last(entry.open)
    BY DroppedShape DEF Waits
  <1>2. PICK caps : caps = IF a.outcome = "WAITING" THEN WithCaptures(a.caps, last.caps) ELSE a.caps
    OBVIOUS
  <1>3. a.caps \in Caps /\ last.caps \in Caps
    BY <1>1 DEF Told, Attempts
  <1>4. caps \in Caps
    BY <1>2, <1>3, CapsMerge
  <1>5. PICK b : b = Merged(entry, a) /\ b = [a EXCEPT !.caps = caps]
    BY <1>1, <1>2 DEF Merged
  <1>6. a \in Attempts(i) /\ ReadBy(a, id) /\ a.docs \subseteq published
        /\ a.key.event \in published \cup {NoDoc}
    BY DEF Told
  <1>7. /\ b \in Attempts(i) /\ b.key = a.key /\ b.outcome = a.outcome
        /\ b.docs = a.docs /\ b.reading = a.reading /\ b.caps = caps
    BY <1>4, <1>5, <1>6 DEF Attempts
  <1>8. ReadBy(b, id)
    <2>1. CASE a.outcome = "VERIFIED"
      BY <1>2, <1>6, <1>7, <2>1 DEF ReadBy
    <2>2. CASE a.outcome # "VERIFIED"
      BY <1>7, <2>2 DEF ReadBy
    <2> QED BY <2>1, <2>2
  <1> QED BY <1>5, <1>6, <1>7, <1>8 DEF Told

\* Recorded.
LEMMA RecordedTells ==
    ASSUME NEW i, NEW id, NEW stored, NEW entry, Honest(i, entry, id), Sound(entry, stored),
           NEW a \in Told(i, id),
           a.outcome = "VERIFIED" =>
               \A k \in 1 .. Len(TailEvents(entry)) : Day[TailEvents(entry)[k]] < Day[a.key.event]
    PROVE  Tells(i, id, entry, a, Recorded(entry, a))
  <1>1. CASE ~Waits(entry, a.key)
    <2>1. Recorded(entry, a) = Appended(entry, a)
      BY <1>1 DEF Recorded
    <2> QED BY <2>1, AppendedTells
  <1>2. CASE Waits(entry, a.key)
    <2>1. PICK b \in Told(i, id) : b = Merged(entry, a) /\ b.key = a.key /\ b.outcome = a.outcome
      BY <1>2, MergedIsTold, HonestShape
    <2>2. entry.open # <<>> /\ Last(entry.open).outcome = "WAITING"
      BY <1>2 DEF Waits
    <2>3. \/ Recorded(entry, a) = entry /\ a.outcome = "WAITING"
          \/ Recorded(entry, a) = Appended(Dropped(entry), b)
      BY <1>2, <2>1 DEF Recorded, Merged, Dropped
    <2>4. CASE Recorded(entry, a) = entry /\ a.outcome = "WAITING"
      BY <2>4 DEF Tells
    <2>5. CASE Recorded(entry, a) = Appended(Dropped(entry), b)
      <3>1. Tells(i, id, entry, b, Appended(Dropped(entry), b))
        BY <2>1, <2>2, ReplacedTells
      <3>2. \A day : Within(entry, day) /\ b.outcome # "VERIFIED" =>
                        Within(Appended(Dropped(entry), b), day)
        BY <3>1 DEF Tells
      <3>3. Appended(Dropped(entry), b) = entry /\ b.outcome = "WAITING" => a.outcome = "WAITING"
        BY <2>1
      <3> QED BY <2>1, <2>5, <3>1, <3>2, <3>3 DEF Tells
    <2> QED BY <2>3, <2>4, <2>5
  <1> QED BY <1>1, <1>2

\* Only a verified attempt can unbar anything.
LEMMA TellsBars ==
    ASSUME NEW i, NEW id, NEW entry, NEW a, NEW e2, Tells(i, id, entry, a, e2),
           a.outcome # "VERIFIED", BarsLater(i, entry)
    PROVE  BarsLater(i, e2)
  BY DEF Tells, BarsLater

-----------------------------------------------------------------------------
(* Steps of a run that leave what is published as it is. *)

LEMMA StoredOldKept ==
    ASSUME OldInv, cur' = cur, version' = version, published' = published, rows' = rows
    PROVE  /\ OldIdent' /\ OldStored' /\ OldRows'
           /\ \A i, entry : BarsLater(i, entry) => BarsLater(i, entry)'
           /\ \A i, entry, id : Honest(i, entry, id) => Honest(i, entry, id)'
  <1>1. Stored' = Stored
    BY DEF Stored
  <1>2. \A i, id : Told(i, id)' = Told(i, id)
    BY DEF Told
  <1>3. \A i, entry, id : Honest(i, entry, id) => Honest(i, entry, id)'
    BY <1>2 DEF Honest
  <1>4. \A i, entry : BarsLater(i, entry) => BarsLater(i, entry)'
    BY DEF BarsLater
  <1>5. OldStored'
    <2> SUFFICES ASSUME NEW i \in Issuer
                 PROVE  /\ Honest(i, Stored.issuers[i], Stored.ident)'
                        /\ BarsLater(i, Stored.issuers[i])'
                        /\ (Stored.dets[i].docs \subseteq published)'
      BY DEF OldStored
    <2>1. PICK entry, id : entry = Stored.issuers[i] /\ id = Stored.ident
      OBVIOUS
    <2>2. Honest(i, entry, id)' /\ BarsLater(i, entry)'
      BY <1>3, <1>4, <2>1 DEF OldInv, OldStored
    <2>3. Stored'.issuers[i] = entry /\ Stored'.ident = id
      BY <1>1, <2>1
    <2>4. (Stored.dets[i].docs \subseteq published)'
      BY <1>1 DEF OldInv, OldStored
    <2> QED BY <2>2, <2>3, <2>4
  <1>6. OldIdent' /\ OldRows'
    BY <1>1 DEF OldInv, OldIdent, OldRows
  <1> QED BY <1>3, <1>4, <1>5, <1>6

\* The order without the issuer served first.
LEMMA OrderTail ==
    ASSUME NEW s \in Seq(Issuer), s # <<>>,
           \A m, n \in 1 .. Len(s) : s[m] = s[n] => m = n
    PROVE  /\ Tail(s) \in Seq(Issuer)
           /\ \A m, n \in 1 .. Len(Tail(s)) : Tail(s)[m] = Tail(s)[n] => m = n
           /\ \A n \in 1 .. Len(Tail(s)) :
                 /\ \E k \in 1 .. Len(s) : Tail(s)[n] = s[k]
                 /\ Tail(s)[n] # Head(s) /\ Tail(s)[n] \in Issuer
           /\ Head(s) \in Issuer
  <1>1. PICK l \in Nat : /\ l + 1 = Len(s) /\ Tail(s) \in Seq(Issuer) /\ Len(Tail(s)) = l
                         /\ \A k \in 1 .. l : Tail(s)[k] = s[k + 1]
    BY TailShape
  <1>2. Head(s) = s[1] /\ Head(s) \in Issuer
    BY HeadTailProperties DEF Head
  <1>3. \A k \in 1 .. l : k + 1 \in 1 .. l + 1 /\ k + 1 # 1 /\ 1 \in 1 .. l + 1
    OBVIOUS
  <1>4. \A m, n \in 1 .. l : m + 1 = n + 1 => m = n
    OBVIOUS
  <1>5. \A n \in 1 .. l : Tail(s)[n] \in Issuer
    BY <1>1, ElementOfSeq
  <1>6. \A n \in 1 .. l : Tail(s)[n] # Head(s)
    BY <1>1, <1>2, <1>3
  <1>7. \A m, n \in 1 .. l : Tail(s)[m] = Tail(s)[n] => m = n
    BY <1>1, <1>3, <1>4
  <1> QED BY <1>1, <1>2, <1>3, <1>5, <1>6, <1>7

\* The order a run goes on with: the same, or without the issuer just served.
LEMMA OrderOld ==
    ASSUME OldInv, pc # "idle", run'.adm = run.adm, NEW S,
           \A j \in Issuer \ S : run'.entries[j] = run.entries[j],
           \/ /\ run'.order = run.order
              /\ \A j \in S : \A day : Within(run.entries[j], day) => Within(run'.entries[j], day)
           \/ run.order # <<>> /\ S \subseteq {Head(run.order)} /\ run'.order = Tail(run.order)
    PROVE  OldOrder'
  <1>1. PICK s \in Seq(Issuer) :
          /\ s = run.order
          /\ \A m, n \in 1 .. Len(s) : s[m] = s[n] => m = n
          /\ \A n \in 1 .. Len(s) : Within(run.entries[s[n]], AnchorOf(run.adm[s[n]].producer))
    BY DEF OldInv, OldOrder
  <1>2. \A n \in 1 .. Len(s) : s[n] \in Issuer
    BY <1>1, ElementOfSeq
  <1>3. CASE /\ run'.order = run.order
             /\ \A j \in S : \A day : Within(run.entries[j], day) => Within(run'.entries[j], day)
    <2>1. ASSUME NEW n \in 1 .. Len(s)
          PROVE  Within(run'.entries[s[n]], AnchorOf(run'.adm[s[n]].producer))
      <3>1. PICK j \in Issuer : j = s[n]
        BY <1>2
      <3>2. Within(run.entries[j], AnchorOf(run.adm[j].producer))
        BY <1>1, <3>1
      <3>3. CASE j \in S
        BY <1>3, <3>1, <3>2, <3>3
      <3>4. CASE j \notin S
        BY <3>1, <3>2, <3>4
      <3> QED BY <3>3, <3>4
    <2> QED BY <1>1, <1>3, <2>1 DEF OldOrder, Within, AnchorOf
  <1>4. CASE run.order # <<>> /\ S \subseteq {Head(run.order)} /\ run'.order = Tail(run.order)
    <2>1. PICK u \in Seq(Issuer) :
            /\ u = Tail(s)
            /\ \A m, n \in 1 .. Len(u) : u[m] = u[n] => m = n
            /\ \A n \in 1 .. Len(u) : /\ \E k \in 1 .. Len(s) : u[n] = s[k]
                                      /\ u[n] # Head(s) /\ u[n] \in Issuer
      BY <1>1, <1>4, OrderTail
    <2>2. ASSUME NEW n \in 1 .. Len(u)
          PROVE  Within(run'.entries[u[n]], AnchorOf(run'.adm[u[n]].producer))
      <3>1. PICK k \in 1 .. Len(s) : u[n] = s[k]
        BY <2>1
      <3>2. u[n] \in Issuer \ S
        BY <1>1, <1>4, <2>1
      <3> QED BY <1>1, <3>1, <3>2
    <2>3. run'.order = u
      BY <1>1, <1>4, <2>1
    <2>4. ASSUME NEW n \in 1 .. Len(run'.order)
          PROVE  Within(run.entries[run.order[n]], AnchorOf(run.adm[run.order[n]].producer))'
      BY <2>2, <2>3 DEF Within, AnchorOf
    <2>5. /\ run'.order \in Seq(Issuer)
          /\ \A m, n \in 1 .. Len(run'.order) : run'.order[m] = run'.order[n] => m = n
      BY <2>1, <2>3
    <2> QED BY <2>4, <2>5 DEF OldOrder
  <1> QED BY <1>3, <1>4

\* One entry is brought forward, or none.
LEMMA ServiceOld ==
    ASSUME OldInv, pc # "idle", cur' = cur, version' = version, published' = published, rows' = rows,
           run'.dets = run.dets, run'.adm = run.adm, NEW i \in Issuer, NEW e2,
           Honest(i, e2, version), BarsLater(i, e2),
           \A j \in Issuer : run'.entries[j] = IF j = i THEN e2 ELSE run.entries[j],
           \/ run'.order = run.order /\ \A day : Within(run.entries[i], day) => Within(e2, day)
           \/ run.order # <<>> /\ i = Head(run.order) /\ run'.order = Tail(run.order),
           OldLead'
    PROVE  OldInv'
  <1>1. OldIdent' /\ OldStored' /\ OldRows'
    BY StoredOldKept
  <1>2. OldOrder'
    <2>1. \A j \in Issuer \ {i} : run'.entries[j] = run.entries[j]
      OBVIOUS
    <2>2. run'.entries[i] = e2
      OBVIOUS
    <2>3. \/ /\ run'.order = run.order
             /\ \A j \in {i} : \A day : Within(run.entries[j], day) => Within(run'.entries[j], day)
          \/ run.order # <<>> /\ {i} \subseteq {Head(run.order)} /\ run'.order = Tail(run.order)
      BY <2>2
    <2> QED BY <2>1, <2>3, OrderOld
  <1>3. OldRun'
    <2> SUFFICES ASSUME NEW j \in Issuer
                 PROVE  /\ Honest(j, run.entries[j], version)' /\ BarsLater(j, run.entries[j])'
                        /\ (run.dets[j].docs \subseteq published)'
                        /\ (run.adm[j].docs \subseteq published)'
                        /\ AnchorOf(run'.adm[j].producer) \in Nat
      BY DEF OldRun, AnchorOf
    <2>1. PICK e, id : e = run'.entries[j] /\ id = version
      OBVIOUS
    <2>2. Honest(j, e, id) /\ BarsLater(j, e)
      BY <2>1 DEF OldInv, OldRun
    <2>3. Honest(j, e, id)' /\ BarsLater(j, e)'
      BY <2>2, StoredOldKept
    <2>4. run'.dets[j].docs \subseteq published' /\ run'.adm[j].docs \subseteq published'
          /\ AnchorOf(run'.adm[j].producer) \in Nat
      BY DEF OldInv, OldRun
    <2> QED BY <2>1, <2>3, <2>4
  <1> QED BY <1>1, <1>2, <1>3 DEF OldInv

LEMMA PassOld ==
    ASSUME OldInv, pc # "idle", cur' = cur, version' = version, published' = published, rows' = rows,
           run'.dets = run.dets, run'.adm = run.adm, run'.entries = run.entries,
           \/ run'.order = run.order
           \/ run.order # <<>> /\ run'.order = Tail(run.order),
           OldLead'
    PROVE  OldInv'
  <1>1. OldIdent' /\ OldStored' /\ OldRows'
    BY StoredOldKept
  <1>2. OldOrder'
    <2>1. /\ \A j \in Issuer \ {} : run'.entries[j] = run.entries[j]
          /\ \A j \in {} : \A day : Within(run.entries[j], day) => Within(run'.entries[j], day)
          /\ {} \subseteq {Head(run.order)}
      OBVIOUS
    <2> QED BY <2>1, OrderOld
  <1>3. OldRun'
    <2> SUFFICES ASSUME NEW j \in Issuer
                 PROVE  /\ Honest(j, run.entries[j], version)' /\ BarsLater(j, run.entries[j])'
                        /\ (run.dets[j].docs \subseteq published)'
                        /\ (run.adm[j].docs \subseteq published)'
                        /\ AnchorOf(run'.adm[j].producer) \in Nat
      BY DEF OldRun, AnchorOf
    <2>1. PICK e, id : e = run'.entries[j] /\ id = version
      OBVIOUS
    <2>2. Honest(j, e, id) /\ BarsLater(j, e)
      BY <2>1 DEF OldInv, OldRun
    <2>3. Honest(j, e, id)' /\ BarsLater(j, e)'
      BY <2>2, StoredOldKept
    <2>4. run'.dets[j].docs \subseteq published' /\ run'.adm[j].docs \subseteq published'
          /\ AnchorOf(run'.adm[j].producer) \in Nat
      BY DEF OldInv, OldRun
    <2> QED BY <2>1, <2>3, <2>4
  <1> QED BY <1>1, <1>2, <1>3 DEF OldInv

\* The run is over.
LEMMA OverOld ==
    ASSUME OldInv, pc' = "idle", cur' = cur, version' = version, published' = published, rows' = rows
    PROVE  OldInv'
  <1>1. OldIdent' /\ OldStored' /\ OldRows'
    BY StoredOldKept
  <1> QED BY <1>1 DEF OldInv, OldRun, OldOrder, OldLead, Leading

-----------------------------------------------------------------------------
(* The steps that record nothing. *)

LEMMA SkipOld ==
    ASSUME UpdateInv, OldInv, NEW i \in Issuer, Skip(i)
    PROVE  OldInv'
  <1>1. /\ pc = "serve" /\ pc' = pc /\ run' = Passed /\ run.order # <<>>
        /\ cur' = cur /\ version' = version /\ published' = published /\ rows' = rows
    BY DEF Skip, Turn, OnlyRun
  <1>2. DOMAIN run = RunFields
    BY <1>1 DEF UpdateInv, RunInv
  <1>3. /\ run'.dets = run.dets /\ run'.adm = run.adm /\ run'.entries = run.entries
        /\ run'.order = Tail(run.order)
    BY <1>1, <1>2 DEF RunFields, Passed
  <1>4. OldLead'
    BY <1>1 DEF OldLead, Leading
  <1> QED BY <1>1, <1>3, <1>4, PassOld

LEMMA CaptureOld ==
    ASSUME UpdateInv, OldInv, TakeTurn \/ Reuse \/ Fetch \/ WriteCapture
    PROVE  OldInv'
  <1>1. /\ pc \in {"queue", "fetch"} /\ pc' = "fetch"
        /\ cur' = cur /\ version' = version /\ published' = published /\ rows' = rows
        /\ run' = run \/ (\E p : run' = Took(p)) \/ (\E p : run' = [Took(p) EXCEPT !.spent = @ + Size[p]])
    BY DEF TakeTurn, Reuse, Fetch, WriteCapture, Requests, Capturing, UnlessStored
  <1>2. DOMAIN run = RunFields
    BY <1>1 DEF UpdateInv, RunInv
  <1>3. /\ run'.dets = run.dets /\ run'.adm = run.adm /\ run'.entries = run.entries
        /\ run'.order = run.order /\ run'.who = run.who /\ run'.lead = run.lead
    <2>1. CASE run' = run
      BY <2>1
    <2>2. ASSUME NEW p, run' = Took(p)
          PROVE  <1>3!:
      BY <1>2, <2>2 DEF RunFields, Took
    <2>3. ASSUME NEW p, run' = [Took(p) EXCEPT !.spent = @ + Size[p]]
          PROVE  <1>3!:
      BY <1>2, <2>3 DEF RunFields, Took
    <2> QED BY <1>1, <2>1, <2>2, <2>3
  <1>4. OldLead'
    BY <1>1, <1>3 DEF OldInv, OldLead, Leading
  <1> QED BY <1>1, <1>3, <1>4, PassOld

LEMMA FinishOld ==
    ASSUME UpdateInv, OldInv, Finish
    PROVE  OldInv'
  <1>1. /\ pc = "serve"
        /\ \/ pc' = "done" /\ run' = run
           \/ pc' = "publish" /\ run' = [run EXCEPT !.then = "done"]
        /\ cur' = cur /\ version' = version /\ published' = published /\ rows' = rows
    BY DEF Finish, OnlyRun
  <1>2. DOMAIN run = RunFields
    BY <1>1 DEF UpdateInv, RunInv
  <1>3. /\ run'.dets = run.dets /\ run'.adm = run.adm /\ run'.entries = run.entries
        /\ run'.order = run.order /\ pc' \in {"done", "publish"}
        /\ pc' = "publish" => run'.then = "done"
    BY <1>1, <1>2 DEF RunFields
  <1>4. OldLead'
    BY <1>1, <1>3 DEF OldLead, Leading
  <1> QED BY <1>1, <1>3, <1>4, PassOld

LEMMA RestsOld ==
    ASSUME OldInv, Rests
    PROVE  OldInv'
  BY OverOld DEF Rests

-----------------------------------------------------------------------------
(* Publication. *)

LEMMA WriteGenerationOld ==
    ASSUME UpdateInv, OldInv, WriteGeneration
    PROVE  OldInv'
  <1>1. /\ pc = "publish" /\ pc' = "pointer"
        /\ cur' = cur /\ version' = version /\ published' = published /\ rows' = rows
    BY DEF WriteGeneration
  <1>2. PICK sealing \in SUBSET Issuer :
          run' = [run EXCEPT !.entries =
                     [i \in Issuer |-> IF i \in sealing THEN Sealed(@[i]) ELSE @[i]]]
    BY DEF WriteGeneration
  <1>3. DOMAIN run = RunFields
    BY <1>1 DEF UpdateInv, RunInv
  <1>4. /\ run'.entries = [i \in Issuer |-> IF i \in sealing THEN Sealed(run.entries[i])
                                                             ELSE run.entries[i]]
        /\ run'.dets = run.dets /\ run'.adm = run.adm /\ run'.then = run.then
        /\ run'.order = run.order /\ run'.who = run.who /\ run'.lead = run.lead
    BY <1>2, <1>3 DEF RunFields
  <1>5. ASSUME NEW i \in Issuer
        PROVE  /\ Honest(i, run'.entries[i], version)
               /\ HistoryOf(run'.entries[i]) = HistoryOf(run.entries[i])
               /\ TailEvents(run'.entries[i]) = TailEvents(run.entries[i])
    <2>1. PICK entry : /\ entry = run.entries[i] /\ Sound(entry, segs)
                       /\ Honest(i, entry, version)
      BY <1>1 DEF UpdateInv, RunInv, OldInv, OldRun
    <2>2. CASE i \in sealing
      BY <1>4, <2>1, <2>2, HonestSealed
    <2>3. CASE i \notin sealing
      BY <1>4, <2>1, <2>3
    <2> QED BY <2>2, <2>3
  <1>6. OldIdent' /\ OldStored' /\ OldRows'
    BY <1>1, StoredOldKept DEF OldInv
  <1>7. OldRun'
    <2> SUFFICES ASSUME NEW j \in Issuer
                 PROVE  /\ Honest(j, run.entries[j], version)' /\ BarsLater(j, run.entries[j])'
                        /\ (run.dets[j].docs \subseteq published)'
                        /\ (run.adm[j].docs \subseteq published)'
                        /\ AnchorOf(run'.adm[j].producer) \in Nat
      BY DEF OldRun, AnchorOf
    <2>1. PICK e, id : e = run'.entries[j] /\ id = version
      OBVIOUS
    <2>2. Honest(j, e, id)
      BY <1>5, <2>1
    <2>3. BarsLater(j, e)
      <3>1. BarsLater(j, run.entries[j])
        BY <1>1 DEF OldInv, OldRun
      <3> QED BY <1>5, <2>1, <3>1 DEF BarsLater
    <2>4. Honest(j, e, id)' /\ BarsLater(j, e)'
      BY <1>1, <2>2, <2>3, StoredOldKept DEF OldInv
    <2>5. run'.dets[j].docs \subseteq published' /\ run'.adm[j].docs \subseteq published'
          /\ AnchorOf(run'.adm[j].producer) \in Nat
      BY <1>1, <1>4 DEF OldInv, OldRun
    <2> QED BY <1>1, <2>1, <2>4, <2>5
  <1>8. OldOrder'
    <2>1. \A j \in Issuer : \A day : Within(run.entries[j], day) => Within(run'.entries[j], day)
      BY <1>5 DEF Within
    <2>2. \A j \in Issuer \ Issuer : run'.entries[j] = run.entries[j]
      OBVIOUS
    <2> QED BY <1>1, <1>4, <2>1, <2>2, OrderOld
  <1>9. OldLead'
    BY <1>1, <1>4 DEF OldInv, OldLead, Leading
  <1> QED BY <1>6, <1>7, <1>8, <1>9 DEF OldInv

LEMMA MovePointerOld ==
    ASSUME UpdateInv, OldInv, MovePointer
    PROVE  OldInv'
  <1>1. /\ pc = "pointer" /\ pc' = run.then
        /\ cur' = [ident |-> version, issuers |-> run.entries, dets |-> run.dets]
        /\ run' = [run EXCEPT !.changed = FALSE]
        /\ version' = version /\ published' = published /\ rows' = rows
    BY DEF MovePointer
  <1>2. DOMAIN run = RunFields /\ run.then \in {"serve", "queue", "done"}
    BY <1>1 DEF UpdateInv, RunInv
  <1>3. /\ run'.entries = run.entries /\ run'.dets = run.dets /\ run'.adm = run.adm
        /\ run'.order = run.order /\ run'.then = run.then
        /\ run'.who = run.who /\ run'.lead = run.lead
    BY <1>1, <1>2 DEF RunFields
  <1>4. version \in 1 .. LastVersion
    BY DEF UpdateInv, RowsInv
  <1>5. Stored' = cur'
    <2>1. cur'.ident = version /\ version # 0
      BY <1>1, <1>4
    <2>2. cur' # NoGen
      BY <2>1 DEF NoGen
    <2> QED BY <2>2 DEF Stored
  <1>6. /\ Stored'.ident = version /\ Stored'.issuers = run.entries /\ Stored'.dets = run.dets
    BY <1>1, <1>5
  <1>7. \A i, entry : BarsLater(i, entry) => BarsLater(i, entry)'
    BY <1>1 DEF BarsLater
  <1>8. \A i, entry, id : Honest(i, entry, id) => Honest(i, entry, id)'
    <2>1. \A i, id : Told(i, id)' = Told(i, id)
      BY <1>1 DEF Told
    <2> QED BY <2>1 DEF Honest
  <1>9. ASSUME NEW i \in Issuer
        PROVE  /\ Honest(i, run.entries[i], version) /\ BarsLater(i, run.entries[i])
               /\ run.dets[i].docs \subseteq published /\ run.adm[i].docs \subseteq published
               /\ AnchorOf(run.adm[i].producer) \in Nat
    BY <1>1 DEF OldInv, OldRun
  <1>10. ASSUME NEW i \in Issuer, NEW e, NEW id, e = run.entries[i], id = version
         PROVE  Honest(i, e, id)' /\ BarsLater(i, e)'
    BY <1>7, <1>8, <1>9, <1>10
  <1>11. OldIdent'
    BY <1>1, <1>4, <1>6 DEF OldIdent
  <1>12. OldStored'
    <2> SUFFICES ASSUME NEW i \in Issuer
                 PROVE  /\ Honest(i, Stored.issuers[i], Stored.ident)'
                        /\ BarsLater(i, Stored.issuers[i])'
                        /\ (Stored.dets[i].docs \subseteq published)'
      BY DEF OldStored
    <2>1. PICK e, id : e = Stored'.issuers[i] /\ id = Stored'.ident
      OBVIOUS
    <2>2. Honest(i, e, id)' /\ BarsLater(i, e)'
      BY <1>6, <1>10, <2>1
    <2>3. (Stored.dets[i].docs \subseteq published)'
      BY <1>1, <1>6, <1>9
    <2> QED BY <2>1, <2>2, <2>3
  <1>13. OldRun'
    <2> SUFFICES ASSUME NEW i \in Issuer
                 PROVE  /\ Honest(i, run.entries[i], version)' /\ BarsLater(i, run.entries[i])'
                        /\ (run.dets[i].docs \subseteq published)'
                        /\ (run.adm[i].docs \subseteq published)'
                        /\ AnchorOf(run'.adm[i].producer) \in Nat
      BY DEF OldRun, AnchorOf
    <2>1. PICK e, id : e = run'.entries[i] /\ id = version'
      OBVIOUS
    <2>2. Honest(i, e, id)' /\ BarsLater(i, e)'
      BY <1>1, <1>3, <1>10, <2>1
    <2>3. run'.dets[i].docs \subseteq published' /\ run'.adm[i].docs \subseteq published'
          /\ AnchorOf(run'.adm[i].producer) \in Nat
      BY <1>1, <1>3, <1>9
    <2> QED BY <2>1, <2>2, <2>3
  <1>14. OldRows'
    <2>1. ASSUME NEW i \in Issuer
          PROVE  VerifiedEvents(HistoryOf(Stored.issuers[i])) \subseteq
                     VerifiedEvents(HistoryOf(run.entries[i]))
      <3>1. Stays(HistoryOf(Stored.issuers[i]), HistoryOf(run.entries[i]))
        BY <1>1 DEF UpdateInv, GrownInv
      <3>2. /\ HistoryOf(Stored.issuers[i]) \in Seq(Held(i))
            /\ HistoryOf(run.entries[i]) \in Seq(Held(i))
        BY <1>1, HistoryShape DEF UpdateInv, StoredInv, RunInv
      <3> QED BY <3>1, <3>2, VerifiedStays
    <2>2. ASSUME NEW i \in Issuer, NEW k \in 1 .. Len(rows[i])
          PROVE  /\ rows[i][k].docs \subseteq published
                 /\ rows[i][k].ref \in {NoDoc} \cup VerifiedEvents(HistoryOf(run.entries[i]))
      BY <2>1 DEF OldInv, OldRows
    <2> QED BY <1>1, <1>6, <2>2 DEF OldRows
  <1>15. OldOrder'
    <2>1. /\ \A j \in Issuer \ {} : run'.entries[j] = run.entries[j]
          /\ \A j \in {} : \A day : Within(run.entries[j], day) => Within(run'.entries[j], day)
      BY <1>3
    <2> QED BY <1>1, <1>3, <2>1, OrderOld
  <1>16. OldLead'
    BY <1>1, <1>2, <1>3 DEF OldInv, OldLead, Leading
  <1> QED BY <1>11, <1>12, <1>13, <1>14, <1>15, <1>16 DEF OldInv

-----------------------------------------------------------------------------
(* The steps that record an attempt. *)

LEMMA AttemptIsTold ==
    ASSUME RowsInv, NEW i \in Issuer, NEW id, NEW key \in Keys(i), NEW docs \in SUBSET Mine(i),
           docs \subseteq published, key.event \in published \cup {NoDoc},
           NEW caps \in Caps, \A k \in DOMAIN caps : Loadable(caps[k]),
           NEW predecessor \in Producers(i), NEW result \in Outcome(key.event),
           result.outcome # "WAITING" => key.event # NoDoc,
           ReadBy(Attempt(key, docs, caps, predecessor, i, result), id)
    PROVE  /\ Attempt(key, docs, caps, predecessor, i, result) \in Told(i, id)
           /\ Attempt(key, docs, caps, predecessor, i, result).key = key
           /\ Attempt(key, docs, caps, predecessor, i, result).outcome = result.outcome
  <1>1. PICK a : a = Attempt(key, docs, caps, predecessor, i, result)
    OBVIOUS
  <1>2. a \in Held(i) /\ a.key = key /\ a.caps = caps /\ a.outcome = result.outcome
    BY <1>1, AttemptIs
  <1>3. a.docs = docs
    BY <1>1 DEF Attempt
  <1>4. ReadBy(a, id)
    BY <1>1
  <1>5. a \in Attempts(i)
    BY <1>2 DEF Held
  <1> QED BY <1>1, <1>2, <1>3, <1>4, <1>5 DEF Told

LEMMA WaitIsTold ==
    ASSUME RowsInv, NEW i \in Issuer, NEW id, NEW key \in Keys(i), NEW docs \in SUBSET Mine(i),
           docs \subseteq published, key.event \in published \cup {NoDoc},
           NEW caps \in Caps, \A k \in DOMAIN caps : Loadable(caps[k]),
           NEW predecessor \in Producers(i), NEW why \in Whys
    PROVE  /\ Attempt(key, docs, caps, predecessor, i, WaitFor(why)) \in Told(i, id)
           /\ Attempt(key, docs, caps, predecessor, i, WaitFor(why)).outcome = "WAITING"
  <1>1. PICK result \in Outcome(key.event) : result = WaitFor(why) /\ result.outcome = "WAITING"
    BY WaitIs
  <1>2. PICK a : a = Attempt(key, docs, caps, predecessor, i, result)
    OBVIOUS
  <1>3. a \in Held(i) /\ a.key = key /\ a.outcome = "WAITING"
    BY <1>1, <1>2, AttemptIs
  <1>4. a.docs = docs
    BY <1>2 DEF Attempt
  <1>5. ReadBy(a, id)
    BY <1>3 DEF ReadBy
  <1>6. a \in Attempts(i)
    BY <1>3 DEF Held
  <1> QED BY <1>1, <1>2, <1>3, <1>4, <1>5, <1>6 DEF Told

\* What is listed is out.
LEMMA ListedIsOut ==
    ASSUME OldInv, RowsInv, NEW i \in Issuer, NEW ref
    PROVE  Listed(i, ref) \subseteq published
  <1>1. rows[i] \in Seq([ref : Results \cup {NoDoc}, docs : SUBSET Mine(i)])
    BY DEF RowsInv
  <1>2. DOMAIN rows[i] = 1 .. Len(rows[i])
    BY <1>1, LenProperties
  <1> QED BY <1>2 DEF Listed, RowsOf, OldInv, OldRows

LEMMA NoResultsOld ==
    ASSUME UpdateInv, OldInv, NEW i \in Issuer, NoResults(i)
    PROVE  OldInv'
  <1>1. RowsInv /\ RunInv
    BY DEF UpdateInv
  <1>2. /\ pc = "serve" /\ pc' = pc /\ run.order # <<>> /\ i = Head(run.order)
        /\ cur' = cur /\ version' = version /\ published' = published /\ rows' = rows
    BY DEF NoResults, Turn, OnlyRun
  <1>3. PICK entry : /\ entry = run.entries[i] /\ Sound(entry, segs)
                     /\ Honest(i, entry, version) /\ BarsLater(i, entry)
    BY <1>1, <1>2 DEF RunInv, OldInv, OldRun
  <1>4. PICK producer \in Producers(i), docs \in SUBSET Mine(i), material \in SUBSET Mine(i) :
          /\ producer = run.adm[i].producer /\ docs = run.dets[i].docs
          /\ material = Unaccounted(producer, Listed(i, ReferenceOf(producer)) \cup run.adm[i].docs)
    <2>1. run.adm[i].producer \in Producers(i) /\ run.dets[i].docs \subseteq Mine(i)
          /\ run.adm[i].docs \subseteq Mine(i)
      BY <1>1, <1>2 DEF RunInv, Seens
    <2>2. \A p : Listed(i, ReferenceOf(p)) \cup run.adm[i].docs \subseteq Mine(i)
      BY <1>1, <2>1, ListedIsMine
    <2>3. \A p : Unaccounted(p, Listed(i, ReferenceOf(p)) \cup run.adm[i].docs) \subseteq Mine(i)
      BY <2>2, UnaccountedAreSome
    <2> QED BY <2>1, <2>3
  <1>5. PICK new \in Told(i, version) :
          /\ new = Attempt(UnresolvedKey(material), docs, <<>>, producer, i, WaitFor("unresolved"))
          /\ new.outcome = "WAITING"
    <2>1. UnresolvedKey(material) \in Keys(i) /\ UnresolvedKey(material).event = NoDoc
      BY DEF UnresolvedKey, Keys
    <2>2. "unresolved" \in Whys
      BY DEF Whys
    <2>3. docs \subseteq published
      BY <1>2, <1>4 DEF OldInv, OldRun
    <2>4. <<>> \in Caps /\ \A k \in DOMAIN <<>> : Loadable(<<>>[k])
      BY NoCaps
    <2>5. UnresolvedKey(material).event \in published \cup {NoDoc}
      BY <2>1
    <2> QED BY <1>1, <2>1, <2>2, <2>3, <2>4, <2>5, WaitIsTold
  <1>6. PICK prior :
          /\ prior = IF /\ entry.open # <<>> /\ Last(entry.open).outcome = "WAITING"
                        /\ Last(entry.open).key.event = NoDoc
                     THEN Dropped(entry) ELSE entry
          /\ \/ run' = Passed
             \/ run' = [Passed EXCEPT !.entries[i] = Appended(prior, new), !.changed = TRUE]
    BY <1>3, <1>4, <1>5 DEF NoResults, Dropped
  <1>7. DOMAIN run = RunFields /\ DOMAIN run.entries = Issuer
    BY <1>1, <1>2 DEF RunInv
  <1>8. OldLead'
    BY <1>2 DEF OldLead, Leading
  <1>9. CASE run' = Passed
    <2>1. /\ run'.dets = run.dets /\ run'.adm = run.adm /\ run'.entries = run.entries
          /\ run'.order = Tail(run.order)
      BY <1>7, <1>9 DEF RunFields, Passed
    <2> QED BY <1>2, <1>8, <2>1, PassOld
  <1>10. CASE run' = [Passed EXCEPT !.entries[i] = Appended(prior, new), !.changed = TRUE]
    <2>1. new.outcome # "VERIFIED"
      BY <1>5
    <2>2. Tells(i, version, entry, new, Appended(prior, new))
      <3>1. CASE prior = entry
        BY <1>3, <2>1, <3>1, AppendedTells
      <3>2. CASE prior # entry
        <4>1. /\ prior = Dropped(entry) /\ entry.open # <<>>
              /\ Last(entry.open).outcome = "WAITING"
          BY <1>6, <3>2
        <4> QED BY <1>3, <2>1, <4>1, ReplacedTells
      <3> QED BY <3>1, <3>2
    <2>3. PICK e2 : /\ e2 = Appended(prior, new)
                    /\ Honest(i, e2, version) /\ BarsLater(i, e2)
      BY <1>3, <2>1, <2>2, TellsBars DEF Tells
    <2>4. /\ run'.dets = run.dets /\ run'.adm = run.adm /\ run'.order = Tail(run.order)
          /\ \A j \in Issuer : run'.entries[j] = IF j = i THEN e2 ELSE run.entries[j]
      BY <1>7, <1>10, <2>3 DEF RunFields, Passed
    <2> QED BY <1>2, <1>8, <2>3, <2>4, ServiceOld
  <1> QED BY <1>6, <1>9, <1>10

LEMMA DetectOld ==
    ASSUME UpdateInv, OldInv, NEW i \in Issuer, Detect(i)
    PROVE  OldInv'
  <1>1. RowsInv /\ RunInv
    BY DEF UpdateInv
  <1>2. /\ pc = "serve" /\ Unsettled(i) # {} /\ run.order # <<>> /\ i = Head(run.order)
        /\ cur' = cur /\ version' = version /\ published' = published /\ rows' = rows
    BY DEF Detect, Turn, OnlyRun
  <1>3. PICK entry : /\ entry = run.entries[i] /\ Sound(entry, segs)
                     /\ Honest(i, entry, version) /\ BarsLater(i, entry)
    BY <1>1, <1>2 DEF RunInv, OldInv, OldRun
  <1>4. PICK e \in Results \cap Mine(i) : e = Oldest(Unsettled(i)) /\ e \in published
    <2>1. Unsettled(i) \subseteq Results \cap Mine(i)
      BY <1>1, <1>2, CandidatesAre DEF Unsettled
    <2>2. Unsettled(i) \subseteq Doc
      BY <2>1 DEF Mine
    <2>3. Unsettled(i) \subseteq published
      <3>1. run.adm[i].docs \subseteq published
        BY <1>2 DEF OldInv, OldRun
      <3>2. \A ref : Listed(i, ref) \subseteq published
        BY <1>1, ListedIsOut
      <3> QED BY <3>1, <3>2 DEF Unsettled, Candidates
    <2> QED BY <1>2, <2>1, <2>2, <2>3, OldestIsOne
  <1>5. PICK producer \in Producers(i), docs \in SUBSET Mine(i) :
          producer = run.adm[i].producer /\ docs = run.dets[i].docs
    BY <1>1, <1>2 DEF RunInv, Seens
  <1>6. PICK new \in Told(i, version) :
          /\ new = Attempt(EventKey(e), docs, <<>>, producer, i, WaitFor("detected"))
          /\ new.outcome = "WAITING"
    <2>1. EventKey(e) \in Keys(i) /\ EventKey(e).event = e
      BY DEF EventKey, Keys
    <2>2. "detected" \in Whys
      BY DEF Whys
    <2>3. docs \subseteq published
      BY <1>2, <1>5 DEF OldInv, OldRun
    <2>4. <<>> \in Caps /\ \A k \in DOMAIN <<>> : Loadable(<<>>[k])
      BY NoCaps
    <2>5. EventKey(e).event \in published \cup {NoDoc}
      BY <1>4, <2>1
    <2> QED BY <1>1, <2>1, <2>2, <2>3, <2>4, <2>5, WaitIsTold
  <1>7. PICK there \in BOOLEAN :
          /\ run' = [run EXCEPT !.entries[i] = IF there THEN @ ELSE Recorded(@, new),
                                !.changed = @ \/ ~there,
                                !.who = i, !.lead = e, !.caps = <<>>, !.then = "queue"]
          /\ pc' = IF run.changed \/ ~there THEN "publish" ELSE "queue"
    <2>1. PICK there : there = \E k \in DOMAIN entry.open : entry.open[k].key = EventKey(e)
      OBVIOUS
    <2>2. there \in BOOLEAN
      BY <2>1
    <2> QED BY <1>3, <1>4, <1>5, <1>6, <2>1, <2>2, Zenon DEF Detect
  <1>8. PICK e2 :
          /\ e2 = IF there THEN entry ELSE Recorded(entry, new)
          /\ Honest(i, e2, version) /\ BarsLater(i, e2)
          /\ \A day : Within(entry, day) => Within(e2, day)
    <2>1. new.outcome # "VERIFIED"
      BY <1>6
    <2>2. Tells(i, version, entry, new, Recorded(entry, new))
      BY <1>3, <2>1, RecordedTells
    <2>3. Honest(i, Recorded(entry, new), version) /\ BarsLater(i, Recorded(entry, new))
      BY <1>3, <2>1, <2>2, TellsBars DEF Tells
    <2>4. \A day : Within(entry, day) => Within(Recorded(entry, new), day)
      BY <2>1, <2>2 DEF Tells
    <2> QED BY <1>3, <2>3, <2>4
  <1>9. DOMAIN run = RunFields /\ DOMAIN run.entries = Issuer
    BY <1>1, <1>2 DEF RunInv
  <1>10. /\ run'.dets = run.dets /\ run'.adm = run.adm /\ run'.order = run.order
         /\ run'.who = i /\ run'.lead = e
         /\ \A j \in Issuer : run'.entries[j] = IF j = i THEN e2 ELSE run.entries[j]
    BY <1>3, <1>7, <1>8, <1>9 DEF RunFields
  <1>11. OldLead'
    BY <1>2, <1>4, <1>10 DEF OldLead
  <1> QED BY <1>2, <1>3, <1>8, <1>10, <1>11, ServiceOld

-----------------------------------------------------------------------------
(* A verified attempt. *)

\* What was verified and is not before an event later than all that are located
\* was refused since.
LEMMA LaterIsRefuted ==
    ASSUME NEW i, NEW id, NEW entry, Honest(i, entry, id), NEW stored, Sound(entry, stored),
           NEW day \in Nat, Within(entry, day),
           NEW e \in Results, day < Day[e],
           NEW g \in VerifiedEvents(HistoryOf(entry)), Day[g] >= Day[e]
    PROVE  Refuted(g, id)
  <1>1. PICK A : A = Told(i, id)
    OBVIOUS
  <1>2. entry \in Entries(A) /\ \A b \in A : b.outcome = "VERIFIED" => b.key.event \in Results
    BY <1>1, ToldAre DEF Honest
  <1>3. g \in Results
    BY HonestVerified
  <1>4. PICK dg \in Nat, de \in Nat : dg = Day[g] /\ de = Day[e]
    BY <1>3, DaysAre
  <1>5. PICK t : t = TailEvents(entry)
    OBVIOUS
  <1>6. \A k \in 1 .. Len(t) : t[k] \in Results => Day[t[k]] # dg /\ ~(dg < Day[t[k]])
    <2> SUFFICES ASSUME NEW k \in 1 .. Len(t), t[k] \in Results
                 PROVE  Day[t[k]] # dg /\ ~(dg < Day[t[k]])
      OBVIOUS
    <2>1. PICK dk \in Nat : dk = Day[t[k]]
      BY DaysAre
    <2>2. dk <= day
      BY <1>5, <2>1 DEF Within
    <2>3. day < dg
      BY <1>4
    <2> QED BY <2>1, <2>2, <2>3
  <1>7. t \in Seq(Results)
    BY <1>2, <1>5, TailEventsAre DEF Sound
  <1>8. \A k \in 1 .. Len(t) : t[k] \in Results
    BY <1>7, ElementOfSeq
  <1>9. ~ \E k \in 1 .. Len(t) : g = t[k]
    BY <1>4, <1>6, <1>8
  <1>10. ~ (t # <<>> /\ \A k \in 1 .. Len(t) : Day[g] < Day[t[k]])
    <2>1. t # <<>> => 1 \in 1 .. Len(t)
      BY <1>7, EmptySeq
    <2> QED BY <1>4, <1>6, <1>8, <2>1
  <1> QED BY <1>5, <1>9, <1>10 DEF Honest, Explained

\* Two releases verified and then refused, and the older one read again: no
\* identity does that.
LEMMA NotBothRefuted ==
    ASSUME OlderReadingsStand, NEW e \in Results, NEW f \in Results, Owner[e] = Owner[f],
           Day[e] < Day[f], NEW w \in 1 .. LastVersion,
           Refuted(e, w), Refuted(f, w)
    PROVE  Reading[w][e] = Refused
  <1> SUFFICES ASSUME Reading[w][e] # Refused
               PROVE  FALSE
    OBVIOUS
  <1>1. PICK v \in 1 .. w : Withdraws(v, f)
    BY DEF Refuted
  <1>2. PICK y \in 1 .. w : Withdraws(y, e)
    BY DEF Refuted
  <1>3. PICK x \in 1 .. y : Reading[x][e] # Refused /\ Reading[y][e] = Refused
    BY <1>2 DEF Withdraws
  <1>4. LastVersion \in Nat
    BY UpdateAssumption
  <1>5. v \in 1 .. LastVersion /\ w \in v .. LastVersion /\ x \in 1 .. w /\ y \in x .. w
    BY <1>4
  <1>6. \A z \in x .. w : Reading[z][e] # Refused
    BY <1>1, <1>3, <1>5 DEF OlderReadingsStand
  <1> QED BY <1>3, <1>5, <1>6

\* An event decided VERIFIED is later than all that are located.  A row that
\* starts after it shows that it was verified before, and then refused; what was
\* verified and is later was refused too.
LEMMA DecidedBars ==
    ASSUME OlderReadingsStand, UpdateInv, OldInv, pc # "idle", NEW i \in Issuer,
           NEW e \in Results \cap Mine(i), NEW day \in Nat, Within(run.entries[i], day), day < Day[e],
           Reading[version][e] # Refused, NEW a, a.outcome = "VERIFIED", a.key.event = e,
           NEW e2, Tells(i, version, run.entries[i], a, e2)
    PROVE  BarsLater(i, e2)
  <1>1. PICK entry : /\ entry = run.entries[i] /\ Sound(entry, segs)
                     /\ Honest(i, entry, version)
    BY DEF UpdateInv, RunInv, OldInv, OldRun
  <1>2. PICK V : V = VerifiedEvents(HistoryOf(entry)) /\ V \subseteq Results \cap Mine(i)
    BY <1>1, HonestVerified
  <1>3. /\ VerifiedEvents(HistoryOf(e2)) = V \cup {e}
        /\ Last(HistoryOf(e2)).key.event = e
    <2>1. ~(a.outcome = "WAITING")
      OBVIOUS
    <2> QED BY <1>1, <1>2, <2>1 DEF Tells
  <1> SUFFICES ASSUME NEW f \in V \cup {e}, NEW k \in 1 .. Len(rows[i]),
                      rows[i][k].ref = e, Day[f] > Day[e]
               PROVE  FALSE
    BY <1>3 DEF BarsLater
  <1>4. e # NoDoc
    BY HistoryAssumption
  <1>5. e \in V
    <2>1. e \in VerifiedEvents(HistoryOf(Stored.issuers[i]))
      BY <1>4 DEF OldInv, OldRows
    <2>2. Stays(HistoryOf(Stored.issuers[i]), HistoryOf(entry))
      BY <1>1 DEF UpdateInv, GrownInv
    <2>3. HistoryOf(Stored.issuers[i]) \in Seq(Held(i)) /\ HistoryOf(entry) \in Seq(Held(i))
      BY <1>1, HistoryShape DEF UpdateInv, StoredInv, RunInv
    <2> QED BY <1>2, <2>1, <2>2, <2>3, VerifiedStays
  <1>6. PICK de \in Nat, df \in Nat : de = Day[e] /\ df = Day[f] /\ df > de
    BY <1>2, DaysAre
  <1>7. f \in V /\ f \in Results /\ Day[e] < Day[f] /\ Day[f] >= Day[e] /\ Day[e] >= Day[e]
    <2>1. f # e
      BY <1>6
    <2> QED BY <1>2, <1>6, <2>1
  <1>8. Refuted(e, version)
    BY <1>1, <1>2, <1>5, <1>7, LaterIsRefuted
  <1>9. Refuted(f, version)
    BY <1>1, <1>2, <1>7, LaterIsRefuted
  <1>10. version \in 1 .. LastVersion /\ Owner[e] = Owner[f]
    BY <1>2, <1>7 DEF UpdateInv, RowsInv, Mine
  <1> QED BY <1>7, <1>8, <1>9, <1>10, NotBothRefuted

\* What a verdict of VERIFIED says.
LEMMA VerdictReads ==
    ASSUME NEW e, NEW caps, NEW predecessor, Verdict(e, caps, predecessor).outcome = "VERIFIED"
    PROVE  /\ caps["feed"] # <<e, "early">>
           /\ Verdict(e, caps, predecessor).reading = Reading[version][e]
           /\ Reading[version][e] # Refused /\ ~(AnchorOf(predecessor) >= Day[e])
  BY DEF Verdict

\* The attempt is recorded, whatever it gave.
LEMMA RecordingOld ==
    ASSUME OlderReadingsStand, UpdateInv, OldInv, pc = "fetch", stage = "open", pc' = "serve",
           cur' = cur, version' = version, published' = published, rows' = rows,
           NEW result \in Outcome(NoDoc), NEW spent,
           result.outcome = "VERIFIED" =>
               /\ run.caps["feed"] # <<run.lead, "early">>
               /\ result.reading = Reading[version][run.lead] /\ result.reading # Refused
               /\ AnchorOf(run.adm[run.who].producer) < Day[run.lead],
           \/ run' = Recording(result, run.caps, spent)
           \/ run' = [Recording(result, run.caps, spent) EXCEPT !.exhausted = TRUE]
    PROVE  OldInv'
  <1>1. RowsInv /\ RunInv /\ LeadInv /\ CapsInv
    BY DEF UpdateInv
  <1>2. /\ run.order \in Seq(Issuer) /\ run.order # <<>> /\ run.who = Head(run.order)
        /\ run.lead \in published
    BY DEF OldInv, OldOrder, OldLead, Leading
  <1>3. PICK i \in Issuer, e \in Results :
          /\ i = run.who /\ e = run.lead /\ e \in Mine(i) /\ i = Head(run.order) /\ e \in published
    <2>1. run.who \in Issuer /\ run.lead \in Results /\ Owner[run.lead] = run.who
      BY <1>1 DEF LeadInv, Leading
    <2> QED BY <1>2, <2>1, HistoryAssumption DEF Mine
  <1>4. PICK entry : /\ entry = run.entries[i] /\ Sound(entry, segs)
                     /\ Honest(i, entry, version) /\ BarsLater(i, entry)
    BY <1>1 DEF RunInv, OldInv, OldRun
  <1>5. PICK producer \in Producers(i), docs \in SUBSET Mine(i), caps \in Caps :
          /\ producer = run.adm[i].producer /\ docs = run.dets[i].docs /\ caps = run.caps
          /\ \A k \in DOMAIN caps : Loadable(caps[k])
          /\ docs \subseteq published
    BY <1>1 DEF RunInv, Seens, CapsInv, OldInv, OldRun
  <1>6. version \in 1 .. version
    BY <1>1 DEF RowsInv
  <1>7. PICK new \in Told(i, version) :
          /\ new = Attempt(EventKey(e), docs, caps, producer, i, result)
          /\ new.key.event = e /\ new.outcome = result.outcome
    <2>1. EventKey(e) \in Keys(i) /\ EventKey(e).event = e /\ e # NoDoc
      BY <1>3, HistoryAssumption DEF EventKey, Keys
    <2>2. PICK key \in Keys(i) : key = EventKey(e) /\ key.event = e
      BY <2>1
    <2>3. result \in Outcome(key.event)
      BY DEF Outcome
    <2>4. key.event \in published \cup {NoDoc} /\ (result.outcome # "WAITING" => key.event # NoDoc)
      BY <1>3, <2>1, <2>2
    <2>5. ReadBy(Attempt(key, docs, caps, producer, i, result), version)
      <3>1. PICK a : a = Attempt(key, docs, caps, producer, i, result)
        OBVIOUS
      <3>2. a.key.event = e /\ a.caps = caps /\ a.outcome = result.outcome /\ a.reading = result.reading
        BY <2>2, <3>1 DEF Attempt
      <3>3. result.outcome = "VERIFIED" =>
              /\ caps["feed"] # <<e, "early">>
              /\ result.reading = Reading[version][e] /\ result.reading # Refused
        BY <1>3, <1>5
      <3> QED BY <1>6, <3>1, <3>2, <3>3 DEF ReadBy
    <2>6. RowsInv /\ docs \subseteq published /\ \A k \in DOMAIN caps : Loadable(caps[k])
      BY <1>1, <1>5
    <2>7. /\ Attempt(key, docs, caps, producer, i, result) \in Told(i, version)
          /\ Attempt(key, docs, caps, producer, i, result).key = key
          /\ Attempt(key, docs, caps, producer, i, result).outcome = result.outcome
      BY <2>3, <2>4, <2>5, <2>6, AttemptIsTold
    <2> QED BY <2>2, <2>7
  (* The served issuer is in the order, so its anchor bounds what is located.  *)
  <1>8. PICK day \in Nat : day = AnchorOf(producer) /\ Within(entry, day)
    <2>1. 1 \in 1 .. Len(run.order) /\ run.order[1] = i
      BY <1>2, <1>3, EmptySeq, HeadTailProperties DEF Head
    <2>2. Within(entry, AnchorOf(producer))
      BY <1>4, <1>5, <2>1 DEF OldInv, OldOrder
    <2>3. AnchorOf(producer) \in Nat
      BY <1>5 DEF OldInv, OldRun
    <2> QED BY <2>2, <2>3
  <1>9. PICK e2 :
          /\ e2 = IF SettledFits(Recorded(entry, new)) THEN Recorded(entry, new) ELSE entry
          /\ Honest(i, e2, version) /\ BarsLater(i, e2)
    <2>1. new.outcome = "VERIFIED" =>
            /\ Reading[version][e] # Refused /\ day < Day[e]
            /\ \A k \in 1 .. Len(TailEvents(entry)) : Day[TailEvents(entry)[k]] < Day[new.key.event]
      <3> SUFFICES ASSUME new.outcome = "VERIFIED"
                   PROVE  <2>1!2
        OBVIOUS
      <3>1. Reading[version][e] # Refused /\ day < Day[e]
        BY <1>3, <1>5, <1>7, <1>8
      <3>2. ASSUME NEW k \in 1 .. Len(TailEvents(entry))
            PROVE  Day[TailEvents(entry)[k]] < Day[e]
        <4>1. PICK A : A = Told(i, version)
          OBVIOUS
        <4>2. entry \in Entries(A) /\ \A b \in A : b.outcome = "VERIFIED" => b.key.event \in Results
          BY <1>4, <4>1, ToldAre DEF Honest
        <4>3. PICK t \in Seq(Results) : t = TailEvents(entry)
          BY <1>4, <4>2, TailEventsAre DEF Sound
        <4>4. t[k] \in Results
          BY <4>3, ElementOfSeq
        <4>5. PICK dk \in Nat, de \in Nat : dk = Day[t[k]] /\ de = Day[e]
          BY <4>4, DaysAre
        <4>6. dk <= day
          BY <1>8, <4>3, <4>5 DEF Within
        <4> QED BY <3>1, <4>3, <4>5, <4>6
      <3> QED BY <1>7, <3>1, <3>2
    <2>2. Tells(i, version, entry, new, Recorded(entry, new))
      BY <1>4, <2>1, RecordedTells
    <2>3. BarsLater(i, Recorded(entry, new))
      <3>1. CASE new.outcome # "VERIFIED"
        BY <1>4, <2>2, <3>1, TellsBars
      <3>2. CASE new.outcome = "VERIFIED"
        <4>1. pc # "idle" /\ e \in Results \cap Mine(i) /\ Within(run.entries[i], day)
              /\ day < Day[e] /\ Reading[version][e] # Refused
          BY <1>3, <1>4, <1>8, <2>1, <3>2
        <4> QED BY <1>4, <1>7, <2>2, <3>2, <4>1, DecidedBars
      <3> QED BY <3>1, <3>2
    <2> QED BY <1>4, <2>2, <2>3 DEF Tells
  <1>10. DOMAIN run = RunFields /\ DOMAIN run.entries = Issuer
    BY <1>1 DEF RunInv
  <1>11. Recording(result, run.caps, spent) =
              [Passed EXCEPT !.who = NoIssuer, !.lead = NoDoc, !.caps = <<>>, !.spent = spent,
                  !.served = run.who,
                  !.entries[i] = IF SettledFits(Recorded(entry, new)) THEN Recorded(entry, new) ELSE @,
                  !.changed = @ \/ (/\ SettledFits(Recorded(entry, new))
                                    /\ Recorded(entry, new) # run.entries[i])]
    BY <1>3, <1>4, <1>5, <1>7 DEF Recording
  <1>12. /\ run'.dets = run.dets /\ run'.adm = run.adm /\ run'.order = Tail(run.order)
         /\ \A j \in Issuer : run'.entries[j] = IF j = i THEN e2 ELSE run.entries[j]
    <2>1. PICK fits, after : fits = SettledFits(Recorded(entry, new)) /\ after = Recorded(entry, new)
      OBVIOUS
    <2>2. PICK r : /\ r = [Passed EXCEPT !.who = NoIssuer, !.lead = NoDoc, !.caps = <<>>, !.spent = spent,
                                !.served = run.who, !.entries[i] = IF fits THEN after ELSE @,
                                !.changed = @ \/ (fits /\ after # run.entries[i])]
                   /\ run' = r \/ run' = [r EXCEPT !.exhausted = TRUE]
      BY <1>11, <2>1
    <2>3. /\ DOMAIN r = RunFields /\ r.dets = run.dets /\ r.adm = run.adm /\ r.order = Tail(run.order)
          /\ r.entries = [run.entries EXCEPT ![i] = IF fits THEN after ELSE @]
      BY <1>3, <1>10, <2>2 DEF RunFields, Passed
    <2>4. run'.dets = r.dets /\ run'.adm = r.adm /\ run'.order = r.order /\ run'.entries = r.entries
      <3>1. CASE run' = r
        BY <3>1
      <3>2. CASE run' = [r EXCEPT !.exhausted = TRUE]
        <4>1. \A f \in RunFields \ {"exhausted"} : run'[f] = r[f]
          BY <2>3, <3>2
        <4> QED BY <4>1 DEF RunFields
      <3> QED BY <2>2, <3>1, <3>2
    <2> QED BY <1>4, <1>9, <1>10, <2>1, <2>3, <2>4
  <1>13. OldLead'
    BY DEF OldLead, Leading
  <1> QED BY <1>2, <1>3, <1>9, <1>12, <1>13, ServiceOld

LEMMA DecideOld ==
    ASSUME OlderReadingsStand, UpdateInv, OldInv, Decide
    PROVE  OldInv'
  <1>1. /\ pc = "fetch" /\ stage = "open" /\ pc' = "serve"
        /\ cur' = cur /\ version' = version /\ published' = published /\ rows' = rows
    BY DEF Decide, Goes
  <1>2. PICK e \in Results, i \in Issuer : e = run.lead /\ i = run.who
    BY <1>1 DEF UpdateInv, LeadInv, Leading
  <1>3. PICK result \in Outcome(NoDoc) :
          result = Verdict(e, run.caps, run.adm[i].producer)
    <2>1. Verdict(e, run.caps, run.adm[i].producer) \in Outcome(e)
      BY VerdictIs DEF UpdateInv
    <2> QED BY <2>1 DEF Outcome
  <1>4. result.outcome = "VERIFIED" =>
          /\ run.caps["feed"] # <<run.lead, "early">>
          /\ result.reading = Reading[version][run.lead] /\ result.reading # Refused
          /\ AnchorOf(run.adm[run.who].producer) < Day[run.lead]
    <2>1. PICK anchor \in Nat : anchor = AnchorOf(run.adm[i].producer)
      BY <1>1 DEF OldInv, OldRun
    <2>2. PICK de \in Nat : de = Day[e]
      BY DaysAre
    <2>3. result.outcome = "VERIFIED" =>
            /\ run.caps["feed"] # <<e, "early">>
            /\ result.reading = Reading[version][e] /\ result.reading # Refused
            /\ ~(anchor >= de)
      BY <1>3, <2>1, <2>2, VerdictReads
    <2> QED BY <1>2, <2>1, <2>2, <2>3
  <1>5. run' = Recording(result, run.caps, run.spent)
    BY <1>2, <1>3 DEF Decide
  <1> QED BY <1>1, <1>4, <1>5, RecordingOld

LEMMA FailsOld ==
    ASSUME OlderReadingsStand, UpdateInv, OldInv, Fails
    PROVE  OldInv'
  <1>1. /\ pc = "fetch" /\ stage = "open" /\ pc' = "serve"
        /\ cur' = cur /\ version' = version /\ published' = published /\ rows' = rows
    BY DEF Fails, Requests, Capturing, Goes
  <1>2. PICK result \in Outcome(NoDoc) : result = WaitFor("interrupted") /\ result.outcome = "WAITING"
    BY WaitIs DEF Whys
  <1>3. PICK spent : run' = Recording(result, run.caps, spent)
    BY <1>2 DEF Fails
  <1>4. result.outcome # "VERIFIED"
    BY <1>2
  <1> QED BY <1>1, <1>3, <1>4, RecordingOld

LEMMA ExhaustedOld ==
    ASSUME OlderReadingsStand, UpdateInv, OldInv, Exhausted
    PROVE  OldInv'
  <1>1. /\ pc = "fetch" /\ stage = "open" /\ pc' = "serve"
        /\ cur' = cur /\ version' = version /\ published' = published /\ rows' = rows
    BY DEF Exhausted, Requests, Capturing, Goes
  <1>2. CASE run.caps = <<>>
    <2>1. run' = [Passed EXCEPT !.who = NoIssuer, !.lead = NoDoc, !.exhausted = TRUE]
      BY <1>2 DEF Exhausted
    <2>2. DOMAIN run = RunFields /\ run.order # <<>>
      BY <1>1 DEF UpdateInv, RunInv, OldInv, OldLead, Leading
    <2>3. /\ run'.dets = run.dets /\ run'.adm = run.adm /\ run'.entries = run.entries
          /\ run'.order = Tail(run.order)
      BY <2>1, <2>2 DEF RunFields, Passed
    <2>4. OldLead'
      BY <1>1 DEF OldLead, Leading
    <2> QED BY <1>1, <2>2, <2>3, <2>4, PassOld
  <1>3. CASE run.caps # <<>>
    <2>1. run' = [Recording(WaitFor("interrupted"), run.caps, run.spent) EXCEPT !.exhausted = TRUE]
      BY <1>3 DEF Exhausted
    <2>2. PICK result \in Outcome(NoDoc) :
            result = WaitFor("interrupted") /\ result.outcome = "WAITING"
      BY WaitIs DEF Whys
    <2>3. result.outcome # "VERIFIED" /\ run' = [Recording(result, run.caps, run.spent) EXCEPT !.exhausted = TRUE]
      BY <2>1, <2>2
    <2> QED BY <1>1, <2>3, RecordingOld
  <1> QED BY <1>2, <1>3

-----------------------------------------------------------------------------
(* Producers. *)

\* A producer is a verified attempt about the latest event that is located.
LEMMA ProducerTold ==
    ASSUME NEW i, NEW id, NEW entry, Honest(i, entry, id), NEW stored, Sound(entry, stored),
           entry.verified # <<>>
    PROVE  \E a \in Told(i, id), t \in Seq(Results), n \in Nat :
              /\ a = AttemptAt(entry, Last(entry.verified)) /\ a.outcome = "VERIFIED"
              /\ t = TailEvents(entry) /\ t # <<>> /\ Len(t) = n + 1 /\ Len(entry.verified) = n + 1
              /\ a.key.event \in Results /\ a.key.event = t[n + 1]
              /\ Front(t) \in Seq(Results) /\ Len(Front(t)) = n
              /\ \A k \in 1 .. n : Front(t)[k] = t[k] /\ Day[t[k]] < Day[a.key.event]
              /\ Ascending(Front(t))
  <1>1. PICK A : A = Told(i, id)
    OBVIOUS
  <1>2. entry \in Entries(A) /\ Indexed(entry) /\ \A b \in A : b.outcome = "VERIFIED" => b.key.event \in Results
    BY <1>1, ToldAre DEF Honest, Sound
  <1>3. PICK t \in Seq(Results) : /\ t = TailEvents(entry) /\ t # <<>>
                                  /\ Len(t) = Len(entry.verified) /\ Ascending(t)
    BY <1>2, TailEventsAre DEF Honest
  <1>4. PICK n \in Nat :
          /\ Len(t) = n + 1 /\ Front(t) \in Seq(Results) /\ Len(Front(t)) = n
          /\ \A k \in 1 .. n : Front(t)[k] = t[k]
          /\ Last(t) = t[n + 1] /\ Last(t) \in Results
          /\ Ascending(Front(t))
          /\ \A k \in 1 .. n : Day[Front(t)[k]] < Day[Last(t)]
    BY <1>3, FrontTail
  <1>5. Last(entry.verified) = entry.verified[n + 1] /\ n + 1 \in 1 .. Len(entry.verified)
    BY <1>3, <1>4 DEF Last
  <1>6. PICK a \in A : /\ a = AttemptAt(entry, Last(entry.verified)) /\ a.outcome = "VERIFIED"
                       /\ a.key.event = t[n + 1]
    BY <1>2, <1>3, <1>5, LocatedIsVerified
  <1> QED BY <1>1, <1>3, <1>4, <1>6

\* So it bounds what is located.
LEMMA ProducerBounds ==
    ASSUME NEW i, NEW id, NEW entry, Honest(i, entry, id), NEW stored, Sound(entry, stored),
           NEW producer,
           producer = IF entry.verified = <<>> THEN NoAttempt ELSE AttemptAt(entry, Last(entry.verified))
    PROVE  AnchorOf(producer) \in Nat /\ Within(entry, AnchorOf(producer))
  <1>1. CASE entry.verified = <<>>
    <2>1. AnchorOf(producer) = 0
      BY <1>1 DEF AnchorOf
    <2>2. PICK A : A = Told(i, id)
      OBVIOUS
    <2>3. entry \in Entries(A) /\ Indexed(entry) /\ \A b \in A : b.outcome = "VERIFIED" => b.key.event \in Results
      BY <2>2, ToldAre DEF Honest, Sound
    <2>4. TailEvents(entry) = <<>>
      BY <1>1, <2>3, TailEventsAre
    <2> QED BY <2>1, <2>4, EmptySeq DEF Within
  <1>2. CASE entry.verified # <<>>
    <2>1. PICK a \in Told(i, id), t \in Seq(Results), n \in Nat :
            /\ a = producer /\ t = TailEvents(entry) /\ Len(t) = n + 1
            /\ a.key.event \in Results /\ a.key.event = t[n + 1]
            /\ \A k \in 1 .. n : Day[t[k]] < Day[a.key.event]
      BY <1>2, ProducerTold
    <2>2. producer # NoAttempt
      BY <2>1, NoAttemptIsNone, ToldAre
    <2>3. PICK day \in Nat : day = AnchorOf(producer) /\ day = Day[a.key.event]
      BY <2>1, <2>2, DaysAre DEF AnchorOf
    <2>4. ASSUME NEW k \in 1 .. n + 1
          PROVE  Day[t[k]] <= day
      <3>1. PICK dk \in Nat : dk = Day[t[k]]
        BY <2>1, DaysAre, ElementOfSeq
      <3>2. CASE k \in 1 .. n
        BY <2>1, <2>3, <3>1, <3>2
      <3>3. CASE k = n + 1
        BY <2>1, <2>3, <3>3
      <3> QED BY <3>2, <3>3
    <2> QED BY <2>1, <2>3, <2>4 DEF Within
  <1> QED BY <1>1, <1>2

\* The producer before it is older.
LEMMA BeforeIsOlder ==
    ASSUME NEW i, NEW id, NEW entry, Honest(i, entry, id), NEW stored, Sound(entry, stored),
           entry.verified # <<>>, NEW e \in Results, e = AttemptAt(entry, Last(entry.verified)).key.event
    PROVE  ~(AnchorOf(Before(entry)) >= Day[e])
  <1>1. PICK a \in Told(i, id), t \in Seq(Results), n \in Nat :
          /\ t = TailEvents(entry) /\ Len(t) = n + 1 /\ Len(entry.verified) = n + 1
          /\ \A k \in 1 .. n : Day[t[k]] < Day[e]
    BY ProducerTold
  <1>2. PICK de \in Nat : de = Day[e] /\ de >= 1
    BY DaysAre
  <1>3. CASE n = 0
    BY <1>1, <1>2, <1>3 DEF Before, AnchorOf
  <1>4. CASE n # 0
    <2>1. n \in 1 .. n /\ n \in 1 .. n + 1 /\ n + 1 > 1 /\ (n + 1) - 1 = n
      BY <1>4
    <2>2. PICK A : A = Told(i, id)
      OBVIOUS
    <2>3. entry \in Entries(A) /\ Indexed(entry)
      BY <2>2 DEF Honest, Sound
    <2>4. PICK b \in A : b = AttemptAt(entry, entry.verified[n]) /\ b.key.event = t[n]
      BY <1>1, <2>1, <2>3, LocatedIsVerified
    <2>5. Before(entry) = b
      BY <1>1, <2>1, <2>4 DEF Before
    <2>6. b # NoAttempt
      BY <2>2, <2>4, NoAttemptIsNone, ToldAre
    <2>7. PICK dt \in Nat : dt = Day[t[n]] /\ dt < de
      BY <1>1, <1>2, <2>1, DaysAre, ElementOfSeq
    <2>8. AnchorOf(Before(entry)) = dt
      BY <2>4, <2>5, <2>6, <2>7 DEF AnchorOf
    <2> QED BY <1>2, <2>7, <2>8
  <1> QED BY <1>3, <1>4

-----------------------------------------------------------------------------
(* What a run starts with. *)

\* What is refused stays so.
LEMMA RefusedLater ==
    ASSUME NEW id \in Nat, NEW id2 \in Nat, id <= id2, NEW f, Refuted(f, id)
    PROVE  Refuted(f, id2)
  BY DEF Refuted

\* A producer decided anew is honest: verified again it is the latest, and
\* refused it is explained.  It can only be verified otherwise than before, and
\* then nothing later was refused, so it unbars nothing.
LEMMA DecidedAnew ==
    ASSUME OlderReadingsStand, NEW i \in Issuer, NEW id \in Nat, version \in 1 .. LastVersion,
           id < version, NEW entry, Honest(i, entry, id), NEW stored, Sound(entry, stored),
           entry.verified # <<>>, ~(Len(entry.verified) = 1 /\ entry.truncated),
           NEW a, a = AttemptAt(entry, Last(entry.verified)),
           \A k \in DOMAIN a.caps : Loadable(a.caps[k]), ~Reproduces(a, Before(entry)),
           NEW new, new \in Attempts(i), new.key = a.key, new.docs = a.docs, new.caps = a.caps,
           new.outcome = Verdict(a.key.event, a.caps, Before(entry)).outcome,
           new.reading = Verdict(a.key.event, a.caps, Before(entry)).reading
    PROVE  /\ Honest(i, Appended(Withdrawn(entry), new), version)
           /\ BarsLater(i, Appended(Withdrawn(entry), new))
  <1>1. /\ Honest(i, entry, version)
        /\ version \in Nat /\ id <= version /\ LastVersion \in Nat
    BY HonestGrows, UpdateAssumption
  <1>2. PICK t \in Seq(Results), n \in Nat, e \in Results :
          /\ t = TailEvents(entry) /\ t # <<>> /\ Len(t) = n + 1 /\ Len(entry.verified) = n + 1
          /\ a \in Told(i, id) /\ a.outcome = "VERIFIED"
          /\ a.key.event = e /\ e = t[n + 1]
          /\ Front(t) \in Seq(Results) /\ Len(Front(t)) = n
          /\ \A k \in 1 .. n : Front(t)[k] = t[k] /\ Day[t[k]] < Day[e]
          /\ Ascending(Front(t))
    BY ProducerTold
  <1>3. PICK x \in 1 .. id : /\ a.reading = Reading[x][e] /\ a.reading # Refused
                             /\ a.caps["feed"] # <<e, "early">>
    <2>1. ReadBy(a, id)
      BY <1>2, ToldAre
    <2> QED BY <1>2, <2>1 DEF ReadBy
  <1>4. ~(AnchorOf(Before(entry)) >= Day[e])
    BY <1>2, BeforeIsOlder
  <1>5. \/ new.outcome = "BLOCKED" /\ Reading[version][e] = Refused
        \/ /\ new.outcome = "VERIFIED" /\ new.reading = Reading[version][e]
           /\ Reading[version][e] # Refused
    BY <1>2, <1>3, <1>4 DEF Verdict
  <1>6. new.outcome = "VERIFIED" => Reading[version][e] # Reading[x][e]
    <2> SUFFICES ASSUME new.outcome = "VERIFIED", Reading[version][e] = Reading[x][e]
                 PROVE  FALSE
      OBVIOUS
    <2>1. Verdict(e, a.caps, Before(entry)).reading = a.reading
      BY <1>2, <1>3, <1>5
    <2> QED BY <1>2, <2>1 DEF Reproduces
  <1>7. new \in Told(i, version)
    <2>1. ReadBy(new, version)
      <3>1. version \in 1 .. version
        BY <1>1
      <3> QED BY <1>2, <1>3, <1>5, <3>1 DEF ReadBy
    <2>2. a.docs \subseteq published /\ a.key.event \in published \cup {NoDoc}
      BY <1>2, ToldAre
    <2> QED BY <2>1, <2>2 DEF Told
  <1>8. PICK A : A = Told(i, version)
    OBVIOUS
  <1>9. /\ entry \in Entries(A) /\ entry.truncated \in BOOLEAN /\ HistoryOf(entry) \in Seq(A)
        /\ \A b \in A : b.outcome = "VERIFIED" => b.key.event \in Results
    BY <1>1, <1>8, HonestShape, ToldAre
  <1>10. PICK e1 \in Entries(A) :
           /\ e1 = Withdrawn(entry) /\ Sound(e1, stored) /\ HistoryOf(e1) = HistoryOf(entry)
           /\ TailEvents(e1) = Front(t) /\ e1.truncated = entry.truncated
    BY <1>2, <1>9, WithdrawnSound, WithdrawnTail
  <1>11. PICK V : V = VerifiedEvents(HistoryOf(entry)) /\ V \subseteq Results \cap Mine(i)
    BY <1>1, HonestVerified
  <1>12. ASSUME NEW f \in V
         PROVE  \/ f = e \/ \E k \in 1 .. n : f = t[k]
                \/ Refuted(f, id)
                \/ entry.truncated /\ \A k \in 1 .. n + 1 : Day[f] < Day[t[k]]
    <2>1. \/ \E k \in 1 .. n + 1 : f = t[k]
          \/ Refuted(f, id)
          \/ entry.truncated /\ \A k \in 1 .. n + 1 : Day[f] < Day[t[k]]
      BY <1>2, <1>11 DEF Honest, Explained
    <2>2. \A k \in 1 .. n + 1 : k \in 1 .. n \/ k = n + 1
      OBVIOUS
    <2> QED BY <1>2, <2>1, <2>2
  <1>13. Honest(i, Appended(e1, new), version)
    <2>1. new.outcome = "VERIFIED" =>
            \A k \in 1 .. Len(TailEvents(e1)) : Day[TailEvents(e1)[k]] < Day[new.key.event]
      BY <1>2, <1>10
    <2>2. ASSUME NEW f \in VerifiedEvents(HistoryOf(e1))
          PROVE  \/ new.outcome = "VERIFIED" /\ f = new.key.event
                 \/ \E k \in 1 .. Len(TailEvents(e1)) : f = TailEvents(e1)[k]
                 \/ Refuted(f, version)
                 \/ /\ e1.truncated /\ TailEvents(e1) # <<>>
                    /\ \A k \in 1 .. Len(TailEvents(e1)) : Day[f] < Day[TailEvents(e1)[k]]
      <3>1. f \in V
        BY <1>10, <1>11
      <3>2. CASE f = e
        <4>1. new.outcome = "BLOCKED" => Refuted(e, version)
          <5> SUFFICES ASSUME new.outcome = "BLOCKED"
                       PROVE  Refuted(e, version)
            OBVIOUS
          <5>1. Reading[version][e] = Refused
            BY <1>5
          <5>2. x \in 1 .. version /\ Reading[x][e] # Refused
            BY <1>1, <1>3
          <5>3. Withdraws(version, e) /\ version \in 1 .. version
            BY <1>1, <5>1, <5>2 DEF Withdraws
          <5> QED BY <5>3 DEF Refuted
        <4> QED BY <1>2, <1>5, <3>2, <4>1
      <3>3. CASE \E k \in 1 .. n : f = t[k]
        BY <1>2, <1>10, <3>3
      <3>4. CASE Refuted(f, id)
        BY <1>1, <3>4, RefusedLater
      <3>5. CASE entry.truncated /\ \A k \in 1 .. n + 1 : Day[f] < Day[t[k]]
        <4>1. n # 0
          BY <1>2, <3>5
        <4>2. Front(t) # <<>>
          BY <1>2, <4>1, EmptySeq
        <4>3. \A k \in 1 .. n : k \in 1 .. n + 1
          OBVIOUS
        <4> QED BY <1>2, <1>10, <3>5, <4>2, <4>3
      <3> QED BY <1>12, <3>1, <3>2, <3>3, <3>4, <3>5
    <2>3. Ascending(TailEvents(e1)) /\ e1.truncated \in BOOLEAN
      BY <1>2, <1>9, <1>10
    <2>4. e1 \in Entries(Told(i, version))
      BY <1>8, <1>10
    <2> QED BY <1>7, <1>10, <2>1, <2>2, <2>3, <2>4, HonestAppended
  <1>14. /\ Last(HistoryOf(Appended(e1, new))) = new
         /\ VerifiedEvents(HistoryOf(Appended(e1, new))) =
                V \cup (IF new.outcome = "VERIFIED" THEN {e} ELSE {})
    <2>1. new.key.event \in Results \cup {NoDoc} /\ new \in A
      BY <1>2, <1>7, <1>8
    <2>2. HistoryOf(Appended(e1, new)) = Append(HistoryOf(entry), new)
      BY <1>10, <2>1, AppendedShape
    <2> QED BY <1>2, <1>9, <1>11, <2>1, <2>2, FrontOfAppend, VerifiedOfAppend
  <1>15. BarsLater(i, Appended(e1, new))
    <2> SUFFICES ASSUME new.outcome = "VERIFIED", NEW f \in V \cup {e}, Day[f] > Day[e]
                 PROVE  FALSE
      BY <1>2, <1>14 DEF BarsLater
    <2>1. PICK de \in Nat, df \in Nat : de = Day[e] /\ df = Day[f] /\ df > de
      BY <1>11, DaysAre
    <2>2. f # e /\ f \in V
      BY <2>1
    <2>3. ~ \E k \in 1 .. n : f = t[k]
      <3> SUFFICES ASSUME NEW k \in 1 .. n, f = t[k]
                   PROVE  FALSE
        OBVIOUS
      <3>1. df < de
        BY <1>2, <2>1
      <3> QED BY <2>1, <3>1
    <2>4. ~ \A k \in 1 .. n + 1 : Day[f] < Day[t[k]]
      <3> SUFFICES ASSUME \A k \in 1 .. n + 1 : Day[f] < Day[t[k]]
                   PROVE  FALSE
        OBVIOUS
      <3>1. n + 1 \in 1 .. n + 1
        OBVIOUS
      <3>2. df < de
        BY <1>2, <2>1, <3>1
      <3> QED BY <2>1, <3>2
    <2>5. PICK v \in 1 .. id : Withdraws(v, f)
      BY <1>12, <2>2, <2>3, <2>4 DEF Refuted
    <2>6. v \in 1 .. LastVersion /\ version \in v .. LastVersion /\ x \in 1 .. version /\ v < version
      BY <1>1
    <2>7. e \in Results /\ f \in Results /\ Owner[e] = Owner[f] /\ Day[e] < Day[f]
      <3>1. a.key.event \in Mine(i)
        <4>1. a.outcome # "WAITING"
          BY <1>2
        <4> QED BY <1>2, <4>1, ToldAre
      <3>2. f \in Mine(i) /\ f \in Results
        BY <1>11, <2>2
      <3> QED BY <1>2, <2>1, <3>1, <3>2 DEF Mine
    <2>8. Reading[version][e] # Refused /\ Reading[x][e] # Refused
      BY <1>3, <1>5
    <2>9. Reading[x][e] = Reading[version][e]
      BY <2>5, <2>6, <2>7, <2>8 DEF OlderReadingsStand
    <2> QED BY <1>6, <2>9
  <1> QED BY <1>10, <1>13, <1>15

LEMMA ReverifiedOld ==
    ASSUME OlderReadingsStand, RowsInv, StoredInv, OldIdent, OldStored, NEW i \in Issuer
    PROVE  Honest(i, Reverified(i), version) /\ BarsLater(i, Reverified(i))
  <1>1. PICK entry \in Entries(Held(i)), id \in Nat :
          /\ entry = Stored.issuers[i] /\ Sound(entry, segs) /\ id = Stored.ident /\ id <= version
          /\ Honest(i, entry, id) /\ BarsLater(i, entry)
    BY DEF StoredInv, OldIdent, OldStored, RowsInv
  <1>2. version \in 1 .. LastVersion /\ version \in Nat
    BY UpdateAssumption DEF RowsInv
  <1>3. CASE Reverified(i) = entry
    BY <1>1, <1>2, <1>3, HonestGrows
  <1>4. CASE Reverified(i) # entry
    <2>1. PICK a : a = AttemptAt(entry, Last(entry.verified))
      OBVIOUS
    <2>2. PICK result : result = Verdict(a.key.event, a.caps, Before(entry))
      OBVIOUS
    <2>3. PICK new : new = Attempt(a.key, a.docs, a.caps, Before(entry), i, result)
      OBVIOUS
    <2>4. /\ entry.verified # <<>> /\ id # version
          /\ ~(Len(entry.verified) = 1 /\ entry.truncated)
          /\ \A k \in DOMAIN a.caps : Loadable(a.caps[k])
          /\ ~Reproduces(a, Before(entry))
          /\ Reverified(i) = Appended(Withdrawn(entry), new)
      BY <1>1, <1>4, <2>1, <2>2, <2>3 DEF Reverified, Withdrawn
    <2>5. id < version
      BY <1>1, <1>2, <2>4
    <2>6. new \in Attempts(i)
      <3>1. a \in Held(i) /\ a.outcome = "VERIFIED"
        BY <1>1, <2>1, <2>4, ProducerIsHeld
      <3>2. /\ a.key.event \in Results /\ a.key \in Keys(i) /\ a.docs \subseteq Mine(i)
            /\ a.caps \in Caps /\ a.key.event # NoDoc
        BY <3>1, HeldEvents, HistoryAssumption
      <3>3. Before(entry) \in Producers(i)
        BY <1>1, BeforeIs
      <3>4. result \in Outcome(a.key.event)
        BY <2>2, <3>2, VerdictIs
      <3>5. new \in Held(i)
        BY <2>3, <2>4, <3>2, <3>3, <3>4, AttemptIs
      <3> QED BY <3>5 DEF Held
    <2>7. /\ new.key = a.key /\ new.docs = a.docs /\ new.caps = a.caps
          /\ new.outcome = Verdict(a.key.event, a.caps, Before(entry)).outcome
          /\ new.reading = Verdict(a.key.event, a.caps, Before(entry)).reading
      BY <2>2, <2>3 DEF Attempt
    <2> QED BY <1>1, <1>2, <2>1, <2>4, <2>5, <2>6, <2>7, DecidedAnew
  <1> QED BY <1>3, <1>4

\* What a run notices and detects is out.
LEMMA DetectionsSome ==
    ASSUME NEW docs, docs \subseteq Doc, NEW over \in BOOLEAN
    PROVE  Detections(docs, over).docs \subseteq docs
  BY DetectionsAre

LEMMA BeginOut ==
    ASSUME OlderReadingsStand, UpdateInv, OldInv, NEW i \in Issuer
    PROVE  /\ AfterEntry(i).docs \subseteq published
           /\ Admitted(i).docs \subseteq published
           /\ AnchorOf(Admitted(i).producer) \in Nat
           /\ Within(Reverified(i), AnchorOf(Admitted(i).producer))
  <1>1. RowsInv /\ StoredInv /\ published \subseteq Doc
    BY DEF UpdateInv, RowsInv
  <1>2. PICK seen \in Seens(i) : seen = AtEntry(i)
    BY <1>1, AtEntryIs
  <1>3. seen.docs \subseteq published
    <2>1. Seen(i) \subseteq published
      BY <1>1, ListedIsOut, UnaccountedAreSome DEF Seen
    <2>2. PICK over \in BOOLEAN : over = Stored.dets[i].over
      BY <1>1 DEF StoredInv, Seens
    <2>3. PICK docs : docs = Stored.dets[i].docs \cup Seen(i) /\ docs \subseteq published
      BY <2>1 DEF OldInv, OldStored
    <2>4. Detections(docs, over).docs \subseteq docs
      BY <1>1, <2>3, DetectionsSome
    <2> QED BY <1>2, <2>2, <2>3, <2>4 DEF AtEntry
  <1>4. PICK entry \in Entries(Held(i)) : entry = Reverified(i) /\ Sound(entry, segs)
    BY <1>1, ReverifiedIs
  <1>5. PICK producer : producer = IF entry.verified = <<>> THEN NoAttempt
                                   ELSE AttemptAt(entry, Last(entry.verified))
    OBVIOUS
  <1>6. PICK observed : observed = UNION {entry.open[k].docs : k \in DOMAIN entry.open}
    OBVIOUS
  <1>7. PICK adm : adm = Admitted(i)
    OBVIOUS
  <1>8. /\ adm.producer = producer
        /\ adm.docs = LeftBy(producer, observed \cup seen.docs)
    BY <1>2, <1>4, <1>5, <1>6, <1>7 DEF Admitted, Admission
  <1>9. Honest(i, entry, version)
    BY <1>1, <1>4, ReverifiedOld DEF OldInv
  <1>10. observed \subseteq published
    <2>1. ASSUME NEW k \in DOMAIN entry.open
          PROVE  entry.open[k].docs \subseteq published
      <3>1. PICK A : A = Told(i, version)
        OBVIOUS
      <3>2. PICK o \in Seq(A) : o = entry.open
        BY <1>9, <3>1 DEF Honest, Entries
      <3>3. k \in 1 .. Len(o)
        BY <3>2, LenProperties
      <3>4. o[k] \in Told(i, version)
        BY <3>1, <3>3, ElementOfSeq
      <3> QED BY <3>2, <3>4, ToldAre
    <2> QED BY <1>6, <2>1
  <1>11. adm.docs \subseteq published
    BY <1>3, <1>8, <1>10 DEF LeftBy
  <1>12. AfterEntry(i).docs \subseteq published
    <2>1. PICK material : material = Material(i) /\ material \subseteq published
      <3>1. \A p : Listed(i, ReferenceOf(p)) \cup adm.docs \subseteq published
        BY <1>1, <1>11, ListedIsOut
      <3>2. Material(i) \subseteq published
        BY <1>7, <3>1, UnaccountedAreSome DEF Material
      <3> QED BY <3>2
    <2>2. PICK over \in BOOLEAN : over = seen.over
      BY DEF Seens
    <2>3. PICK left : left = LeftBy(adm.producer, seen.docs \cup material) /\ left \subseteq published
      BY <1>3, <2>1 DEF LeftBy
    <2>4. Detections(left, over).docs \subseteq left
      BY <1>1, <2>3, DetectionsSome
    <2>5. AfterEntry(i) = IF adm.bound THEN Detections(left, over) ELSE seen
      BY <1>2, <1>7, <2>1, <2>2, <2>3 DEF AfterEntry
    <2> QED BY <1>3, <2>3, <2>4, <2>5
  <1>13. AnchorOf(producer) \in Nat /\ Within(entry, AnchorOf(producer))
    BY <1>4, <1>5, <1>9, ProducerBounds
  <1> QED BY <1>4, <1>7, <1>8, <1>11, <1>12, <1>13

\* Every issuer is served once.
LEMMA OrderIs ==
    ASSUME NEW last \in Issuer \cup {NoIssuer}
    PROVE  /\ Order(last) \in Seq(Issuer)
           /\ \A m, n \in 1 .. Len(Order(last)) : Order(last)[m] = Order(last)[n] => m = n
  <1>1. PICK s \in Seq(Issuer), l \in Nat :
          /\ s = Symbols /\ l = Len(s) /\ DOMAIN s = 1 .. l
          /\ \A m, n \in 1 .. l : s[m] = s[n] => m = n
          /\ \A n \in 1 .. l : s[n] \in Issuer
    BY SymbolsAssumption, LenProperties, ElementOfSeq
  <1>2. CASE last = NoIssuer
    BY <1>1, <1>2 DEF Order
  <1>3. CASE last # NoIssuer
    <2>1. PICK k \in 1 .. l : k = CHOOSE n \in DOMAIN Symbols : Symbols[n] = last
      <3>1. \E n \in DOMAIN Symbols : Symbols[n] = last
        BY <1>1, <1>3, SymbolsAssumption
      <3> QED BY <1>1, <3>1
    <2>2. k + 1 \in Int /\ l \in Int /\ k \in Int /\ 1 \in Int
      OBVIOUS
    <2>3. PICK r \in Nat : r = l - k
      OBVIOUS
    <2>4. PICK front \in Seq(Issuer) :
            /\ front = SubSeq(s, k + 1, l) /\ Len(front) = r
            /\ \A n \in 1 .. r : front[n] = s[k + n]
      <3>1. \A n \in k + 1 .. l : s[n] \in Issuer
        BY <1>1
      <3>2. PICK b : b = SubSeq(s, k + 1, l)
        OBVIOUS
      <3>3. /\ b \in Seq(Issuer) /\ Len(b) = IF k + 1 <= l THEN l - (k + 1) + 1 ELSE 0
            /\ \A n \in 1 .. l - (k + 1) + 1 : b[n] = s[(k + 1) + n - 1]
        BY <2>2, <3>1, <3>2, SubSeqProperties
      <3>4. (IF k + 1 <= l THEN l - (k + 1) + 1 ELSE 0) = r /\ l - (k + 1) + 1 = r
        BY <2>3
      <3>5. ASSUME NEW n \in 1 .. r
            PROVE  b[n] = s[k + n]
        <4>1. n \in 1 .. l - (k + 1) + 1 /\ (k + 1) + n - 1 = k + n
          BY <3>4
        <4> QED BY <3>3, <4>1
      <3>6. Len(b) = r
        BY <3>3, <3>4
      <3> QED BY <3>2, <3>3, <3>5, <3>6
    <2>5. PICK back \in Seq(Issuer) :
            /\ back = SubSeq(s, 1, k) /\ Len(back) = k
            /\ \A n \in 1 .. k : back[n] = s[n]
      <3>1. \A n \in 1 .. k : s[n] \in Issuer
        BY <1>1
      <3>2. PICK b : b = SubSeq(s, 1, k)
        OBVIOUS
      <3>3. /\ b \in Seq(Issuer) /\ Len(b) = IF 1 <= k THEN k - 1 + 1 ELSE 0
            /\ \A n \in 1 .. k - 1 + 1 : b[n] = s[1 + n - 1]
        BY <2>2, <3>1, <3>2, SubSeqProperties
      <3>4. (IF 1 <= k THEN k - 1 + 1 ELSE 0) = k /\ k - 1 + 1 = k
        OBVIOUS
      <3>5. ASSUME NEW n \in 1 .. k
            PROVE  b[n] = s[n]
        <4>1. n \in 1 .. k - 1 + 1 /\ 1 + n - 1 = n
          OBVIOUS
        <4> QED BY <3>3, <4>1
      <3>6. Len(b) = k
        BY <3>3, <3>4
      <3> QED BY <3>2, <3>3, <3>5, <3>6
    <2>6. PICK o \in Seq(Issuer) :
            /\ o = front \o back /\ Len(o) = r + k
            /\ \A n \in 1 .. r + k : o[n] = IF n <= r THEN front[n] ELSE back[n - r]
      <3>1. PICK c : c = front \o back
        OBVIOUS
      <3>2. /\ c \in Seq(Issuer) /\ Len(c) = Len(front) + Len(back)
            /\ \A n \in 1 .. Len(front) + Len(back) :
                  c[n] = IF n <= Len(front) THEN front[n] ELSE back[n - Len(front)]
        BY <3>1, ConcatProperties
      <3>3. Len(c) = r + k /\ \A n \in 1 .. r + k : c[n] = IF n <= r THEN front[n] ELSE back[n - r]
        BY <2>4, <2>5, <3>2
      <3> QED BY <3>1, <3>2, <3>3
    <2>7. Order(last) = o
      BY <1>1, <1>3, <2>1, <2>4, <2>5, <2>6 DEF Order
    <2>8. PICK p : p = [n \in 1 .. r + k |-> IF n <= r THEN k + n ELSE n - r]
      OBVIOUS
    <2>9. \A n \in 1 .. r + k : p[n] \in 1 .. l /\ o[n] = s[p[n]]
      <3> SUFFICES ASSUME NEW n \in 1 .. r + k
                   PROVE  p[n] \in 1 .. l /\ o[n] = s[p[n]]
        OBVIOUS
      <3>1. CASE n <= r
        <4>1. p[n] = k + n /\ n \in 1 .. r /\ k + n \in 1 .. l
          BY <2>3, <2>8, <3>1
        <4> QED BY <2>4, <2>6, <3>1, <4>1
      <3>2. CASE ~(n <= r)
        <4>1. p[n] = n - r /\ n - r \in 1 .. k /\ n - r \in 1 .. l
          BY <2>3, <2>8, <3>2
        <4> QED BY <2>5, <2>6, <3>2, <4>1
      <3> QED BY <3>1, <3>2
    <2>10. \A m, n \in 1 .. r + k : p[m] = p[n] => m = n
      BY <2>3, <2>8
    <2>11. ASSUME NEW m \in 1 .. r + k, NEW n \in 1 .. r + k, o[m] = o[n]
           PROVE  m = n
      <3>1. p[m] \in 1 .. l /\ p[n] \in 1 .. l /\ s[p[m]] = s[p[n]]
        BY <2>9, <2>11
      <3>2. p[m] = p[n]
        BY <1>1, <3>1
      <3> QED BY <2>10, <3>2
    <2> QED BY <2>6, <2>7, <2>11
  <1> QED BY <1>2, <1>3

LEMMA BeginOld ==
    ASSUME OlderReadingsStand, UpdateInv, OldInv, Begin
    PROVE  OldInv'
  <1>1. /\ cur' = cur /\ version' = version /\ published' = published /\ rows' = rows
        /\ pc' \in {"publish", "serve"}
    BY DEF Begin, Resting
  <1>2. /\ run'.entries = [i \in Issuer |-> Reverified(i)]
        /\ run'.dets = [i \in Issuer |-> AfterEntry(i)]
        /\ run'.adm = [i \in Issuer |-> Admitted(i)]
        /\ run'.order = Order(queue) /\ run'.then = "serve"
    BY DEF Begin
  <1>3. OldIdent' /\ OldStored' /\ OldRows'
    BY <1>1, StoredOldKept
  <1>4. RowsInv /\ StoredInv /\ queue \in Issuer \cup {NoIssuer}
    BY DEF UpdateInv, RowsInv
  <1>5. OldRun'
    <2> SUFFICES ASSUME NEW j \in Issuer
                 PROVE  /\ Honest(j, run.entries[j], version)' /\ BarsLater(j, run.entries[j])'
                        /\ (run.dets[j].docs \subseteq published)'
                        /\ (run.adm[j].docs \subseteq published)'
                        /\ AnchorOf(run'.adm[j].producer) \in Nat
      BY DEF OldRun, AnchorOf
    <2>1. PICK e, id : e = Reverified(j) /\ id = version
      OBVIOUS
    <2>2. Honest(j, e, id) /\ BarsLater(j, e)
      BY <1>4, <2>1, ReverifiedOld DEF OldInv
    <2>3. Honest(j, e, id)' /\ BarsLater(j, e)'
      BY <1>1, <2>2, StoredOldKept
    <2>4. run'.dets[j].docs \subseteq published' /\ run'.adm[j].docs \subseteq published'
          /\ AnchorOf(run'.adm[j].producer) \in Nat
      BY <1>1, <1>2, BeginOut
    <2>5. run'.entries[j] = e /\ version' = id
      BY <1>1, <1>2, <2>1
    <2> QED BY <2>3, <2>4, <2>5
  <1>6. OldOrder'
    <2>1. PICK o \in Seq(Issuer) :
            o = run'.order /\ \A m, n \in 1 .. Len(o) : o[m] = o[n] => m = n
      BY <1>2, <1>4, OrderIs
    <2>2. ASSUME NEW n \in 1 .. Len(o)
          PROVE  Within(run.entries[run.order[n]], AnchorOf(run.adm[run.order[n]].producer))'
      <3>1. PICK i \in Issuer : i = o[n]
        BY ElementOfSeq
      <3>2. PICK e, p : e = Reverified(i) /\ p = Admitted(i).producer
        OBVIOUS
      <3>3. Within(e, AnchorOf(p))
        BY <3>2, BeginOut
      <3>4. run'.entries[run'.order[n]] = e /\ run'.adm[run'.order[n]].producer = p
        BY <1>2, <2>1, <3>1, <3>2
      <3> QED BY <3>3, <3>4 DEF Within, AnchorOf
    <2> QED BY <2>1, <2>2 DEF OldOrder
  <1>7. OldLead'
    BY <1>1, <1>2 DEF OldLead, Leading
  <1> QED BY <1>3, <1>5, <1>6, <1>7 DEF OldInv

-----------------------------------------------------------------------------
(* Between the runs. *)

\* The record the checker looks after is the curated one or a verified one.
LEMMA DiscoveryVerified ==
    ASSUME StoredInv, NEW i \in Issuer
    PROVE  \/ Discovery(i) = NoAttempt
           \/ /\ Discovery(i).key.event \in VerifiedEvents(HistoryOf(Stored.issuers[i]))
              /\ Discovery(i) # NoAttempt
  <1>1. PICK entry \in Entries(Held(i)) : entry = Stored.issuers[i] /\ Sound(entry, segs)
    BY DEF StoredInv
  <1>2. Discovery(i) = NoAttempt
        \/ (entry.verified # <<>> /\ Discovery(i) = AttemptAt(entry, Last(entry.verified)))
    BY <1>1 DEF Discovery, StoredAdmission, Admission
  <1>3. CASE entry.verified # <<>> /\ Discovery(i) = AttemptAt(entry, Last(entry.verified))
    <2>1. PICK A : A = Held(i)
      OBVIOUS
    <2>2. PICK h \in Seq(A) : h = HistoryOf(entry)
      BY <1>1, <2>1, HistoryShape
    <2>3. PICK j \in 1 .. Len(h) : h[j] = Discovery(i) /\ h[j].outcome = "VERIFIED"
      BY <1>1, <1>3, <2>2, ProducerIsHeld
    <2>4. Discovery(i).key.event \in VerifiedEvents(h)
      BY <2>3 DEF VerifiedEvents
    <2>5. Discovery(i) # NoAttempt
      BY <1>1, <1>3, ProducerIsHeld, NoAttemptIsNone DEF Held
    <2> QED BY <1>1, <2>2, <2>4, <2>5
  <1> QED BY <1>2, <1>3

\* A row that is retained was there or is the new one.
LEMMA RetainedAre ==
    ASSUME NEW R, NEW s \in Seq(R), NEW r \in R, NEW kept,
           kept = IF Len(Append(s, r)) > Keep THEN Tail(Append(s, r)) ELSE Append(s, r)
    PROVE  \A k \in 1 .. Len(kept) : kept[k] = r \/ \E j \in 1 .. Len(s) : kept[k] = s[j]
  <1>1. PICK all : all = Append(s, r)
    OBVIOUS
  <1>2. PICK l \in Nat :
          /\ l = Len(s) /\ all \in Seq(R) /\ Len(all) = l + 1 /\ all # <<>>
          /\ \A k \in 1 .. l : all[k] = s[k]
          /\ all[l + 1] = r
    BY <1>1, AppendShape
  <1>3. \A k \in 1 .. l + 1 : k \in 1 .. l \/ k = l + 1
    OBVIOUS
  <1>4. \A k \in 1 .. l + 1 : all[k] = r \/ \E j \in 1 .. l : all[k] = s[j]
    BY <1>2, <1>3
  <1>5. CASE kept = all
    BY <1>2, <1>4, <1>5
  <1>6. CASE kept = Tail(all)
    <2>1. PICK m \in Nat : /\ m + 1 = Len(all) /\ Len(kept) = m
                           /\ \A k \in 1 .. m : kept[k] = all[k + 1]
      BY <1>2, <1>6, TailShape
    <2>2. \A k \in 1 .. m : k + 1 \in 1 .. l + 1
      BY <1>2, <2>1
    <2> QED BY <1>2, <1>4, <2>1, <2>2
  <1> QED BY <1>1, <1>5, <1>6

\* The new row lists what was ever verified and is later.
LEMMA CheckOld ==
    ASSUME UpdateInv, OldInv, Check
    PROVE  OldInv'
  <1>1. /\ pc = "idle" /\ pc' = pc /\ version' = version /\ cur' = cur
        /\ published \subseteq published'
    BY DEF Check
  <1>2. RowsInv /\ StoredInv /\ OldIdent /\ OldStored /\ OldRows
    BY DEF UpdateInv, OldInv
  <1>3. PICK listing :
          /\ \A i \in Issuer : listing[i] \in Listings(i, published')
          /\ rows' = [i \in Issuer |->
                        LET all == Append(rows[i], [ref |-> ReferenceOf(Discovery(i)), docs |-> listing[i]]) IN
                        IF Len(all) > Keep THEN Tail(all) ELSE all]
    BY DEF Check
  <1>4. Stored' = Stored
    BY <1>1 DEF Stored
  <1>5. ASSUME NEW i \in Issuer, NEW k \in 1 .. Len(rows'[i])
        PROVE  \/ rows'[i][k] = [ref |-> ReferenceOf(Discovery(i)), docs |-> listing[i]]
               \/ \E j \in 1 .. Len(rows[i]) : rows'[i][k] = rows[i][j]
    <2>1. listing[i] \subseteq Mine(i)
      BY <1>2, <1>3 DEF Check, RowsInv, Listings, Mine
    <2>2. PICK R : R = [ref : Results \cup {NoDoc}, docs : SUBSET Mine(i)]
      OBVIOUS
    <2>3. PICK s \in Seq(R) : s = rows[i]
      BY <1>2, <2>2 DEF RowsInv
    <2>4. PICK r \in R : r = [ref |-> ReferenceOf(Discovery(i)), docs |-> listing[i]]
      BY <1>2, <2>1, <2>2, ReferenceIs
    <2>5. PICK kept : /\ kept = rows'[i]
                      /\ kept = IF Len(Append(s, r)) > Keep THEN Tail(Append(s, r)) ELSE Append(s, r)
      BY <1>3, <2>3, <2>4
    <2> QED BY <2>3, <2>4, <2>5, RetainedAre
  <1>6. OldRows'
    <2> SUFFICES ASSUME NEW i \in Issuer, NEW k \in 1 .. Len(rows'[i])
                 PROVE  /\ rows'[i][k].docs \subseteq published'
                        /\ rows'[i][k].ref \in {NoDoc} \cup VerifiedEvents(HistoryOf(Stored.issuers[i]))
      BY <1>4 DEF OldRows
    <2>1. CASE rows'[i][k] = [ref |-> ReferenceOf(Discovery(i)), docs |-> listing[i]]
      <3>1. listing[i] \subseteq published'
        BY <1>3 DEF Listings
      <3>2. ReferenceOf(Discovery(i)) \in {NoDoc} \cup VerifiedEvents(HistoryOf(Stored.issuers[i]))
        BY <1>2, DiscoveryVerified DEF ReferenceOf
      <3> QED BY <2>1, <3>1, <3>2
    <2>2. CASE \E j \in 1 .. Len(rows[i]) : rows'[i][k] = rows[i][j]
      BY <1>1, <1>2, <2>2 DEF OldRows
    <2> QED BY <1>5, <2>1, <2>2
  <1>7. OldStored'
    <2> SUFFICES ASSUME NEW i \in Issuer
                 PROVE  /\ Honest(i, Stored.issuers[i], Stored.ident)'
                        /\ BarsLater(i, Stored.issuers[i])'
                        /\ (Stored.dets[i].docs \subseteq published)'
      BY DEF OldStored
    <2>1. PICK entry, id : /\ entry = Stored.issuers[i] /\ id = Stored.ident
                           /\ Honest(i, entry, id) /\ BarsLater(i, entry)
      BY <1>2 DEF OldStored
    <2>2. Honest(i, entry, id)'
      BY <1>1, <2>1, HonestKept
    <2>3. ASSUME NEW h, h = HistoryOf(entry), h # <<>>, Last(h).outcome = "VERIFIED",
                 NEW f \in VerifiedEvents(h), NEW k \in 1 .. Len(rows'[i]),
                 rows'[i][k].ref = Last(h).key.event, Day[f] > Day[Last(h).key.event]
          PROVE  f \in rows'[i][k].docs
      <3>1. CASE \E j \in 1 .. Len(rows[i]) : rows'[i][k] = rows[i][j]
        BY <2>1, <2>3, <3>1 DEF BarsLater
      <3>2. CASE rows'[i][k] = [ref |-> ReferenceOf(Discovery(i)), docs |-> listing[i]]
        <4>1. PICK g : g = Last(h).key.event
          OBVIOUS
        <4>2. f \in Results /\ f \in Mine(i) /\ f \in published'
          BY <1>1, <2>1, <2>3, HonestVerified
        <4>3. g \in Results
          <5>1. h \in Seq(Told(i, id))
            BY <2>1, <2>3, HonestVerified
          <5>2. Last(h) \in Told(i, id)
            BY <2>3, <5>1, FrontShape
          <5> QED BY <2>3, <4>1, <5>2, ToldAre
        <4>4. ReferenceOf(Discovery(i)) = g /\ Discovery(i) # NoAttempt
          BY <2>3, <3>2, <4>1, <4>3, HistoryAssumption DEF ReferenceOf
        <4>5. AnchorOf(Discovery(i)) = Day[g]
          BY <4>4 DEF AnchorOf, ReferenceOf
        <4>6. PICK df \in Nat, dg \in Nat : df = Day[f] /\ dg = Day[g] /\ df > dg
          BY <2>3, <4>1, <4>2, <4>3, DaysAre
        <4>7. f # g /\ Day[f] >= Day[g]
          BY <4>6
        <4>8. f \in listing[i]
          BY <1>3, <4>2, <4>4, <4>5, <4>7 DEF Listings, Mine
        <4> QED BY <3>2, <4>8
      <3> QED BY <1>5, <3>1, <3>2
    <2>4. BarsLater(i, entry)'
      BY <2>3 DEF BarsLater
    <2>5. (Stored.dets[i].docs \subseteq published)'
      BY <1>1, <1>2, <1>4 DEF OldStored
    <2> QED BY <1>4, <2>1, <2>2, <2>4, <2>5
  <1>8. OldIdent'
    BY <1>1, <1>2, <1>4 DEF OldIdent
  <1>9. OldRun' /\ OldOrder' /\ OldLead'
    BY <1>1 DEF OldRun, OldOrder, OldLead, Leading
  <1> QED BY <1>6, <1>7, <1>8, <1>9 DEF OldInv

LEMMA InstallOld ==
    ASSUME UpdateInv, OldInv, Install
    PROVE  OldInv'
  <1>1. /\ pc = "idle" /\ pc' = pc /\ version' = version + 1 /\ cur' = cur
        /\ published' = published /\ rows' = rows
    BY DEF Install
  <1>2. PICK v \in Nat : v = version /\ version' = v + 1
    BY <1>1, UpdateAssumption DEF UpdateInv, RowsInv
  <1>3. /\ Stored.ident \in 1 .. v /\ Stored'.ident \in 1 .. v + 1 /\ Stored.ident <= Stored'.ident
        /\ Stored'.issuers = Stored.issuers /\ Stored'.dets = Stored.dets
    BY <1>1, <1>2 DEF Stored, OldInv, OldIdent
  <1>4. OldIdent'
    BY <1>2, <1>3 DEF OldIdent
  <1>5. OldStored'
    <2> SUFFICES ASSUME NEW i \in Issuer
                 PROVE  /\ Honest(i, Stored.issuers[i], Stored.ident)'
                        /\ BarsLater(i, Stored.issuers[i])'
                        /\ (Stored.dets[i].docs \subseteq published)'
      BY DEF OldStored
    <2>1. PICK entry : /\ entry = Stored.issuers[i]
                       /\ Honest(i, entry, Stored.ident) /\ BarsLater(i, entry)
      BY DEF OldInv, OldStored
    <2>2. PICK id \in Nat, id2 \in Nat : id = Stored.ident /\ id2 = Stored'.ident /\ id <= id2
      BY <1>2, <1>3
    <2>3. Honest(i, entry, id2)
      BY <2>1, <2>2, HonestGrows
    <2>4. Honest(i, entry, id2)'
      BY <1>1, <2>3, HonestKept
    <2>5. BarsLater(i, entry)'
      BY <1>1, <2>1 DEF BarsLater
    <2>6. (Stored.dets[i].docs \subseteq published)'
      BY <1>1, <1>3 DEF OldInv, OldStored
    <2> QED BY <1>3, <2>1, <2>2, <2>4, <2>5, <2>6
  <1>6. OldRows'
    BY <1>1, <1>3 DEF OldInv, OldRows
  <1>7. OldRun' /\ OldOrder' /\ OldLead'
    BY <1>1 DEF OldRun, OldOrder, OldLead, Leading
  <1> QED BY <1>4, <1>5, <1>6, <1>7 DEF OldInv

-----------------------------------------------------------------------------
(* The invariant holds. *)

LEMMA InitOld == Init => OldInv
  <1> SUFFICES ASSUME Init PROVE OldInv
    OBVIOUS
  <1>1. /\ version = 1 /\ pc = "idle" /\ published = {}
        /\ Stored.ident = 1
        /\ \A i \in Issuer : Stored.issuers[i] = NewEntry /\ Stored.dets[i].docs = {} /\ rows[i] = <<>>
    BY DEF Init, Stored, NothingSeen
  <1>2. OldIdent
    BY <1>1 DEF OldIdent
  <1>3. OldStored
    <2> SUFFICES ASSUME NEW i \in Issuer
                 PROVE  Honest(i, NewEntry, 1) /\ BarsLater(i, NewEntry)
      BY <1>1 DEF OldStored
    <2>1. PICK A : A = Told(i, 1)
      OBVIOUS
    <2>2. NewEntry \in Entries(A) /\ Sound(NewEntry, segs) /\ HistoryOf(NewEntry) = <<>>
      BY NewEntrySound
    <2>3. Len(HistoryOf(NewEntry)) = 0 /\ Len(NewEntry.verified) = 0
      BY <2>2, EmptySeq DEF NewEntry
    <2>4. VerifiedEvents(HistoryOf(NewEntry)) = {}
      BY <2>3 DEF VerifiedEvents
    <2>5. Len(TailEvents(NewEntry)) = 0
      <3>1. \A b \in A : b.outcome = "VERIFIED" => b.key.event \in Results
        BY <2>1, ToldAre
      <3> QED BY <2>2, <2>3, <3>1, TailEventsAre DEF Sound
    <2>6. Ascending(TailEvents(NewEntry))
      BY <2>5 DEF Ascending
    <2>7. Explained(TailEvents(NewEntry), VerifiedEvents(HistoryOf(NewEntry)), NewEntry.truncated, 1)
      BY <2>4 DEF Explained
    <2> QED BY <2>1, <2>2, <2>6, <2>7 DEF Honest, BarsLater
  <1>4. OldRows
    <2>1. \A i \in Issuer : Len(rows[i]) = 0
      BY <1>1, EmptySeq
    <2> QED BY <2>1 DEF OldRows
  <1>5. OldRun /\ OldOrder /\ OldLead
    BY <1>1 DEF OldRun, OldOrder, OldLead, Leading
  <1> QED BY <1>2, <1>3, <1>4, <1>5 DEF OldInv

LEMMA OldStep == OlderReadingsStand /\ UpdateInv /\ OldInv /\ [Next]_vars => OldInv'
  <1> SUFFICES ASSUME OlderReadingsStand, UpdateInv, OldInv, [Next]_vars
               PROVE  OldInv'
    OBVIOUS
  <1>1. CASE Begin
    BY <1>1, BeginOld
  <1>2. CASE WriteGeneration
    BY <1>2, WriteGenerationOld
  <1>3. CASE MovePointer
    BY <1>3, MovePointerOld
  <1>4. ASSUME NEW i \in Issuer, Skip(i) \/ NoResults(i) \/ Detect(i)
        PROVE  OldInv'
    BY <1>4, SkipOld, NoResultsOld, DetectOld
  <1>5. CASE TakeTurn \/ Reuse \/ Fetch \/ WriteCapture
    BY <1>5, CaptureOld
  <1>6. CASE Decide
    BY <1>6, DecideOld
  <1>7. CASE Fails
    BY <1>7, FailsOld
  <1>8. CASE Exhausted
    BY <1>8, ExhaustedOld
  <1>9. CASE Finish
    BY <1>9, FinishOld
  <1>10. CASE Break \/ Done \/ Crash
    BY <1>10, RestsOld DEF Break, Done, Crash
  <1>11. CASE Check
    BY <1>11, CheckOld
  <1>12. CASE Install
    BY <1>12, InstallOld
  <1>13. CASE UNCHANGED vars
    <2>1. /\ version' = version /\ published' = published /\ rows' = rows /\ cur' = cur
          /\ pc' = pc /\ run' = run
      BY <1>13 DEF vars
    <2>2. CASE pc = "idle"
      BY <2>1, <2>2, OverOld
    <2>3. CASE pc # "idle"
      <3>1. OldLead'
        BY <2>1 DEF OldInv, OldLead, Leading
      <3> QED BY <2>1, <2>3, <3>1, PassOld
    <2> QED BY <2>2, <2>3
  <1> QED
    BY <1>1, <1>2, <1>3, <1>4, <1>5, <1>6, <1>7, <1>8, <1>9, <1>10, <1>11, <1>12, <1>13
       DEF Next, Step

-----------------------------------------------------------------------------
(* What runs saw are documents of the issuer. *)

KnownInv ==
    \A i \in Issuer : /\ known[i] \subseteq Mine(i)
                      /\ pc # "idle" => run.seen[i] \subseteq Mine(i)

\* A step that changes neither.
Unseen == known' = known /\ (pc' = "idle" \/ (pc # "idle" /\ run'.seen = run.seen))

LEMMA UnseenKeeps == KnownInv /\ Unseen => KnownInv'
  BY DEF KnownInv, Unseen

LEMMA RecordingUnseen ==
    ASSUME DOMAIN run = RunFields, NEW result, NEW caps, NEW spent
    PROVE  /\ Recording(result, caps, spent).seen = run.seen
           /\ [Recording(result, caps, spent) EXCEPT !.exhausted = TRUE].seen = run.seen
  <1>1. PICK i, after :
          /\ i = run.who
          /\ after = Recorded(run.entries[i], Attempt(EventKey(run.lead), run.dets[i].docs, caps,
                                                      run.adm[i].producer, i, result))
    OBVIOUS
  <1>2. PICK fits : fits = SettledFits(after)
    OBVIOUS
  <1>3. PICK r : r = Recording(result, caps, spent)
    OBVIOUS
  <1>4. r = [Passed EXCEPT !.who = NoIssuer, !.lead = NoDoc, !.caps = <<>>, !.spent = spent,
                  !.served = run.who,
                  !.entries[i] = IF fits THEN after ELSE @,
                  !.changed = @ \/ (fits /\ after # run.entries[i])]
    BY <1>1, <1>2, <1>3 DEF Recording
  <1>5. r.seen = run.seen /\ DOMAIN r = RunFields
    BY <1>4 DEF Passed, RunFields
  <1>6. [r EXCEPT !.exhausted = TRUE].seen = run.seen
    BY <1>5 DEF RunFields
  <1> QED BY <1>3, <1>5, <1>6

LEMMA ServiceUnseen ==
    ASSUME UpdateInv, pc # "idle", known' = known,
           \/ WriteGeneration \/ (\E i \in Issuer : Skip(i) \/ NoResults(i) \/ Detect(i))
           \/ TakeTurn \/ Reuse \/ Fetch \/ WriteCapture
           \/ Decide \/ Fails \/ Exhausted \/ Finish
    PROVE  Unseen
  <1>1. DOMAIN run = RunFields
    BY DEF UpdateInv, RunInv
  <1>2. Passed.seen = run.seen /\ DOMAIN Passed = RunFields
    BY <1>1 DEF Passed, RunFields
  <1> SUFFICES run'.seen = run.seen
    BY DEF Unseen
  <1>3. CASE WriteGeneration
    <2>1. PICK E : run' = [run EXCEPT !.entries = E]
      BY <1>3 DEF WriteGeneration
    <2> QED BY <1>1, <2>1 DEF RunFields
  <1>4. ASSUME NEW i \in Issuer, Skip(i)
        PROVE  run'.seen = run.seen
    BY <1>2, <1>4 DEF Skip
  <1>5. ASSUME NEW i \in Issuer, NoResults(i)
        PROVE  run'.seen = run.seen
    <2>1. \/ run' = Passed
          \/ \E E : run' = [Passed EXCEPT !.entries = E, !.changed = TRUE]
      BY <1>5 DEF NoResults
    <2> QED BY <1>2, <2>1 DEF RunFields
  <1>6. ASSUME NEW i \in Issuer, Detect(i)
        PROVE  run'.seen = run.seen
    <2>1. PICK E, c : run' = [run EXCEPT !.entries = E, !.changed = c, !.who = i,
                                  !.lead = Oldest(Unsettled(i)), !.caps = <<>>, !.then = "queue"]
      BY <1>6 DEF Detect
    <2> QED BY <1>1, <2>1 DEF RunFields
  <1>7. CASE TakeTurn \/ WriteCapture
    BY <1>7 DEF TakeTurn, WriteCapture
  <1>8. CASE Reuse
    BY <1>1, <1>8 DEF Reuse, Took, RunFields
  <1>9. CASE Fetch
    <2>1. PICK p, s : run' = [Took(p) EXCEPT !.spent = s]
      BY <1>9 DEF Fetch
    <2> QED BY <1>1, <2>1 DEF Took, RunFields
  <1>10. CASE Decide \/ Fails
    <2>1. \E result, spent : run' = Recording(result, run.caps, spent)
      BY <1>10 DEF Decide, Fails
    <2> QED BY <1>1, <2>1, RecordingUnseen
  <1>11. CASE Exhausted
    <2>1. \/ run' = [Passed EXCEPT !.who = NoIssuer, !.lead = NoDoc, !.exhausted = TRUE]
          \/ run' = [Recording(WaitFor("interrupted"), run.caps, run.spent) EXCEPT !.exhausted = TRUE]
      BY <1>11 DEF Exhausted
    <2>2. CASE run' = [Passed EXCEPT !.who = NoIssuer, !.lead = NoDoc, !.exhausted = TRUE]
      BY <1>2, <2>2 DEF RunFields
    <2>3. CASE run' = [Recording(WaitFor("interrupted"), run.caps, run.spent) EXCEPT !.exhausted = TRUE]
      BY <1>1, <2>3, RecordingUnseen
    <2> QED BY <2>1, <2>2, <2>3
  <1>12. CASE Finish
    <2>1. run' = run \/ run' = [run EXCEPT !.then = "done"]
      BY <1>12 DEF Finish
    <2> QED BY <1>1, <2>1 DEF RunFields
  <1> QED BY <1>3, <1>4, <1>5, <1>6, <1>7, <1>8, <1>9, <1>10, <1>11, <1>12

LEMMA NoticedAreMine ==
    ASSUME RowsInv, StoredInv, NEW i \in Issuer
    PROVE  Noticed(i) \subseteq Mine(i)
  <1>1. Seen(i) \subseteq Mine(i)
    BY AtEntryIs
  <1>2. PICK adm : adm = Admitted(i) /\ adm.docs \subseteq Mine(i)
    BY AfterEntryIs
  <1>3. Listed(i, ReferenceOf(adm.producer)) \cup adm.docs \subseteq Mine(i)
    BY <1>2, ListedIsMine
  <1>4. Material(i) \subseteq Mine(i)
    BY <1>2, <1>3, UnaccountedAreSome DEF Material
  <1> QED BY <1>1, <1>4 DEF Noticed

LEMMA KnownStep == UpdateInv /\ KnownInv /\ [Next]_vars => KnownInv'
  <1> SUFFICES ASSUME UpdateInv, KnownInv, [Next]_vars
               PROVE  KnownInv'
    OBVIOUS
  <1>1. CASE Begin
    <2>1. run'.seen = [i \in Issuer |-> Noticed(i)] /\ known' = known
      BY <1>1 DEF Begin, Resting
    <2>2. \A i \in Issuer : Noticed(i) \subseteq Mine(i)
      BY NoticedAreMine DEF UpdateInv
    <2> QED BY <2>1, <2>2 DEF KnownInv
  <1>2. CASE MovePointer
    <2>1. /\ pc = "pointer" /\ run' = [run EXCEPT !.changed = FALSE]
          /\ known' = [i \in Issuer |-> known[i] \cup run.seen[i]]
      BY <1>2 DEF MovePointer
    <2>2. run'.seen = run.seen
      BY <2>1 DEF UpdateInv, RunInv, RunFields
    <2> QED BY <2>1, <2>2 DEF KnownInv
  <1>3. CASE Break \/ Done \/ Crash
    BY <1>3, UnseenKeeps DEF Break, Done, Crash, Rests, Unseen
  <1>4. CASE Check \/ Install
    BY <1>4, UnseenKeeps DEF Check, Install, Unseen
  <1>5. CASE UNCHANGED vars
    BY <1>5 DEF vars, KnownInv
  <1>6. CASE \/ WriteGeneration \/ (\E i \in Issuer : Skip(i) \/ NoResults(i) \/ Detect(i))
             \/ TakeTurn \/ Reuse \/ Fetch \/ WriteCapture
             \/ Decide \/ Fails \/ Exhausted \/ Finish
    <2>1. pc # "idle" /\ known' = known
      BY <1>6 DEF WriteGeneration, Skip, NoResults, Detect, Turn, OnlyRun, TakeTurn, Reuse, Fetch,
                  Requests, Capturing, WriteCapture, UnlessStored, Decide, Fails, Exhausted, Goes, Finish
    <2> QED BY <1>6, <2>1, ServiceUnseen, UnseenKeeps
  <1> QED BY <1>1, <1>2, <1>3, <1>4, <1>5, <1>6 DEF Next, Step

-----------------------------------------------------------------------------
(* What follows. *)

\* An issuer that has a usable record and was served admits its last attempt.
LEMMA UsableIs ==
    ASSUME UpdateInv, NEW i \in Issuer, Usable(i), HistoryOf(Stored.issuers[i]) # <<>>
    PROVE  /\ StoredAdmission(i).mode = "VERIFIED"
           /\ StoredAdmission(i).producer = Last(HistoryOf(Stored.issuers[i]))
           /\ Last(HistoryOf(Stored.issuers[i])).outcome = "VERIFIED"
           /\ StoredAdmission(i).producer # NoAttempt
  <1>1. PICK entry \in Entries(Held(i)) : entry = Stored.issuers[i] /\ HistoryOf(entry) # <<>>
    BY DEF UpdateInv, StoredInv
  <1>2. PICK A : A = Held(i)
    OBVIOUS
  <1>3. PICK h \in Seq(A) : h = HistoryOf(entry) /\ h # <<>>
    BY <1>1, <1>2, HistoryShape
  <1>4. PICK last \in A : last = Last(h)
    BY <1>3, FrontShape
  <1>5. last # NoAttempt /\ last.outcome \in Outcomes
    BY <1>2, <1>4, NoAttemptIsNone DEF Held, Attempts
  <1>6. PICK a : a = StoredAdmission(i)
    OBVIOUS
  <1>7. /\ a.mode = last.outcome
        /\ a.bound => (last.outcome = "VERIFIED" => last = a.producer)
    BY <1>1, <1>3, <1>4, <1>5, <1>6 DEF StoredAdmission, Admission, LastAttempt
  <1>8. a.bound /\ (a.mode = "VERIFIED" \/ a.mode = "CURATED")
    BY <1>6 DEF Usable
  <1>9. last.outcome = "VERIFIED"
    BY <1>5, <1>7, <1>8 DEF Outcomes
  <1> QED BY <1>1, <1>3, <1>4, <1>5, <1>6, <1>7, <1>8, <1>9

\* A record that may be used leaves nothing that was seen: what is detected it
\* accounts for, and what an event verified accounts for it accounts for too,
\* the event being older or listed after it.
LEMMA UsableLeavesNothing ==
    ASSUME ReleasesInOrder, UpdateInv, OldInv, KnownInv, NEW i \in Issuer, Usable(i)
    PROVE  LeftBy(StoredAdmission(i).producer, known[i]) = {}
  <1> SUFFICES ASSUME NEW d \in LeftBy(StoredAdmission(i).producer, known[i])
               PROVE  FALSE
    OBVIOUS
  <1>1. PICK entry \in Entries(Held(i)), seen \in Seens(i) :
          /\ entry = Stored.issuers[i] /\ seen = Stored.dets[i]
          /\ Honest(i, entry, Stored.ident) /\ BarsLater(i, entry)
    BY DEF UpdateInv, StoredInv, OldInv, OldStored
  <1>2. PICK a : a = StoredAdmission(i)
    OBVIOUS
  <1>3. PICK listed : listed = Listed(i, ReferenceOf(a.producer))
    OBVIOUS
  <1>4. /\ a.bound /\ ~a.over /\ RowsOf(i, ReferenceOf(a.producer)) # {}
        /\ \/ a.mode = "VERIFIED" /\ Unaccounted(a.producer, listed \cup a.docs) = {}
           \/ a.mode = "CURATED" /\ a.docs = {}
    BY <1>2, <1>3 DEF Usable
  <1>5. PICK observed : observed = UNION {entry.open[k].docs : k \in DOMAIN entry.open}
    OBVIOUS
  <1>6. a.over = seen.over /\ a.docs = LeftBy(a.producer, observed \cup seen.docs)
    BY <1>1, <1>2, <1>5 DEF StoredAdmission, Admission
  <1>7. d \in known[i] /\ d \in Mine(i) /\ d \in Doc
    BY DEF LeftBy, KnownInv, Mine
  <1>8. PICK h : h = HistoryOf(entry)
    OBVIOUS
  <1>9. a.producer # NoAttempt =>
          d \notin Proves[a.producer.key.event] /\ Day[d] >= Day[a.producer.key.event]
    BY <1>2 DEF LeftBy
  (* A detection is left by a verified record only if it is barred.  *)
  <1>10. d \notin seen.docs
    <2> SUFFICES ASSUME d \in seen.docs
                 PROVE  FALSE
      OBVIOUS
    <2>1. d \in a.docs
      BY <1>6, <1>9 DEF LeftBy
    <2>2. a.mode = "VERIFIED" /\ Unaccounted(a.producer, listed \cup a.docs) = {}
      BY <1>4, <2>1
    <2>3. h # <<>>
      BY <1>1, <1>2, <1>8, <2>2 DEF StoredAdmission, Admission
    <2>4. a.producer # NoAttempt
      BY <1>1, <1>2, <1>8, <2>3, UsableIs
    <2> QED BY <1>9, <2>1, <2>2, <2>4 DEF Unaccounted
  <1>11. PICK j \in 1 .. Len(h) : h[j].outcome = "VERIFIED" /\ LeftBy(h[j], {d}) = {}
    <2>1. Covered(d, seen, h)
      BY <1>1, <1>7, <1>8 DEF UpdateInv, SeenInv
    <2> QED BY <1>4, <1>6, <1>10, <2>1 DEF Covered
  <1>12. h # <<>>
    BY <1>11, EmptySeq
  <1>13. /\ a.mode = "VERIFIED" /\ a.producer = Last(h) /\ Last(h).outcome = "VERIFIED"
         /\ a.producer # NoAttempt
    BY <1>1, <1>2, <1>8, <1>12, UsableIs
  <1>14. Unaccounted(a.producer, listed \cup a.docs) = {}
    BY <1>4, <1>13
  <1>15. PICK e, g : e = h[j].key.event /\ g = Last(h).key.event
    OBVIOUS
  <1>16. /\ e \in VerifiedEvents(h) /\ e \in Results \cap Mine(i)
         /\ g \in Results \cap Mine(i)
         /\ d \in Proves[e] \/ ~(Day[d] >= Day[e])
    <2>1. PICK A : A = Told(i, Stored.ident)
      OBVIOUS
    <2>2. h \in Seq(A) /\ VerifiedEvents(h) \subseteq Results \cap Mine(i)
      BY <1>1, <1>8, <2>1, HonestVerified
    <2>3. e \in VerifiedEvents(h)
      BY <1>11, <1>15 DEF VerifiedEvents
    <2>4. Last(h) \in Told(i, Stored.ident)
      BY <1>12, <2>1, <2>2, FrontShape
    <2>5. g \in Results \cap Mine(i)
      <3>1. Last(h).outcome # "WAITING"
        BY <1>13
      <3> QED BY <1>15, <2>4, <3>1, ToldAre
    <2>6. h[j] # NoAttempt
      BY <1>11 DEF NoAttempt
    <2> QED BY <1>11, <1>15, <2>2, <2>3, <2>5, <2>6 DEF LeftBy
  <1>17. d \notin Proves[g] /\ Day[d] >= Day[g]
    BY <1>9, <1>13, <1>15
  <1>18. PICK dd \in Nat, de \in Nat, dg \in Nat : dd = Day[d] /\ de = Day[e] /\ dg = Day[g]
    BY <1>7, <1>16, HistoryAssumption
  <1>19. e # g
    BY <1>16, <1>17
  <1>20. Owner[e] = Owner[g]
    BY <1>16 DEF Mine
  <1>21. CASE de <= dg
    <2>1. \A x \in Proves[e] : Day[x] < Day[g]
      BY <1>16, <1>18, <1>19, <1>20, <1>21 DEF ReleasesInOrder
    <2> QED BY <1>16, <1>17, <1>18, <1>21, <2>1
  <1>22. CASE ~(de <= dg)
    <2>1. e \in listed
      <3>1. ReferenceOf(a.producer) = g
        BY <1>13, <1>15 DEF ReferenceOf
      <3>2. PICK k \in DOMAIN rows[i] : rows[i][k].ref = g /\ k \in RowsOf(i, g)
        BY <1>4, <3>1 DEF RowsOf
      <3>3. k \in 1 .. Len(rows[i])
        BY LenProperties DEF UpdateInv, RowsInv
      <3>4. Day[e] > Day[g]
        BY <1>18, <1>22
      <3>5. e \in rows[i][k].docs
        BY <1>1, <1>8, <1>12, <1>13, <1>15, <1>16, <3>2, <3>3, <3>4 DEF BarsLater
      <3> QED BY <1>3, <3>1, <3>2, <3>5 DEF Listed
    <2>2. e \in Proves[g]
      BY <1>13, <1>14, <1>15, <2>1 DEF Unaccounted
    <2>3. Day[g] <= Day[e]
      BY <1>18, <1>22
    <2>4. Day[e] < Day[e]
      BY <1>16, <1>19, <1>20, <2>2, <2>3 DEF ReleasesInOrder
    <2> QED BY <1>18, <2>4
  <1> QED BY <1>18, <1>21, <1>22

\* A record is never used past a later document that a publishing run has seen,
\* whatever dies where, is listed no more or is installed between the runs: the
\* releases being in order and the identities letting older readings stand.
THEOREM OldNumbersAreBarred ==
    ASSUME ReleasesInOrder, OlderReadingsStand
    PROVE  Spec => []OldNumbersBarred
  <1>1. Init => KnownInv
    BY DEF Init, KnownInv
  <1>2. UpdateInv /\ OldInv /\ [Next]_vars => OldInv'
    BY OldStep
  <1>3. UpdateInv /\ OldInv /\ KnownInv => OldNumbersBarred
    BY UsableLeavesNothing DEF OldNumbersBarred
  <1> QED BY <1>1, <1>2, <1>3, InitOld, KnownStep, UpdateInvariant, PTL DEF Spec
\* So in particular while no installed identity refuses what one before it read.
COROLLARY BarredUnlessWithdrawn ==
    ASSUME ReleasesInOrder, \A e \in Results, v \in 1 .. LastVersion : ~Withdraws(v, e)
    PROVE  Spec => []OldNumbersBarred
  <1>1. OlderReadingsStand
    BY DEF OlderReadingsStand
  <1> QED BY <1>1, OldNumbersAreBarred
=============================================================================
