------------------------- MODULE FriendQaGateProofs -------------------------
(***************************************************************************)
(* Proofs about FriendQaGate for any number of friends, questions, places  *)
(* and slots, and any number of lost answers, killed Workers and evictions:*)
(* its types, FriendsInFlight, OnePlaceEach, RateKept, ArrivalOrder,       *)
(* HandedBack and NoLostWakeup.                                            *)
(***************************************************************************)
EXTENDS FriendQaGate, FiniteSetTheorems, TLAPS

-----------------------------------------------------------------------------
(* The invariant.  A waiter is an undecided request of a friend; the loop's   *)
(* candidate holds a lease that no Worker uses; a Worker that was granted a   *)
(* slot has its lease until it releases it; a waiter that is not charged yet  *)
(* has room under the limit.                                                  *)
RoomInv ==
    /\ \A a \in Waiting : a \in FriendAttempt /\ outcome[a] = "none"
                          /\ req[a] \in {"registered", "waiting"}
    /\ \A m, n \in 1..Len(waiters) : TenantOf[waiters[m]] = TenantOf[waiters[n]] => m = n
    /\ Len(waiters) <= QueueMax

WakeInv ==
    /\ wake.pc \in {"idle", "scan"} => wake.at = Nil
    /\ wake.at # Nil => /\ wake.at \in FriendAttempt \cap leases
                        /\ outcome[wake.at] \in {"none", "wait_timeout"}
                        /\ req[wake.at] \notin {"idle", "sent"}
                        /\ outcome[wake.at] = "none" => wake.at \in Waiting
    /\ wake.pc = "handback" => wake.at # Nil /\ outcome[wake.at] = "wait_timeout"

LeaseInv ==
    /\ IsFiniteSet(leases)
    /\ Cardinality(leases \cap FriendAttempt) <= Cap
    /\ \A a, b \in leases \cap FriendAttempt : TenantOf[a] = TenantOf[b] => a = b
    /\ \A a \in FriendAttempt :
         /\ w[a] \in {"model", "release"} => outcome[a] = "granted"
         /\ outcome[a] = "granted" /\ w[a] \in {"asked", "model"} => a \in leases
    /\ \A a \in Attempt :
         /\ w[a] = "idle" <=> req[a] = "idle"
         /\ req[a] \in {"idle", "sent"} => outcome[a] = "none" /\ a \notin leases

RateInv ==
    /\ \A t \in Friend : count[t] <= PerBucket
    /\ \A a \in Waiting \ {wake.at} : count[TenantOf[a]] < PerBucket

Bound == [lost : 0..MaxLost, fails : 0..MaxFails, kills : 0..MaxKills,
          evicts : 0..MaxEvicts, buckets : 0..MaxBuckets]

IInv == TypeOK /\ RoomInv /\ WakeInv /\ LeaseInv /\ RateInv

-----------------------------------------------------------------------------
(* The waiting room. *)

LEMMA RoomTypes ==
    ASSUME waiters \in Seq(Attempt)
    PROVE  /\ Len(waiters) \in Nat
           /\ \A n \in 1..Len(waiters) : waiters[n] \in Attempt
           /\ Waiting \subseteq Attempt
  BY DEF Waiting

(* Dropping an attempt removes it and keeps every other, in order.            *)
OneEach(room) ==
    \A m, n \in 1..Len(room) : TenantOf[room[m]] = TenantOf[room[n]] => m = n

RoomWithout(room, a) ==
    /\ room \in Seq(Attempt)
    /\ Len(room) <= Len(waiters)
    /\ {room[n] : n \in 1..Len(room)} = Waiting \ {a}
    /\ OneEach(room)

LEMMA DropRoom ==
    ASSUME waiters \in Seq(Attempt), NEW a \in Attempt, OneEach(waiters)
    PROVE  RoomWithout(Drop(a), a)
  <1> USE DEF OneEach, RoomWithout
  <1>0. Len(waiters) \in Nat /\ \A n \in 1..Len(waiters) : waiters[n] \in Attempt
    BY RoomTypes
  <1>1. CASE a \notin Waiting
    BY <1>1 DEF Drop, Waiting
  <1>2. CASE a \in Waiting
    <2> DEFINE k == CHOOSE n \in 1..Len(waiters) : waiters[n] = a
               room == [m \in 1..(Len(waiters) - 1) |-> IF m < k THEN waiters[m] ELSE waiters[m + 1]]
    <2>1. k \in 1..Len(waiters) /\ waiters[k] = a
      BY <1>2 DEF Waiting
    <2>2. Drop(a) = room
      BY <1>2 DEF Drop, RemovePlace
    <2> HIDE DEF k
    <2>3. Len(waiters) - 1 \in Nat
      BY <1>0, <2>1
    <2>4. \A m \in 1..(Len(waiters) - 1) : room[m] \in Attempt
      BY <1>0, <2>1
    <2>5. room \in Seq(Attempt) /\ Len(room) = Len(waiters) - 1
      <3>1. room \in [1..(Len(waiters) - 1) -> Attempt]
        BY <2>4
      <3> HIDE DEF room
      <3> QED BY <2>3, <3>1
    <2>6. \A m, n \in 1..(Len(waiters) - 1) : TenantOf[room[m]] = TenantOf[room[n]] => m = n
      <3> TAKE m, n \in 1..(Len(waiters) - 1)
      <3> DEFINE i == IF m < k THEN m ELSE m + 1
                 j == IF n < k THEN n ELSE n + 1
      <3>1. i \in 1..Len(waiters) /\ j \in 1..Len(waiters) /\ (i = j => m = n)
        BY <1>0, <2>1
      <3>2. room[m] = waiters[i] /\ room[n] = waiters[j]
        OBVIOUS
      <3> QED BY <3>1, <3>2
    <2>7. {room[n] : n \in 1..(Len(waiters) - 1)} = Waiting \ {a}
      <3>1. ASSUME NEW n \in 1..(Len(waiters) - 1)
            PROVE  room[n] \in Waiting \ {a}
        <4> DEFINE j == IF n < k THEN n ELSE n + 1
        <4>1. j \in 1..Len(waiters) /\ j # k /\ room[n] = waiters[j]
          BY <1>0, <2>1
        <4>2. waiters[j] # a
          BY <2>1, <4>1
        <4> QED BY <4>1, <4>2 DEF Waiting
      <3>2. ASSUME NEW b \in Waiting, b # a
            PROVE  \E n \in 1..(Len(waiters) - 1) : room[n] = b
        <4>1. PICK j \in 1..Len(waiters) : waiters[j] = b
          BY DEF Waiting
        <4>2. j # k
          BY <2>1, <3>2, <4>1
        <4> DEFINE n == IF j < k THEN j ELSE j - 1
        <4>3. n \in 1..(Len(waiters) - 1) /\ (IF n < k THEN n ELSE n + 1) = j
          BY <1>0, <2>1, <4>2
        <4>4. room[n] = waiters[j]
          BY <4>3
        <4> QED BY <4>1, <4>3, <4>4
      <3> HIDE DEF room
      <3> QED BY <3>1, <3>2
    <2> HIDE DEF room
    <2> QED BY <2>2, <2>5, <2>6, <2>7, <1>0
  <1> QED BY <1>1, <1>2

(* A lease more, while a slot is free.                                        *)
LEMMA LeaseAdded ==
    ASSUME IsFiniteSet(leases), Free, NEW a \in FriendAttempt
    PROVE  /\ IsFiniteSet(leases \cup {a})
           /\ Cardinality((leases \cup {a}) \cap FriendAttempt) <= Cap
  <1>1. Cardinality(leases) \in Nat /\ Cardinality(leases) < Cap
    BY FS_CardinalityType DEF Free
  <1>2. /\ IsFiniteSet(leases \cup {a})
        /\ Cardinality(leases \cup {a}) \in Nat
        /\ Cardinality(leases \cup {a}) <= Cardinality(leases) + 1
    BY FS_AddElement, <1>1
  <1>3. Cardinality((leases \cup {a}) \cap FriendAttempt) <= Cardinality(leases \cup {a})
    BY <1>2, FS_Subset
  <1>4. Cardinality((leases \cup {a}) \cap FriendAttempt) \in Nat
    BY <1>2, FS_Subset, FS_CardinalityType
  <1> QED BY <1>1, <1>2, <1>3, <1>4, LimitsAssumption

(* Fewer leases, or one of the owner's more.                                  *)
LEMMA LeasesOther ==
    ASSUME IsFiniteSet(leases), NEW more, IsFiniteSet(more),
           more \cap FriendAttempt \subseteq leases,
           Cardinality(leases \cap FriendAttempt) <= Cap
    PROVE  Cardinality(more \cap FriendAttempt) <= Cap
  <1>1. IsFiniteSet(leases \cap FriendAttempt)
    BY FS_Subset
  <1>2. more \cap FriendAttempt \subseteq leases \cap FriendAttempt
    OBVIOUS
  <1>3. /\ IsFiniteSet(more \cap FriendAttempt)
        /\ Cardinality(more \cap FriendAttempt) <= Cardinality(leases \cap FriendAttempt)
    BY <1>1, <1>2, FS_Subset
  <1>4. /\ Cardinality(more \cap FriendAttempt) \in Nat
        /\ Cardinality(leases \cap FriendAttempt) \in Nat
    BY <1>1, <1>3, FS_CardinalityType
  <1> QED BY <1>3, <1>4, LimitsAssumption

-----------------------------------------------------------------------------
(* Calling the wake loop changes no candidate: it only starts from none.      *)
LEMMA CallWakeKeeps ==
    ASSUME TypeOK, WakeInv, CallWake(waiters)
    PROVE  /\ wake' \in [pc : WakePc, at : Attempt \cup {Nil}] /\ wakeAgain' \in BOOLEAN
           /\ wake'.at = wake.at
           /\ wake'.pc \in {"idle", "scan"} => wake'.at = Nil
           /\ wake'.pc = "handback" => wake.pc = "handback"
  <1>1. CASE wake.pc = "idle"
    <2>1. wake'.pc \in {"idle", "scan"} /\ wake'.at = Nil /\ wakeAgain' = FALSE
          /\ wake' \in [pc : WakePc, at : Attempt \cup {Nil}]
      BY <1>1 DEF CallWake, LoopFrom, WakePc
    <2> QED BY <1>1, <2>1 DEF WakeInv
  <1>2. CASE wake.pc # "idle"
    BY <1>2 DEF CallWake, TypeOK, WakeInv
  <1> QED BY <1>1, <1>2

(* A step of a Worker.                                                        *)
WorkerMoves(a) == WorkerStep(a) \/ Ask(a) \/ AcquireLost(a) \/ ReleaseLost(a) \/ WorkerKilled(a)

LEMMA WorkerInv ==
    ASSUME IInv, NEW a \in Attempt, WorkerMoves(a)
    PROVE  IInv'
  <1> USE DEF WorkerMoves, WorkerStep, Ask, Acquired, AcquireLost, ModelSettles, Release, ReleaseWakes, ReleaseLost, WorkerKilled
  <1>0. UNCHANGED <<count, waiters, outcome, charged, expired>>
    BY DEF GateUnchanged
  <1>1. /\ wake' \in [pc : WakePc, at : Attempt \cup {Nil}] /\ wakeAgain' \in BOOLEAN
        /\ wake'.at = wake.at
        /\ wake'.pc \in {"idle", "scan"} => wake'.at = Nil
        /\ wake'.pc = "handback" => wake.pc = "handback"
    <2>1. CASE ReleaseWakes(a)
      BY <2>1, CallWakeKeeps DEF IInv
    <2>2. CASE UNCHANGED <<wake, wakeAgain>>
      BY <2>2 DEF IInv, TypeOK, WakeInv
    <2> QED BY <2>1, <2>2
  <1>2. bound' \in Bound
    <2>0. bound \in Bound
      BY DEF IInv, TypeOK, Bound
    <2>1. CASE UNCHANGED bound
      BY <2>0, <2>1
    <2>2. CASE bound.lost < MaxLost /\ bound' = [bound EXCEPT !.lost = @ + 1]
      BY <2>0, <2>2, BoundsAssumption DEF Bound
    <2>3. CASE bound.kills < MaxKills /\ bound' = [bound EXCEPT !.kills = @ + 1]
      BY <2>0, <2>3, BoundsAssumption DEF Bound
    <2> QED BY <2>1, <2>2, <2>3
  <1>3. \E pc \in WorkerPc \ {"idle"} : w' = [w EXCEPT ![a] = pc]
    <2>1. CASE Acquired(a)
      <3>1. \E pc \in {"model", "done"} : w' = [w EXCEPT ![a] = pc]
        BY <2>1 DEF WorkerGoes
      <3> QED BY <3>1 DEF WorkerPc
    <2>2. CASE AcquireLost(a)
      <3>1. \E pc \in {"model", "done"} : w' = [w EXCEPT ![a] = pc]
        BY <2>2 DEF WorkerGoes
      <3> QED BY <3>1 DEF WorkerPc
    <2>3. CASE ModelSettles(a) BY <2>3 DEF WorkerGoes, WorkerPc
    <2>4. CASE Release(a) BY <2>4 DEF WorkerGoes, WorkerPc
    <2>5. CASE ReleaseWakes(a) BY <2>5 DEF WorkerGoes, WorkerPc
    <2>6. CASE Ask(a) BY <2>6 DEF WorkerGoes, WorkerPc
    <2>7. CASE ReleaseLost(a) BY <2>7 DEF WorkerGoes, WorkerPc
    <2>8. CASE WorkerKilled(a) BY <2>8 DEF WorkerGoes, WorkerPc
    <2> QED BY <2>1, <2>2, <2>3, <2>4, <2>5, <2>6, <2>7, <2>8
  <1>4. w' \in [Attempt -> WorkerPc] /\ w'[a] # "idle" /\ (\A b \in Attempt \ {a} : w'[b] = w[b])
    BY <1>3 DEF IInv, TypeOK
  <1>5. \/ w[a] = "idle" /\ req' = [req EXCEPT ![a] = "sent"] /\ w'[a] = "asked"
        \/ w[a] # "idle" /\ UNCHANGED req
    BY DEF IInv, TypeOK, WorkerGoes
  <1>6. UNCHANGED leases \/ (w[a] = "release" /\ leases' = leases \ {a} /\ w'[a] = "wake")
    BY DEF IInv, TypeOK, WorkerGoes
  <1>7. a \in FriendAttempt =>
          /\ w'[a] \in {"model", "release"} => outcome[a] = "granted"
          /\ w'[a] \in {"asked", "model"} /\ outcome[a] = "granted" => w[a] \in {"asked", "idle"}
    <2> SUFFICES ASSUME a \in FriendAttempt
                 PROVE  /\ w'[a] \in {"model", "release"} => outcome[a] = "granted"
                        /\ w'[a] \in {"asked", "model"} /\ outcome[a] = "granted" => w[a] \in {"asked", "idle"}
      OBVIOUS
    <2>0. TenantOf[a] # Owner /\ w \in [Attempt -> WorkerPc]
      BY TenantAssumption DEF FriendAttempt, IInv, TypeOK
    <2>1. CASE Acquired(a) BY <2>0, <2>1 DEF WorkerGoes
    <2>2. CASE AcquireLost(a) BY <2>0, <2>2 DEF WorkerGoes
    <2>3. CASE ModelSettles(a) BY <2>0, <2>3 DEF WorkerGoes, IInv, LeaseInv
    <2>4. CASE Release(a) BY <2>0, <2>4 DEF WorkerGoes
    <2>5. CASE ReleaseWakes(a) BY <2>0, <2>5 DEF WorkerGoes
    <2>6. CASE Ask(a) BY <2>0, <2>6 DEF WorkerGoes
    <2>7. CASE ReleaseLost(a) BY <2>0, <2>7 DEF WorkerGoes
    <2>8. CASE WorkerKilled(a) BY <2>0, <2>8 DEF WorkerGoes
    <2> QED BY <2>1, <2>2, <2>3, <2>4, <2>5, <2>6, <2>7, <2>8
  <1> USE DEF IInv
  <1>8. TypeOK'
    <2>1. req' \in [Attempt -> ReqPc]
      BY <1>5 DEF TypeOK, ReqPc
    <2>2. leases' \subseteq Attempt
      BY <1>6 DEF TypeOK
    <2> QED BY <1>0, <1>1, <1>2, <1>4, <2>1, <2>2 DEF TypeOK, Bound
  <1>9. \A b \in Attempt : req[b] \notin {"idle", "sent"} => req'[b] = req[b]
    BY <1>5 DEF TypeOK, LeaseInv
  <1>10. RoomInv'
    <2>1. Waiting' = Waiting
      BY <1>0 DEF Waiting
    <2>2. \A b \in Waiting : b \in Attempt /\ req'[b] = req[b]
      BY <1>9 DEF RoomInv, FriendAttempt
    <2> QED BY <1>0, <2>1, <2>2 DEF RoomInv
  <1>11. WakeInv'
    <2>1. Waiting' = Waiting
      BY <1>0 DEF Waiting
    <2>2. wake.at # Nil => wake.at \in leases'
      <3>1. CASE UNCHANGED leases
        BY <3>1 DEF WakeInv
      <3>2. CASE w[a] = "release" /\ leases' = leases \ {a}
        BY <3>2 DEF WakeInv, LeaseInv
      <3> QED BY <1>6, <3>1, <3>2
    <2>3. wake.at # Nil => req'[wake.at] = req[wake.at]
      BY <1>9 DEF WakeInv, FriendAttempt
    <2> QED BY <1>0, <1>1, <2>1, <2>2, <2>3 DEF WakeInv
  <1>12. LeaseInv'
    <2>1. leases' \subseteq leases /\ IsFiniteSet(leases')
      BY <1>6, FS_Subset DEF LeaseInv
    <2>2. Cardinality(leases' \cap FriendAttempt) <= Cap
      BY <2>1, LeasesOther DEF LeaseInv
    <2>3. \A b, d \in leases' \cap FriendAttempt : TenantOf[b] = TenantOf[d] => b = d
      BY <2>1 DEF LeaseInv
    <2>4. ASSUME NEW b \in FriendAttempt
          PROVE  /\ w'[b] \in {"model", "release"} => outcome[b] = "granted"
                 /\ outcome[b] = "granted" /\ w'[b] \in {"asked", "model"} => b \in leases'
      <3>0. b \in Attempt
        BY DEF FriendAttempt
      <3>1. CASE b # a
        BY <1>4, <1>6, <3>0, <3>1 DEF LeaseInv
      <3>2. CASE b = a
        BY <1>4, <1>5, <1>6, <1>7, <3>0, <3>2 DEF LeaseInv
      <3> QED BY <3>1, <3>2
    <2>5. ASSUME NEW b \in Attempt
          PROVE  /\ w'[b] = "idle" <=> req'[b] = "idle"
                 /\ req'[b] \in {"idle", "sent"} => outcome[b] = "none" /\ b \notin leases'
      BY <1>4, <1>5, <2>1 DEF LeaseInv, TypeOK
    <2> QED BY <1>0, <2>1, <2>2, <2>3, <2>4, <2>5 DEF LeaseInv
  <1>13. RateInv'
    <2>1. Waiting' = Waiting
      BY <1>0 DEF Waiting
    <2> QED BY <1>0, <1>1, <2>1 DEF RateInv
  <1> QED BY <1>8, <1>10, <1>11, <1>12, <1>13

(* A step of acquire that leaves the waiting room.                            *)
LEMMA AcquireInv ==
    ASSUME IInv, NEW a \in Attempt,
           AcquireOwner(a) \/ AcquireRefused(a) \/ AcquireGranted(a)
    PROVE  IInv'
  <1> USE DEF AcquireOwner, AcquireRefused, AcquireGranted, IInv
  <1>0. /\ UNCHANGED <<waiters, wake, wakeAgain, w, bound, expired>>
        /\ req[a] = "sent" /\ outcome[a] = "none" /\ a \notin leases /\ w[a] # "idle"
        /\ req' = [req EXCEPT ![a] = "answered"]
        /\ Waiting' = Waiting /\ a \notin Waiting /\ a # wake.at
    <2>1. /\ UNCHANGED <<waiters, wake, wakeAgain, w, bound, expired>>
          /\ req[a] = "sent" /\ req' = [req EXCEPT ![a] = "answered"]
      BY DEF AcquireUnchanged, Answer
    <2>2. outcome[a] = "none" /\ a \notin leases /\ w[a] # "idle"
      BY <2>1 DEF LeaseInv
    <2>3. a \notin Waiting
      BY <2>1 DEF RoomInv
    <2>4. a # wake.at
      BY <2>1, TenantAssumption DEF WakeInv
    <2>5. Waiting' = Waiting
      BY <2>1 DEF Waiting
    <2> QED BY <2>1, <2>2, <2>3, <2>4, <2>5
  <1>1. /\ \E v \in {"granted", "busy"} : outcome' = [outcome EXCEPT ![a] = v]
        /\ outcome' \in [Attempt -> Outcome] /\ req' \in [Attempt -> ReqPc]
        /\ \A b \in Attempt \ {a} : outcome'[b] = outcome[b] /\ req'[b] = req[b]
    BY <1>0 DEF Answer, TypeOK, Outcome, ReqPc
  <1>2. \/ UNCHANGED <<leases, count, charged>> /\ (TenantOf[a] \in Friend => outcome'[a] = "busy")
        \/ /\ TenantOf[a] = Owner /\ leases' = leases \cup {a}
           /\ UNCHANGED <<count, charged>>
        \/ /\ a \in FriendAttempt /\ Free /\ ~HasLease(TenantOf[a]) /\ waiters = <<>>
           /\ leases' = leases \cup {a} /\ ChargeTo(a) /\ count[TenantOf[a]] < PerBucket
    <2>1. CASE AcquireOwner(a)
      BY <2>1
    <2>2. CASE AcquireRefused(a)
      BY <2>2 DEF Answer, TypeOK
    <2>3. CASE AcquireGranted(a)
      <3>1. TenantOf[a] \in Friend /\ count[TenantOf[a]] \in Nat
        BY <2>3 DEF TypeOK
      <3>2. count[TenantOf[a]] < PerBucket
        BY <2>3, <3>1, LimitsAssumption DEF Refused
      <3> QED BY <2>3, <3>1, <3>2 DEF GrantAtOnce, FriendAttempt
    <2> QED BY <2>1, <2>2, <2>3
  <1>3. count' \in [Friend -> Nat] /\ charged' \subseteq Attempt /\ RateInv'
    <2>1. CASE UNCHANGED <<count, charged>>
      BY <1>0, <2>1 DEF TypeOK, RateInv
    <2>2. CASE /\ a \in FriendAttempt /\ waiters = <<>> /\ ChargeTo(a)
               /\ count[TenantOf[a]] < PerBucket
      <3>1. Waiting = {}
        BY <2>2 DEF Waiting
      <3>2. count' = [count EXCEPT ![TenantOf[a]] = @ + 1] /\ TenantOf[a] \in Friend
        BY <2>2 DEF ChargeTo, FriendAttempt
      <3>3. \A t \in Friend : count[t] \in Nat /\ count'[t] \in Nat /\ count'[t] <= PerBucket
        BY <2>2, <3>2, LimitsAssumption DEF TypeOK, RateInv
      <3> QED BY <1>0, <2>2, <3>1, <3>2, <3>3 DEF TypeOK, RateInv, ChargeTo
    <2> QED BY <1>2, <2>1, <2>2
  <1>4. TypeOK'
    <2>1. leases' \subseteq Attempt
      BY <1>2 DEF TypeOK
    <2> QED BY <1>0, <1>1, <1>3, <2>1 DEF TypeOK
  <1>5. RoomInv'
    <2>1. \A b \in Waiting : b \in Attempt \ {a}
      BY <1>0 DEF RoomInv, FriendAttempt
    <2> QED BY <1>0, <1>1, <2>1 DEF RoomInv
  <1>6. WakeInv'
    <2>1. leases \subseteq leases'
      BY <1>2
    <2>2. wake.at # Nil => wake.at \in Attempt \ {a}
      BY <1>0 DEF WakeInv, FriendAttempt
    <2> QED BY <1>0, <1>1, <2>1, <2>2 DEF WakeInv
  <1>7. LeaseInv'
    <2>1. /\ IsFiniteSet(leases')
          /\ Cardinality(leases' \cap FriendAttempt) <= Cap
          /\ \A b, d \in leases' \cap FriendAttempt : TenantOf[b] = TenantOf[d] => b = d
      <3>1. CASE UNCHANGED leases
        BY <3>1 DEF LeaseInv
      <3>2. CASE TenantOf[a] = Owner /\ leases' = leases \cup {a}
        <4>1. a \notin FriendAttempt
          BY <3>2, TenantAssumption DEF FriendAttempt
        <4>2. leases' \cap FriendAttempt \subseteq leases
          BY <3>2, <4>1
        <4>3. IsFiniteSet(leases')
          BY <3>2, FS_AddElement DEF LeaseInv
        <4>4. Cardinality(leases' \cap FriendAttempt) <= Cap
          BY <4>2, <4>3, LeasesOther DEF LeaseInv
        <4> QED BY <4>2, <4>3, <4>4 DEF LeaseInv
      <3>3. CASE a \in FriendAttempt /\ Free /\ ~HasLease(TenantOf[a]) /\ leases' = leases \cup {a}
        <4>1. IsFiniteSet(leases') /\ Cardinality(leases' \cap FriendAttempt) <= Cap
          BY <3>3, LeaseAdded DEF LeaseInv
        <4> QED BY <3>3, <4>1 DEF LeaseInv, HasLease
      <3> QED BY <1>2, <3>1, <3>2, <3>3
    <2>2. ASSUME NEW b \in FriendAttempt
          PROVE  /\ w'[b] \in {"model", "release"} => outcome'[b] = "granted"
                 /\ outcome'[b] = "granted" /\ w'[b] \in {"asked", "model"} => b \in leases'
      <3>0. b \in Attempt /\ TenantOf[b] \in Friend
        BY DEF FriendAttempt
      <3>1. CASE b # a
        BY <1>0, <1>1, <1>2, <3>0, <3>1 DEF LeaseInv
      <3>2. CASE b = a
        <4>1. w[a] \notin {"model", "release"}
          BY <1>0, <3>2 DEF LeaseInv
        <4>2. outcome'[a] = "granted" => a \in leases'
          BY <1>2, <3>0, <3>2
        <4> QED BY <1>0, <3>2, <4>1, <4>2
      <3> QED BY <3>1, <3>2
    <2>3. ASSUME NEW b \in Attempt
          PROVE  /\ w'[b] = "idle" <=> req'[b] = "idle"
                 /\ req'[b] \in {"idle", "sent"} => outcome'[b] = "none" /\ b \notin leases'
      BY <1>0, <1>1, <1>2 DEF LeaseInv, TypeOK
    <2> QED BY <2>1, <2>2, <2>3 DEF LeaseInv
  <1> QED BY <1>3, <1>4, <1>5, <1>6, <1>7

(* A request enters the waiting room.                                         *)
LEMMA AcquireWaitInv ==
    ASSUME IInv, NEW a \in Attempt, AcquireWait(a)
    PROVE  IInv'
  <1> USE DEF IInv
  <1>0. /\ UNCHANGED <<leases, count, wake, wakeAgain, w, bound, charged, expired, outcome>>
        /\ req[a] = "sent" /\ req' = [req EXCEPT ![a] = "registered"]
        /\ waiters' = Append(waiters, a) /\ TenantOf[a] \in Friend
        /\ ~Refused(a) /\ ~RoomFull
    BY DEF AcquireWait, AcquireUnchanged
  <1>1. /\ Len(waiters) \in Nat /\ waiters' \in Seq(Attempt) /\ Len(waiters') = Len(waiters) + 1
        /\ waiters'[Len(waiters) + 1] = a
        /\ \A n \in 1..Len(waiters) : waiters'[n] = waiters[n]
    BY <1>0 DEF TypeOK
  <1>2. Waiting' = Waiting \cup {a}
    <2>1. Waiting' \subseteq Waiting \cup {a}
      BY <1>1 DEF Waiting
    <2>2. Waiting \subseteq Waiting'
      BY <1>1 DEF Waiting
    <2>3. a \in Waiting'
      BY <1>1 DEF Waiting
    <2> QED BY <2>1, <2>2, <2>3
  <1>3. /\ count[TenantOf[a]] < PerBucket
        /\ \A n \in 1..Len(waiters) : TenantOf[waiters[n]] # TenantOf[a]
        /\ Len(waiters) < QueueMax
    BY <1>0, <1>1, LimitsAssumption DEF Refused, RoomFull, TypeOK, Waiting
  <1>4. /\ outcome[a] = "none" /\ a \notin leases /\ req' \in [Attempt -> ReqPc]
        /\ \A b \in Attempt \ {a} : req'[b] = req[b]
    BY <1>0 DEF LeaseInv, TypeOK, ReqPc
  <1>5. TypeOK'
    BY <1>0, <1>1, <1>4 DEF TypeOK
  <1>6. RoomInv'
    <2>1. \A b \in Waiting : b \in Attempt \ {a}
      BY <1>0 DEF RoomInv, FriendAttempt
    <2>2. req'[a] = "registered" /\ a \in FriendAttempt
      BY <1>0 DEF TypeOK, FriendAttempt
    <2>3. \A b \in Waiting' : b \in FriendAttempt /\ outcome'[b] = "none"
                              /\ req'[b] \in {"registered", "waiting"}
      BY <1>0, <1>2, <1>4, <2>1, <2>2 DEF RoomInv
    <2>4. \A m, n \in 1..(Len(waiters) + 1) : TenantOf[waiters'[m]] = TenantOf[waiters'[n]] => m = n
      BY <1>1, <1>3 DEF RoomInv
    <2> QED BY <1>1, <1>3, <2>3, <2>4, LimitsAssumption DEF RoomInv
  <1>7. WakeInv'
    <2>1. wake.at # Nil => wake.at \in Attempt \ {a}
      BY <1>0 DEF WakeInv, FriendAttempt
    <2> QED BY <1>0, <1>2, <1>4, <2>1 DEF WakeInv
  <1>8. LeaseInv'
    BY <1>0, <1>4 DEF LeaseInv, TypeOK
  <1>9. RateInv'
    BY <1>0, <1>2, <1>3 DEF RateInv
  <1> QED BY <1>5, <1>6, <1>7, <1>8, <1>9

(* A waiting request sets its timer, or learns that it is decided.            *)
LEMMA AcquireOnInv ==
    ASSUME IInv, NEW a \in Attempt, AcquireContinues(a) \/ AcquireResolved(a)
    PROVE  IInv'
  <1> USE DEF IInv
  <1>0. /\ UNCHANGED <<leases, count, waiters, w, bound, charged, expired, outcome>>
        /\ req[a] \in {"registered", "waiting"}
        /\ Waiting' = Waiting
    BY DEF AcquireContinues, AcquireResolved, AcquireUnchanged, Waiting
  <1>1. /\ \E pc \in {"answered", "waiting"} :
              req' = [req EXCEPT ![a] = pc] /\ (pc = "answered" => outcome[a] # "none")
        /\ req' \in [Attempt -> ReqPc]
        /\ \A b \in Attempt \ {a} : req'[b] = req[b]
    <2>1. \E pc \in {"answered", "waiting"} :
             req' = [req EXCEPT ![a] = pc] /\ (pc = "answered" => outcome[a] # "none")
      BY DEF AcquireContinues, AcquireResolved, Done
    <2>2. req' \in [Attempt -> ReqPc]
      BY <2>1 DEF TypeOK, ReqPc
    <2> QED BY <2>1, <2>2 DEF TypeOK
  <1>2. req'[a] \in {"answered", "waiting"} /\ (req'[a] = "answered" => outcome[a] # "none")
    BY <1>1 DEF TypeOK
  <1>3. /\ wake' \in [pc : WakePc, at : Attempt \cup {Nil}] /\ wakeAgain' \in BOOLEAN
        /\ wake'.at = wake.at
        /\ wake'.pc \in {"idle", "scan"} => wake'.at = Nil
        /\ wake'.pc = "handback" => wake.pc = "handback"
    <2>1. CASE AcquireContinues(a)
      BY <2>1, CallWakeKeeps DEF AcquireContinues
    <2>2. CASE AcquireResolved(a)
      BY <2>2 DEF AcquireResolved, AcquireUnchanged, TypeOK, WakeInv
    <2> QED BY <2>1, <2>2
  <1>4. TypeOK'
    BY <1>0, <1>1, <1>3 DEF TypeOK
  <1>5. RoomInv'
    BY <1>0, <1>1, <1>2 DEF RoomInv, FriendAttempt
  <1>6. WakeInv'
    BY <1>0, <1>1, <1>2, <1>3 DEF WakeInv, FriendAttempt
  <1>7. LeaseInv'
    BY <1>0, <1>1, <1>2 DEF LeaseInv
  <1>8. RateInv'
    BY <1>0, <1>3 DEF RateInv
  <1> QED BY <1>4, <1>5, <1>6, <1>7, <1>8

(* A waiter gives up; the loop may just have chosen it.                       *)
LEMMA WaitTimeoutInv ==
    ASSUME IInv, NEW a \in Attempt, WaitTimeout(a)
    PROVE  IInv'
  <1> USE DEF IInv
  <1>0. /\ UNCHANGED <<leases, count, wake, wakeAgain, w, bound, charged, expired>>
        /\ req[a] = "waiting" /\ outcome[a] = "none"
        /\ waiters' = Drop(a)
        /\ req' = [req EXCEPT ![a] = "answered"]
        /\ outcome' = [outcome EXCEPT ![a] = "wait_timeout"]
    BY DEF WaitTimeout, AcquireUnchanged, Answer, Done
  <1>1. /\ waiters' \in Seq(Attempt) /\ Len(waiters') <= Len(waiters)
        /\ Waiting' = Waiting \ {a}
        /\ \A m, n \in 1..Len(waiters') : TenantOf[waiters'[m]] = TenantOf[waiters'[n]] => m = n
        /\ Len(waiters) \in Nat /\ Len(waiters') \in Nat
    <2>0. waiters \in Seq(Attempt)
      BY DEF TypeOK
    <2>1. OneEach(waiters)
      BY DEF RoomInv, OneEach
    <2>2. waiters' = Drop(a) /\ a \in Attempt
      BY <1>0
    <2>3. RoomWithout(waiters', a)
      BY <2>0, <2>1, <2>2, DropRoom
    <2>4. Waiting' = Waiting \ {a}
      BY <2>3 DEF RoomWithout, Waiting
    <2>5. Len(waiters) \in Nat /\ Len(waiters') \in Nat
      BY <2>0, <2>3 DEF RoomWithout
    <2> QED BY <2>3, <2>4, <2>5 DEF RoomWithout, OneEach
  <1>2. /\ req' \in [Attempt -> ReqPc] /\ outcome' \in [Attempt -> Outcome]
        /\ req'[a] = "answered" /\ outcome'[a] = "wait_timeout"
        /\ \A b \in Attempt \ {a} : req'[b] = req[b] /\ outcome'[b] = outcome[b]
    BY <1>0 DEF TypeOK, ReqPc, Outcome
  <1>3. TypeOK'
    BY <1>0, <1>1, <1>2 DEF TypeOK
  <1>4. RoomInv'
    <2>1. \A b \in Waiting' : b \in FriendAttempt /\ outcome'[b] = "none"
                              /\ req'[b] \in {"registered", "waiting"}
      BY <1>1, <1>2 DEF RoomInv, FriendAttempt
    <2> QED BY <1>1, <2>1, LimitsAssumption DEF RoomInv
  <1>5. WakeInv'
    BY <1>0, <1>1, <1>2 DEF WakeInv, FriendAttempt
  <1>6. LeaseInv'
    <2>1. ASSUME NEW b \in FriendAttempt
          PROVE  /\ w'[b] \in {"model", "release"} => outcome'[b] = "granted"
                 /\ outcome'[b] = "granted" /\ w'[b] \in {"asked", "model"} => b \in leases'
      <3>1. b \in Attempt
        BY DEF FriendAttempt
      <3> QED BY <1>0, <1>2, <3>1 DEF LeaseInv
    <2>2. ASSUME NEW b \in Attempt
          PROVE  /\ w'[b] = "idle" <=> req'[b] = "idle"
                 /\ req'[b] \in {"idle", "sent"} => outcome'[b] = "none" /\ b \notin leases'
      BY <1>0, <1>2 DEF LeaseInv
    <2> QED BY <1>0, <2>1, <2>2 DEF LeaseInv
  <1>7. RateInv'
    BY <1>0, <1>1 DEF RateInv
  <1> QED BY <1>3, <1>4, <1>5, <1>6, <1>7

-----------------------------------------------------------------------------
(* Expiry, the end of a bucket, eviction.                                     *)
LEMMA LeaseExpiresInv ==
    ASSUME IInv, NEW a \in Attempt, LeaseExpires(a)
    PROVE  IInv'
  <1> USE DEF IInv
  <1>0. /\ a \in leases /\ w[a] = "done" /\ wake.at # a /\ leases' = leases \ {a}
        /\ expired' = expired \cup {a}
        /\ UNCHANGED <<count, waiters, wake, wakeAgain, req, outcome, w, bound, charged>>
        /\ Waiting' = Waiting
    BY DEF LeaseExpires, Waiting
  <1>1. TypeOK'
    BY <1>0 DEF TypeOK
  <1>2. RoomInv' /\ RateInv'
    BY <1>0 DEF RoomInv, RateInv
  <1>3. WakeInv'
    BY <1>0 DEF WakeInv
  <1>4. LeaseInv'
    <2>1. IsFiniteSet(leases')
      BY <1>0, FS_Subset DEF LeaseInv
    <2>2. Cardinality(leases' \cap FriendAttempt) <= Cap
      BY <1>0, <2>1, LeasesOther DEF LeaseInv
    <2> QED BY <1>0, <2>1, <2>2 DEF LeaseInv
  <1> QED BY <1>1, <1>2, <1>3, <1>4

LEMMA BucketEndsInv ==
    ASSUME IInv, BucketEnds
    PROVE  IInv'
  <1> USE DEF IInv
  <1>0. /\ count' = [t \in Friend |-> 0]
        /\ UNCHANGED <<leases, waiters, wake, wakeAgain, req, outcome, w, charged, expired>>
        /\ Waiting' = Waiting
    BY DEF BucketEnds, Waiting
  <1>1. bound' \in Bound
    <2>1. bound \in Bound
      BY DEF TypeOK, Bound
    <2>2. bound.buckets < MaxBuckets /\ bound' = [bound EXCEPT !.buckets = @ + 1]
      BY DEF BucketEnds
    <2> QED BY <2>1, <2>2, BoundsAssumption DEF Bound
  <1>2. TypeOK'
    BY <1>0, <1>1 DEF TypeOK, Bound
  <1>3. RoomInv' /\ WakeInv' /\ LeaseInv'
    BY <1>0 DEF RoomInv, WakeInv, LeaseInv
  <1>4. RateInv'
    <2>1. \A a \in Waiting \ {wake.at} : TenantOf[a] \in Friend /\ 0 < PerBucket
      BY LimitsAssumption DEF RoomInv, RateInv, FriendAttempt, TypeOK
    <2> QED BY <1>0, <2>1, LimitsAssumption DEF RateInv
  <1> QED BY <1>2, <1>3, <1>4

LEMMA StorageFailsInv ==
    ASSUME IInv, StorageFails
    PROVE  IInv'
  <1> USE DEF IInv
  <1>0. /\ UNCHANGED <<leases, count, waiters, wakeAgain, w, charged, expired>>
        /\ Waiting' = Waiting
    BY DEF StorageFails, Waiting
  <1>1. bound' \in Bound
    <2>1. bound \in Bound
      BY DEF TypeOK, Bound
    <2>2. bound.fails < MaxFails /\ bound' = [bound EXCEPT !.fails = @ + 1]
      BY DEF StorageFails
    <2> QED BY <2>1, <2>2, BoundsAssumption DEF Bound
  <1>2. CASE /\ wake.pc \in {"scan", "handback"} /\ UNCHANGED <<req, outcome>>
             /\ wake' = [pc |-> "picked", at |-> Nil] \/ wake' = [pc |-> "idle", at |-> Nil]
    <2>1. wake' \in [pc : WakePc, at : Attempt \cup {Nil}] /\ wake'.at = Nil
          /\ wake'.pc \in {"picked", "idle"}
      <3>1. CASE wake' = [pc |-> "picked", at |-> Nil]
        BY <3>1 DEF WakePc
      <3>2. CASE wake' = [pc |-> "idle", at |-> Nil]
        BY <3>2 DEF WakePc
      <3> QED BY <1>2, <3>1, <3>2
    <2>2. TypeOK'
      BY <1>0, <1>1, <1>2, <2>1 DEF TypeOK, Bound
    <2>3. RoomInv' /\ WakeInv' /\ LeaseInv'
      BY <1>0, <1>2, <2>1 DEF RoomInv, WakeInv, LeaseInv
    <2>4. RateInv'
      <3>1. wake.at \notin Waiting
        BY <1>2, TenantAssumption DEF RoomInv, WakeInv, FriendAttempt
      <3> QED BY <1>0, <3>1 DEF RateInv
    <2> QED BY <2>2, <2>3, <2>4
  <1>3. ASSUME NEW a \in Attempt, req[a] = "sent", Answer(a, "busy"), UNCHANGED wake
        PROVE  IInv'
    <2>1. /\ outcome[a] = "none" /\ a \notin leases /\ w[a] # "idle"
          /\ a \notin Waiting /\ a # wake.at
      BY <1>3, TenantAssumption DEF LeaseInv, RoomInv, WakeInv
    <2>2. /\ req' \in [Attempt -> ReqPc] /\ outcome' \in [Attempt -> Outcome]
          /\ req'[a] = "answered" /\ outcome'[a] = "busy"
          /\ \A b \in Attempt \ {a} : outcome'[b] = outcome[b] /\ req'[b] = req[b]
      BY <1>3 DEF Answer, TypeOK, Outcome, ReqPc
    <2>3. TypeOK'
      BY <1>0, <1>1, <1>3, <2>2 DEF TypeOK, Bound
    <2>4. RoomInv'
      BY <1>0, <2>1, <2>2 DEF RoomInv, FriendAttempt
    <2>5. WakeInv'
      BY <1>0, <1>3, <2>1, <2>2 DEF WakeInv, FriendAttempt
    <2>6. LeaseInv'
      <3>1. ASSUME NEW b \in Attempt
            PROVE  /\ outcome'[b] = "granted" <=> outcome[b] = "granted"
                   /\ req'[b] = "idle" <=> req[b] = "idle"
                   /\ req'[b] \in {"idle", "sent"} => req[b] = req'[b] /\ outcome'[b] = outcome[b]
        BY <1>3, <2>1, <2>2
      <3> QED BY <1>0, <3>1 DEF LeaseInv, FriendAttempt
    <2>7. RateInv'
      BY <1>0, <1>3 DEF RateInv
    <2> QED BY <2>3, <2>4, <2>5, <2>6, <2>7
  <1> QED BY <1>2, <1>3 DEF StorageFails

LEMMA EvictedInv ==
    ASSUME IInv, Evicted
    PROVE  IInv'
  <1> USE DEF IInv
  <1>0. /\ waiters' = <<>> /\ wake' = [pc |-> "idle", at |-> Nil] /\ wakeAgain' = FALSE
        /\ UNCHANGED <<leases, count, charged, expired>>
        /\ w' = [a \in Attempt |-> IF w[a] = "wake" THEN "done" ELSE w[a]]
        /\ Waiting' = {}
    BY DEF Evicted, Waiting
  <1>1. bound' \in Bound
    <2>1. bound \in Bound
      BY DEF TypeOK, Bound
    <2>2. bound.evicts < MaxEvicts /\ bound' = [bound EXCEPT !.evicts = @ + 1]
      BY DEF Evicted
    <2> QED BY <2>1, <2>2, BoundsAssumption DEF Bound
  <1>2. PICK failed \in SUBSET {a \in Attempt : req[a] \in {"sent", "registered", "waiting"}} :
          /\ req' = [a \in Attempt |-> IF a \in failed THEN "answered" ELSE req[a]]
          /\ outcome' = [a \in Attempt |-> IF a \in failed /\ ~Done(a) THEN "busy" ELSE outcome[a]]
    BY DEF Evicted
  <1>3. /\ req' \in [Attempt -> ReqPc] /\ outcome' \in [Attempt -> Outcome]
        /\ w' \in [Attempt -> WorkerPc]
    BY <1>0, <1>2 DEF TypeOK, ReqPc, Outcome, WorkerPc
  <1>4. \A a \in Attempt :
          /\ outcome'[a] = "granted" <=> outcome[a] = "granted"
          /\ req'[a] \in {"idle", "sent"} => req[a] = req'[a] /\ outcome'[a] = outcome[a]
          /\ req'[a] = "idle" <=> req[a] = "idle"
          /\ w'[a] # w[a] => w'[a] = "done" /\ w[a] = "wake"
    BY <1>0, <1>2 DEF Done
  <1>5. TypeOK'
    <2>1. wake' \in [pc : WakePc, at : Attempt \cup {Nil}] /\ wakeAgain' \in BOOLEAN
      BY <1>0 DEF WakePc
    <2>2. waiters' \in Seq(Attempt)
      BY <1>0
    <2> QED BY <1>0, <1>1, <1>3, <2>1, <2>2 DEF TypeOK, Bound
  <1>6. RoomInv'
    BY <1>0, LimitsAssumption DEF RoomInv
  <1>7. WakeInv' /\ RateInv'
    BY <1>0 DEF WakeInv, RateInv
  <1>8. LeaseInv'
    BY <1>0, <1>4 DEF LeaseInv, FriendAttempt
  <1> QED BY <1>5, <1>6, <1>7, <1>8

-----------------------------------------------------------------------------
(* The wake loop. *)

(* Going on to the next candidate leaves none behind.                         *)
LEMMA NextCandidateKeeps ==
    ASSUME TypeOK, NextCandidate(waiters')
    PROVE  /\ wake' \in [pc : WakePc, at : Attempt \cup {Nil}] /\ wakeAgain' \in BOOLEAN
           /\ wake'.at = Nil /\ wake'.pc \in {"idle", "scan"}
  <1>0. wakeAgain \in BOOLEAN
    BY DEF TypeOK
  <1>1. CASE waiters' = <<>>
    <2>1. wake' = [pc |-> "idle", at |-> Nil] /\ wakeAgain' = FALSE
      BY <1>1 DEF NextCandidate, LoopFrom
    <2> QED BY <2>1 DEF WakePc
  <1>2. CASE waiters' # <<>>
    <2>1. wake' = [pc |-> "scan", at |-> Nil] /\ wakeAgain' = wakeAgain
      BY <1>2 DEF NextCandidate
    <2> QED BY <1>0, <2>1 DEF WakePc
  <1> QED BY <1>1, <1>2

LEMMA WakeScanInv ==
    ASSUME IInv, WakeScan
    PROVE  IInv'
  <1> USE DEF IInv
  <1>0. /\ wake.pc = "scan" /\ wake.at = Nil
        /\ UNCHANGED <<waiters, wakeAgain, req, outcome, w, bound, expired>>
        /\ Waiting' = Waiting
    BY DEF WakeScan, WakeInv, Waiting
  <1>1. CASE wake' = [pc |-> "picked", at |-> Nil] /\ UNCHANGED <<leases, count, charged>>
    <2>1. TypeOK'
      BY <1>0, <1>1 DEF TypeOK, WakePc
    <2>2. RoomInv' /\ WakeInv' /\ LeaseInv' /\ RateInv'
      BY <1>0, <1>1 DEF RoomInv, WakeInv, LeaseInv, RateInv
    <2> QED BY <2>1, <2>2
  <1>2. ASSUME NEW k \in 1..Len(waiters), Eligible(waiters[k]),
               wake' = [pc |-> "picked", at |-> waiters[k]],
               leases' = leases \cup {waiters[k]}, ChargeTo(waiters[k])
        PROVE  IInv'
    <2> DEFINE a == waiters[k]
    <2>0. a \in Waiting /\ a \in FriendAttempt /\ a \in Attempt /\ TenantOf[a] \in Friend
          /\ outcome[a] = "none" /\ req[a] \in {"registered", "waiting"}
      BY DEF RoomInv, Waiting, FriendAttempt
    <2>1. Free /\ ~HasLease(TenantOf[a]) /\ wake' = [pc |-> "picked", at |-> a]
          /\ leases' = leases \cup {a} /\ count' = [count EXCEPT ![TenantOf[a]] = @ + 1]
          /\ charged' = charged \cup {a}
      BY <1>2 DEF Eligible, ChargeTo
    <2>2. \A b \in Waiting \ {a} : TenantOf[b] # TenantOf[a]
      BY DEF RoomInv, Waiting
    <2> HIDE DEF a
    <2>3. count \in [Friend -> Nat] /\ count[TenantOf[a]] < PerBucket /\ a # Nil
      BY <1>0, <2>0, TenantAssumption DEF TypeOK, RateInv
    <2>4. TypeOK'
      BY <1>0, <2>0, <2>1, <2>3 DEF TypeOK, WakePc
    <2>5. RoomInv'
      BY <1>0 DEF RoomInv
    <2>6. WakeInv'
      BY <1>0, <2>0, <2>1 DEF WakeInv
    <2>7. LeaseInv'
      <3>1. IsFiniteSet(leases') /\ Cardinality(leases' \cap FriendAttempt) <= Cap
        BY <2>0, <2>1, LeaseAdded DEF LeaseInv
      <3>2. \A b, d \in leases' \cap FriendAttempt : TenantOf[b] = TenantOf[d] => b = d
        BY <2>1 DEF LeaseInv, HasLease
      <3> QED BY <1>0, <2>0, <2>1, <3>1, <3>2 DEF LeaseInv
    <2>8. RateInv'
      <3>1. \A t \in Friend : count'[t] <= PerBucket
        <4> TAKE t \in Friend
        <4>1. CASE t = TenantOf[a]
          BY <2>0, <2>1, <2>3, <4>1, LimitsAssumption
        <4>2. CASE t # TenantOf[a]
          BY <2>0, <2>1, <2>3, <4>2 DEF RateInv
        <4> QED BY <4>1, <4>2
      <3>2. \A b \in Waiting \ {a} : TenantOf[b] \in Friend /\ b # Nil
        BY TenantAssumption DEF RoomInv, FriendAttempt
      <3>3. \A b \in Waiting \ {a} : count'[TenantOf[b]] = count[TenantOf[b]]
        BY <2>0, <2>1, <2>2, <2>3, <3>2
      <3> QED BY <1>0, <2>1, <3>1, <3>2, <3>3 DEF RateInv
    <2> QED BY <2>4, <2>5, <2>6, <2>7, <2>8
  <1> QED BY <1>1, <1>2 DEF WakeScan

(* The candidate leaves the waiting room: granted, or handed back.            *)
LEMMA WakeTakesInv ==
    ASSUME IInv, WakeGrant \/ WakeGaveUp
    PROVE  IInv'
  <1> USE DEF IInv
  <1> DEFINE a == wake.at
  <1>0. /\ a # Nil /\ a \in FriendAttempt /\ a \in Attempt /\ a \in leases
        /\ req[a] \notin {"idle", "sent"} /\ outcome[a] \in {"none", "wait_timeout"}
        /\ UNCHANGED <<leases, count, req, w, bound, charged, expired>>
        /\ waiters' = Drop(a)
    BY DEF WakeGrant, WakeGaveUp, WakeInv, FriendAttempt
  <1>1. /\ waiters' \in Seq(Attempt) /\ Len(waiters') <= Len(waiters)
        /\ Waiting' = Waiting \ {a}
        /\ \A m, n \in 1..Len(waiters') : TenantOf[waiters'[m]] = TenantOf[waiters'[n]] => m = n
        /\ Len(waiters) \in Nat /\ Len(waiters') \in Nat
    <2>0. waiters \in Seq(Attempt)
      BY DEF TypeOK
    <2>1. OneEach(waiters)
      BY DEF RoomInv, OneEach
    <2>2. waiters' = Drop(a) /\ a \in Attempt
      BY <1>0
    <2>3. RoomWithout(waiters', a)
      BY <2>0, <2>1, <2>2, DropRoom
    <2>4. Waiting' = Waiting \ {a}
      BY <2>3 DEF RoomWithout, Waiting
    <2>5. Len(waiters) \in Nat /\ Len(waiters') \in Nat
      BY <2>0, <2>3 DEF RoomWithout
    <2> QED BY <2>3, <2>4, <2>5 DEF RoomWithout, OneEach
  <1>2. /\ wake' \in [pc : WakePc, at : Attempt \cup {Nil}] /\ wakeAgain' \in BOOLEAN
        /\ outcome' \in [Attempt -> Outcome]
        /\ \A b \in Attempt \ {a} : outcome'[b] = outcome[b]
        /\ \/ wake'.at = Nil /\ wake'.pc \in {"idle", "scan"} /\ outcome'[a] = "granted"
           \/ wake'.at = a /\ wake'.pc = "handback" /\ outcome'[a] = "wait_timeout"
    <2>1. CASE WakeGrant
      <3>1. outcome' = [outcome EXCEPT ![a] = "granted"] /\ NextCandidate(waiters')
        BY <2>1 DEF WakeGrant
      <3>2. wake' \in [pc : WakePc, at : Attempt \cup {Nil}] /\ wakeAgain' \in BOOLEAN
            /\ wake'.at = Nil /\ wake'.pc \in {"idle", "scan"}
        BY <3>1, NextCandidateKeeps
      <3> HIDE DEF a
      <3>3. outcome' \in [Attempt -> Outcome] /\ outcome'[a] = "granted"
            /\ \A b \in Attempt \ {a} : outcome'[b] = outcome[b]
        BY <1>0, <3>1 DEF TypeOK, Outcome
      <3> QED BY <3>2, <3>3
    <2>2. CASE WakeGaveUp
      <3>1. outcome' = outcome /\ wakeAgain' = wakeAgain /\ outcome[a] = "wait_timeout"
            /\ wake' = [wake EXCEPT !.pc = "handback"]
        BY <1>0, <2>2 DEF WakeGaveUp, Done
      <3> QED BY <3>1 DEF TypeOK, WakePc
    <2> QED BY <2>1, <2>2
  <1> HIDE DEF a
  <1>3. TypeOK'
    BY <1>0, <1>1, <1>2 DEF TypeOK
  <1>4. RoomInv'
    <2>1. \A b \in Waiting' : b \in FriendAttempt /\ outcome'[b] = "none"
                              /\ req'[b] \in {"registered", "waiting"}
      BY <1>0, <1>1, <1>2 DEF RoomInv, FriendAttempt
    <2> QED BY <1>1, <2>1, LimitsAssumption DEF RoomInv
  <1>5. WakeInv'
    BY <1>0, <1>1, <1>2 DEF WakeInv
  <1>6. LeaseInv'
    <2>1. ASSUME NEW b \in FriendAttempt
          PROVE  /\ w'[b] \in {"model", "release"} => outcome'[b] = "granted"
                 /\ outcome'[b] = "granted" /\ w'[b] \in {"asked", "model"} => b \in leases'
      <3>1. b \in Attempt
        BY DEF FriendAttempt
      <3> QED BY <1>0, <1>2, <3>1 DEF LeaseInv
    <2>2. ASSUME NEW b \in Attempt
          PROVE  /\ w'[b] = "idle" <=> req'[b] = "idle"
                 /\ req'[b] \in {"idle", "sent"} => outcome'[b] = "none" /\ b \notin leases'
      BY <1>0, <1>2 DEF LeaseInv
    <2> QED BY <1>0, <2>1, <2>2 DEF LeaseInv
  <1>7. RateInv'
    BY <1>0, <1>1 DEF RateInv, a
  <1> QED BY <1>3, <1>4, <1>5, <1>6, <1>7

(* The loop finds no candidate, or takes back the lease of one that gave up.  *)
LEMMA WakeEndsInv ==
    ASSUME IInv, WakeNone \/ WakeHandback
    PROVE  IInv'
  <1> USE DEF IInv
  <1>0. UNCHANGED <<count, waiters, req, outcome, w, bound, charged, expired>> /\ Waiting' = Waiting
    BY DEF WakeNone, WakeHandback, Waiting
  <1>1. /\ wake' \in [pc : WakePc, at : Attempt \cup {Nil}] /\ wakeAgain' \in BOOLEAN
        /\ wake'.at = Nil /\ wake'.pc \in {"idle", "scan"}
    <2>1. CASE WakeHandback
      <3>1. NextCandidate(waiters')
        BY <1>0, <2>1 DEF WakeHandback
      <3> QED BY <3>1, NextCandidateKeeps
    <2>2. CASE WakeNone
      <3>0. wakeAgain \in BOOLEAN
        BY DEF TypeOK
      <3>1. CASE wakeAgain
        <4>1. wakeAgain' = FALSE
          BY <2>2, <3>1 DEF WakeNone, LoopFrom
        <4>2. CASE waiters = <<>>
          <5>1. wake' = [pc |-> "idle", at |-> Nil]
            BY <2>2, <3>1, <4>2 DEF WakeNone, LoopFrom
          <5> QED BY <4>1, <5>1 DEF WakePc
        <4>3. CASE waiters # <<>>
          <5>1. wake' = [pc |-> "scan", at |-> Nil]
            BY <2>2, <3>1, <4>3 DEF WakeNone, LoopFrom
          <5> QED BY <4>1, <5>1 DEF WakePc
        <4> QED BY <4>2, <4>3
      <3>2. CASE ~wakeAgain
        <4>1. wake' = [pc |-> "idle", at |-> Nil] /\ wakeAgain' = wakeAgain
          BY <2>2, <3>2 DEF WakeNone
        <4> QED BY <3>0, <4>1 DEF WakePc
      <3> QED BY <3>1, <3>2
    <2> QED BY <2>1, <2>2
  <1>2. \/ WakeNone /\ UNCHANGED leases /\ wake.at = Nil
        \/ wake.pc = "handback" /\ leases' = leases \ {wake.at}
    BY DEF WakeNone, WakeHandback
  <1>3. TypeOK'
    BY <1>0, <1>1, <1>2 DEF TypeOK
  <1>4. RoomInv' /\ WakeInv'
    BY <1>0, <1>1 DEF RoomInv, WakeInv
  <1>5. LeaseInv'
    <2>1. leases' \subseteq leases /\ IsFiniteSet(leases')
      BY <1>2, FS_Subset DEF LeaseInv
    <2>2. Cardinality(leases' \cap FriendAttempt) <= Cap
      BY <2>1, LeasesOther DEF LeaseInv
    <2>3. \A b \in leases \ leases' : outcome[b] = "wait_timeout"
      BY <1>2 DEF WakeInv
    <2> QED BY <1>0, <2>1, <2>2, <2>3 DEF LeaseInv
  <1>6. RateInv'
    <2>1. wake.at \notin Waiting
      BY <1>2, TenantAssumption DEF RoomInv, WakeInv, FriendAttempt
    <2> QED BY <1>0, <2>1 DEF RateInv
  <1> QED BY <1>3, <1>4, <1>5, <1>6

-----------------------------------------------------------------------------
LEMMA InitInv == Init => IInv
  <1> SUFFICES ASSUME Init PROVE IInv
    OBVIOUS
  <1>1. bound \in Bound
    BY BoundsAssumption DEF Init, Bound
  <1>2. TypeOK
    <2>1. waiters \in Seq(Attempt)
      BY DEF Init
    <2>2. wake \in [pc : WakePc, at : Attempt \cup {Nil}] /\ wakeAgain \in BOOLEAN
      BY DEF Init, WakePc
    <2>3. /\ leases \subseteq Attempt /\ charged \subseteq Attempt /\ expired \subseteq Attempt
          /\ count \in [Friend -> Nat]
      BY DEF Init
    <2>4. /\ req \in [Attempt -> ReqPc] /\ outcome \in [Attempt -> Outcome]
          /\ w \in [Attempt -> WorkerPc]
      BY DEF Init, ReqPc, Outcome, WorkerPc
    <2> QED BY <1>1, <2>1, <2>2, <2>3, <2>4 DEF TypeOK, Bound
  <1>3. Waiting = {} /\ Len(waiters) = 0
    BY DEF Init, Waiting
  <1>4. RoomInv /\ WakeInv /\ RateInv
    BY <1>3, LimitsAssumption DEF Init, RoomInv, WakeInv, RateInv
  <1>5. LeaseInv
    <2>1. IsFiniteSet(leases) /\ leases \cap FriendAttempt = {} /\ Cardinality({}) = 0
      BY FS_EmptySet DEF Init
    <2> QED BY <2>1, LimitsAssumption DEF Init, LeaseInv, FriendAttempt
  <1> QED BY <1>2, <1>4, <1>5 DEF IInv

LEMMA StepInv == IInv /\ [Next]_vars => IInv'
  <1> SUFFICES ASSUME IInv, [Next]_vars PROVE IInv'
    OBVIOUS
  <1>1. CASE UNCHANGED vars
    BY <1>1 DEF vars, IInv, TypeOK, RoomInv, WakeInv, LeaseInv, RateInv, Waiting
  <1>2. CASE WakeStep
    BY <1>2, WakeScanInv, WakeTakesInv, WakeEndsInv DEF WakeStep
  <1>3. ASSUME NEW a \in Attempt, AcquireStep(a)
        PROVE  IInv'
    BY <1>3, AcquireInv, AcquireWaitInv, AcquireOnInv, WaitTimeoutInv DEF AcquireStep
  <1>4. ASSUME NEW a \in Attempt, WorkerMoves(a) \/ LeaseExpires(a)
        PROVE  IInv'
    BY <1>4, WorkerInv, LeaseExpiresInv
  <1>5. CASE BucketEnds \/ StorageFails \/ Evicted
    BY <1>5, BucketEndsInv, StorageFailsInv, EvictedInv
  <1> QED BY <1>1, <1>2, <1>3, <1>4, <1>5 DEF Next, WorkerMoves

LEMMA Invariant == Spec => []IInv
  BY InitInv, StepInv, PTL DEF Spec

(* Every variable keeps its type: nothing but attempts is ever leased,        *)
(* charged or waiting.                                                        *)
THEOREM TypeCorrect == Spec => []TypeOK
  BY Invariant, PTL DEF IInv

(* However timeouts, hand-backs, releases, evictions and late requests        *)
(* interleave: no more than Cap friend questions run, each with its lease.    *)
THEOREM LaneIsBounded == Spec => []FriendsInFlight
  <1>1. IInv => FriendsInFlight
    BY DEF IInv, LeaseInv, FriendsInFlight, FriendAttempt
  <1> QED BY <1>1, Invariant, PTL

(* A friend never has two questions in flight or two waiting places.          *)
THEOREM OneOfEach == Spec => []OnePlaceEach
  <1>1. IInv => OnePlaceEach
    BY DEF IInv, LeaseInv, RoomInv, OnePlaceEach
  <1> QED BY <1>1, Invariant, PTL

(* Checking the count at registration and charging it at the grant is enough: *)
(* no friend is granted more questions in a bucket than the limit.            *)
THEOREM LimitIsKept == Spec => []RateKept
  <1>1. IInv => RateKept
    BY DEF IInv, RateInv, RateKept
  <1> QED BY <1>1, Invariant, PTL

-----------------------------------------------------------------------------
(* The order of arrival.  A friend is granted a slot with an empty waiting    *)
(* room, or by the loop, which passes over nobody who could use the slot.     *)
LEMMA GrantInOrder ==
    ASSUME TypeOK, Next, NEW a \in FriendAttempt, a \in leases', a \notin leases,
           NEW n \in 1..Len(waiters), waiters[n] # a, ~Done(waiters[n]),
           \A m \in 1..n : waiters[m] # a
    PROVE  HasLease(TenantOf[waiters[n]])
  <1>1. Len(waiters) \in Nat /\ waiters # <<>>
    BY DEF TypeOK
  <1>2. CASE WakeScan
    <2>1. PICK k \in 1..Len(waiters) :
            /\ Eligible(waiters[k]) /\ leases' = leases \cup {waiters[k]}
            /\ \A m \in 1..(k - 1) : ~Eligible(waiters[m])
      BY <1>2 DEF WakeScan
    <2>2. waiters[k] = a
      BY <2>1
    <2>3. n \in 1..(k - 1)
      BY <1>1, <2>2
    <2> QED BY <2>1, <2>3 DEF Eligible
  <1>3. ~WakeNone /\ ~WakeGrant /\ ~WakeGaveUp /\ ~WakeHandback
    BY DEF WakeNone, WakeGrant, WakeGaveUp, WakeHandback
  <1>4. ASSUME NEW b \in Attempt, AcquireStep(b)
        PROVE  FALSE
    <2>1. AcquireOwner(b) \/ AcquireGranted(b)
      BY <1>4 DEF AcquireStep, AcquireRefused, AcquireWait, AcquireContinues, AcquireResolved, WaitTimeout
    <2>2. CASE AcquireGranted(b)
      BY <1>1, <2>2 DEF AcquireGranted, GrantAtOnce
    <2>3. CASE AcquireOwner(b)
      BY <2>3, TenantAssumption DEF AcquireOwner, FriendAttempt
    <2> QED BY <2>1, <2>2, <2>3
  <1>5. ASSUME NEW b \in Attempt, WorkerMoves(b) \/ LeaseExpires(b)
        PROVE  FALSE
    BY <1>5 DEF WorkerMoves, WorkerStep, Ask, Acquired, AcquireLost, ModelSettles, Release,
                ReleaseWakes, ReleaseLost, WorkerKilled, LeaseExpires
  <1>6. ~BucketEnds /\ ~StorageFails /\ ~Evicted
    BY DEF BucketEnds, StorageFails, Evicted
  <1> QED BY <1>2, <1>3, <1>4, <1>5, <1>6 DEF Next, WakeStep, WorkerMoves

(* Freed capacity goes to the friends who wait, first come, first served,     *)
(* whoever frees it and whatever fails in between.                            *)
THEOREM ServedInOrder == Spec => ArrivalOrder
  <1> DEFINE Fair == \A a \in FriendAttempt : a \in leases' /\ a \notin leases =>
                \A n \in 1..Len(waiters) :
                    waiters[n] # a /\ ~Done(waiters[n]) /\ (\A m \in 1..n : waiters[m] # a) =>
                        HasLease(TenantOf[waiters[n]])
  <1>1. IInv /\ [Next]_vars => [Fair]_vars
    BY GrantInOrder DEF IInv
  <1> QED BY <1>1, Invariant, PTL DEF Spec, ArrivalOrder

-----------------------------------------------------------------------------
(* Leases of waiters that gave up, and freed slots that nobody saw.           *)

(* Until an eviction or a failure, a lease whose question was neither granted *)
(* nor refused is the one the loop is about to grant or hand back.            *)
HandInv ==
    bound.evicts = 0 /\ bound.fails = 0 =>
        \A a \in leases : outcome[a] \in {"none", "wait_timeout"} => wake.at = a

(* The loop does not run, or has found nobody and will not look again.        *)
Unwoken == wake.pc = "idle" \/ (wake.pc = "picked" /\ wake.at = Nil /\ ~wakeAgain)
Calling == \E a \in Attempt : req[a] = "registered" \/ w[a] = "wake"
Wanted == \E a \in Waiting : Eligible(a)
WakeupInv == expired = {} /\ bound.fails = 0 /\ Unwoken /\ Wanted => Calling

(* Failures and evictions are only ever counted up.                           *)
LEMMA BoundsGrow ==
    ASSUME TypeOK, [Next]_vars
    PROVE  /\ bound'.evicts = 0 => bound.evicts = 0 /\ ~Evicted
           /\ bound'.fails = 0 => bound.fails = 0 /\ ~StorageFails
  <1>0. bound \in Bound /\ bound.evicts \in Nat /\ bound.fails \in Nat
    BY BoundsAssumption DEF TypeOK, Bound
  <1>1. CASE StorageFails
    <2>1. bound' = [bound EXCEPT !.fails = @ + 1]
      BY <1>1 DEF StorageFails
    <2>2. bound'.fails # 0
      BY <1>0, <2>1 DEF Bound
    <2>3. bound'.evicts = bound.evicts
      BY <1>0, <2>1 DEF Bound
    <2>4. bound'.evicts = 0 => ~Evicted
      BY <1>0, <2>1 DEF Evicted, Bound
    <2> QED BY <2>2, <2>3, <2>4
  <1>2. CASE Evicted
    <2>1. bound' = [bound EXCEPT !.evicts = @ + 1]
      BY <1>2 DEF Evicted
    <2>2. bound'.evicts # 0
      BY <1>0, <2>1 DEF Bound
    <2>3. bound'.fails = bound.fails
      BY <1>0, <2>1 DEF Bound
    <2>4. bound'.fails = 0 => ~StorageFails
      BY <1>0, <2>1 DEF StorageFails, Bound
    <2> QED BY <2>2, <2>3, <2>4
  <1>3. CASE ~StorageFails /\ ~Evicted
    <2>1. \/ bound' = bound
          \/ bound' = [bound EXCEPT !.lost = @ + 1]
          \/ bound' = [bound EXCEPT !.kills = @ + 1]
          \/ bound' = [bound EXCEPT !.buckets = @ + 1]
      <3>1. CASE WakeStep \/ UNCHANGED vars
        BY <3>1 DEF WakeStep, WakeScan, WakeNone, WakeGrant, WakeGaveUp, WakeHandback, vars
      <3>2. CASE \E a \in Attempt : AcquireStep(a) \/ LeaseExpires(a)
        BY <3>2 DEF AcquireStep, AcquireOwner, AcquireRefused, AcquireGranted, AcquireWait,
                    AcquireContinues, AcquireResolved, WaitTimeout, AcquireUnchanged, LeaseExpires
      <3>3. CASE \E a \in Attempt : WorkerMoves(a)
        BY <3>3 DEF WorkerMoves, WorkerStep, Ask, Acquired, AcquireLost, ModelSettles, Release,
                    ReleaseWakes, ReleaseLost, WorkerKilled
      <3>4. CASE BucketEnds
        BY <3>4 DEF BucketEnds
      <3> QED BY <1>3, <3>1, <3>2, <3>3, <3>4 DEF Next, WorkerMoves
    <2>2. bound'.evicts = bound.evicts /\ bound'.fails = bound.fails
      <3>1. CASE bound' = bound BY <3>1
      <3>2. CASE bound' = [bound EXCEPT !.lost = @ + 1] BY <1>0, <3>2 DEF Bound
      <3>3. CASE bound' = [bound EXCEPT !.kills = @ + 1] BY <1>0, <3>3 DEF Bound
      <3>4. CASE bound' = [bound EXCEPT !.buckets = @ + 1] BY <1>0, <3>4 DEF Bound
      <3> QED BY <2>1, <3>1, <3>2, <3>3, <3>4
    <2> QED BY <1>3, <2>2
  <1> QED BY <1>1, <1>2, <1>3

LEMMA HandStep == IInv /\ HandInv /\ [Next]_vars => HandInv'
  <1> SUFFICES ASSUME IInv, HandInv, [Next]_vars, bound'.evicts = 0, bound'.fails = 0,
                      NEW a \in leases', outcome'[a] \in {"none", "wait_timeout"}
               PROVE  wake'.at = a
    BY DEF HandInv
  <1>0. /\ bound.evicts = 0 /\ bound.fails = 0 /\ ~Evicted /\ ~StorageFails
        /\ \A b \in leases : outcome[b] \in {"none", "wait_timeout"} => wake.at = b
        /\ TypeOK /\ WakeInv
    BY BoundsGrow DEF IInv, HandInv
  <1>2. CASE WakeScan
    <2>1. wake.at = Nil /\ outcome' = outcome
      BY <1>0, <1>2 DEF WakeScan, WakeInv
    <2>2. a \in leases => FALSE
      BY <1>0, <2>1, TenantAssumption DEF TypeOK
    <2> QED BY <1>2, <2>2 DEF WakeScan
  <1>3. CASE WakeNone
    <2>1. wake.at = Nil /\ UNCHANGED <<leases, outcome>>
      BY <1>3 DEF WakeNone
    <2> QED BY <1>0, <2>1, TenantAssumption DEF TypeOK
  <1>4. CASE WakeGrant
    <2>1. leases' = leases /\ outcome' = [outcome EXCEPT ![wake.at] = "granted"]
          /\ wake.at \in Attempt
      BY <1>0, <1>4 DEF WakeGrant, WakeInv, FriendAttempt
    <2>2. outcome'[wake.at] = "granted" /\ a \in Attempt
      BY <1>0, <2>1 DEF TypeOK
    <2>3. outcome[a] = outcome'[a]
      BY <1>0, <2>1, <2>2 DEF TypeOK
    <2> QED BY <1>0, <2>1, <2>2, <2>3
  <1>5. CASE WakeGaveUp
    <2>1. UNCHANGED <<leases, outcome>> /\ wake'.at = wake.at
      BY <1>0, <1>5 DEF WakeGaveUp, TypeOK
    <2> QED BY <1>0, <2>1
  <1>6. CASE WakeHandback
    BY <1>0, <1>6 DEF WakeHandback
  <1>7. ASSUME NEW b \in Attempt, AcquireStep(b)
        PROVE  wake'.at = a
    <2>1. CASE AcquireOwner(b) \/ AcquireGranted(b)
      <3>1. leases' = leases \cup {b} /\ outcome' = [outcome EXCEPT ![b] = "granted"] /\ wake' = wake
        BY <2>1 DEF AcquireOwner, AcquireGranted, Answer, AcquireUnchanged
      <3>2. a # b /\ a \in leases /\ outcome'[a] = outcome[a]
        BY <1>0, <3>1 DEF TypeOK
      <3> QED BY <1>0, <3>1, <3>2
    <2>2. CASE AcquireRefused(b)
      <3>1. leases' = leases /\ outcome' = [outcome EXCEPT ![b] = "busy"] /\ wake' = wake
        BY <2>2 DEF AcquireRefused, Answer, AcquireUnchanged
      <3>2. a # b /\ a \in leases /\ outcome'[a] = outcome[a]
        BY <1>0, <3>1 DEF TypeOK
      <3> QED BY <1>0, <3>1, <3>2
    <2>3. CASE WaitTimeout(b)
      <3>1. /\ leases' = leases /\ outcome' = [outcome EXCEPT ![b] = "wait_timeout"] /\ wake' = wake
            /\ outcome[b] = "none"
        BY <2>3 DEF WaitTimeout, Answer, AcquireUnchanged, Done
      <3>2. outcome[a] \in {"none", "wait_timeout"} /\ a \in leases
        BY <1>0, <3>1 DEF TypeOK
      <3> QED BY <1>0, <3>1, <3>2
    <2>4. CASE AcquireWait(b) \/ AcquireResolved(b)
      BY <1>0, <2>4 DEF AcquireWait, AcquireResolved, AcquireUnchanged
    <2>5. CASE AcquireContinues(b)
      <3>1. UNCHANGED <<leases, outcome>> /\ wake'.at = wake.at
        BY <1>0, <2>5, CallWakeKeeps DEF AcquireContinues
      <3> QED BY <1>0, <3>1
    <2> QED BY <1>7, <2>1, <2>2, <2>3, <2>4, <2>5 DEF AcquireStep
  <1>8. ASSUME NEW b \in Attempt, WorkerMoves(b) \/ LeaseExpires(b)
        PROVE  wake'.at = a
    <2>1. leases' \subseteq leases /\ outcome' = outcome
      BY <1>8 DEF WorkerMoves, WorkerStep, Ask, Acquired, AcquireLost, ModelSettles, Release,
                  ReleaseWakes, ReleaseLost, WorkerKilled, GateUnchanged, LeaseExpires
    <2>2. wake'.at = wake.at
      <3>1. CASE ReleaseWakes(b)
        BY <1>0, <3>1, CallWakeKeeps DEF ReleaseWakes
      <3>2. CASE wake' = wake
        BY <3>2
      <3> QED BY <1>8, <3>1, <3>2
              DEF WorkerMoves, WorkerStep, Ask, Acquired, AcquireLost, ModelSettles, Release,
                  ReleaseLost, WorkerKilled, LeaseExpires
    <2> QED BY <1>0, <2>1, <2>2
  <1>9. CASE BucketEnds \/ UNCHANGED vars
    BY <1>0, <1>9 DEF BucketEnds, vars
  <1> QED BY <1>0, <1>2, <1>3, <1>4, <1>5, <1>6, <1>7, <1>8, <1>9 DEF Next, WakeStep, WorkerMoves

(* A waiter that gives up while its lease is written never keeps that lease:  *)
(* the loop that wrote it still holds the candidate and hands it back.        *)
THEOREM LeaseHandedBack == Spec => []HandedBack
  <1>1. Init => HandInv
    BY DEF Init, HandInv
  <1>2. IInv /\ HandInv => HandedBack
    <2> SUFFICES ASSUME IInv, HandInv, NEW a \in leases, outcome[a] = "wait_timeout",
                        bound.evicts = 0, bound.fails = 0
                 PROVE  wake.pc \in {"picked", "handback"} /\ wake.at = a
      BY DEF HandedBack
    <2>1. wake.at = a
      BY DEF HandInv
    <2>2. wake.at # Nil /\ wake.pc \in WakePc
      BY <2>1, TenantAssumption DEF IInv, TypeOK
    <2> QED BY <2>1, <2>2 DEF IInv, WakeInv, WakePc
  <1> QED BY <1>1, <1>2, HandStep, Invariant, PTL DEF Spec

(* More leases make nobody eligible who was not.                              *)
LEMMA StillWanted ==
    ASSUME IsFiniteSet(leases'), leases \subseteq leases', Waiting' \subseteq Waiting,
           \A a \in Waiting : outcome[a] = "none", Wanted'
    PROVE  Wanted
  <1>1. PICK a \in Waiting : Eligible(a)'
    BY DEF Wanted
  <1>2. IsFiniteSet(leases) /\ Cardinality(leases) <= Cardinality(leases')
    BY FS_Subset
  <1>3. Cardinality(leases) \in Nat /\ Cardinality(leases') \in Nat
    BY <1>2, FS_CardinalityType
  <1>4. Free /\ ~HasLease(TenantOf[a])
    BY <1>1, <1>2, <1>3, LimitsAssumption DEF Eligible, Free, HasLease
  <1> QED BY <1>1, <1>4 DEF Wanted, Eligible, Done

(* After a call of the loop it runs, will run again, or nobody waits.         *)
LEMMA CalledLoop ==
    ASSUME TypeOK, CallWake(waiters), waiters' = waiters, Unwoken', Wanted'
    PROVE  FALSE
  <1>1. waiters # <<>>
    BY DEF Wanted, Waiting
  <1>2. CASE wake.pc = "idle"
    <2>1. wake' = [pc |-> "scan", at |-> Nil]
      BY <1>1, <1>2 DEF CallWake, LoopFrom
    <2> QED BY <2>1 DEF Unwoken
  <1>3. CASE wake.pc # "idle"
    BY <1>3 DEF CallWake, Unwoken
  <1> QED BY <1>2, <1>3

LEMMA WakeupLoop ==
    ASSUME IInv, WakeStep, Unwoken', Wanted'
    PROVE  Unwoken /\ Wanted /\ UNCHANGED <<req, w>>
  <1>0. waiters' # <<>>
    BY DEF Wanted, Waiting
  <1>1. CASE WakeScan
    <2>1. \A a \in Waiting : a # Nil /\ a \in Attempt
      BY TenantAssumption DEF IInv, RoomInv, FriendAttempt
    <2>2. \A n \in 1..Len(waiters) : waiters[n] \in Waiting
      BY DEF Waiting
    <2>3. (\A a \in Waiting : ~Eligible(a)) /\ UNCHANGED leases
      BY <1>1, <2>1, <2>2 DEF WakeScan, Unwoken
    <2>4. UNCHANGED <<waiters, outcome>>
      BY <1>1 DEF WakeScan
    <2> QED BY <2>3, <2>4 DEF Wanted, Waiting, Eligible, Free, HasLease, Done
  <1>2. CASE WakeNone
    <2>0. wake.pc = "picked" /\ wake.at = Nil /\ UNCHANGED <<leases, waiters, outcome, req, w>>
      BY <1>2 DEF WakeNone
    <2>1. CASE wakeAgain
      <3>1. wake' = [pc |-> "scan", at |-> Nil]
        BY <1>0, <1>2, <2>0, <2>1 DEF WakeNone, LoopFrom
      <3> QED BY <3>1 DEF Unwoken
    <2>2. CASE ~wakeAgain
      BY <2>0, <2>2 DEF Unwoken, Wanted, Waiting, Eligible, Free, HasLease, Done
    <2> QED BY <2>1, <2>2
  <1>3. CASE WakeGrant \/ WakeHandback
    <2>1. NextCandidate(waiters')
      BY <1>3 DEF WakeGrant, WakeHandback
    <2>2. wake' = [pc |-> "scan", at |-> Nil]
      BY <1>0, <2>1 DEF NextCandidate
    <2> QED BY <2>2 DEF Unwoken
  <1>4. CASE WakeGaveUp
    <2>1. wake'.pc = "handback"
      BY <1>4 DEF WakeGaveUp, IInv, TypeOK
    <2> QED BY <2>1 DEF Unwoken
  <1> QED BY <1>1, <1>2, <1>3, <1>4 DEF WakeStep

LEMMA WakeupAcquire ==
    ASSUME IInv, IInv', NEW a \in Attempt, AcquireStep(a), Unwoken', Wanted'
    PROVE  Calling' \/ (Unwoken /\ Wanted /\ (Calling => Calling'))
  <1>0. /\ \A b \in Waiting : b \in Attempt /\ outcome[b] = "none"
        /\ IsFiniteSet(leases') /\ waiters' # <<>>
        /\ req \in [Attempt -> ReqPc] /\ TypeOK
    BY DEF IInv, RoomInv, LeaseInv, FriendAttempt, TypeOK, Wanted, Waiting
  <1>1. CASE AcquireOwner(a) \/ AcquireRefused(a)
    <2>1. /\ leases \subseteq leases' /\ UNCHANGED <<waiters, wake, wakeAgain, w>>
          /\ req[a] = "sent" /\ req' = [req EXCEPT ![a] = "answered"]
      BY <1>1 DEF AcquireOwner, AcquireRefused, AcquireUnchanged, Answer
    <2>2. Waiting' = Waiting /\ Unwoken
      BY <2>1 DEF Waiting, Unwoken
    <2>3. Wanted
      BY <1>0, <2>1, <2>2, StillWanted
    <2>4. Calling => Calling'
      BY <1>0, <2>1 DEF Calling
    <2> QED BY <2>2, <2>3, <2>4
  <1>2. CASE AcquireGranted(a)
    BY <1>0, <1>2 DEF AcquireGranted, GrantAtOnce
  <1>3. CASE AcquireWait(a)
    <2>1. req' = [req EXCEPT ![a] = "registered"]
      BY <1>3 DEF AcquireWait
    <2> QED BY <1>0, <2>1 DEF Calling
  <1>4. CASE AcquireContinues(a)
    BY <1>0, <1>4, CalledLoop DEF AcquireContinues
  <1>5. CASE AcquireResolved(a)
    <2>1. /\ UNCHANGED <<leases, waiters, wake, wakeAgain, w, outcome>>
          /\ req[a] = "waiting" /\ req' = [req EXCEPT ![a] = "answered"]
      BY <1>5 DEF AcquireResolved, AcquireUnchanged
    <2>2. Unwoken /\ Wanted
      BY <2>1 DEF Unwoken, Wanted, Waiting, Eligible, Free, HasLease, Done
    <2>3. Calling => Calling'
      BY <1>0, <2>1 DEF Calling
    <2> QED BY <2>2, <2>3
  <1>6. CASE WaitTimeout(a)
    <2>1. /\ UNCHANGED <<leases, wake, wakeAgain, w>> /\ waiters' = Drop(a)
          /\ req[a] = "waiting" /\ req' = [req EXCEPT ![a] = "answered"]
      BY <1>6 DEF WaitTimeout, AcquireUnchanged, Answer
    <2>2. RoomWithout(Drop(a), a)
      BY DropRoom DEF IInv, TypeOK, RoomInv, OneEach
    <2>3. Waiting' \subseteq Waiting
      BY <2>1, <2>2 DEF RoomWithout, Waiting
    <2>4. Wanted
      BY <1>0, <2>1, <2>3, StillWanted
    <2>5. Calling => Calling'
      BY <1>0, <2>1 DEF Calling
    <2> QED BY <2>1, <2>4, <2>5 DEF Unwoken
  <1> QED BY <1>1, <1>2, <1>3, <1>4, <1>5, <1>6 DEF AcquireStep

LEMMA WakeupWorker ==
    ASSUME IInv, NEW a \in Attempt, WorkerMoves(a), Unwoken', Wanted'
    PROVE  Calling' \/ (Unwoken /\ Wanted /\ (Calling => Calling'))
  <1>0. w \in [Attempt -> WorkerPc] /\ req \in [Attempt -> ReqPc] /\ TypeOK
        /\ UNCHANGED <<waiters, outcome>>
    BY DEF IInv, TypeOK, WorkerMoves, WorkerStep, Ask, Acquired, AcquireLost, ModelSettles, Release,
           ReleaseWakes, ReleaseLost, WorkerKilled, GateUnchanged
  <1>1. CASE Release(a)
    <2>1. w' = [w EXCEPT ![a] = "wake"]
      BY <1>1 DEF Release, WorkerGoes
    <2> QED BY <1>0, <2>1 DEF Calling
  <1>2. CASE ReleaseWakes(a)
    BY <1>0, <1>2, CalledLoop DEF ReleaseWakes
  <1>3. CASE Ask(a) \/ Acquired(a) \/ AcquireLost(a) \/ ModelSettles(a) \/ ReleaseLost(a) \/ WorkerKilled(a)
    <2>1. UNCHANGED <<leases, wake, wakeAgain>> /\ w[a] # "wake"
      BY <1>3 DEF Ask, Acquired, AcquireLost, ModelSettles, ReleaseLost, WorkerKilled
    <2>2. \A b \in Attempt \ {a} : w'[b] = w[b]
      <3>1. \E pc \in {"asked", "model", "done", "release"} : w' = [w EXCEPT ![a] = pc]
        <4>1. CASE Ask(a) BY <4>1 DEF Ask, WorkerGoes
        <4>2. CASE Acquired(a) BY <4>2 DEF Acquired, WorkerGoes
        <4>3. CASE AcquireLost(a) BY <4>3 DEF AcquireLost, WorkerGoes
        <4>4. CASE ModelSettles(a) BY <4>4 DEF ModelSettles, WorkerGoes
        <4>5. CASE ReleaseLost(a) BY <4>5 DEF ReleaseLost, WorkerGoes
        <4>6. CASE WorkerKilled(a) BY <4>6 DEF WorkerKilled, WorkerGoes
        <4> QED BY <1>3, <4>1, <4>2, <4>3, <4>4, <4>5, <4>6
      <3> QED BY <1>0, <3>1
    <2>3. \A b \in Attempt : req[b] = "registered" => req'[b] = "registered"
      <3>1. CASE Ask(a)
        <4>1. w[a] = "idle" /\ req' = [req EXCEPT ![a] = "sent"]
          BY <3>1 DEF Ask
        <4>2. req[a] = "idle"
          BY <4>1 DEF IInv, LeaseInv
        <4> QED BY <1>0, <4>1, <4>2
      <3>2. CASE req' = req
        BY <3>2
      <3> QED BY <1>3, <3>1, <3>2 DEF Acquired, AcquireLost, ModelSettles, ReleaseLost, WorkerKilled
    <2>4. Calling => Calling'
      BY <2>1, <2>2, <2>3 DEF Calling
    <2>5. Unwoken /\ Wanted
      BY <1>0, <2>1 DEF Unwoken, Wanted, Waiting, Eligible, Free, HasLease, Done
    <2> QED BY <2>4, <2>5
  <1> QED BY <1>1, <1>2, <1>3 DEF WorkerMoves, WorkerStep

LEMMA WakeupStep == IInv /\ IInv' /\ WakeupInv /\ [Next]_vars => WakeupInv'
  <1> SUFFICES ASSUME IInv, IInv', WakeupInv, [Next]_vars,
                      expired' = {}, bound'.fails = 0, Unwoken', Wanted'
               PROVE  Calling'
    BY DEF WakeupInv
  <1>0. bound.fails = 0 /\ ~StorageFails
    BY BoundsGrow DEF IInv
  <1>1. ASSUME expired = {}, Unwoken, Wanted, Calling => Calling'
        PROVE  Calling'
    BY <1>0, <1>1 DEF WakeupInv
  <1>2. CASE WakeStep
    <2>1. expired' = expired
      BY <1>2 DEF WakeStep, WakeScan, WakeNone, WakeGrant, WakeGaveUp, WakeHandback
    <2>2. Unwoken /\ Wanted /\ UNCHANGED <<req, w>>
      BY <1>2, WakeupLoop
    <2> QED BY <1>1, <2>1, <2>2 DEF Calling
  <1>3. ASSUME NEW a \in Attempt, AcquireStep(a)
        PROVE  Calling'
    <2>1. expired' = expired
      BY <1>3 DEF AcquireStep, AcquireOwner, AcquireRefused, AcquireGranted, AcquireWait,
                  AcquireContinues, AcquireResolved, WaitTimeout, AcquireUnchanged
    <2> QED BY <1>1, <1>3, <2>1, WakeupAcquire
  <1>4. ASSUME NEW a \in Attempt, WorkerMoves(a)
        PROVE  Calling'
    <2>1. expired' = expired
      BY <1>4 DEF WorkerMoves, WorkerStep, Ask, Acquired, AcquireLost, ModelSettles, Release,
                  ReleaseWakes, ReleaseLost, WorkerKilled, GateUnchanged
    <2> QED BY <1>1, <1>4, <2>1, WakeupWorker
  <1>5. \A a \in Attempt : ~LeaseExpires(a)
    BY DEF LeaseExpires
  <1>6. CASE BucketEnds \/ UNCHANGED vars
    <2>1. UNCHANGED <<leases, waiters, wake, wakeAgain, req, outcome, w, expired>>
      BY <1>6 DEF BucketEnds, vars
    <2>2. Unwoken /\ Wanted /\ (Calling => Calling')
      BY <2>1 DEF Unwoken, Wanted, Waiting, Eligible, Free, HasLease, Done, Calling
    <2> QED BY <1>1, <2>1, <2>2
  <1>7. CASE Evicted
    BY <1>7 DEF Evicted, Wanted, Waiting
  <1> QED BY <1>0, <1>2, <1>3, <1>4, <1>5, <1>6, <1>7 DEF Next, WorkerMoves

(* No freed slot is overlooked: while a friend who could use one waits, the   *)
(* loop runs or someone is about to call it, unless a lease has expired or a  *)
(* transaction failed.                                                        *)
THEOREM WakeupIsNotLost == Spec => []NoLostWakeup
  <1>1. Init => WakeupInv
    BY DEF Init, WakeupInv, Wanted, Waiting
  <1>2. IInv /\ WakeupInv => NoLostWakeup
    BY DEF WakeupInv, NoLostWakeup, Unwoken, Wanted, Calling
  <1> QED BY <1>1, <1>2, WakeupStep, Invariant, PTL DEF Spec
=============================================================================
