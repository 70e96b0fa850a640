---------------------------- MODULE FriendQaGate ----------------------------
(***************************************************************************)
(* The local-model lane for LINE friends: the Durable Object               *)
(* V213FriendQaGate (cloud/src/v213/friend-qa-gate.ts) and the Workers     *)
(* that acquire and release it (friendGeneralAnswer and the owner path of  *)
(* cloud/src/v211/worker.ts).                                              *)
(*                                                                         *)
(* One attempt is one question.  A storage transaction of the object is    *)
(* one step; between two of them its other requests and timers run, so     *)
(* what follows an await is a step of its own.  The waiting room and the   *)
(* wake loop live in memory and are lost when the object is evicted; the   *)
(* lane and the counters are stored.  The minute and the day counter have  *)
(* the same code: one counter per friend, emptied when its bucket ends.    *)
(***************************************************************************)
EXTENDS Naturals, Sequences, FiniteSets

CONSTANTS
    Attempt,        \* questions that reach the model lane
    Friend,         \* friends; every other tenant is the owner
    Owner,
    TenantOf,       \* [Attempt -> Friend \cup {Owner}]
    Cap,            \* globalInFlight
    QueueMax,       \* queueMax
    PerBucket,      \* FRIEND_MODEL_PER_MINUTE, FRIEND_MODEL_PER_DAY
    Nil,
    MaxLost,        \* bound: gate calls whose answer the Worker does not get
    MaxFails,       \* bound: storage transactions of the object that fail
    MaxKills,       \* bound: killed Workers
    MaxEvicts,      \* bound: evictions of the object
    MaxBuckets      \* bound: ends of a counter bucket

ASSUME LimitsAssumption == Cap \in Nat \ {0} /\ QueueMax \in Nat /\ PerBucket \in Nat
ASSUME TenantAssumption ==
    TenantOf \in [Attempt -> Friend \cup {Owner}] /\ Owner \notin Friend /\ Nil \notin Attempt
ASSUME BoundsAssumption ==
    /\ MaxLost \in Nat /\ MaxFails \in Nat /\ MaxKills \in Nat
    /\ MaxEvicts \in Nat /\ MaxBuckets \in Nat

VARIABLES
    leases,     \* "lane": attempts that hold a lease
    count,      \* "qm:", "qd:": grants charged to each friend in this bucket
    waiters,    \* the waiting room, in arrival order
    wake,       \* the wake loop and its candidate
    wakeAgain,
    req,        \* the acquire request of each attempt inside the object
    outcome,    \* what that request resolved to: a waiter is done when it has one
    w,          \* the Worker of each attempt
    bound,      \* lost answers, failures, kills, evictions and buckets so far
    charged,    \* history: attempts a grant was charged for
    expired     \* history: leases that expired

vars == <<leases, count, waiters, wake, wakeAgain, req, outcome, w, bound, charged, expired>>

WakePc == {"idle", "scan", "picked", "handback"}
ReqPc == {"idle", "sent", "registered", "waiting", "answered"}
Outcome == {"none", "granted", "busy", "wait_timeout"}
WorkerPc == {"idle", "asked", "model", "release", "wake", "done"}

Init ==
    /\ leases = {} /\ count = [t \in Friend |-> 0]
    /\ waiters = <<>> /\ wake = [pc |-> "idle", at |-> Nil] /\ wakeAgain = FALSE
    /\ req = [a \in Attempt |-> "idle"]
    /\ outcome = [a \in Attempt |-> "none"]
    /\ w = [a \in Attempt |-> "idle"]
    /\ bound = [lost |-> 0, fails |-> 0, kills |-> 0, evicts |-> 0, buckets |-> 0]
    /\ charged = {} /\ expired = {}

FriendAttempt == {a \in Attempt : TenantOf[a] \in Friend}
Done(a) == outcome[a] # "none"
Waiting == {waiters[n] : n \in 1..Len(waiters)}
HasLease(t) == \E a \in leases : TenantOf[a] = t
Free == Cardinality(leases) < Cap

(* The waiting room without a, whose place in it is unique.                   *)
RemovePlace(n) ==
    [m \in 1..(Len(waiters) - 1) |-> IF m < n THEN waiters[m] ELSE waiters[m + 1]]
Drop(a) ==
    IF a \in Waiting
    THEN RemovePlace(CHOOSE n \in 1..Len(waiters) : waiters[n] = a)
    ELSE waiters

ChargeTo(a) ==
    /\ count' = [count EXCEPT ![TenantOf[a]] = @ + 1]
    /\ charged' = charged \cup {a}

-----------------------------------------------------------------------------
(* The wake loop.  A call while it runs only asks it to go round again; the   *)
(* loop ends when the waiting room is empty, or when it finds no candidate.   *)

LoopFrom(room) ==
    /\ wake' = [pc |-> IF room = <<>> THEN "idle" ELSE "scan", at |-> Nil]
    /\ wakeAgain' = FALSE

(* Mutant: the call is dropped while the loop runs. *)
CallWakeDropped(room) ==
    IF wake.pc = "idle" THEN LoopFrom(room) ELSE UNCHANGED <<wake, wakeAgain>>
CallWake(room) ==
    IF wake.pc = "idle" THEN LoopFrom(room)
                        ELSE wakeAgain' = TRUE /\ UNCHANGED wake

(* After a candidate: the next one; the loop ends with the last waiter.       *)
NextCandidate(room) ==
    IF room = <<>> THEN LoopFrom(room)
                   ELSE wake' = [pc |-> "scan", at |-> Nil] /\ UNCHANGED wakeAgain

(* Mutant: the cap is not looked at. *)
EligibleOverCap(a) == ~Done(a) /\ ~HasLease(TenantOf[a])
Eligible(a) == ~Done(a) /\ Free /\ ~HasLease(TenantOf[a])

(* Mutant: the lease is written also when there is no candidate. *)
WakeScanUnchecked ==
    /\ wake.pc = "scan"
    /\ \A a \in Waiting : ~Eligible(a)
    /\ wake' = [pc |-> "picked", at |-> Nil]
    /\ leases' = leases \cup {Nil}
    /\ UNCHANGED <<count, waiters, wakeAgain, req, outcome, w, bound, charged, expired>>

WakeScan ==
    /\ wake.pc = "scan"
    /\ \/ \E n \in 1..Len(waiters) :
             /\ Eligible(waiters[n])
             /\ \A m \in 1..(n - 1) : ~Eligible(waiters[m])
             /\ wake' = [pc |-> "picked", at |-> waiters[n]]
             /\ leases' = leases \cup {waiters[n]}
             /\ ChargeTo(waiters[n])
       \/ /\ \A a \in Waiting : ~Eligible(a)
          /\ wake' = [pc |-> "picked", at |-> Nil]
          /\ UNCHANGED <<leases, count, charged>>
    /\ UNCHANGED <<waiters, wakeAgain, req, outcome, w, bound, expired>>

WakeNone ==
    /\ wake.pc = "picked" /\ wake.at = Nil
    /\ IF wakeAgain THEN LoopFrom(waiters)
                    ELSE wake' = [pc |-> "idle", at |-> Nil] /\ UNCHANGED wakeAgain
    /\ UNCHANGED <<leases, count, waiters, req, outcome, w, bound, charged, expired>>

WakeGrant ==
    /\ wake.pc = "picked" /\ wake.at # Nil /\ ~Done(wake.at)
    /\ waiters' = Drop(wake.at)
    /\ outcome' = [outcome EXCEPT ![wake.at] = "granted"]
    /\ NextCandidate(waiters')
    /\ UNCHANGED <<leases, count, req, w, bound, charged, expired>>

(* The waiter gave up while its lease was being written.                      *)
WakeGaveUp ==
    /\ wake.pc = "picked" /\ wake.at # Nil /\ Done(wake.at)
    /\ waiters' = Drop(wake.at)
    /\ wake' = [wake EXCEPT !.pc = "handback"]
    /\ UNCHANGED <<leases, count, wakeAgain, req, outcome, w, bound, charged, expired>>

(* Mutant: a waiter that gave up is skipped and its lease is left. *)
WakeKeepsLease ==
    /\ wake.pc = "handback"
    /\ NextCandidate(waiters)
    /\ UNCHANGED <<leases, count, waiters, req, outcome, w, bound, charged, expired>>
WakeHandback ==
    /\ wake.pc = "handback"
    /\ leases' = leases \ {wake.at}
    /\ NextCandidate(waiters)
    /\ UNCHANGED <<count, waiters, req, outcome, w, bound, charged, expired>>

WakeStep == WakeScan \/ WakeNone \/ WakeGrant \/ WakeGaveUp \/ WakeHandback

-----------------------------------------------------------------------------
(* acquire: the transaction, its continuation, the timer. *)

AcquireUnchanged == UNCHANGED <<wake, wakeAgain, w, bound, expired>>

Answer(a, result) ==
    /\ req' = [req EXCEPT ![a] = "answered"]
    /\ outcome' = [outcome EXCEPT ![a] = result]

AcquireOwner(a) ==
    /\ req[a] = "sent" /\ TenantOf[a] = Owner
    /\ leases' = leases \cup {a}
    /\ Answer(a, "granted")
    /\ UNCHANGED <<count, waiters, charged>> /\ AcquireUnchanged

(* Mutant: a second waiting place of the same friend is not refused. *)
RefusedByRate(a) == count[TenantOf[a]] >= PerBucket
Refused(a) == \/ count[TenantOf[a]] >= PerBucket
              \/ \E b \in Waiting : TenantOf[b] = TenantOf[a]

(* Mutant: a free slot goes to the newcomer although others wait. *)
GrantOvertakes(a) == Free /\ ~HasLease(TenantOf[a])
(* Mutant: the friend's own lease is not looked at. *)
GrantBesideOwn(a) == Free /\ waiters = <<>>
GrantAtOnce(a) == Free /\ ~HasLease(TenantOf[a]) /\ waiters = <<>>

RoomFull == Len(waiters) >= QueueMax

AcquireRefused(a) ==
    /\ req[a] = "sent" /\ TenantOf[a] \in Friend
    /\ Refused(a) \/ (~GrantAtOnce(a) /\ RoomFull)
    /\ Answer(a, "busy")
    /\ UNCHANGED <<leases, count, waiters, charged>> /\ AcquireUnchanged

AcquireGranted(a) ==
    /\ req[a] = "sent" /\ TenantOf[a] \in Friend
    /\ ~Refused(a) /\ GrantAtOnce(a)
    /\ leases' = leases \cup {a}
    /\ ChargeTo(a)
    /\ Answer(a, "granted")
    /\ UNCHANGED waiters /\ AcquireUnchanged

AcquireWait(a) ==
    /\ req[a] = "sent" /\ TenantOf[a] \in Friend
    /\ ~Refused(a) /\ ~GrantAtOnce(a) /\ ~RoomFull
    /\ waiters' = Append(waiters, a)
    /\ req' = [req EXCEPT ![a] = "registered"]
    /\ UNCHANGED <<leases, count, charged, outcome>> /\ AcquireUnchanged

(* The timer is set, or cleared at once for a waiter that is done already.    *)
AcquireContinues(a) ==
    /\ req[a] = "registered"
    /\ req' = [req EXCEPT ![a] = IF Done(a) THEN "answered" ELSE "waiting"]
    /\ CallWake(waiters)
    /\ UNCHANGED <<leases, count, waiters, outcome, w, bound, charged, expired>>

AcquireResolved(a) ==
    /\ req[a] = "waiting" /\ Done(a)
    /\ req' = [req EXCEPT ![a] = "answered"]
    /\ UNCHANGED <<leases, count, waiters, outcome, charged>> /\ AcquireUnchanged

(* Mutant: the waiter is dropped but its request is not answered. *)
WaitTimeoutDropsOnly(a) ==
    /\ req[a] = "waiting" /\ ~Done(a)
    /\ waiters' = Drop(a)
    /\ UNCHANGED <<leases, count, charged, req, outcome>> /\ AcquireUnchanged
WaitTimeout(a) ==
    /\ req[a] = "waiting" /\ ~Done(a)
    /\ waiters' = Drop(a)
    /\ Answer(a, "wait_timeout")
    /\ UNCHANGED <<leases, count, charged>> /\ AcquireUnchanged

AcquireStep(a) == \/ AcquireOwner(a) \/ AcquireRefused(a) \/ AcquireGranted(a)
                  \/ AcquireWait(a) \/ AcquireContinues(a) \/ AcquireResolved(a)
                  \/ WaitTimeout(a)

-----------------------------------------------------------------------------
(* The Worker of one question. *)

WorkerGoes(a, pc) == w' = [w EXCEPT ![a] = pc]
GateUnchanged == UNCHANGED <<count, waiters, outcome, charged, expired>>

Ask(a) ==
    /\ w[a] = "idle"
    /\ WorkerGoes(a, "asked")
    /\ req' = [req EXCEPT ![a] = "sent"]
    /\ UNCHANGED <<leases, wake, wakeAgain, bound>> /\ GateUnchanged

(* A friend goes on when granted, the owner whatever the gate says.           *)
Acquired(a) ==
    /\ w[a] = "asked" /\ req[a] = "answered"
    /\ WorkerGoes(a, IF outcome[a] = "granted" \/ TenantOf[a] = Owner THEN "model" ELSE "done")
    /\ UNCHANGED <<leases, wake, wakeAgain, req, bound>> /\ GateUnchanged

(* The answer does not come in time: unavailable.  The request may still run. *)
AcquireLost(a) ==
    /\ bound.lost < MaxLost /\ bound' = [bound EXCEPT !.lost = @ + 1]
    /\ w[a] = "asked"
    /\ WorkerGoes(a, IF TenantOf[a] = Owner THEN "model" ELSE "done")
    /\ UNCHANGED <<leases, wake, wakeAgain, req>> /\ GateUnchanged

(* The answer settles, however it settles, and the slot is released.          *)
ModelSettles(a) ==
    /\ w[a] = "model"
    /\ WorkerGoes(a, "release")
    /\ UNCHANGED <<leases, wake, wakeAgain, req, bound>> /\ GateUnchanged

Release(a) ==
    /\ w[a] = "release"
    /\ leases' = leases \ {a}
    /\ WorkerGoes(a, "wake")
    /\ UNCHANGED <<wake, wakeAgain, req, bound>> /\ GateUnchanged

ReleaseWakes(a) ==
    /\ w[a] = "wake"
    /\ CallWake(waiters)
    /\ WorkerGoes(a, "done")
    /\ UNCHANGED <<leases, req, bound>> /\ GateUnchanged

ReleaseLost(a) ==
    /\ bound.lost < MaxLost /\ bound' = [bound EXCEPT !.lost = @ + 1]
    /\ w[a] = "release"
    /\ WorkerGoes(a, "done")
    /\ UNCHANGED <<leases, wake, wakeAgain, req>> /\ GateUnchanged

WorkerKilled(a) ==
    /\ bound.kills < MaxKills /\ bound' = [bound EXCEPT !.kills = @ + 1]
    /\ w[a] \in {"asked", "model", "release"}
    /\ WorkerGoes(a, "done")
    /\ UNCHANGED <<leases, wake, wakeAgain, req>> /\ GateUnchanged

WorkerStep(a) == Acquired(a) \/ ModelSettles(a) \/ Release(a) \/ ReleaseWakes(a)

-----------------------------------------------------------------------------
(* Time and eviction. *)

(* A lease (40 s) outlives the call it was granted for (28 s), its release    *)
(* and every step of the object: it only expires when nothing uses it.        *)
LeaseExpires(a) ==
    /\ a \in leases /\ w[a] = "done" /\ wake.at # a
    /\ leases' = leases \ {a}
    /\ expired' = expired \cup {a}
    /\ UNCHANGED <<count, waiters, wake, wakeAgain, req, outcome, w, bound, charged>>

BucketEnds ==
    /\ bound.buckets < MaxBuckets /\ bound' = [bound EXCEPT !.buckets = @ + 1]
    /\ count' = [t \in Friend |-> 0]
    /\ UNCHANGED <<leases, waiters, wake, wakeAgain, req, outcome, w, charged, expired>>

(* A transaction of the object fails: the loop takes it for no candidate, or  *)
(* breaks off with the lease it should hand back; a request is refused.  The  *)
(* release that fails is ReleaseLost.                                         *)
StorageFails ==
    /\ bound.fails < MaxFails /\ bound' = [bound EXCEPT !.fails = @ + 1]
    /\ \/ /\ wake.pc = "scan" /\ wake' = [pc |-> "picked", at |-> Nil]
          /\ UNCHANGED <<req, outcome>>
       \/ /\ wake.pc = "handback" /\ wake' = [pc |-> "idle", at |-> Nil]
          /\ UNCHANGED <<req, outcome>>
       \/ \E a \in Attempt : req[a] = "sent" /\ Answer(a, "busy") /\ UNCHANGED wake
    /\ UNCHANGED <<leases, count, waiters, wakeAgain, w, charged, expired>>

(* Requests that wait inside the object fail, and their Workers see           *)
(* "unavailable"; one that was not started may also reach the next instance.  *)
Evicted ==
    /\ bound.evicts < MaxEvicts /\ bound' = [bound EXCEPT !.evicts = @ + 1]
    /\ waiters' = <<>> /\ wake' = [pc |-> "idle", at |-> Nil] /\ wakeAgain' = FALSE
    /\ \E unstarted \in SUBSET {a \in Attempt : req[a] = "sent"} :
         LET failed == {a \in Attempt : req[a] \in {"sent", "registered", "waiting"}} \ unstarted IN
         /\ req' = [a \in Attempt |-> IF a \in failed THEN "answered" ELSE req[a]]
         /\ outcome' = [a \in Attempt |->
              IF a \in failed /\ ~Done(a) THEN "busy" ELSE outcome[a]]
    /\ w' = [a \in Attempt |-> IF w[a] = "wake" THEN "done" ELSE w[a]]
    /\ UNCHANGED <<leases, count, charged, expired>>

Next ==
    \/ WakeStep
    \/ \E a \in Attempt : \/ AcquireStep(a) \/ WorkerStep(a)
                          \/ Ask(a) \/ AcquireLost(a) \/ ReleaseLost(a) \/ WorkerKilled(a)
                          \/ LeaseExpires(a)
    \/ BucketEnds \/ StorageFails \/ Evicted

Spec == Init /\ [][Next]_vars

(* The object and the Workers go on, timers fire, leases expire.              *)
Fairness ==
    /\ WF_vars(WakeStep)
    /\ \A a \in Attempt : /\ WF_vars(AcquireStep(a)) /\ WF_vars(WorkerStep(a))
                          /\ WF_vars(LeaseExpires(a))
FairSpec == Spec /\ Fairness

-----------------------------------------------------------------------------
TypeOK ==
    /\ leases \subseteq Attempt
    /\ count \in [Friend -> Nat]
    /\ waiters \in Seq(Attempt)
    /\ wake \in [pc : WakePc, at : Attempt \cup {Nil}] /\ wakeAgain \in BOOLEAN
    /\ req \in [Attempt -> ReqPc]
    /\ outcome \in [Attempt -> Outcome]
    /\ w \in [Attempt -> WorkerPc]
    /\ bound \in [lost : 0..MaxLost, fails : 0..MaxFails, kills : 0..MaxKills,
                  evicts : 0..MaxEvicts, buckets : 0..MaxBuckets]
    /\ charged \subseteq Attempt /\ expired \subseteq Attempt

(* The local model never runs more friend questions than the configured cap,  *)
(* and every one that runs is covered by a lease of its own that no timeout,  *)
(* hand-back, release or expiry of another attempt has taken away.            *)
FriendsInFlight ==
    /\ \A a \in FriendAttempt : w[a] = "model" => a \in leases
    /\ Cardinality(leases \cap FriendAttempt) <= Cap

(* One in flight and one waiting per friend, and no more waiting than places, *)
(* however the timeouts interleave with the grants.                           *)
OnePlaceEach ==
    /\ \A a, b \in leases \cap FriendAttempt : TenantOf[a] = TenantOf[b] => a = b
    /\ \A m, n \in 1..Len(waiters) : TenantOf[waiters[m]] = TenantOf[waiters[n]] => m = n
    /\ Len(waiters) <= QueueMax

(* The counts are checked when a question registers and charged when it is    *)
(* granted: a friend is still never granted more than the limit per bucket.   *)
RateKept == \A t \in Friend : count[t] <= PerBucket

(* A freed slot is never left idle while a friend who could use it waits:     *)
(* whoever freed it, or registered, has woken the loop or is about to.  An    *)
(* expiring lease and a failed transaction wake nobody (the waiter may then   *)
(* time out).                                                                 *)
NoLostWakeup ==
    (\E a \in Waiting : Eligible(a)) /\ expired = {} /\ bound.fails = 0 =>
        \/ wake.pc # "idle"
        \/ \E a \in Attempt : req[a] = "registered" \/ w[a] = "wake"

(* Freed capacity goes to waiting friends in arrival order: a question is     *)
(* granted only when every friend who registered before it has an own         *)
(* question in flight or has given up.                                        *)
ArrivalOrder ==
    [][\A a \in FriendAttempt : a \in leases' /\ a \notin leases =>
         \A n \in 1..Len(waiters) :
            waiters[n] # a /\ ~Done(waiters[n]) /\ (\A m \in 1..n : waiters[m] # a) =>
                HasLease(TenantOf[waiters[n]])]_vars

(* A lease that was written for a waiter that gave up is handed straight      *)
(* back by the loop that wrote it; only an eviction or a failed transaction   *)
(* leaves one to expire.                                                      *)
HandedBack == \A a \in leases :
    outcome[a] = "wait_timeout" /\ bound.evicts = 0 /\ bound.fails = 0 =>
        wake.pc \in {"picked", "handback"} /\ wake.at = a

(* Every question is decided, and every lease ends, also those of Workers     *)
(* that died and of answers that were lost.                                   *)
Decided == \A a \in Attempt :
    /\ (w[a] = "asked") ~> (w[a] # "asked")
    /\ (a \in leases) ~> (a \notin leases)

=============================================================================
