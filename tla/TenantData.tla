----------------------------- MODULE TenantData -----------------------------
(***************************************************************************)
(* One tenant's private data: conversation memory and slow-job records in  *)
(* TENANT_PRIVATE_CACHE, and the deletion epoch that is part of every key  *)
(* (cloud/src/storage.ts), used by                                         *)
(*                                                                         *)
(*   a question   two concurrent flows of one LINE event: the answer       *)
(*                (generalAnswer: history, model, saved conversation) and  *)
(*                the reply (quick answer, or a parked job that is         *)
(*                completed later in waitUntil);                           *)
(*   a command    memory on, memory off, clear, delete-my-data.            *)
(*                                                                         *)
(* Events of one tenant run concurrently and KV has no transactions: each  *)
(* KV call is one step.  Keys carry the tenant id, so tenants share        *)
(* nothing and one tenant is modelled.  A conversation is the set of the   *)
(* questions whose turns it holds.                                         *)
(***************************************************************************)
EXTENDS Naturals, FiniteSets

CONSTANTS
    Question,       \* general questions of this tenant
    Command,        \* data commands of this tenant
    MaxEpoch,       \* bound: deletions
    MaxFaults,      \* bound: failed calls
    MaxKills        \* bound: killed Workers

ASSUME MaxEpochAssumption == MaxEpoch \in Nat
ASSUME FaultsAssumption == MaxFaults \in Nat /\ MaxKills \in Nat

VARIABLES
    marker,     \* EPHEMERAL_SECURITY_CACHE "tenant-delete-epoch": "0" when absent
    rotations,  \* random epochs drawn so far
    flag,       \* "memory:enabled", by epoch
    conv,       \* "conversation", by epoch
    job,        \* "job:<reference>", by epoch and question
    ans,        \* the answer flow of each question
    rep,        \* the reply flow of each question
    cmd,        \* data commands
    faults,     \* failed calls so far
    kills,      \* killed Workers so far
    erased,     \* history: questions begun before some deletion rotated the epoch
    left,       \* history: epochs a deletion rotated away from
    told        \* history: questions told "cancelled, nothing private was kept"

kv == <<marker, rotations, flag, conv, job>>
history == <<erased, left, told>>
vars == <<marker, rotations, flag, conv, job, ans, rep, cmd, faults, kills,
          erased, left, told>>

Epoch == 0..MaxEpoch
Absent == "absent"
Status == {"pending", "complete", "error"}
Kind == {"enable", "disable", "clear", "delete"}
Key == {<<"flag", e>> : e \in Epoch} \cup {<<"conv", e>> : e \in Epoch}
       \cup {<<"job", e, q>> : e \in Epoch, q \in Question}

AnswerPc == {"idle", "epoch", "flag", "read", "model", "memEpoch", "memFlag",
             "saveEpoch", "saveCheck", "saveFlag", "put", "recheck", "delete",
             "answered", "failed"}
ReplyPc == {"idle", "wait", "check", "put", "recheck", "delete", "tell", "parked", "done"}
CommandPc == {"idle", "epoch", "flag", "conv", "rotate", "list", "delete", "done"}

Answer == [pc: AnswerPc, e: Epoch, seen: SUBSET Question]
Reply == [pc: ReplyPc, epoch: Epoch, status: Status]
Control == [pc: CommandPc, kind: Kind, e: Epoch, todo: SUBSET Key]

Init ==
    /\ marker = 0 /\ rotations = 0
    /\ flag = [e \in Epoch |-> FALSE]
    /\ conv = [e \in Epoch |-> {}]
    /\ job = [e \in Epoch |-> [q \in Question |-> Absent]]
    /\ ans = [q \in Question |-> [pc |-> "idle", e |-> 0, seen |-> {}]]
    /\ rep = [q \in Question |-> [pc |-> "idle", epoch |-> 0, status |-> "pending"]]
    /\ cmd = [k \in Command |-> [pc |-> "idle", kind |-> "clear", e |-> 0, todo |-> {}]]
    /\ faults = 0 /\ kills = 0
    /\ erased = {} /\ left = {} /\ told = {}

-----------------------------------------------------------------------------
(* The answer flow: generalAnswer, conversation, saveConversation. *)

AnswerUnchanged == UNCHANGED <<marker, rotations, flag, job, rep, cmd, faults, kills, history>>
AnswerGoes(q, pc) == ans' = [ans EXCEPT ![q].pc = pc]

(* Disabled, too long, a private disclosure, or stale public data. *)
AnswerEarly(q) ==
    /\ ans[q].pc = "epoch"
    /\ AnswerGoes(q, "answered")
    /\ UNCHANGED conv /\ AnswerUnchanged

AnswerHistoryEpoch(q) ==
    /\ ans[q].pc = "epoch"
    /\ ans' = [ans EXCEPT ![q].pc = "flag", ![q].e = marker]
    /\ UNCHANGED conv /\ AnswerUnchanged

AnswerHistoryFlag(q) ==
    /\ ans[q].pc = "flag"
    /\ AnswerGoes(q, IF flag[ans[q].e] THEN "read" ELSE "model")
    /\ UNCHANGED conv /\ AnswerUnchanged

AnswerHistory(q) ==
    /\ ans[q].pc = "read"
    /\ ans' = [ans EXCEPT ![q].pc = "model", ![q].seen = conv[ans[q].e]]
    /\ UNCHANGED conv /\ AnswerUnchanged

(* The local model answers, or is offline and nothing is saved. *)
AnswerModel(q) ==
    /\ ans[q].pc = "model"
    /\ \E pc \in {"memEpoch", "answered"} : AnswerGoes(q, pc)
    /\ UNCHANGED conv /\ AnswerUnchanged

AnswerMemoryEpoch(q) ==
    /\ ans[q].pc = "memEpoch"
    /\ ans' = [ans EXCEPT ![q].pc = "memFlag", ![q].e = marker]
    /\ UNCHANGED conv /\ AnswerUnchanged

AnswerMemoryFlag(q) ==
    /\ ans[q].pc = "memFlag"
    /\ AnswerGoes(q, IF flag[ans[q].e] THEN "saveEpoch" ELSE "answered")
    /\ UNCHANGED conv /\ AnswerUnchanged

(* saveConversation is called without an expected epoch: it reads one now.    *)
SaveEpoch(q) ==
    /\ ans[q].pc = "saveEpoch"
    /\ ans' = [ans EXCEPT ![q].pc = "saveCheck", ![q].e = marker]
    /\ UNCHANGED conv /\ AnswerUnchanged

SaveCheck(q) ==
    /\ ans[q].pc = "saveCheck"
    /\ AnswerGoes(q, IF marker = ans[q].e THEN "saveFlag" ELSE "answered")
    /\ UNCHANGED conv /\ AnswerUnchanged

SaveFlag(q) ==
    /\ ans[q].pc = "saveFlag"
    /\ AnswerGoes(q, IF flag[ans[q].e] THEN "put" ELSE "answered")
    /\ UNCHANGED conv /\ AnswerUnchanged

SavePut(q) ==
    /\ ans[q].pc = "put"
    /\ conv' = [conv EXCEPT ![ans[q].e] = ans[q].seen \cup {q}]
    /\ AnswerGoes(q, "recheck")
    /\ AnswerUnchanged

(* Mutant: the check after the write is missing. *)
SaveNoRecheck(q) ==
    /\ ans[q].pc = "recheck"
    /\ AnswerGoes(q, "answered")
    /\ UNCHANGED conv /\ AnswerUnchanged

SaveRecheck(q) ==
    /\ ans[q].pc = "recheck"
    /\ AnswerGoes(q, IF marker = ans[q].e THEN "answered" ELSE "delete")
    /\ UNCHANGED conv /\ AnswerUnchanged

SaveDelete(q) ==
    /\ ans[q].pc = "delete"
    /\ conv' = [conv EXCEPT ![ans[q].e] = {}]
    /\ AnswerGoes(q, "answered")
    /\ AnswerUnchanged

AnswerStep(q) ==
    \/ AnswerEarly(q) \/ AnswerHistoryEpoch(q) \/ AnswerHistoryFlag(q)
    \/ AnswerHistory(q) \/ AnswerModel(q) \/ AnswerMemoryEpoch(q)
    \/ AnswerMemoryFlag(q) \/ SaveEpoch(q) \/ SaveCheck(q) \/ SaveFlag(q)
    \/ SavePut(q) \/ SaveRecheck(q) \/ SaveDelete(q)

-----------------------------------------------------------------------------
(* The reply flow: processAuthorizedLineEvent around putJob. *)

ReplyUnchanged == UNCHANGED <<marker, rotations, flag, conv, cmd, faults, kills,
                              erased, left>>
ReplyGoes(q, pc) == rep' = [rep EXCEPT ![q].pc = pc]

(* The epoch is captured before the model operation starts. *)
Ask(q) ==
    /\ rep[q].pc = "idle"
    /\ rep' = [rep EXCEPT ![q].pc = "wait", ![q].epoch = marker]
    /\ AnswerGoes(q, "epoch")
    /\ UNCHANGED <<job, told>> /\ ReplyUnchanged

(* The answer, or its failure, arrives within seven seconds. *)
ReplyQuick(q) ==
    /\ rep[q].pc = "wait" /\ ans[q].pc \in {"answered", "failed"}
    /\ ReplyGoes(q, "done")
    /\ UNCHANGED <<job, told, ans>> /\ ReplyUnchanged

(* Mutant: the epoch is captured only when the question is parked. *)
ParkNow(q) ==
    /\ rep[q].pc = "wait"
    /\ \E pc \in {"check", "done"} :
          rep' = [rep EXCEPT ![q].pc = pc, ![q].status = "pending", ![q].epoch = marker]
    /\ UNCHANGED <<job, told, ans>> /\ ReplyUnchanged

(* It does not: the question is parked, unless the day's job writes are used up. *)
Park(q) ==
    /\ rep[q].pc = "wait"
    /\ \E pc \in {"check", "done"} :
          rep' = [rep EXCEPT ![q].pc = pc, ![q].status = "pending"]
    /\ UNCHANGED <<job, told, ans>> /\ ReplyUnchanged

(* putJob returned: a pending record leads to the reference, a final one ends. *)
JobStored(q) == ReplyGoes(q, IF rep[q].status = "pending" THEN "tell" ELSE "done")
JobRefused(q) ==
    /\ ReplyGoes(q, "done")
    /\ told' = IF rep[q].status = "pending" THEN told \cup {q} ELSE told

JobCheck(q) ==
    /\ rep[q].pc = "check"
    /\ IF marker = rep[q].epoch THEN ReplyGoes(q, "put") /\ UNCHANGED told
                                ELSE JobRefused(q)
    /\ UNCHANGED <<job, ans>> /\ ReplyUnchanged

PutAt(q, e) ==
    /\ rep[q].pc = "put"
    /\ job' = [job EXCEPT ![e][q] = rep[q].status]
    /\ ReplyGoes(q, "recheck")
    /\ UNCHANGED <<told, ans>> /\ ReplyUnchanged
(* Mutant: the record is keyed by the epoch of the moment it is written. *)
JobPutNow(q) == PutAt(q, marker)
JobPut(q) == PutAt(q, rep[q].epoch)

(* Mutant: the late record is reported as refused but left where it is. *)
JobKeepLate(q) ==
    /\ rep[q].pc = "recheck"
    /\ IF marker = rep[q].epoch THEN JobStored(q) /\ UNCHANGED told ELSE JobRefused(q)
    /\ UNCHANGED <<job, ans>> /\ ReplyUnchanged

JobRecheck(q) ==
    /\ rep[q].pc = "recheck"
    /\ IF marker = rep[q].epoch THEN JobStored(q) ELSE ReplyGoes(q, "delete")
    /\ UNCHANGED <<job, told, ans>> /\ ReplyUnchanged

JobDelete(q) ==
    /\ rep[q].pc = "delete"
    /\ job' = [job EXCEPT ![rep[q].epoch][q] = Absent]
    /\ JobRefused(q)
    /\ UNCHANGED ans /\ ReplyUnchanged

(* The user is given the reference; only then is the completion registered.   *)
ReplyReference(q) ==
    /\ rep[q].pc = "tell"
    /\ ReplyGoes(q, "parked")
    /\ UNCHANGED <<job, told, ans>> /\ ReplyUnchanged

Complete(q, status) ==
    /\ rep[q].pc = "parked"
    /\ rep' = [rep EXCEPT ![q].pc = "check", ![q].status = status]
    /\ UNCHANGED <<job, told, ans>> /\ ReplyUnchanged
(* Mutant: only an answer completes a parked job, a failure does not. *)
JobCompletesOnAnswer(q) == ans[q].pc = "answered" /\ Complete(q, "complete")
(* Mutant: the record is given the outcome of the promise as its status. *)
JobCompletesRaw(q) == ans[q].pc \in {"answered", "failed"} /\ Complete(q, ans[q].pc)
JobCompletes(q) ==
    \/ ans[q].pc = "answered" /\ Complete(q, "complete")
    \/ ans[q].pc = "failed" /\ Complete(q, "error")

ReplyStep(q) == \/ ReplyQuick(q) \/ JobCheck(q) \/ JobPut(q) \/ JobRecheck(q)
                \/ JobDelete(q) \/ ReplyReference(q) \/ JobCompletes(q)

-----------------------------------------------------------------------------
(* Commands: setMemoryEnabled, clearConversation, deleteTenantData. *)

CommandUnchanged == UNCHANGED <<ans, rep, faults, kills, told>>
CommandGoes(k, pc) == cmd' = [cmd EXCEPT ![k].pc = pc]

CommandStart(k) ==
    /\ cmd[k].pc = "idle"
    /\ \E kind \in Kind :
          cmd' = [cmd EXCEPT ![k].kind = kind,
                             ![k].pc = IF kind = "delete" THEN "rotate" ELSE "epoch"]
    /\ UNCHANGED <<kv, erased, left>> /\ CommandUnchanged

CommandEpoch(k) ==
    /\ cmd[k].pc = "epoch"
    /\ cmd' = [cmd EXCEPT ![k].e = marker,
                          ![k].pc = IF cmd[k].kind = "clear" THEN "conv" ELSE "flag"]
    /\ UNCHANGED <<kv, erased, left>> /\ CommandUnchanged

CommandFlag(k) ==
    /\ cmd[k].pc = "flag"
    /\ flag' = [flag EXCEPT ![cmd[k].e] = (cmd[k].kind = "enable")]
    /\ CommandGoes(k, IF cmd[k].kind = "enable" THEN "done" ELSE "conv")
    /\ UNCHANGED <<marker, rotations, conv, job, erased, left>> /\ CommandUnchanged

CommandConversation(k) ==
    /\ cmd[k].pc = "conv"
    /\ conv' = [conv EXCEPT ![cmd[k].e] = {}]
    /\ CommandGoes(k, "done")
    /\ UNCHANGED <<marker, rotations, flag, job, erased, left>> /\ CommandUnchanged

Begun == {q \in Question : rep[q].pc # "idle"}

Rotate(k) ==
    /\ cmd[k].pc = "rotate" /\ rotations < MaxEpoch
    /\ rotations' = rotations + 1
    /\ marker' = rotations + 1
    /\ erased' = erased \cup Begun
    /\ left' = left \cup {marker}
    /\ CommandGoes(k, "list")
    /\ UNCHANGED <<flag, conv, job>> /\ CommandUnchanged

Stored ==
    {<<"flag", e>> : e \in {x \in Epoch : flag[x]}}
    \cup {<<"conv", e>> : e \in {x \in Epoch : conv[x] # {}}}
    \cup {k \in Key : k[1] = "job" /\ job[k[2]][k[3]] # Absent}

(* Every page is listed before the first key is deleted. *)
List(k) ==
    /\ cmd[k].pc = "list"
    /\ cmd' = [cmd EXCEPT ![k].pc = "delete", ![k].todo = Stored]
    /\ UNCHANGED <<kv, erased, left>> /\ CommandUnchanged

DeleteKey(k) ==
    /\ cmd[k].pc = "delete"
    /\ \E x \in cmd[k].todo :
          /\ cmd' = [cmd EXCEPT ![k].todo = @ \ {x}]
          /\ flag' = IF x[1] = "flag" THEN [flag EXCEPT ![x[2]] = FALSE] ELSE flag
          /\ conv' = IF x[1] = "conv" THEN [conv EXCEPT ![x[2]] = {}] ELSE conv
          /\ job' = IF x[1] = "job" THEN [job EXCEPT ![x[2]][x[3]] = Absent] ELSE job
    /\ UNCHANGED <<marker, rotations, erased, left>> /\ CommandUnchanged

DeleteDone(k) ==
    /\ cmd[k].pc = "delete" /\ cmd[k].todo = {}
    /\ CommandGoes(k, "done")
    /\ UNCHANGED <<kv, erased, left>> /\ CommandUnchanged

CommandStep(k) == \/ CommandEpoch(k) \/ CommandFlag(k) \/ CommandConversation(k)
                  \/ Rotate(k) \/ List(k) \/ DeleteKey(k) \/ DeleteDone(k)

-----------------------------------------------------------------------------
(* Failures and time. *)

(* A call throws, to KV or to LINE: the answer fails; a failed pending put or *)
(* reply fails the event, a failed final put is retried once as an error      *)
(* record; a command stops.                                                   *)
CallFails ==
    /\ faults < MaxFaults /\ faults' = faults + 1
    /\ \/ \E q \in Question :
             /\ ans[q].pc \notin {"idle", "answered", "failed"}
             /\ AnswerGoes(q, "failed") /\ UNCHANGED <<rep, cmd>>
       \/ \E q \in Question :
             /\ rep[q].pc \in {"check", "put", "recheck", "delete", "tell"}
             /\ rep' = IF rep[q].status = "complete"
                       THEN [rep EXCEPT ![q].pc = "check", ![q].status = "error"]
                       ELSE [rep EXCEPT ![q].pc = "done"]
             /\ UNCHANGED <<ans, cmd>>
       \/ \E k \in Command :
             /\ cmd[k].pc \notin {"idle", "done"}
             /\ CommandGoes(k, "done") /\ UNCHANGED <<ans, rep>>
    /\ UNCHANGED <<kv, kills, history>>

(* The Worker that runs a question's event is killed. *)
WorkerKilled(q) ==
    /\ kills < MaxKills /\ kills' = kills + 1
    /\ rep[q].pc \notin {"idle", "done"}
    /\ ReplyGoes(q, "done")
    /\ ans' = [ans EXCEPT ![q].pc = IF @ = "answered" THEN @ ELSE "failed"]
    /\ UNCHANGED <<kv, cmd, faults, history>>

Quiet ==
    /\ \A q \in Question : /\ rep[q].pc \in {"idle", "done"}
                           /\ ans[q].pc \in {"idle", "answered", "failed"}
    /\ \A k \in Command : cmd[k].pc \in {"idle", "done"}

(* A day later the marker is gone, and before it every record of the epochs   *)
(* that deletions left.                                                       *)
MarkerExpires ==
    /\ marker # 0 /\ Quiet
    /\ \A x \in Stored : x[2] = marker
    /\ marker' = 0
    /\ left' = left \ {0}
    /\ UNCHANGED <<rotations, flag, conv, job, ans, rep, cmd, faults, kills, erased, told>>

RecordExpires ==
    /\ Quiet
    /\ \E x \in Stored :
          /\ flag' = IF x[1] = "flag" THEN [flag EXCEPT ![x[2]] = FALSE] ELSE flag
          /\ conv' = IF x[1] = "conv" THEN [conv EXCEPT ![x[2]] = {}] ELSE conv
          /\ job' = IF x[1] = "job" THEN [job EXCEPT ![x[2]][x[3]] = Absent] ELSE job
    /\ UNCHANGED <<marker, rotations, ans, rep, cmd, faults, kills, history>>

Next ==
    \/ \E q \in Question : \/ Ask(q) \/ Park(q) \/ AnswerStep(q) \/ ReplyStep(q)
                           \/ WorkerKilled(q)
    \/ \E k \in Command : CommandStart(k) \/ CommandStep(k)
    \/ CallFails \/ MarkerExpires \/ RecordExpires

Spec == Init /\ [][Next]_vars

(* A Worker that is not killed goes on: its KV calls return, the model call   *)
(* has a timeout.                                                             *)
Fairness ==
    /\ \A q \in Question : WF_vars(AnswerStep(q)) /\ WF_vars(ReplyStep(q))
    /\ \A k \in Command : WF_vars(CommandStep(k))
FairSpec == Spec /\ Fairness

-----------------------------------------------------------------------------
TypeOK ==
    /\ marker \in Epoch /\ rotations \in Epoch
    /\ flag \in [Epoch -> BOOLEAN]
    /\ conv \in [Epoch -> SUBSET Question]
    /\ job \in [Epoch -> [Question -> Status \cup {Absent}]]
    /\ ans \in [Question -> Answer]
    /\ rep \in [Question -> Reply]
    /\ cmd \in [Command -> Control]
    /\ faults \in 0..MaxFaults /\ kills \in 0..MaxKills
    /\ erased \subseteq Question /\ told \subseteq Question
    /\ left \subseteq Epoch

(* The worker's comment on the captured epoch: a delete-my-data that rotates  *)
(* it makes every late completion unreachable.  No job of a question that was *)
(* begun before a deletion can be looked up after it.                         *)
JobErased == \A q \in erased : job[marker][q] = Absent

(* "Cancelled, no private result was saved" is true: whenever the user was    *)
(* told so, no record of that question is left under any epoch.               *)
CancelledLeavesNothing == \A q \in told : \A e \in Epoch : job[e][q] = Absent

(* Delete-my-data removes everything, also what was being written while it    *)
(* listed: once nothing is in flight, and nothing failed, an epoch that a     *)
(* deletion left holds no job and no conversation.                            *)
LeftEpochsEmpty ==
    Quiet /\ faults = 0 /\ kills = 0 =>
        \A e \in left : conv[e] = {} /\ \A q \in Question : job[e][q] = Absent

(* A job the user holds a reference to is completed, reported as failed, or   *)
(* removed by a deletion; one failed call, of the answer or of the final put, *)
(* does not leave it pending (a killed Worker does, until the record's TTL).  *)
PendingResolves == \A q \in Question :
    (rep[q].pc = "parked" /\ job[marker][q] = "pending")
        ~> (job[marker][q] # "pending" \/ kills > 0)

(* TenantJobs: what the tenant can look up changes as if a deletion were one  *)
(* step.  The jobs under the current epoch are empty after it, whatever was   *)
(* in flight; they are written only by questions that captured that epoch,    *)
(* and a record that was final is never pending again.                        *)
Jobs == INSTANCE TenantJobs WITH
    Nothing <- Absent,
    shown <- job[marker],
    open <- {q \in Begun : rep[q].pc # "done" /\ rep[q].epoch = marker},
    begun <- Begun
DeletedAtOnce == Jobs!Spec

(* The same promise for the conversation: no turn of a question begun before  *)
(* a deletion is part of the conversation the tenant has after it.            *)
ConversationErased == \A q \in erased : q \notin conv[marker]

=============================================================================
