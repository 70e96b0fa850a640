-------------------------- MODULE TenantDataProofs --------------------------
(***************************************************************************)
(* Proofs about TenantData for any number of questions, commands,          *)
(* deletions, failed calls and killed Workers: its types, JobErased,       *)
(* CancelledLeavesNothing, LeftEpochsEmpty, and that jobs are deleted as   *)
(* TenantJobs says.                                                        *)
(***************************************************************************)
EXTENDS TenantData, TLAPS

-----------------------------------------------------------------------------
(* The invariant.  Epochs are drawn fresh; a record is only ever under the    *)
(* epoch its question captured; a question that was begun before a deletion   *)
(* has captured an epoch that is not the current one, or has ended.           *)
Fresh ==
    /\ marker <= rotations
    /\ \A q \in Question : rep[q].epoch <= rotations
    /\ \A e \in Epoch, q \in Question : e > rotations => job[e][q] = Absent

OwnEpoch == \A q \in Question : \A e \in Epoch \ {rep[q].epoch} : job[e][q] = Absent

Unwritten(v) == \/ v.pc \in {"idle", "wait"}
                \/ v.pc \in {"check", "put"} /\ v.status = "pending"
NothingYet == \A q \in Question :
    Unwritten(rep[q]) => \A e \in Epoch : job[e][q] = Absent

ErasedInv == \A q \in erased : /\ rep[q].pc # "idle"
                               /\ job[marker][q] = Absent
                               /\ rep[q].pc = "done" \/ rep[q].epoch # marker

ToldInv == \A q \in told : /\ rep[q].pc = "done"
                           /\ \A e \in Epoch : job[e][q] = Absent

JobInv == Fresh /\ OwnEpoch /\ NothingYet /\ ErasedInv /\ ToldInv

-----------------------------------------------------------------------------
(* Types, one lemma for each flow. *)

LEMMA InitTypes == Init => TypeOK
  BY MaxEpochAssumption, FaultsAssumption
  DEF Init, TypeOK, Epoch, Answer, Reply, Control, AnswerPc, ReplyPc, CommandPc, Status, Kind, Absent

(* A step of an answer. *)
LEMMA AnswerTypes ==
    ASSUME TypeOK, NEW q \in Question, AnswerStep(q)
    PROVE  TypeOK'
  <1> USE DEF AnswerGoes, Answer, AnswerPc
  <1>0. /\ ans \in [Question -> Answer] /\ ans[q] \in Answer
        /\ conv \in [Epoch -> SUBSET Question] /\ marker \in Epoch
    BY DEF TypeOK
  <1>1. ans' \in [Question -> Answer] /\ conv' \in [Epoch -> SUBSET Question]
    <2>1. CASE AnswerEarly(q) BY <1>0, <2>1 DEF AnswerEarly
    <2>2. CASE AnswerHistoryEpoch(q) BY <1>0, <2>2 DEF AnswerHistoryEpoch
    <2>3. CASE AnswerHistoryFlag(q)
      <3>1. \E pc \in AnswerPc : ans' = [ans EXCEPT ![q].pc = pc]
        BY <2>3 DEF AnswerHistoryFlag
      <3> QED BY <1>0, <2>3, <3>1 DEF AnswerHistoryFlag
    <2>4. CASE AnswerHistory(q) BY <1>0, <2>4 DEF AnswerHistory
    <2>5. CASE AnswerModel(q) BY <1>0, <2>5 DEF AnswerModel
    <2>6. CASE AnswerMemoryEpoch(q) BY <1>0, <2>6 DEF AnswerMemoryEpoch
    <2>7. CASE AnswerMemoryFlag(q)
      <3>1. \E pc \in AnswerPc : ans' = [ans EXCEPT ![q].pc = pc]
        BY <2>7 DEF AnswerMemoryFlag
      <3> QED BY <1>0, <2>7, <3>1 DEF AnswerMemoryFlag
    <2>8. CASE SaveEpoch(q) BY <1>0, <2>8 DEF SaveEpoch
    <2>9. CASE SaveCheck(q)
      <3>1. \E pc \in AnswerPc : ans' = [ans EXCEPT ![q].pc = pc]
        BY <2>9 DEF SaveCheck
      <3> QED BY <1>0, <2>9, <3>1 DEF SaveCheck
    <2>10. CASE SaveFlag(q)
      <3>1. \E pc \in AnswerPc : ans' = [ans EXCEPT ![q].pc = pc]
        BY <2>10 DEF SaveFlag
      <3> QED BY <1>0, <2>10, <3>1 DEF SaveFlag
    <2>11. CASE SavePut(q) BY <1>0, <2>11 DEF SavePut
    <2>12. CASE SaveRecheck(q)
      <3>1. \E pc \in AnswerPc : ans' = [ans EXCEPT ![q].pc = pc]
        BY <2>12 DEF SaveRecheck
      <3> QED BY <1>0, <2>12, <3>1 DEF SaveRecheck
    <2>13. CASE SaveDelete(q) BY <1>0, <2>13 DEF SaveDelete
    <2> QED BY <2>1, <2>2, <2>3, <2>4, <2>5, <2>6, <2>7, <2>8, <2>9, <2>10, <2>11, <2>12, <2>13 DEF AnswerStep
  <1>2. AnswerUnchanged
    BY DEF AnswerStep, AnswerEarly, AnswerHistoryEpoch, AnswerHistoryFlag, AnswerHistory, AnswerModel, AnswerMemoryEpoch, AnswerMemoryFlag, SaveEpoch, SaveCheck, SaveFlag, SavePut, SaveRecheck, SaveDelete
  <1> QED BY <1>1, <1>2 DEF TypeOK, AnswerUnchanged, history

(* A step of a reply, of its start and of parking it included. *)
ReplyMoves(q) == Ask(q) \/ Park(q) \/ ReplyStep(q)

LEMMA ReplyTypes ==
    ASSUME TypeOK, NEW q \in Question, ReplyMoves(q)
    PROVE  TypeOK'
  <1>0. /\ rep \in [Question -> Reply] /\ rep[q] \in Reply /\ marker \in Epoch
        /\ told \subseteq Question
    BY DEF TypeOK
  <1> DEFINE Goes(pc) == rep' = [rep EXCEPT ![q].pc = pc]
             GoesAs(pc, s) == rep' = [rep EXCEPT ![q].pc = pc, ![q].status = s]
  <1>1. \A pc \in ReplyPc, s \in Status : Goes(pc) \/ GoesAs(pc, s) => rep' \in [Question -> Reply]
    <2> SUFFICES ASSUME NEW pc \in ReplyPc, NEW s \in Status, Goes(pc) \/ GoesAs(pc, s)
                 PROVE  rep' \in [Question -> Reply]
      BY Zenon
    <2>1. CASE Goes(pc) BY <1>0, <2>1 DEF Reply
    <2>2. CASE GoesAs(pc, s) BY <1>0, <2>2 DEF Reply
    <2> QED BY <2>1, <2>2
  <1>2. {"wait", "check", "put", "recheck", "delete", "tell", "parked", "done"} \subseteq ReplyPc
        /\ {"pending", "complete", "error"} = Status
    BY DEF ReplyPc, Status
  <1> HIDE DEF Goes, GoesAs
  <1>3. rep' \in [Question -> Reply]
    <2>1. CASE Ask(q)
      BY <1>0, <2>1 DEF Ask, Reply, ReplyPc
    <2>2. CASE Park(q)
      <3>1. GoesAs("check", "pending") \/ GoesAs("done", "pending") BY <2>2 DEF Park, GoesAs
      <3> QED BY <1>1, <1>2, <3>1
    <2>3. CASE ReplyQuick(q)
      <3>1. Goes("done") BY <2>3 DEF ReplyQuick, ReplyGoes, Goes
      <3> QED BY <1>1, <1>2, <3>1
    <2>4. CASE JobCheck(q)
      <3>1. CASE marker = rep[q].epoch
        <4>1. Goes("put") BY <2>4, <3>1 DEF JobCheck, ReplyGoes, Goes
        <4> QED BY <1>1, <1>2, <4>1
      <3>2. CASE marker # rep[q].epoch
        <4>1. Goes("done") BY <2>4, <3>2 DEF JobCheck, JobRefused, ReplyGoes, Goes
        <4> QED BY <1>1, <1>2, <4>1
      <3> QED BY <3>1, <3>2
    <2>5. CASE JobPut(q)
      <3>1. Goes("recheck") BY <2>5 DEF JobPut, PutAt, ReplyGoes, Goes
      <3> QED BY <1>1, <1>2, <3>1
    <2>6. CASE JobRecheck(q)
      <3>1. CASE marker = rep[q].epoch
        <4>1. Goes("tell") \/ Goes("done")
          BY <2>6, <3>1 DEF JobRecheck, JobStored, ReplyGoes, Goes
        <4> QED BY <1>1, <1>2, <4>1
      <3>2. CASE marker # rep[q].epoch
        <4>1. Goes("delete") BY <2>6, <3>2 DEF JobRecheck, ReplyGoes, Goes
        <4> QED BY <1>1, <1>2, <4>1
      <3> QED BY <3>1, <3>2
    <2>7. CASE JobDelete(q)
      <3>1. Goes("done") BY <2>7 DEF JobDelete, JobRefused, ReplyGoes, Goes
      <3> QED BY <1>1, <1>2, <3>1
    <2>8. CASE JobCompletes(q)
      <3>1. GoesAs("check", "complete") \/ GoesAs("check", "error")
        BY <2>8 DEF JobCompletes, Complete, GoesAs
      <3> QED BY <1>1, <1>2, <3>1
    <2>9. CASE ReplyReference(q)
      <3>1. Goes("parked") BY <2>9 DEF ReplyReference, ReplyGoes, Goes
      <3> QED BY <1>1, <1>2, <3>1
    <2> QED BY <2>1, <2>2, <2>3, <2>4, <2>5, <2>6, <2>7, <2>8, <2>9 DEF ReplyMoves, ReplyStep
  <1>4. told' \subseteq Question
    <2>1. CASE JobCheck(q)
      <3>1. CASE marker = rep[q].epoch BY <1>0, <2>1, <3>1 DEF JobCheck
      <3>2. CASE marker # rep[q].epoch BY <1>0, <2>1, <3>2 DEF JobCheck, JobRefused
      <3> QED BY <3>1, <3>2
    <2>2. CASE JobDelete(q)
      BY <1>0, <2>2 DEF JobDelete, JobRefused
    <2>3. CASE UNCHANGED told
      BY <1>0, <2>3
    <2> QED BY <2>1, <2>2, <2>3 DEF ReplyMoves, Ask, Park, ReplyStep, ReplyQuick, JobPut, PutAt, JobRecheck, JobCompletes, ReplyReference, Complete
  <1>5. job' \in [Epoch -> [Question -> Status \cup {Absent}]]
    <2>0. job \in [Epoch -> [Question -> Status \cup {Absent}]] /\ rep[q].status \in Status
      BY <1>0 DEF TypeOK, Reply
    <2>1. CASE JobPut(q)
      BY <2>0, <2>1 DEF JobPut, PutAt
    <2>2. CASE JobDelete(q)
      BY <2>0, <2>2 DEF JobDelete
    <2>3. CASE UNCHANGED job
      BY <2>0, <2>3
    <2> QED BY <2>1, <2>2, <2>3 DEF ReplyMoves, Ask, Park, ReplyStep, ReplyQuick, JobCheck, JobRecheck, JobCompletes, ReplyReference, Complete
  <1>6. ans' \in [Question -> Answer]
    <2>1. CASE Ask(q)
      <3>1. ans \in [Question -> Answer] /\ ans[q] \in Answer
        BY DEF TypeOK
      <3> QED BY <2>1, <3>1 DEF Ask, AnswerGoes, Answer, AnswerPc
    <2>2. CASE Park(q) \/ ReplyStep(q)
      BY <2>2 DEF Park, ReplyStep, ReplyQuick, JobCheck, JobPut, PutAt, JobRecheck, JobDelete, JobCompletes, ReplyReference, Complete, TypeOK
    <2> QED BY <2>1, <2>2 DEF ReplyMoves
  <1>7. ReplyUnchanged
    BY DEF ReplyMoves, Ask, Park, ReplyStep, ReplyQuick, JobCheck, JobPut, PutAt, JobRecheck, JobDelete, JobCompletes, ReplyReference, Complete
  <1> QED BY <1>3, <1>4, <1>5, <1>6, <1>7 DEF TypeOK, ReplyUnchanged

(* What a deletion removes: stored keys, by kind. *)
LEMMA StoredKeys ==
    ASSUME NEW x \in Key
    PROVE  /\ x[1] \in {"flag", "conv", "job"}
           /\ x[2] \in Epoch
           /\ x[1] = "job" => x[3] \in Question
  BY DEF Key

LEMMA StoredType == Stored \subseteq Key
  BY DEF Stored, Key

(* A command, from its start to its last key. *)
CommandMoves(k) == CommandStart(k) \/ CommandStep(k)

LEMMA CommandTypes ==
    ASSUME TypeOK, NEW k \in Command, CommandMoves(k)
    PROVE  TypeOK'
  <1> USE DEF CommandGoes, Control, CommandPc
  <1>0. cmd \in [Command -> Control] /\ cmd[k] \in Control /\ marker \in Epoch
    BY DEF TypeOK
  <1>1. cmd' \in [Command -> Control]
    <2>1. CASE CommandStart(k) BY <1>0, <2>1 DEF CommandStart
    <2>2. CASE CommandEpoch(k) BY <1>0, <2>2 DEF CommandEpoch
    <2>3. CASE CommandFlag(k)
      <3>1. \E pc \in CommandPc : cmd' = [cmd EXCEPT ![k].pc = pc]
        BY <2>3 DEF CommandFlag
      <3> QED BY <1>0, <3>1
    <2>4. CASE CommandConversation(k) BY <1>0, <2>4 DEF CommandConversation
    <2>5. CASE Rotate(k) BY <1>0, <2>5 DEF Rotate
    <2>6. CASE List(k) BY <1>0, <2>6, StoredType DEF List
    <2>7. CASE DeleteKey(k) BY <1>0, <2>7 DEF DeleteKey
    <2>8. CASE DeleteDone(k) BY <1>0, <2>8 DEF DeleteDone
    <2> QED BY <2>1, <2>2, <2>3, <2>4, <2>5, <2>6, <2>7, <2>8 DEF CommandMoves, CommandStep
  <1>2. /\ marker' \in Epoch /\ rotations' \in Epoch
        /\ flag' \in [Epoch -> BOOLEAN]
        /\ conv' \in [Epoch -> SUBSET Question]
        /\ job' \in [Epoch -> [Question -> Status \cup {Absent}]]
        /\ erased' \subseteq Question /\ left' \subseteq Epoch
    <2> USE DEF TypeOK
    <2>1. CASE CommandStart(k) BY <2>1 DEF CommandStart, kv
    <2>2. CASE CommandEpoch(k) BY <2>2 DEF CommandEpoch, kv
    <2>3. CASE CommandFlag(k) BY <1>0, <2>3 DEF CommandFlag
    <2>4. CASE CommandConversation(k) BY <1>0, <2>4 DEF CommandConversation
    <2>5. CASE Rotate(k) BY <2>5, MaxEpochAssumption DEF Rotate, Epoch, Begun
    <2>6. CASE List(k) BY <2>6 DEF List, kv
    <2>7. CASE DeleteKey(k)
      <3>1. PICK x \in cmd[k].todo :
              /\ flag' = IF x[1] = "flag" THEN [flag EXCEPT ![x[2]] = FALSE] ELSE flag
              /\ conv' = IF x[1] = "conv" THEN [conv EXCEPT ![x[2]] = {}] ELSE conv
              /\ job' = IF x[1] = "job" THEN [job EXCEPT ![x[2]][x[3]] = Absent] ELSE job
        BY <2>7 DEF DeleteKey
      <3>2. x \in Key
        BY <1>0, <3>1
      <3>3. x[2] \in Epoch /\ (x[1] = "job" => x[3] \in Question)
        BY <3>2, StoredKeys
      <3>4. job' \in [Epoch -> [Question -> Status \cup {Absent}]]
        BY <3>1, <3>3
      <3>5. flag' \in [Epoch -> BOOLEAN] /\ conv' \in [Epoch -> SUBSET Question]
        BY <3>1, <3>3
      <3> QED BY <2>7, <3>4, <3>5 DEF DeleteKey
    <2>8. CASE DeleteDone(k) BY <2>8 DEF DeleteDone, kv
    <2> QED BY <2>1, <2>2, <2>3, <2>4, <2>5, <2>6, <2>7, <2>8 DEF CommandMoves, CommandStep
  <1>3. CommandUnchanged
    BY DEF CommandMoves, CommandStart, CommandStep, CommandEpoch, CommandFlag, CommandConversation, Rotate, List, DeleteKey, DeleteDone
  <1> QED BY <1>1, <1>2, <1>3 DEF TypeOK, CommandUnchanged

(* Failed calls, killed Workers, expiry. *)
Failures == \/ CallFails \/ MarkerExpires \/ RecordExpires
            \/ \E q \in Question : WorkerKilled(q)

LEMMA FailureTypes ==
    ASSUME TypeOK, Failures
    PROVE  TypeOK'
  <1>1. CASE CallFails
    <2> USE <1>1
    <2>1. faults' \in 0..MaxFaults
      BY FaultsAssumption DEF CallFails, TypeOK
    <2>2. ans' \in [Question -> Answer]
      <3>0. ans \in [Question -> Answer]
        BY DEF TypeOK
      <3>1. CASE UNCHANGED ans
        BY <3>0, <3>1
      <3>2. ASSUME NEW q \in Question, ans' = [ans EXCEPT ![q].pc = "failed"]
            PROVE  ans' \in [Question -> Answer]
        BY <3>0, <3>2 DEF Answer, AnswerPc
      <3> QED BY <3>1, <3>2 DEF CallFails, AnswerGoes
    <2>3. cmd' \in [Command -> Control]
      <3>0. cmd \in [Command -> Control]
        BY DEF TypeOK
      <3>1. CASE UNCHANGED cmd
        BY <3>0, <3>1
      <3>2. ASSUME NEW k \in Command, cmd' = [cmd EXCEPT ![k].pc = "done"]
            PROVE  cmd' \in [Command -> Control]
        BY <3>0, <3>2 DEF Control, CommandPc
      <3> QED BY <3>1, <3>2 DEF CallFails, CommandGoes
    <2>4. rep' \in [Question -> Reply]
      <3>0. rep \in [Question -> Reply]
        BY DEF TypeOK
      <3>1. CASE UNCHANGED rep
        BY <3>0, <3>1
      <3>2. ASSUME NEW q \in Question, rep' = [rep EXCEPT ![q].pc = "check", ![q].status = "error"]
            PROVE  rep' \in [Question -> Reply]
        BY <3>0, <3>2 DEF Reply, ReplyPc, Status
      <3>3. ASSUME NEW q \in Question, rep' = [rep EXCEPT ![q].pc = "done"]
            PROVE  rep' \in [Question -> Reply]
        BY <3>0, <3>3 DEF Reply, ReplyPc
      <3> QED BY <3>1, <3>2, <3>3, Zenon DEF CallFails
    <2> QED BY <2>1, <2>2, <2>3, <2>4 DEF CallFails, TypeOK, kv, history
  <1>2. CASE MarkerExpires
    <2>1. 0 \in Epoch
      BY MaxEpochAssumption DEF Epoch
    <2> QED BY <1>2, <2>1 DEF MarkerExpires, TypeOK
  <1>3. CASE RecordExpires
    <2>1. PICK x \in Stored :
            /\ flag' = IF x[1] = "flag" THEN [flag EXCEPT ![x[2]] = FALSE] ELSE flag
            /\ conv' = IF x[1] = "conv" THEN [conv EXCEPT ![x[2]] = {}] ELSE conv
            /\ job' = IF x[1] = "job" THEN [job EXCEPT ![x[2]][x[3]] = Absent] ELSE job
      BY <1>3 DEF RecordExpires
    <2>2. x[2] \in Epoch /\ (x[1] = "job" => x[3] \in Question)
      BY StoredType, StoredKeys
    <2>3. job' \in [Epoch -> [Question -> Status \cup {Absent}]]
      BY <2>1, <2>2 DEF TypeOK
    <2>4. flag' \in [Epoch -> BOOLEAN] /\ conv' \in [Epoch -> SUBSET Question]
      BY <2>1, <2>2 DEF TypeOK
    <2> QED BY <1>3, <2>3, <2>4 DEF RecordExpires, TypeOK, history
  <1>4. ASSUME NEW q \in Question, WorkerKilled(q)
        PROVE  TypeOK'
    <2> USE <1>4
    <2>1. rep' \in [Question -> Reply]
      BY DEF WorkerKilled, TypeOK, ReplyGoes, Reply, ReplyPc
    <2>2. ans' \in [Question -> Answer]
      <3>1. PICK pc \in AnswerPc : ans' = [ans EXCEPT ![q].pc = pc]
        BY DEF WorkerKilled, TypeOK, Answer, AnswerPc
      <3> QED BY <3>1 DEF TypeOK, Answer
    <2>3. kills' \in 0..MaxKills
      BY FaultsAssumption DEF WorkerKilled, TypeOK
    <2> QED BY <2>1, <2>2, <2>3 DEF WorkerKilled, TypeOK, kv, history
  <1> QED BY <1>1, <1>2, <1>3, <1>4 DEF Failures

LEMMA NextMoves ==
    ASSUME Next
    PROVE  \/ \E q \in Question : AnswerStep(q) \/ ReplyMoves(q)
           \/ \E k \in Command : CommandMoves(k)
           \/ Failures
  BY DEF Next, ReplyMoves, CommandMoves, Failures

(* Every variable keeps its type, so the keys that are listed, written and    *)
(* deleted are always keys of an epoch and of a question of this tenant.      *)
THEOREM TypeCorrect == Spec => []TypeOK
  <1>1. Init => TypeOK
    BY InitTypes
  <1>2. TypeOK /\ [Next]_vars => TypeOK'
    <2> SUFFICES ASSUME TypeOK, [Next]_vars
                 PROVE  TypeOK'
      OBVIOUS
    <2>1. CASE UNCHANGED vars
      BY <2>1 DEF vars, TypeOK
    <2>2. CASE Next
      BY <2>2, NextMoves, AnswerTypes, ReplyTypes, CommandTypes, FailureTypes
    <2> QED BY <2>1, <2>2
  <1> QED BY <1>1, <1>2, PTL DEF Spec

-----------------------------------------------------------------------------
(* Jobs. *)

(* Nothing that JobInv speaks of changes. *)
LEMMA JobFrame ==
    ASSUME JobInv, UNCHANGED <<marker, rotations, job, rep, erased, told>>
    PROVE  JobInv'
  BY DEF JobInv, Fresh, OwnEpoch, NothingYet, ErasedInv, ToldInv

(* Removing records. *)
LEMMA JobRemoved ==
    ASSUME TypeOK, JobInv, UNCHANGED <<marker, rotations, rep, erased, told>>,
           \A e \in Epoch, q \in Question : job'[e][q] \in {job[e][q], Absent}
    PROVE  JobInv'
  <1> USE DEF JobInv
  <1>1. Fresh' BY DEF Fresh
  <1>2. OwnEpoch' BY DEF OwnEpoch
  <1>3. NothingYet' BY DEF NothingYet
  <1>4. ErasedInv' BY DEF ErasedInv, TypeOK
  <1>5. ToldInv' BY DEF ToldInv, TypeOK
  <1> QED BY <1>1, <1>2, <1>3, <1>4, <1>5

(* A stored key that is deleted or expires takes one record with it. *)
LEMMA KeyRemoved ==
    ASSUME TypeOK, NEW x \in Key,
           job' = IF x[1] = "job" THEN [job EXCEPT ![x[2]][x[3]] = Absent] ELSE job
    PROVE  \A e \in Epoch, q \in Question : job'[e][q] \in {job[e][q], Absent}
  BY StoredKeys DEF TypeOK

(* A reply that is ended, or turned into its error record, by a failure.      *)
LEMMA JobFailed ==
    ASSUME TypeOK, JobInv, UNCHANGED <<marker, rotations, job, erased, told>>,
           NEW q \in Question, rep[q].pc \notin {"idle", "done"},
           \/ rep' = [rep EXCEPT ![q].pc = "done"]
           \/ rep' = [rep EXCEPT ![q].pc = "check", ![q].status = "error"]
    PROVE  JobInv'
  <1>0. /\ \A p \in Question : rep'[p].epoch = rep[p].epoch
        /\ \A p \in Question \ {q} : rep'[p] = rep[p]
        /\ \/ rep'[q].pc = "done"
           \/ rep'[q].pc = "check" /\ rep'[q].status = "error"
    <2>0. rep \in [Question -> Reply]
      BY DEF TypeOK
    <2>1. CASE rep' = [rep EXCEPT ![q].pc = "done"]
      BY <2>0, <2>1 DEF Reply
    <2>2. CASE rep' = [rep EXCEPT ![q].pc = "check", ![q].status = "error"]
      BY <2>0, <2>2 DEF Reply
    <2> QED BY <2>1, <2>2
  <1> USE DEF JobInv
  <1>1. Fresh' BY <1>0 DEF Fresh
  <1>2. OwnEpoch' BY <1>0 DEF OwnEpoch
  <1>3. NothingYet' BY <1>0 DEF NothingYet, Unwritten
  <1>4. ErasedInv' BY <1>0 DEF ErasedInv, TypeOK
  <1>5. ToldInv' BY <1>0 DEF ToldInv, TypeOK
  <1> QED BY <1>1, <1>2, <1>3, <1>4, <1>5

(* A step of a reply. *)
LEMMA JobReplies ==
    ASSUME TypeOK, JobInv, NEW q \in Question, ReplyMoves(q)
    PROVE  JobInv'
  <1>0. /\ rep \in [Question -> Reply] /\ rep[q] \in Reply /\ marker \in Epoch
        /\ job \in [Epoch -> [Question -> Status \cup {Absent}]]
        /\ erased \subseteq Question /\ told \subseteq Question
        /\ rep[q].epoch \in Epoch
    BY DEF TypeOK, Reply
  <1>1. UNCHANGED <<marker, rotations, erased>>
    BY DEF ReplyMoves, Ask, Park, ReplyStep, ReplyQuick, JobCheck, JobPut, PutAt, JobRecheck, JobDelete, JobCompletes, ReplyReference, Complete, ReplyUnchanged
  <1>2. \A p \in Question \ {q} :
          rep'[p] = rep[p] /\ (\A e \in Epoch : job'[e][p] = job[e][p])
    <2>1. UNCHANGED job \/ \E v : job' = [job EXCEPT ![rep[q].epoch][q] = v]
      BY DEF ReplyMoves, Ask, Park, ReplyStep, ReplyQuick, JobCheck, JobPut, PutAt, JobRecheck, JobDelete, JobCompletes, ReplyReference, Complete
    <2>2. \E v : rep' = [rep EXCEPT ![q] = v]
      <3>1. CASE Ask(q)
        BY <3>1 DEF Ask
      <3>2. CASE Park(q)
        <4>1. PICK pc : rep' = [rep EXCEPT ![q].pc = pc, ![q].status = "pending"]
          BY <3>2 DEF Park
        <4> QED BY <4>1
      <3>3. CASE ReplyQuick(q)
        BY <3>3 DEF ReplyQuick, ReplyGoes
      <3>4. CASE JobCheck(q)
        <4>1. CASE marker = rep[q].epoch BY <3>4, <4>1 DEF JobCheck, ReplyGoes
        <4>2. CASE marker # rep[q].epoch BY <3>4, <4>2 DEF JobCheck, JobRefused, ReplyGoes
        <4> QED BY <4>1, <4>2
      <3>5. CASE JobPut(q)
        BY <3>5 DEF JobPut, PutAt, ReplyGoes
      <3>6. CASE JobRecheck(q)
        <4>1. CASE marker = rep[q].epoch BY <3>6, <4>1 DEF JobRecheck, JobStored, ReplyGoes
        <4>2. CASE marker # rep[q].epoch BY <3>6, <4>2 DEF JobRecheck, ReplyGoes
        <4> QED BY <4>1, <4>2
      <3>7. CASE JobDelete(q)
        BY <3>7 DEF JobDelete, JobRefused, ReplyGoes
      <3>8. CASE JobCompletes(q)
        BY <3>8 DEF JobCompletes, Complete
      <3>9. CASE ReplyReference(q)
        BY <3>9 DEF ReplyReference, ReplyGoes
      <3> QED BY <3>1, <3>2, <3>3, <3>4, <3>5, <3>6, <3>7, <3>8, <3>9 DEF ReplyMoves, ReplyStep
    <2>3. \A p \in Question \ {q} : rep'[p] = rep[p]
      BY <2>2, <1>0
    <2>4. \A p \in Question \ {q} : \A e \in Epoch : job'[e][p] = job[e][p]
      <3>1. CASE UNCHANGED job
        BY <3>1
      <3>2. CASE \E v : job' = [job EXCEPT ![rep[q].epoch][q] = v]
        <4>1. PICK v : job' = [job EXCEPT ![rep[q].epoch][q] = v]
          BY <3>2
        <4> QED BY <4>1, <1>0
      <3> QED BY <2>1, <3>1, <3>2
    <2> QED BY <2>3, <2>4
  (* What the step does to the reply and the records of q itself.             *)
  <1> DEFINE Empty == \A e \in Epoch : job[e][q] = Absent
             Keeps == \A e \in Epoch : job'[e][q] = job[e][q]
             Own == \A e \in Epoch \ {rep[q].epoch} : job'[e][q] = job[e][q]
             Clears == Own /\ job'[rep[q].epoch][q] = Absent
             Ends == rep'[q].pc = "done" /\ rep'[q].epoch = rep[q].epoch
             Tells == told' = told \/ told' = told \cup {q}
  <1>3. \/ /\ rep[q].pc = "idle" /\ Keeps /\ told' = told
           /\ rep'[q].pc = "wait" /\ rep'[q].epoch = marker
        \/ /\ rep[q].pc = "wait" /\ Keeps /\ told' = told
           /\ rep'[q].epoch = rep[q].epoch /\ rep'[q].pc # "idle"
        \/ /\ rep[q].pc = "check" /\ Keeps
           /\ \/ /\ rep'[q].pc = "put" /\ told' = told
                 /\ rep'[q].status = rep[q].status /\ rep'[q].epoch = rep[q].epoch
              \/ Ends /\ (told' = told \/ (told' = told \cup {q} /\ rep[q].status = "pending"))
        \/ /\ rep[q].pc = "put" /\ Own /\ told' = told
           /\ rep'[q].pc = "recheck" /\ rep'[q].epoch = rep[q].epoch
        \/ /\ rep[q].pc = "recheck" /\ Keeps /\ told' = told
           /\ rep'[q].pc \in {"tell", "done", "delete"} /\ rep'[q].epoch = rep[q].epoch
        \/ /\ rep[q].pc = "tell" /\ Keeps /\ told' = told
           /\ rep'[q].pc = "parked" /\ rep'[q].epoch = rep[q].epoch
        \/ /\ rep[q].pc = "delete" /\ Clears /\ Ends /\ Tells
        \/ /\ rep[q].pc = "parked" /\ Keeps /\ told' = told
           /\ rep'[q].pc = "check" /\ rep'[q].status \in {"complete", "error"}
           /\ rep'[q].epoch = rep[q].epoch
    <2>1. CASE Ask(q)
      BY <1>0, <2>1 DEF Ask, Reply
    <2>2. CASE Park(q)
      <3>1. PICK pc \in {"check", "done"} :
              rep' = [rep EXCEPT ![q].pc = pc, ![q].status = "pending"]
        BY <2>2 DEF Park
      <3> QED BY <1>0, <2>2, <3>1 DEF Park, Reply
    <2>3. CASE ReplyQuick(q)
      BY <1>0, <2>3 DEF ReplyQuick, ReplyGoes, Reply
    <2>4. CASE JobCheck(q)
      <3>1. CASE marker = rep[q].epoch
        BY <1>0, <2>4, <3>1 DEF JobCheck, ReplyGoes, Reply
      <3>2. CASE marker # rep[q].epoch
        <4>1. rep' = [rep EXCEPT ![q].pc = "done"] /\ job' = job /\ rep[q].pc = "check"
          BY <2>4, <3>2 DEF JobCheck, JobRefused, ReplyGoes
        <4>2. told' = told \/ (told' = told \cup {q} /\ rep[q].status = "pending")
          BY <2>4, <3>2 DEF JobCheck, JobRefused
        <4> QED BY <1>0, <4>1, <4>2 DEF Reply
      <3> QED BY <3>1, <3>2
    <2>5. CASE JobPut(q)
      BY <1>0, <2>5 DEF JobPut, PutAt, ReplyGoes, Reply
    <2>6. CASE JobRecheck(q)
      <3>1. CASE marker = rep[q].epoch
        <4>1. \E pc \in {"tell", "done"} : rep' = [rep EXCEPT ![q].pc = pc]
          BY <2>6, <3>1 DEF JobRecheck, JobStored, ReplyGoes
        <4> QED BY <1>0, <2>6, <4>1 DEF JobRecheck, Reply
      <3>2. CASE marker # rep[q].epoch
        BY <1>0, <2>6, <3>2 DEF JobRecheck, ReplyGoes, Reply
      <3> QED BY <3>1, <3>2
    <2>7. CASE JobDelete(q)
      <3>1. rep' = [rep EXCEPT ![q].pc = "done"] /\ Tells
        BY <2>7 DEF JobDelete, JobRefused, ReplyGoes
      <3>2. Clears
        BY <1>0, <2>7 DEF JobDelete
      <3> QED BY <1>0, <2>7, <3>1, <3>2 DEF JobDelete, Reply
    <2>8. CASE JobCompletes(q)
      BY <1>0, <2>8 DEF JobCompletes, Complete, Reply
    <2>9. CASE ReplyReference(q)
      BY <1>0, <2>9 DEF ReplyReference, ReplyGoes, Reply
    <2> QED BY <2>1, <2>2, <2>3, <2>4, <2>5, <2>6, <2>7, <2>8, <2>9 DEF ReplyMoves, ReplyStep
  <1>4. Fresh'
    <2>1. Own /\ (rep'[q].epoch = rep[q].epoch \/ rep'[q].epoch = marker)
      BY <1>3
    <2> HIDE DEF Own
    <2>2. \A p \in Question : rep'[p].epoch <= rotations
      BY <2>1, <1>2 DEF JobInv, Fresh
    <2>3. \A e \in Epoch, p \in Question : e > rotations => job'[e][p] = Absent
      <3>1. \A e \in Epoch : e > rotations => e # rep[q].epoch
        BY <1>0, MaxEpochAssumption DEF JobInv, Fresh, Epoch, TypeOK
      <3>2. \A e \in Epoch : e > rotations => job'[e][q] = job[e][q]
        BY <2>1, <3>1 DEF Own
      <3> QED BY <1>2, <3>2 DEF JobInv, Fresh
    <2> QED BY <1>1, <2>2, <2>3 DEF JobInv, Fresh
  <1>5. OwnEpoch'
    BY <1>0, <1>1, <1>2, <1>3 DEF JobInv, OwnEpoch, NothingYet, Unwritten
  <1>6. NothingYet'
    BY <1>0, <1>1, <1>2, <1>3 DEF JobInv, NothingYet, Unwritten
  <1>7. ErasedInv'
    BY <1>0, <1>1, <1>2, <1>3 DEF JobInv, ErasedInv
  <1>8. ToldInv'
    BY <1>0, <1>1, <1>2, <1>3 DEF JobInv, ToldInv, NothingYet, OwnEpoch, Unwritten
  <1> QED BY <1>4, <1>5, <1>6, <1>7, <1>8 DEF JobInv

(* Rotating: the new epoch is fresh, so nothing is stored under it and no     *)
(* question has captured it.                                                  *)
LEMMA JobRotates ==
    ASSUME TypeOK, JobInv, NEW k \in Command, Rotate(k)
    PROVE  JobInv'
  <1>0. /\ marker' = rotations + 1 /\ rotations' = rotations + 1 /\ rotations < MaxEpoch
        /\ erased' = erased \cup Begun
        /\ UNCHANGED <<job, rep, told>>
    BY DEF Rotate, CommandUnchanged
  <1>1. /\ rotations \in Nat /\ marker \in Nat /\ rotations + 1 \in Epoch
        /\ \A q \in Question : rep[q].epoch \in Nat
        /\ \A e \in Epoch : e \in Nat
    BY <1>0, MaxEpochAssumption DEF TypeOK, Reply, Epoch
  <1>2. Fresh'
    BY <1>0, <1>1 DEF JobInv, Fresh
  <1>3. OwnEpoch' /\ NothingYet' /\ ToldInv'
    BY <1>0 DEF JobInv, OwnEpoch, NothingYet, ToldInv
  <1>4. ErasedInv'
    <2> SUFFICES ASSUME NEW q \in erased'
                 PROVE  /\ rep[q].pc # "idle" /\ job[rotations + 1][q] = Absent
                        /\ rep[q].epoch # rotations + 1
      BY <1>0 DEF ErasedInv
    <2>1. q \in Question /\ rep[q].pc # "idle"
      BY <1>0 DEF JobInv, ErasedInv, TypeOK, Begun
    <2> QED BY <2>1, <1>1 DEF JobInv, Fresh
  <1> QED BY <1>2, <1>3, <1>4 DEF JobInv

(* The marker expires: every record of the initial epoch is gone by then, and *)
(* nothing is in flight.                                                      *)
LEMMA JobExpires ==
    ASSUME TypeOK, JobInv, MarkerExpires
    PROVE  JobInv'
  <1>0. /\ marker' = 0 /\ marker # 0 /\ UNCHANGED <<rotations, job, rep, erased, told>>
        /\ \A q \in Question : rep[q].pc \in {"idle", "done"}
    BY DEF MarkerExpires, Quiet
  <1>1. \A q \in Question : job[0][q] = Absent
    <2> SUFFICES ASSUME NEW q \in Question, job[0][q] # Absent
                 PROVE  FALSE
      OBVIOUS
    <2>1. <<"job", 0, q>> \in Key
      BY MaxEpochAssumption DEF Key, Epoch
    <2>2. <<"job", 0, q>> \in Stored
      BY <2>1 DEF Stored
    <2>3. \A x \in Stored : x[2] = marker
      BY DEF MarkerExpires
    <2> QED BY <1>0, <2>2, <2>3
  <1>2. Fresh'
    BY <1>0, MaxEpochAssumption DEF JobInv, Fresh, TypeOK, Epoch
  <1>3. OwnEpoch' /\ NothingYet' /\ ToldInv'
    BY <1>0 DEF JobInv, OwnEpoch, NothingYet, ToldInv
  <1>4. ErasedInv'
    BY <1>0, <1>1 DEF JobInv, ErasedInv, TypeOK
  <1> QED BY <1>2, <1>3, <1>4 DEF JobInv

LEMMA JobStep == TypeOK /\ JobInv /\ [Next]_vars => JobInv'
  <1> SUFFICES ASSUME TypeOK, JobInv, [Next]_vars
               PROVE  JobInv'
    OBVIOUS
  <1>1. CASE UNCHANGED vars
    BY <1>1, JobFrame DEF vars
  <1>2. ASSUME NEW q \in Question, AnswerStep(q)
        PROVE  JobInv'
    BY <1>2, JobFrame DEF AnswerStep, AnswerEarly, AnswerHistoryEpoch, AnswerHistoryFlag, AnswerHistory, AnswerModel, AnswerMemoryEpoch, AnswerMemoryFlag, SaveEpoch, SaveCheck, SaveFlag, SavePut, SaveRecheck, SaveDelete, AnswerUnchanged, history
  <1>3. ASSUME NEW q \in Question, ReplyMoves(q)
        PROVE  JobInv'
    BY <1>3, JobReplies
  <1>4. ASSUME NEW k \in Command, CommandMoves(k)
        PROVE  JobInv'
    <2>1. CASE Rotate(k)
      BY <2>1, JobRotates
    <2>2. CASE DeleteKey(k)
      <3>1. PICK x \in cmd[k].todo :
              job' = IF x[1] = "job" THEN [job EXCEPT ![x[2]][x[3]] = Absent] ELSE job
        BY <2>2 DEF DeleteKey
      <3>2. x \in Key
        BY <3>1 DEF TypeOK, Control
      <3>3. UNCHANGED <<marker, rotations, rep, erased, told>>
        BY <2>2 DEF DeleteKey, CommandUnchanged
      <3> QED BY <3>1, <3>2, <3>3, KeyRemoved, JobRemoved
    <2>3. CASE UNCHANGED <<marker, rotations, job, rep, erased, told>>
      BY <2>3, JobFrame
    <2> QED BY <1>4, <2>1, <2>2, <2>3 DEF CommandMoves, CommandStart, CommandStep, CommandEpoch, CommandFlag, CommandConversation, List, DeleteDone, CommandUnchanged, kv
  <1>5. CASE Failures
    <2>1. CASE CallFails
      <3>1. UNCHANGED <<marker, rotations, job, erased, told>>
        BY <2>1 DEF CallFails, kv, history
      <3>2. CASE UNCHANGED rep
        BY <3>1, <3>2, JobFrame
      <3>3. ASSUME NEW q \in Question, rep[q].pc \in {"check", "put", "recheck", "delete", "tell"},
                   rep' = IF rep[q].status = "complete"
                          THEN [rep EXCEPT ![q].pc = "check", ![q].status = "error"]
                          ELSE [rep EXCEPT ![q].pc = "done"]
            PROVE  JobInv'
        <4>1. rep[q].pc \notin {"idle", "done"}
          BY <3>3
        <4> QED BY <3>1, <3>3, <4>1, JobFailed
      <3> QED BY <2>1, <3>2, <3>3 DEF CallFails
    <2>2. CASE MarkerExpires
      BY <2>2, JobExpires
    <2>3. CASE RecordExpires
      <3>1. PICK x \in Stored :
              job' = IF x[1] = "job" THEN [job EXCEPT ![x[2]][x[3]] = Absent] ELSE job
        BY <2>3 DEF RecordExpires
      <3>2. x \in Key
        BY StoredType
      <3>3. UNCHANGED <<marker, rotations, rep, erased, told>>
        BY <2>3 DEF RecordExpires, history
      <3> QED BY <3>1, <3>2, <3>3, KeyRemoved, JobRemoved
    <2>4. ASSUME NEW q \in Question, WorkerKilled(q)
          PROVE  JobInv'
      <3>1. UNCHANGED <<marker, rotations, job, erased, told>>
        BY <2>4 DEF WorkerKilled, kv, history
      <3>2. rep' = [rep EXCEPT ![q].pc = "done"] /\ rep[q].pc \notin {"idle", "done"}
        BY <2>4 DEF WorkerKilled, ReplyGoes
      <3> QED BY <3>1, <3>2, JobFailed
    <2> QED BY <1>5, <2>1, <2>2, <2>3, <2>4 DEF Failures
  <1> QED BY <1>1, <1>2, <1>3, <1>4, <1>5, NextMoves

LEMMA JobInvariant == Spec => []JobInv
  <1>1. Init => JobInv
    BY MaxEpochAssumption
    DEF Init, JobInv, Fresh, OwnEpoch, NothingYet, ErasedInv, ToldInv, Epoch
  <1> QED BY <1>1, JobStep, TypeCorrect, PTL DEF Spec

(* No job of a question that was begun before a deletion can be looked up     *)
(* after it, however many questions, commands and deletions there are.        *)
THEOREM DeletedJobsStayDeleted == Spec => []JobErased
  <1>1. JobInv => JobErased
    BY DEF JobInv, ErasedInv, JobErased
  <1> QED BY <1>1, JobInvariant, PTL

(* A user who was told that the question was cancelled and nothing was kept   *)
(* was told the truth.                                                        *)
THEOREM CancelledIsTrue == Spec => []CancelledLeavesNothing
  <1>1. JobInv => CancelledLeavesNothing
    BY DEF JobInv, ToldInv, CancelledLeavesNothing
  <1> QED BY <1>1, JobInvariant, PTL

-----------------------------------------------------------------------------
(* Epochs that deletions left.  While nothing has failed, every record that   *)
(* is stored under such an epoch has somebody on the way to remove it: the    *)
(* flow that wrote it and has yet to look at the epoch again, or a deletion   *)
(* that is about to list the keys or has this one on its list.                *)
LeftFresh == marker \notin left /\ \A e \in left : e <= rotations
Unasked == \A q \in Question : rep[q].pc = "idle" => ans[q].pc = "idle"

Deleting(x) == \E k \in Command : \/ cmd[k].pc = "list"
                                  \/ cmd[k].pc = "delete" /\ x \in cmd[k].todo
Saving(e) == \E q \in Question : ans[q].pc \in {"recheck", "delete"} /\ ans[q].e = e
Covered == \A e \in left :
    /\ conv[e] # {} => Saving(e) \/ Deleting(<<"conv", e>>)
    /\ \A q \in Question : job[e][q] # Absent =>
          rep[q].pc \in {"recheck", "delete"} \/ Deleting(<<"job", e, q>>)

LeftInv == LeftFresh /\ Unasked /\ (faults = 0 /\ kills = 0 => Covered)

(* A step that removes records and moves no flow. *)
LEMMA LeftRemoved ==
    ASSUME TypeOK, LeftInv,
           UNCHANGED <<marker, rotations, ans, rep, cmd, faults, kills, left>>,
           \A e \in Epoch : conv'[e] \in {conv[e], {}},
           \A e \in Epoch, q \in Question : job'[e][q] \in {job[e][q], Absent}
    PROVE  LeftInv'
  <1>1. LeftFresh' /\ Unasked'
    BY DEF LeftInv, LeftFresh, Unasked
  <1>2. \A e \in left : e \in Epoch
    BY DEF TypeOK
  <1>3. Covered => Covered'
    BY <1>2 DEF Covered, Saving, Deleting
  <1> QED BY <1>1, <1>3 DEF LeftInv

(* A step of an answer: its write is followed by its check.                   *)
LEMMA LeftAnswers ==
    ASSUME TypeOK, LeftInv, NEW q \in Question, AnswerStep(q)
    PROVE  LeftInv'
  <1>0. /\ ans \in [Question -> Answer] /\ conv \in [Epoch -> SUBSET Question]
        /\ ans[q].e \in Epoch /\ \A e \in left : e \in Epoch
    BY DEF TypeOK, Answer
  <1>1. UNCHANGED <<marker, rotations, job, rep, cmd, faults, kills, left>>
    BY DEF AnswerStep, AnswerEarly, AnswerHistoryEpoch, AnswerHistoryFlag, AnswerHistory, AnswerModel, AnswerMemoryEpoch, AnswerMemoryFlag, SaveEpoch, SaveCheck, SaveFlag, SavePut, SaveRecheck, SaveDelete, AnswerUnchanged, history
  <1>2. ans[q].pc # "idle"
    BY DEF AnswerStep, AnswerEarly, AnswerHistoryEpoch, AnswerHistoryFlag, AnswerHistory, AnswerModel, AnswerMemoryEpoch, AnswerMemoryFlag, SaveEpoch, SaveCheck, SaveFlag, SavePut, SaveRecheck, SaveDelete
  <1>3. \A p \in Question \ {q} : ans'[p] = ans[p]
    <2>1. \E v : ans' = [ans EXCEPT ![q] = v]
      <3>1. CASE AnswerModel(q)
        <4>1. PICK pc : ans' = [ans EXCEPT ![q].pc = pc]
          BY <3>1 DEF AnswerModel, AnswerGoes
        <4> QED BY <4>1
      <3>2. CASE ~AnswerModel(q)
        BY <3>2 DEF AnswerStep, AnswerEarly, AnswerHistoryEpoch, AnswerHistoryFlag, AnswerHistory, AnswerMemoryEpoch, AnswerMemoryFlag, SaveEpoch, SaveCheck, SaveFlag, SavePut, SaveRecheck, SaveDelete, AnswerGoes
      <3> QED BY <3>1, <3>2
    <2> QED BY <2>1, <1>0
  <1>4. LeftFresh' /\ Unasked'
    <2>1. LeftFresh'
      BY <1>1 DEF LeftInv, LeftFresh
    <2>2. rep[q].pc # "idle"
      BY <1>2 DEF LeftInv, Unasked
    <2>3. Unasked'
      BY <1>1, <1>3, <2>2 DEF LeftInv, Unasked
    <2> QED BY <2>1, <2>3
  (* What the step does to the conversations.                                 *)
  <1>5. \/ /\ ans[q].pc \notin {"recheck", "delete"} /\ conv' = conv
        \/ /\ conv' = [conv EXCEPT ![ans[q].e] = ans[q].seen \cup {q}]
           /\ ans[q].pc = "put" /\ ans'[q].pc = "recheck" /\ ans'[q].e = ans[q].e
        \/ /\ conv' = conv /\ ans[q].pc = "recheck"
           /\ marker = ans[q].e \/ (ans'[q].pc = "delete" /\ ans'[q].e = ans[q].e)
        \/ /\ conv' = [conv EXCEPT ![ans[q].e] = {}] /\ ans[q].pc = "delete"
    <2>1. CASE SavePut(q)
      BY <1>0, <2>1 DEF SavePut, AnswerGoes, Answer
    <2>2. CASE SaveRecheck(q)
      <3>1. CASE marker = ans[q].e
        BY <2>2, <3>1 DEF SaveRecheck
      <3>2. CASE marker # ans[q].e
        <4>1. ans' = [ans EXCEPT ![q].pc = "delete"]
          BY <2>2, <3>2 DEF SaveRecheck, AnswerGoes
        <4> QED BY <1>0, <2>2, <4>1 DEF SaveRecheck, Answer
      <3> QED BY <3>1, <3>2
    <2>3. CASE SaveDelete(q)
      BY <2>3 DEF SaveDelete
    <2>4. CASE ~(SavePut(q) \/ SaveRecheck(q) \/ SaveDelete(q))
      BY <2>4 DEF AnswerStep, AnswerEarly, AnswerHistoryEpoch, AnswerHistoryFlag, AnswerHistory, AnswerModel, AnswerMemoryEpoch, AnswerMemoryFlag, SaveEpoch, SaveCheck, SaveFlag
    <2> QED BY <2>1, <2>2, <2>3, <2>4
  <1>6. Covered => Covered'
    <2> SUFFICES ASSUME Covered, NEW e \in left
                 PROVE  /\ conv'[e] # {} => Saving(e)' \/ Deleting(<<"conv", e>>)'
                        /\ \A p \in Question : job[e][p] # Absent =>
                             rep[p].pc \in {"recheck", "delete"} \/ Deleting(<<"job", e, p>>)'
      BY <1>1, Zenon DEF Covered
    <2>1. \A x : Deleting(x) => Deleting(x)'
      BY <1>1 DEF Deleting
    <2>2. \A p \in Question : job[e][p] # Absent =>
            rep[p].pc \in {"recheck", "delete"} \/ Deleting(<<"job", e, p>>)'
      BY <2>1 DEF Covered
    <2>3. ASSUME conv'[e] # {}
          PROVE  Saving(e)' \/ Deleting(<<"conv", e>>)'
      <3>1. marker # e /\ e \in Epoch
        BY <1>0 DEF LeftInv, LeftFresh
      <3>2. CASE conv'[e] # conv[e]
        <4>1. ans'[q].pc = "recheck" /\ ans'[q].e = e
          BY <1>0, <1>5, <2>3, <3>1, <3>2
        <4> QED BY <4>1 DEF Saving
      <3>3. CASE conv'[e] = conv[e]
        <4>1. CASE Deleting(<<"conv", e>>)
          BY <2>1, <4>1
        <4>2. CASE Saving(e)
          <5>1. PICK p \in Question : ans[p].pc \in {"recheck", "delete"} /\ ans[p].e = e
            BY <4>2 DEF Saving
          <5>2. CASE p # q
            BY <1>3, <5>1, <5>2 DEF Saving
          <5>3. CASE p = q
            <6>1. ans'[q].pc = "delete" /\ ans'[q].e = e
              BY <1>0, <1>5, <2>3, <3>1, <5>1, <5>3
            <6> QED BY <6>1 DEF Saving
          <5> QED BY <5>2, <5>3
        <4> QED BY <2>3, <3>3, <4>1, <4>2 DEF Covered
      <3> QED BY <3>2, <3>3
    <2> QED BY <2>2, <2>3
  <1> QED BY <1>1, <1>4, <1>6 DEF LeftInv

(* A step of a reply: a record it stored late it removes itself.              *)
LEMMA LeftReplies ==
    ASSUME TypeOK, OwnEpoch, LeftInv, NEW q \in Question, ReplyMoves(q)
    PROVE  LeftInv'
  <1>0. /\ ans \in [Question -> Answer] /\ rep \in [Question -> Reply]
        /\ job \in [Epoch -> [Question -> Status \cup {Absent}]]
        /\ rep[q].epoch \in Epoch /\ \A e \in left : e \in Epoch
    BY DEF TypeOK, Reply
  <1>1. UNCHANGED <<marker, rotations, conv, cmd, faults, kills, left>>
    BY DEF ReplyMoves, Ask, Park, ReplyStep, ReplyQuick, JobCheck, JobPut, PutAt, JobRecheck, JobDelete, JobCompletes, ReplyReference, Complete, ReplyUnchanged
  <1>2. \/ ans' = ans /\ rep[q].pc # "idle"
        \/ rep[q].pc = "idle" /\ ans' = [ans EXCEPT ![q].pc = "epoch"]
    BY DEF ReplyMoves, Ask, Park, ReplyStep, ReplyQuick, JobCheck, JobPut, PutAt, JobRecheck, JobDelete, JobCompletes, ReplyReference, Complete, AnswerGoes
  (* What the step does to the reply and the record of q.                     *)
  <1>3. /\ \A p \in Question \ {q} : rep'[p] = rep[p]
        /\ rep'[q].pc # "idle"
        /\ \/ /\ job' = job /\ rep[q].pc \notin {"recheck", "delete"}
           \/ /\ job' = job /\ rep[q].pc = "recheck"
              /\ marker = rep[q].epoch \/ rep'[q].pc = "delete"
           \/ /\ \E v : job' = [job EXCEPT ![rep[q].epoch][q] = v]
              /\ rep'[q].pc = "recheck"
           \/ /\ job' = [job EXCEPT ![rep[q].epoch][q] = Absent]
              /\ rep[q].pc = "delete"
    <2>1. CASE Ask(q)
      BY <1>0, <2>1 DEF Ask, Reply
    <2>2. CASE Park(q)
      <3>1. PICK pc \in {"check", "done"} :
              rep' = [rep EXCEPT ![q].pc = pc, ![q].status = "pending"]
        BY <2>2 DEF Park
      <3> QED BY <1>0, <2>2, <3>1 DEF Park, Reply
    <2>3. CASE ReplyQuick(q) \/ ReplyReference(q)
      BY <1>0, <2>3 DEF ReplyQuick, ReplyReference, ReplyGoes, Reply
    <2>4. CASE JobCheck(q)
      <3>1. PICK pc \in {"put", "done"} : rep' = [rep EXCEPT ![q].pc = pc]
        BY <2>4 DEF JobCheck, JobRefused, ReplyGoes
      <3> QED BY <1>0, <2>4, <3>1 DEF JobCheck, Reply
    <2>5. CASE JobPut(q)
      BY <1>0, <2>5 DEF JobPut, PutAt, ReplyGoes, Reply
    <2>6. CASE JobRecheck(q)
      <3>1. CASE marker = rep[q].epoch
        <4>1. PICK pc \in {"tell", "done"} : rep' = [rep EXCEPT ![q].pc = pc]
          BY <2>6, <3>1 DEF JobRecheck, JobStored, ReplyGoes
        <4> QED BY <1>0, <2>6, <3>1, <4>1 DEF JobRecheck, Reply
      <3>2. CASE marker # rep[q].epoch
        BY <1>0, <2>6, <3>2 DEF JobRecheck, ReplyGoes, Reply
      <3> QED BY <3>1, <3>2
    <2>7. CASE JobDelete(q)
      <3>1. rep' = [rep EXCEPT ![q].pc = "done"]
        BY <2>7 DEF JobDelete, JobRefused, ReplyGoes
      <3> QED BY <1>0, <2>7, <3>1 DEF JobDelete, Reply
    <2>8. CASE JobCompletes(q)
      BY <1>0, <2>8 DEF JobCompletes, Complete, Reply
    <2> QED BY <2>1, <2>2, <2>3, <2>4, <2>5, <2>6, <2>7, <2>8 DEF ReplyMoves, ReplyStep
  <1>4. LeftFresh' /\ Unasked'
    <2>1. LeftFresh'
      BY <1>1 DEF LeftInv, LeftFresh
    <2>2. \A p \in Question \ {q} : ans'[p] = ans[p]
      BY <1>0, <1>2
    <2>3. Unasked'
      BY <1>3, <2>2 DEF LeftInv, Unasked
    <2> QED BY <2>1, <2>3
  <1>5. Covered => Covered'
    <2> SUFFICES ASSUME Covered, NEW e \in left
                 PROVE  /\ conv[e] # {} => Saving(e)' \/ Deleting(<<"conv", e>>)'
                        /\ \A p \in Question : job'[e][p] # Absent =>
                             rep'[p].pc \in {"recheck", "delete"} \/ Deleting(<<"job", e, p>>)'
      BY <1>1, Zenon DEF Covered
    <2>1. \A x : Deleting(x) => Deleting(x)'
      BY <1>1 DEF Deleting
    <2>2. Saving(e) => Saving(e)'
      <3>1. \A p \in Question : ans[p].pc \in {"recheck", "delete"} => ans'[p] = ans[p]
        BY <1>0, <1>2 DEF LeftInv, Unasked
      <3> QED BY <3>1 DEF Saving
    <2>3. ASSUME NEW p \in Question, job'[e][p] # Absent
          PROVE  rep'[p].pc \in {"recheck", "delete"} \/ Deleting(<<"job", e, p>>)'
      <3>1. marker # e /\ e \in Epoch
        BY <1>0 DEF LeftInv, LeftFresh
      <3>2. CASE p # q
        <4>0. UNCHANGED job \/ \E v : job' = [job EXCEPT ![rep[q].epoch][q] = v]
          BY <1>3
        <4>1. job'[e][p] = job[e][p] /\ rep'[p] = rep[p]
          <5>1. CASE UNCHANGED job BY <1>3, <3>2, <5>1
          <5>2. ASSUME NEW v, job' = [job EXCEPT ![rep[q].epoch][q] = v]
                PROVE  job'[e][p] = job[e][p]
            BY <1>0, <3>1, <3>2, <5>2
          <5> QED BY <1>3, <3>2, <4>0, <5>1, <5>2
        <4> QED BY <2>1, <2>3, <4>1 DEF Covered
      <3>3. CASE p = q /\ job'[e][q] # job[e][q]
        <4>1. rep'[q].pc = "recheck"
          BY <1>0, <1>3, <2>3, <3>1, <3>3
        <4> QED BY <3>3, <4>1
      <3>4. CASE p = q /\ job'[e][q] = job[e][q]
        <4>1. e = rep[q].epoch
          BY <2>3, <3>1, <3>4 DEF OwnEpoch
        <4>2. CASE rep[q].pc \in {"recheck", "delete"}
          BY <1>0, <1>3, <2>3, <3>1, <3>4, <4>1, <4>2
        <4>3. CASE Deleting(<<"job", e, q>>)
          BY <2>1, <3>4, <4>3
        <4> QED BY <2>3, <3>4, <4>2, <4>3 DEF Covered
      <3> QED BY <3>2, <3>3, <3>4
    <2> QED BY <2>1, <2>2, <2>3 DEF Covered
  <1> QED BY <1>1, <1>4, <1>5 DEF LeftInv

(* A command: rotating puts a deletion on the way to every record, listing    *)
(* puts every stored key on its list, and a key leaves the list when the      *)
(* record is gone.                                                            *)
LEMMA LeftCommands ==
    ASSUME TypeOK, Fresh, LeftInv, NEW k \in Command, CommandMoves(k)
    PROVE  LeftInv'
  <1>0. /\ cmd \in [Command -> Control] /\ cmd[k].e \in Epoch /\ cmd[k].todo \subseteq Key
        /\ conv \in [Epoch -> SUBSET Question] /\ \A e \in left : e \in Epoch
        /\ job \in [Epoch -> [Question -> Status \cup {Absent}]]
        /\ rotations \in Nat /\ marker \in Nat
    BY DEF TypeOK, Control, Epoch
  <1>1. UNCHANGED <<ans, rep, faults, kills>>
    BY DEF CommandMoves, CommandStart, CommandStep, CommandEpoch, CommandFlag, CommandConversation, Rotate, List, DeleteKey, DeleteDone, CommandUnchanged
  <1>2. Unasked'
    BY <1>1 DEF LeftInv, Unasked
  <1>3. LeftFresh'
    <2>1. CASE Rotate(k)
      <3>1. /\ marker' = rotations + 1 /\ rotations' = rotations + 1
            /\ left' = left \cup {marker}
        BY <2>1 DEF Rotate
      <3>2. marker <= rotations /\ \A e \in left : e \in Nat
        BY MaxEpochAssumption DEF Epoch, TypeOK, LeftInv, LeftFresh, Fresh
      <3> QED BY <1>0, <3>1, <3>2 DEF LeftInv, LeftFresh
    <2>2. CASE UNCHANGED <<marker, rotations, left>>
      BY <2>2 DEF LeftInv, LeftFresh
    <2> QED BY <2>1, <2>2 DEF CommandMoves, CommandStart, CommandStep, CommandEpoch, CommandFlag, CommandConversation, List, DeleteKey, DeleteDone, kv
  <1>4. ASSUME Covered
        PROVE  Covered'
    <2>1. CASE Rotate(k)
      <3>1. cmd'[k].pc = "list"
        BY <1>0, <2>1 DEF Rotate, CommandGoes, Control
      <3>2. \A x : Deleting(x)'
        BY <3>1 DEF Deleting
      <3> QED BY <3>2 DEF Covered
    <2>2. CASE List(k)
      <3>1. cmd'[k].pc = "delete" /\ cmd'[k].todo = Stored /\ UNCHANGED <<conv, job, left>>
        BY <1>0, <2>2 DEF List, Control, kv
      <3>2. \A x \in Stored : Deleting(x)'
        BY <3>1 DEF Deleting
      <3>3. \A e \in left : conv[e] # {} => <<"conv", e>> \in Stored
        BY <1>0 DEF Stored
      <3>4. ASSUME NEW e \in left, NEW q \in Question, job[e][q] # Absent
            PROVE  <<"job", e, q>> \in Stored
        <4>1. <<"job", e, q>> \in Key
          BY <1>0 DEF Key
        <4> QED BY <3>4, <4>1 DEF Stored
      <3> QED BY <3>1, <3>2, <3>3, <3>4 DEF Covered
    <2>3. CASE DeleteKey(k)
      <3>1. PICK x \in cmd[k].todo :
              /\ cmd' = [cmd EXCEPT ![k].todo = @ \ {x}]
              /\ conv' = IF x[1] = "conv" THEN [conv EXCEPT ![x[2]] = {}] ELSE conv
              /\ job' = IF x[1] = "job" THEN [job EXCEPT ![x[2]][x[3]] = Absent] ELSE job
        BY <2>3 DEF DeleteKey
      <3>2. x \in Key /\ left' = left
        BY <1>0, <2>3 DEF DeleteKey
      <3>3. \A y : y # x /\ Deleting(y) => Deleting(y)'
        BY <1>0, <3>1 DEF Deleting, Control
      <3>4. \A e \in Epoch : conv'[e] \in {conv[e], {}}
        BY <1>0, <3>1
      <3>5. \A e \in Epoch, q \in Question : job'[e][q] \in {job[e][q], Absent}
        BY <3>1, <3>2, KeyRemoved
      <3>6. \A e \in left : <<"conv", e>> = x => conv'[e] = {}
        BY <1>0, <3>1
      <3>7. \A e \in left, q \in Question : <<"job", e, q>> = x => job'[e][q] = Absent
        BY <1>0, <3>1
      <3>8. ASSUME NEW e \in left
            PROVE  /\ conv'[e] # {} => Saving(e)' \/ Deleting(<<"conv", e>>)'
                   /\ \A q \in Question : job'[e][q] # Absent =>
                         rep[q].pc \in {"recheck", "delete"} \/ Deleting(<<"job", e, q>>)'
        <4>1. Saving(e) => Saving(e)'
          BY <1>1 DEF Saving
        <4>2. conv'[e] # {} => conv[e] # {} /\ <<"conv", e>> # x
          BY <1>0, <3>4, <3>6
        <4>3. \A q \in Question : job'[e][q] # Absent => job[e][q] # Absent /\ <<"job", e, q>> # x
          BY <1>0, <3>5, <3>7
        <4> QED BY <1>4, <3>3, <4>1, <4>2, <4>3 DEF Covered
      <3> QED BY <1>1, <3>2, <3>8 DEF Covered
    <2>4. CASE ~(Rotate(k) \/ List(k) \/ DeleteKey(k))
      <3>1. /\ UNCHANGED <<job, left>>
            /\ cmd[k].pc = "delete" => cmd[k].todo = {}
            /\ cmd[k].pc # "list"
        BY <2>4 DEF CommandMoves, CommandStart, CommandStep, CommandEpoch, CommandFlag, CommandConversation, DeleteDone, kv
      <3>2. \A e \in Epoch : conv'[e] \in {conv[e], {}}
        BY <1>0, <2>4 DEF CommandMoves, CommandStart, CommandStep, CommandEpoch, CommandFlag, CommandConversation, DeleteDone, kv
      <3>3. \A j \in Command \ {k} : cmd'[j] = cmd[j]
        <4>1. CASE CommandStart(k)
          <5>1. PICK kind \in Kind :
                  cmd' = [cmd EXCEPT ![k].kind = kind,
                             ![k].pc = IF kind = "delete" THEN "rotate" ELSE "epoch"]
            BY <4>1 DEF CommandStart
          <5> QED BY <1>0, <5>1
        <4>2. CASE CommandEpoch(k) BY <1>0, <4>2 DEF CommandEpoch
        <4>3. CASE CommandFlag(k) BY <1>0, <4>3 DEF CommandFlag, CommandGoes
        <4>4. CASE CommandConversation(k) BY <1>0, <4>4 DEF CommandConversation, CommandGoes
        <4>5. CASE DeleteDone(k) BY <1>0, <4>5 DEF DeleteDone, CommandGoes
        <4> QED BY <2>4, <4>1, <4>2, <4>3, <4>4, <4>5 DEF CommandMoves, CommandStep
      <3>4. \A x : Deleting(x) => Deleting(x)'
        BY <3>1, <3>3 DEF Deleting
      <3>5. ASSUME NEW e \in left
            PROVE  /\ conv'[e] # {} => Saving(e)' \/ Deleting(<<"conv", e>>)'
                   /\ \A q \in Question : job[e][q] # Absent =>
                         rep[q].pc \in {"recheck", "delete"} \/ Deleting(<<"job", e, q>>)'
        <4>1. Saving(e) => Saving(e)'
          BY <1>1 DEF Saving
        <4>2. conv'[e] # {} => conv[e] # {}
          BY <1>0, <3>2
        <4> QED BY <1>4, <3>4, <4>1, <4>2 DEF Covered
      <3> QED BY <1>1, <3>1, <3>5 DEF Covered
    <2> QED BY <2>1, <2>2, <2>3, <2>4
  <1> QED BY <1>1, <1>2, <1>3, <1>4 DEF LeftInv

(* A failed call or a killed Worker leaves nothing to show; what expires is   *)
(* only removed, and the marker falls back to an epoch nobody left.           *)
LEMMA LeftFailures ==
    ASSUME TypeOK, LeftInv, Failures
    PROVE  LeftInv'
  <1>1. CASE CallFails
    <2>0. /\ UNCHANGED <<marker, rotations, left>> /\ faults' = faults + 1 /\ faults \in Nat
      BY <1>1 DEF CallFails, kv, history, TypeOK
    <2>1. faults' # 0
      BY <2>0
    <2>2. Unasked'
      <3>1. CASE UNCHANGED <<ans, rep>>
        BY <3>1 DEF LeftInv, Unasked
      <3>2. ASSUME NEW q \in Question, ans[q].pc # "idle", rep' = rep,
                   ans' = [ans EXCEPT ![q].pc = "failed"]
            PROVE  Unasked'
        BY <3>2 DEF LeftInv, Unasked, TypeOK
      <3>3. ASSUME NEW q \in Question, rep[q].pc # "idle", ans' = ans,
                   rep' = IF rep[q].status = "complete"
                          THEN [rep EXCEPT ![q].pc = "check", ![q].status = "error"]
                          ELSE [rep EXCEPT ![q].pc = "done"]
            PROVE  Unasked'
        <4>1. \A p \in Question : rep'[p].pc = "idle" => rep[p].pc = "idle"
          <5>0. rep \in [Question -> Reply]
            BY DEF TypeOK
          <5>1. CASE rep' = [rep EXCEPT ![q].pc = "check", ![q].status = "error"]
            BY <5>0, <5>1 DEF Reply
          <5>2. CASE rep' = [rep EXCEPT ![q].pc = "done"]
            BY <5>0, <5>2 DEF Reply
          <5> QED BY <3>3, <5>1, <5>2
        <4> QED BY <3>3, <4>1 DEF LeftInv, Unasked
      <3> QED BY <1>1, <3>1, <3>2, <3>3 DEF CallFails, AnswerGoes
    <2> QED BY <2>0, <2>1, <2>2 DEF LeftInv, LeftFresh
  <1>2. CASE MarkerExpires
    <2>1. /\ marker' = 0 /\ left' = left \ {0}
          /\ UNCHANGED <<rotations, conv, job, ans, rep, cmd, faults, kills>>
      BY <1>2 DEF MarkerExpires
    <2>2. Covered => Covered'
      BY <2>1 DEF Covered, Saving, Deleting
    <2> QED BY <2>1, <2>2 DEF LeftInv, LeftFresh, Unasked
  <1>3. CASE RecordExpires
    <2>1. PICK x \in Stored :
            /\ conv' = IF x[1] = "conv" THEN [conv EXCEPT ![x[2]] = {}] ELSE conv
            /\ job' = IF x[1] = "job" THEN [job EXCEPT ![x[2]][x[3]] = Absent] ELSE job
      BY <1>3 DEF RecordExpires
    <2>2. x \in Key
      BY StoredType
    <2>3. \A e \in Epoch : conv'[e] \in {conv[e], {}}
      BY <2>1 DEF TypeOK
    <2>4. \A e \in Epoch, q \in Question : job'[e][q] \in {job[e][q], Absent}
      BY <2>1, <2>2, KeyRemoved
    <2>5. UNCHANGED <<marker, rotations, ans, rep, cmd, faults, kills, left>>
      BY <1>3 DEF RecordExpires, history
    <2> QED BY <2>3, <2>4, <2>5, LeftRemoved
  <1>4. ASSUME NEW q \in Question, WorkerKilled(q)
        PROVE  LeftInv'
    <2>0. /\ UNCHANGED <<marker, rotations, left>> /\ kills' = kills + 1 /\ kills \in Nat
      BY <1>4 DEF WorkerKilled, kv, history, TypeOK
    <2>1. kills' # 0
      BY <2>0
    <2>2. Unasked'
      <3>1. rep' = [rep EXCEPT ![q].pc = "done"] /\ rep \in [Question -> Reply]
        BY <1>4 DEF WorkerKilled, ReplyGoes, TypeOK
      <3>2. \A p \in Question \ {q} : ans'[p] = ans[p]
        BY <1>4 DEF WorkerKilled, TypeOK
      <3> QED BY <3>1, <3>2 DEF LeftInv, Unasked, Reply
    <2> QED BY <2>0, <2>1, <2>2 DEF LeftInv, LeftFresh
  <1> QED BY <1>1, <1>2, <1>3, <1>4 DEF Failures

LEMMA LeftInvariant == Spec => []LeftInv
  <1>1. Init => LeftInv
    BY DEF Init, LeftInv, LeftFresh, Unasked, Covered
  <1>2. TypeOK /\ JobInv /\ LeftInv /\ [Next]_vars => LeftInv'
    <2> SUFFICES ASSUME TypeOK, JobInv, LeftInv, [Next]_vars
                 PROVE  LeftInv'
      OBVIOUS
    <2>1. CASE UNCHANGED vars
      BY <2>1, LeftRemoved DEF vars
    <2>2. CASE Next
      BY <2>2, NextMoves, LeftAnswers, LeftReplies, LeftCommands, LeftFailures DEF JobInv
    <2> QED BY <2>1, <2>2
  <1> QED BY <1>1, <1>2, TypeCorrect, JobInvariant, PTL DEF Spec

(* Delete-my-data removes everything, also what concurrent flows write while  *)
(* it lists: once nothing is in flight and nothing failed, an epoch that a    *)
(* deletion left holds no job and no conversation.                            *)
THEOREM DeletionIsComplete == Spec => []LeftEpochsEmpty
  <1>1. LeftInv => LeftEpochsEmpty
    <2> SUFFICES ASSUME LeftInv, Quiet, faults = 0, kills = 0, NEW e \in left
                 PROVE  conv[e] = {} /\ \A q \in Question : job[e][q] = Absent
      BY DEF LeftEpochsEmpty
    <2>1. \A x : ~Deleting(x)
      BY DEF Quiet, Deleting
    <2>2. ~Saving(e)
      BY DEF Quiet, Saving
    <2>3. \A q \in Question : rep[q].pc \notin {"recheck", "delete"}
      BY DEF Quiet
    <2> QED BY <2>1, <2>2, <2>3 DEF LeftInv, Covered
  <1> QED BY <1>1, LeftInvariant, PTL

-----------------------------------------------------------------------------
(* What a tenant can look up.  Records only go forward: a question that is    *)
(* about to write has a status its record has not reached yet, and only a     *)
(* question whose epoch a deletion left takes its record back.                *)
ForwardOf(q) ==
    /\ \A e \in Epoch : job[e][q] \in Jobs!Before[rep[q].status] \cup {rep[q].status}
    /\ rep[q].pc \in {"check", "put"} => \A e \in Epoch : job[e][q] # rep[q].status
    /\ rep[q].pc \in {"tell", "parked"} => rep[q].status = "pending"
    /\ rep[q].pc = "delete" => rep[q].epoch # marker
Forward == \A q \in Question : ForwardOf(q)

LEMMA Order ==
    /\ Jobs!Before["pending"] = {Absent}
    /\ Jobs!Before["complete"] = {Absent, "pending"}
    /\ Jobs!Before["error"] = {Absent, "pending", "complete"}
    /\ DOMAIN Jobs!Before = Status
  BY DEF Jobs!Before, Status

LEMMA NothingIsBefore == \A s \in Status : Absent \in Jobs!Before[s] /\ Absent # s
  BY Order DEF Status, Absent

(* What a step of a reply does to the reply and to the record of its question; *)
(* it leaves those of the others alone.                                       *)
Others(q) == \A p \in Question \ {q} : rep'[p] = rep[p] /\ \A e \in Epoch : job'[e][p] = job[e][p]
Begins(q) ==
    /\ rep[q].pc = "idle" /\ job' = job
    /\ rep'[q].pc = "wait" /\ rep'[q].epoch = marker /\ rep'[q].status = rep[q].status
Moves(q) ==
    /\ rep[q].pc # "idle" /\ job' = job /\ rep'[q].epoch = rep[q].epoch
    /\ \/ rep'[q].pc = "done" /\ rep'[q].status = rep[q].status
       \/ rep[q].pc = "wait" /\ rep'[q].pc \in {"check", "done"} /\ rep'[q].status = "pending"
       \/ rep[q].pc = "check" /\ rep'[q].pc = "put" /\ rep'[q].status = rep[q].status
       \/ /\ rep[q].pc = "recheck" /\ rep'[q].status = rep[q].status
          /\ \/ rep'[q].pc = "tell" /\ rep[q].status = "pending"
             \/ rep'[q].pc = "delete" /\ rep[q].epoch # marker
       \/ rep[q].pc = "tell" /\ rep'[q].pc = "parked" /\ rep'[q].status = rep[q].status
       \/ /\ rep[q].pc = "parked" /\ rep'[q].pc = "check"
          /\ rep'[q].status \in {"complete", "error"}
Puts(q) ==
    /\ rep[q].pc = "put" /\ job' = [job EXCEPT ![rep[q].epoch][q] = rep[q].status]
    /\ rep'[q].pc = "recheck" /\ rep'[q].epoch = rep[q].epoch /\ rep'[q].status = rep[q].status
Removes(q) ==
    /\ rep[q].pc = "delete" /\ job' = [job EXCEPT ![rep[q].epoch][q] = Absent]
    /\ rep'[q].pc = "done" /\ rep'[q].epoch = rep[q].epoch /\ rep'[q].status = rep[q].status

LEMMA ReplyEffect ==
    ASSUME TypeOK, NEW q \in Question, ReplyMoves(q)
    PROVE  /\ Others(q) /\ UNCHANGED marker
           /\ Begins(q) \/ Moves(q) \/ Puts(q) \/ Removes(q)
  <1>0. /\ rep \in [Question -> Reply] /\ rep[q] \in Reply
        /\ job \in [Epoch -> [Question -> Status \cup {Absent}]]
    BY DEF TypeOK
  <1>1. UNCHANGED marker
    BY DEF ReplyMoves, Ask, Park, ReplyStep, ReplyQuick, JobCheck, JobPut, PutAt, JobRecheck, JobDelete, JobCompletes, ReplyReference, Complete, ReplyUnchanged
  <1> DEFINE Same == \A p \in Question \ {q} : rep'[p] = rep[p]
  <1>2. Same /\ (Begins(q) \/ Moves(q) \/ Puts(q) \/ Removes(q))
    <2>1. CASE Ask(q)
      BY <1>0, <2>1 DEF Ask, Reply, Begins
    <2>2. CASE Park(q)
      <3>1. PICK pc \in {"check", "done"} :
              rep' = [rep EXCEPT ![q].pc = pc, ![q].status = "pending"]
        BY <2>2 DEF Park
      <3> QED BY <1>0, <2>2, <3>1 DEF Park, Reply, Moves
    <2>3. CASE ReplyQuick(q)
      BY <1>0, <2>3 DEF ReplyQuick, ReplyGoes, Reply, Moves
    <2>4. CASE JobCheck(q)
      <3>1. PICK pc \in {"put", "done"} : rep' = [rep EXCEPT ![q].pc = pc]
        BY <2>4 DEF JobCheck, JobRefused, ReplyGoes
      <3> QED BY <1>0, <2>4, <3>1 DEF JobCheck, Reply, Moves
    <2>5. CASE JobPut(q)
      BY <1>0, <2>5 DEF JobPut, PutAt, ReplyGoes, Reply, Puts
    <2>6. CASE JobRecheck(q)
      <3>1. CASE marker = rep[q].epoch
        <4>1. CASE rep[q].status = "pending"
          <5>1. rep' = [rep EXCEPT ![q].pc = "tell"]
            BY <2>6, <3>1, <4>1 DEF JobRecheck, JobStored, ReplyGoes
          <5> QED BY <1>0, <2>6, <4>1, <5>1 DEF JobRecheck, Reply, Moves
        <4>2. CASE rep[q].status # "pending"
          <5>1. rep' = [rep EXCEPT ![q].pc = "done"]
            BY <2>6, <3>1, <4>2 DEF JobRecheck, JobStored, ReplyGoes
          <5> QED BY <1>0, <2>6, <5>1 DEF JobRecheck, Reply, Moves
        <4> QED BY <4>1, <4>2
      <3>2. CASE marker # rep[q].epoch
        BY <1>0, <2>6, <3>2 DEF JobRecheck, ReplyGoes, Reply, Moves
      <3> QED BY <3>1, <3>2
    <2>7. CASE JobDelete(q)
      <3>1. rep' = [rep EXCEPT ![q].pc = "done"]
        BY <2>7 DEF JobDelete, JobRefused, ReplyGoes
      <3> QED BY <1>0, <2>7, <3>1 DEF JobDelete, Reply, Removes
    <2>8. CASE JobCompletes(q)
      BY <1>0, <2>8 DEF JobCompletes, Complete, Reply, Moves
    <2>9. CASE ReplyReference(q)
      BY <1>0, <2>9 DEF ReplyReference, ReplyGoes, Reply, Moves
    <2> QED BY <2>1, <2>2, <2>3, <2>4, <2>5, <2>6, <2>7, <2>8, <2>9 DEF ReplyMoves, ReplyStep
  <1>3. \A p \in Question \ {q}, e \in Epoch : job'[e][p] = job[e][p]
    <2>1. job' = job \/ \E v : job' = [job EXCEPT ![rep[q].epoch][q] = v]
      BY <1>2 DEF Begins, Moves, Puts, Removes
    <2>2. ASSUME NEW v, job' = [job EXCEPT ![rep[q].epoch][q] = v]
          PROVE  \A p \in Question \ {q}, e \in Epoch : job'[e][p] = job[e][p]
      BY <1>0, <2>2
    <2> QED BY <2>1, <2>2
  <1> QED BY <1>1, <1>2, <1>3 DEF Others

LEMMA ForwardReplies ==
    ASSUME TypeOK, JobInv, Forward, NEW q \in Question, ReplyMoves(q)
    PROVE  Forward'
  <1>0. /\ rep[q] \in Reply /\ rep[q].epoch \in Epoch /\ rep[q].status \in Status
        /\ job \in [Epoch -> [Question -> Status \cup {Absent}]]
        /\ marker' = marker /\ Others(q)
        /\ ForwardOf(q)
    BY ReplyEffect DEF TypeOK, Reply, Forward
  <1>1. \A p \in Question \ {q} : ForwardOf(p)'
    BY <1>0 DEF Forward, ForwardOf, Others
  <1>2. Unwritten(rep[q]) => \A e \in Epoch : job[e][q] = Absent
    BY DEF JobInv, NothingYet
  <1>3. ForwardOf(q)'
    <2>1. CASE Begins(q)
      BY <1>0, <1>2, <2>1, NothingIsBefore DEF Begins, ForwardOf, Unwritten
    <2>2. CASE Moves(q)
      <3>1. CASE /\ rep'[q].status = rep[q].status
                 /\ rep'[q].pc = "done" \/ rep[q].pc \in {"check", "recheck", "tell"}
        BY <1>0, <2>2, <3>1 DEF Moves, ForwardOf
      <3>2. CASE rep[q].pc = "wait" /\ rep'[q].pc \in {"check", "done"} /\ rep'[q].status = "pending"
        BY <1>0, <1>2, <2>2, <3>2, NothingIsBefore, Order DEF Moves, ForwardOf, Unwritten, Status
      <3>3. CASE rep[q].pc = "parked" /\ rep'[q].pc = "check" /\ rep'[q].status \in {"complete", "error"}
        <4>1. \A e \in Epoch : job[e][q] \in {Absent, "pending"}
          BY <1>0, <3>3, Order DEF ForwardOf
        <4> QED BY <2>2, <3>3, <4>1, Order DEF Moves, ForwardOf, Absent
      <3> QED BY <2>2, <3>1, <3>2, <3>3 DEF Moves
    <2>3. CASE Puts(q)
      <3>1. \A e \in Epoch : job'[e][q] \in {job[e][q], rep[q].status}
        BY <1>0, <2>3 DEF Puts
      <3> QED BY <1>0, <2>3, <3>1 DEF Puts, ForwardOf
    <2>4. CASE Removes(q)
      <3>1. \A e \in Epoch : job'[e][q] \in {job[e][q], Absent}
        BY <1>0, <2>4 DEF Removes
      <3> QED BY <1>0, <2>4, <3>1, NothingIsBefore DEF Removes, ForwardOf
    <2> QED BY <2>1, <2>2, <2>3, <2>4, ReplyEffect
  <1> QED BY <1>1, <1>3 DEF Forward

(* Every other step leaves the replies, or ends one, or turns a complete      *)
(* record that failed into an error record.                                   *)
Ended(q) == rep' = [rep EXCEPT ![q].pc = "done"]
Retried(q) == /\ rep[q].status = "complete" /\ rep[q].pc # "idle" /\ rep[q].pc # "done"
              /\ rep' = [rep EXCEPT ![q].pc = "check", ![q].status = "error"]

LEMMA ForwardRemoved ==
    ASSUME TypeOK, Forward, UNCHANGED rep,
           \A e \in Epoch, q \in Question : job'[e][q] \in {job[e][q], Absent},
           \A q \in Question : rep[q].pc = "delete" => rep[q].epoch # marker'
    PROVE  Forward'
  <1> SUFFICES ASSUME NEW q \in Question PROVE ForwardOf(q)'
    BY DEF Forward
  <1>1. ForwardOf(q) /\ rep[q].status \in Status
    BY DEF Forward, TypeOK, Reply
  <1> QED BY <1>1, NothingIsBefore DEF ForwardOf

LEMMA ForwardFailed ==
    ASSUME TypeOK, Forward, UNCHANGED <<marker, job>>, NEW q \in Question, Ended(q) \/ Retried(q)
    PROVE  Forward'
  <1>0. rep \in [Question -> Reply] /\ ForwardOf(q)
    BY DEF TypeOK, Forward
  <1>1. \A p \in Question \ {q} : ForwardOf(p)'
    BY <1>0 DEF Forward, ForwardOf, Ended, Retried
  <1>2. ForwardOf(q)'
    <2>1. CASE Ended(q)
      BY <1>0, <2>1 DEF Ended, Reply, ForwardOf
    <2>2. CASE Retried(q)
      <3>1. \A e \in Epoch : job[e][q] \in {Absent, "pending", "complete"}
        BY <1>0, <2>2, Order DEF Retried, ForwardOf
      <3>2. rep'[q].pc = "check" /\ rep'[q].status = "error"
        BY <1>0, <2>2 DEF Retried, Reply
      <3> QED BY <3>1, <3>2, Order DEF ForwardOf, Absent
    <2> QED BY <2>1, <2>2
  <1> QED BY <1>1, <1>2 DEF Forward

(* The other steps, by what they do to what a tenant can look up.             *)
Still == UNCHANGED <<marker, rep, job>>
Gone == UNCHANGED <<marker, rep>> /\ \E x \in Key :
    job' = IF x[1] = "job" THEN [job EXCEPT ![x[2]][x[3]] = Absent] ELSE job
Fails(q) == UNCHANGED <<marker, job>> /\ (Ended(q) \/ Retried(q)) /\ rep[q].pc # "idle"

LEMMA OtherEffect ==
    ASSUME TypeOK, Next
    PROVE  \/ \E q \in Question : ReplyMoves(q) \/ Fails(q)
           \/ Still \/ Gone
           \/ \E k \in Command : Rotate(k)
           \/ MarkerExpires
  <1>1. ASSUME NEW q \in Question, AnswerStep(q) PROVE Still
    BY <1>1 DEF AnswerStep, AnswerEarly, AnswerHistoryEpoch, AnswerHistoryFlag, AnswerHistory, AnswerModel, AnswerMemoryEpoch, AnswerMemoryFlag, SaveEpoch, SaveCheck, SaveFlag, SavePut, SaveRecheck, SaveDelete, AnswerUnchanged, Still
  <1>2. ASSUME NEW k \in Command, CommandMoves(k) PROVE Rotate(k) \/ Gone \/ Still
    <2>1. CASE DeleteKey(k)
      <3>1. PICK x \in cmd[k].todo :
              job' = IF x[1] = "job" THEN [job EXCEPT ![x[2]][x[3]] = Absent] ELSE job
        BY <2>1 DEF DeleteKey
      <3>2. x \in Key
        BY <3>1 DEF TypeOK, Control
      <3> QED BY <2>1, <3>1, <3>2 DEF DeleteKey, CommandUnchanged, Gone
    <2> QED BY <1>2, <2>1 DEF CommandMoves, CommandStart, CommandStep, CommandEpoch, CommandFlag, CommandConversation, List, DeleteDone, CommandUnchanged, kv, Still
  <1>3. CASE CallFails
    <2>1. UNCHANGED <<marker, job>>
      BY <1>3 DEF CallFails, kv
    <2>2. UNCHANGED rep \/ \E q \in Question :
             /\ rep[q].pc \in {"check", "put", "recheck", "delete", "tell"}
             /\ rep' = IF rep[q].status = "complete"
                       THEN [rep EXCEPT ![q].pc = "check", ![q].status = "error"]
                       ELSE [rep EXCEPT ![q].pc = "done"]
      BY <1>3 DEF CallFails
    <2> QED BY <2>1, <2>2 DEF Still, Fails, Ended, Retried
  <1>4. CASE RecordExpires
    BY <1>4, StoredType DEF RecordExpires, Gone
  <1>5. ASSUME NEW q \in Question, WorkerKilled(q) PROVE Fails(q)
    BY <1>5 DEF WorkerKilled, ReplyGoes, kv, Fails, Ended
  <1> QED BY <1>1, <1>2, <1>3, <1>4, <1>5, NextMoves DEF Failures

LEMMA ForwardInvariant == Spec => []Forward
  <1>1. Init => Forward
    BY Order DEF Init, Forward, ForwardOf
  <1>2. TypeOK /\ JobInv /\ Forward /\ [Next]_vars => Forward'
    <2> SUFFICES ASSUME TypeOK, JobInv, Forward, [Next]_vars PROVE Forward'
      OBVIOUS
    <2>0. \A q \in Question : rep[q].pc = "delete" => rep[q].epoch # marker
      BY DEF Forward, ForwardOf
    <2>1. CASE Still \/ UNCHANGED vars
      BY <2>0, <2>1, ForwardRemoved DEF Still, vars
    <2>2. CASE Gone
      <3>1. PICK x \in Key :
              job' = IF x[1] = "job" THEN [job EXCEPT ![x[2]][x[3]] = Absent] ELSE job
        BY <2>2 DEF Gone
      <3> QED BY <2>0, <2>2, <3>1, KeyRemoved, ForwardRemoved DEF Gone
    <2>3. ASSUME NEW k \in Command, Rotate(k) PROVE Forward'
      <3>1. marker' = rotations + 1 /\ UNCHANGED <<rep, job>>
        BY <2>3 DEF Rotate, CommandUnchanged
      <3>2. \A q \in Question : rep[q].epoch # rotations + 1
        BY DEF TypeOK, Reply, Epoch, JobInv, Fresh
      <3> QED BY <3>1, <3>2, ForwardRemoved
    <2>4. CASE MarkerExpires
      <3>1. \A q \in Question : rep[q].pc # "delete"
        BY <2>4 DEF MarkerExpires, Quiet
      <3> QED BY <2>4, <3>1, ForwardRemoved DEF MarkerExpires
    <2>5. ASSUME NEW q \in Question, ReplyMoves(q) PROVE Forward'
      BY <2>5, ForwardReplies
    <2>6. ASSUME NEW q \in Question, Fails(q) PROVE Forward'
      BY <2>6, ForwardFailed DEF Fails
    <2> QED BY <2>1, <2>2, <2>3, <2>4, <2>5, <2>6, OtherEffect
  <1> QED BY <1>1, <1>2, TypeCorrect, JobInvariant, PTL DEF Spec

(* The refinement, step by step. *)
Open == {q \in Begun : rep[q].pc # "done" /\ rep[q].epoch = marker}
View == <<job[marker], Open, Begun>>

LEMMA JobsView ==
    ASSUME [Jobs!Next]_View
    PROVE  [Jobs!Next]_<<job[marker], {q \in Begun : rep[q].pc # "done" /\ rep[q].epoch = marker}, Begun>>
  BY DEF View, Open

(* Replies. *)
LEMMA RepliesShow ==
    ASSUME TypeOK, Forward, NEW q \in Question, ReplyMoves(q)
    PROVE  [Jobs!Next]_View
  <1>0. /\ rep[q] \in Reply /\ rep[q].epoch \in Epoch /\ rep[q].status \in Status
        /\ job \in [Epoch -> [Question -> Status \cup {Absent}]] /\ marker \in Epoch
        /\ marker' = marker /\ Others(q)
        /\ ForwardOf(q)
    BY ReplyEffect DEF TypeOK, Reply, Forward
  <1>1. CASE Begins(q)
    <2>1. Begun' = Begun \cup {q} /\ q \notin Begun
      BY <1>0, <1>1 DEF Begun, Others, Begins
    <2>2. Open' = Open \cup {q}
      BY <1>0, <1>1 DEF Begun, Open, Others, Begins
    <2>3. UNCHANGED job[marker]
      BY <1>0, <1>1 DEF Begins
    <2>4. Jobs!Begin
      BY <2>1, <2>2, <2>3 DEF Jobs!Begin, Open
    <2> QED BY <2>4 DEF Jobs!Next
  <1>2. CASE Moves(q) \/ Puts(q) \/ Removes(q)
    <2>1. rep[q].pc # "idle" /\ rep'[q].pc # "idle" /\ rep'[q].epoch = rep[q].epoch
      BY <1>2 DEF Moves, Puts, Removes
    <2>2. Begun' = Begun
      BY <1>0, <2>1 DEF Begun, Others
    <2>3. CASE Moves(q) \/ Removes(q)
      <3>1. UNCHANGED job[marker]
        <4>1. CASE Moves(q) BY <1>0, <4>1 DEF Moves
        <4>2. CASE Removes(q)
          <5>1. rep[q].epoch # marker
            BY <1>0, <4>2 DEF Removes, ForwardOf
          <5> QED BY <1>0, <4>2, <5>1 DEF Removes
        <4> QED BY <2>3, <4>1, <4>2
      <3>2. CASE rep'[q].pc = "done" /\ q \in Open
        <4>1. Open' = Open \ {q}
          BY <1>0, <2>1, <3>2 DEF Open, Begun, Others
        <4>2. Jobs!End
          BY <2>2, <3>1, <3>2, <4>1 DEF Jobs!End, Open
        <4> QED BY <4>2 DEF Jobs!Next
      <3>3. CASE rep'[q].pc # "done" \/ q \notin Open
        <4>1. rep'[q].pc # "done" => rep[q].pc # "done"
          BY <2>3, <3>3 DEF Moves, Removes
        <4>2. Open' = Open
          BY <1>0, <2>1, <3>3, <4>1 DEF Open, Begun, Others
        <4> QED BY <2>2, <3>1, <4>2 DEF View
      <3> QED BY <3>2, <3>3
    <2>4. CASE Puts(q)
      <3>1. Open' = Open
        BY <1>0, <2>1, <2>4 DEF Open, Begun, Others, Puts
      <3>2. CASE rep[q].epoch # marker
        <4>1. UNCHANGED job[marker]
          BY <1>0, <2>4, <3>2 DEF Puts
        <4> QED BY <2>2, <3>1, <4>1 DEF View
      <3>3. CASE rep[q].epoch = marker
        <4>1. q \in Open
          BY <2>1, <2>4, <3>3 DEF Open, Begun, Puts
        <4>2. job[marker][q] \in Jobs!Before[rep[q].status] /\ rep[q].status \in DOMAIN Jobs!Before
          BY <1>0, <2>4, Order DEF Puts, ForwardOf
        <4>3. (job[marker])' = [job[marker] EXCEPT ![q] = rep[q].status]
          BY <1>0, <2>4, <3>3 DEF Puts
        <4>4. Jobs!Record
          BY <2>2, <3>1, <4>1, <4>2, <4>3 DEF Jobs!Record, Open
        <4> QED BY <4>4 DEF Jobs!Next
      <3> QED BY <3>2, <3>3
    <2> QED BY <1>2, <2>3, <2>4
  <1> QED BY <1>1, <1>2, ReplyEffect

(* A question that ends, or is to be recorded as an error. *)
LEMMA FailuresShow ==
    ASSUME TypeOK, NEW q \in Question, Fails(q)
    PROVE  [Jobs!Next]_View
  <1>0. /\ rep \in [Question -> Reply] /\ UNCHANGED <<marker, job>>
        /\ \A p \in Question : rep'[p].epoch = rep[p].epoch
        /\ \A p \in Question \ {q} : rep'[p] = rep[p]
        /\ rep[q].pc # "idle" /\ rep'[q].pc # "idle"
    <2>0. rep \in [Question -> Reply]
      BY DEF TypeOK
    <2>1. CASE Ended(q)
      BY <2>0, <2>1 DEF Fails, Ended, Reply
    <2>2. CASE Retried(q)
      BY <2>0, <2>2 DEF Fails, Retried, Reply
    <2> QED BY <2>1, <2>2 DEF Fails
  <1>1. UNCHANGED job[marker] /\ Begun' = Begun
    BY <1>0 DEF Begun
  <1>2. CASE Ended(q) /\ q \in Open
    <2>1. Open' = Open \ {q}
      BY <1>0, <1>2 DEF Open, Begun, Ended, Reply
    <2>2. Jobs!End
      BY <1>1, <1>2, <2>1 DEF Jobs!End, Open
    <2> QED BY <2>2 DEF Jobs!Next
  <1>3. CASE Retried(q) \/ q \notin Open
    <2>1. Open' = Open
      <3>1. CASE Retried(q)
        BY <1>0, <3>1 DEF Open, Begun, Retried, Reply
      <3>2. CASE Ended(q) /\ q \notin Open
        BY <1>0, <3>2 DEF Open, Begun, Ended, Reply
      <3> QED BY <1>3, <3>1, <3>2 DEF Fails
    <2> QED BY <1>1, <2>1 DEF View
  <1> QED BY <1>2, <1>3 DEF Fails

(* A record that expires or is deleted by its key. *)
LEMMA GoneShows ==
    ASSUME TypeOK, Gone
    PROVE  [Jobs!Next]_View
  <1>0. /\ UNCHANGED <<marker, rep>> /\ marker \in Epoch
        /\ job \in [Epoch -> [Question -> Status \cup {Absent}]]
    BY DEF TypeOK, Gone
  <1>1. Open' = Open /\ Begun' = Begun
    BY <1>0 DEF Open, Begun
  <1>2. PICK x \in Key :
          job' = IF x[1] = "job" THEN [job EXCEPT ![x[2]][x[3]] = Absent] ELSE job
    BY DEF Gone
  <1>3. CASE x[1] = "job" /\ x[2] = marker
    <2>1. x[3] \in Question /\ (job[marker])' = [job[marker] EXCEPT ![x[3]] = Absent]
      BY <1>0, <1>2, <1>3, StoredKeys
    <2>2. Jobs!Expire
      BY <1>1, <2>1 DEF Jobs!Expire, Open
    <2> QED BY <2>2 DEF Jobs!Next
  <1>4. CASE ~(x[1] = "job" /\ x[2] = marker)
    <2>1. UNCHANGED job[marker]
      BY <1>0, <1>2, <1>4, StoredKeys
    <2> QED BY <1>1, <2>1 DEF View
  <1> QED BY <1>3, <1>4

(* Moving to an epoch under which nothing is stored and nobody may write.     *)
LEMMA EpochShows ==
    ASSUME TypeOK, UNCHANGED <<job, rep>>, marker' \in Epoch,
           \A q \in Question : job[marker'][q] = Absent,
           \A q \in Begun : rep[q].pc # "done" => rep[q].epoch # marker'
    PROVE  [Jobs!Next]_View
  <1>1. (job[marker])' = [q \in Question |-> Absent]
    BY DEF TypeOK
  <1>2. Open' = {} /\ Begun' = Begun
    BY DEF Open, Begun
  <1>3. Jobs!Delete
    BY <1>1, <1>2 DEF Jobs!Delete, Open
  <1> QED BY <1>3 DEF Jobs!Next

LEMMA RotationShows ==
    ASSUME TypeOK, JobInv, NEW k \in Command, Rotate(k)
    PROVE  [Jobs!Next]_View
  <1>1. /\ marker' = rotations + 1 /\ rotations < MaxEpoch /\ UNCHANGED <<rep, job>>
    BY DEF Rotate, CommandUnchanged
  <1>2. rotations \in Nat /\ rotations + 1 \in Epoch
    BY <1>1, MaxEpochAssumption DEF TypeOK, Epoch
  <1>3. \A q \in Question : rep[q].epoch # rotations + 1 /\ job[rotations + 1][q] = Absent
    BY <1>2 DEF TypeOK, Reply, Epoch, JobInv, Fresh
  <1>4. \A q \in Begun : q \in Question
    BY DEF Begun
  <1> QED BY <1>1, <1>2, <1>3, <1>4, EpochShows

LEMMA ExpiryShows ==
    ASSUME TypeOK, MarkerExpires
    PROVE  [Jobs!Next]_View
  <1>1. marker' = 0 /\ marker # 0 /\ UNCHANGED <<rep, job>> /\ Quiet
    BY DEF MarkerExpires
  <1>2. 0 \in Epoch
    BY MaxEpochAssumption DEF Epoch
  <1>3. \A q \in Question : job[0][q] = Absent
    <2> SUFFICES ASSUME NEW q \in Question, job[0][q] # Absent
                 PROVE  FALSE
      OBVIOUS
    <2>1. <<"job", 0, q>> \in Key
      BY <1>2 DEF Key
    <2>2. <<"job", 0, q>> \in Stored
      BY <2>1 DEF Stored
    <2>3. \A x \in Stored : x[2] = marker
      BY DEF MarkerExpires
    <2> QED BY <1>1, <2>2, <2>3
  <1>4. \A q \in Begun : rep[q].pc = "done"
    BY <1>1 DEF Quiet, Begun
  <1> QED BY <1>1, <1>2, <1>3, <1>4, EpochShows

(* Whatever is in flight when a deletion rotates the epoch, what the tenant   *)
(* can look up changes as in TenantJobs: everything is gone in that one step, *)
(* only questions begun later put anything there, and no job that was         *)
(* complete or failed is ever pending again.                                  *)
THEOREM ImplementsTenantJobs == Spec => DeletedAtOnce
  <1>1. Init => Jobs!Init
    <2> SUFFICES ASSUME Init PROVE Jobs!Init
      OBVIOUS
    <2>1. 0 \in Epoch
      BY MaxEpochAssumption DEF Epoch
    <2>2. job[marker] = [q \in Question |-> Absent]
      BY <2>1 DEF Init
    <2>3. Begun = {}
      BY DEF Init, Begun
    <2> QED BY <2>2, <2>3 DEF Jobs!Init
  <1>2. TypeOK /\ JobInv /\ Forward /\ [Next]_vars =>
        [Jobs!Next]_<<job[marker], {q \in Begun : rep[q].pc # "done" /\ rep[q].epoch = marker}, Begun>>
    <2> SUFFICES ASSUME TypeOK, JobInv, Forward, [Next]_vars
                 PROVE  [Jobs!Next]_View
      BY JobsView
    <2>1. CASE Still \/ UNCHANGED vars
      BY <2>1 DEF Still, vars, View, Open, Begun
    <2> QED BY <2>1, OtherEffect, RepliesShow, FailuresShow, GoneShows, RotationShows, ExpiryShows
  <1> QED BY <1>1, <1>2, TypeCorrect, JobInvariant, ForwardInvariant, PTL DEF Spec, DeletedAtOnce, Jobs!Spec

=============================================================================
