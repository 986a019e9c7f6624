------------------------ MODULE TaskLifecycleProofs ------------------------
(***************************************************************************)
(* Theorems of TaskLifecycle for every set of tasks, workers and clients   *)
(* and every bound.                                                        *)
(***************************************************************************)
EXTENDS TaskLifecycle, TLAPS

(* A job that exists belongs to a task; what is queued has attempts left.  *)
JobRows ==
  \A j \in JobId :
    /\ jobStatus[j] # "none" => jobConv[j] \in Conversation
    /\ jobStatus[j] = "none" => attempts[j] = 0
    /\ jobStatus[j] = "queued" => attempts[j] < MaxAttempts
    /\ j \in waiting => jobStatus[j] # "none"

ApprovalRows ==
  \A a \in ApprovalId :
    approval[a].status # "none" => approval[a].conv \in Conversation

(* What a worker process believes about its job.                           *)
WorkerView ==
  \A w \in Worker :
    LET j == exec[w].job
    IN /\ exec[w].phase # "idle" => j \in JobId
       /\ exec[w].phase = "claiming" =>
            jobStatus[j] # "none" /\ exec[w].seen < MaxAttempts
       /\ exec[w].phase = "running" =>
            jobStatus[j] \in {"running", "cancelled", "deleted"}
       /\ exec[w].phase \in {"erroring", "errorWrite"} =>
            jobStatus[j] \in {"failed", "deleted"}

JobOps == {"retry", "cancel", "cancelNotice", "cancelWrite", "gate", "gated",
           "apply"}
ApprovalOps == {"resolve", "purge", "commitDelete"}
ConvOps == {"archive", "archiveWrite", "restore"}

(* What a request in flight remembers.                                     *)
ClientView ==
  \A u \in Client :
    /\ req[u].op \in JobOps =>
         /\ req[u].id \in JobId
         /\ jobStatus[req[u].id] # "none"
         /\ req[u].conv = jobConv[req[u].id]
    /\ req[u].op \in {"cancelNotice", "cancelWrite"} =>
         jobStatus[req[u].id] \in {"cancelled", "deleted"}
    /\ req[u].op \in ApprovalOps =>
         /\ req[u].id \in ApprovalId
         /\ approval[req[u].id].status # "none"
         /\ req[u].conv = approval[req[u].id].conv
    /\ req[u].op = "resolve" => req[u].arg \in {"approved", "rejected"}
    /\ req[u].op \in {"gated", "apply"} => req[u].arg \in ConvStatus
    /\ req[u].op \in ConvOps => req[u].conv \in Conversation

IInv ==
  /\ TypeOK
  /\ JobRows
  /\ ApprovalRows
  /\ WorkerView
  /\ ClientView
  /\ OneActiveJob
  /\ SoleExecutor
  /\ NoticeMatchesOutcome
  /\ OneOpenApproval

USE DEF JobId, ApprovalId, Client

----------------------------------------------------------------------------
(* What the inductive invariant says of a process that holds a job.        *)
LEMMA AtWork ==
  ASSUME IInv, NEW w \in Worker, exec[w].phase # "idle"
  PROVE  /\ exec[w].job \in JobId
         /\ exec[w].phase = "claiming" =>
              exec[w].seen \in Nat /\ exec[w].seen < MaxAttempts
  BY BoundsAssumption DEF IInv, TypeOK, WorkerState, WorkerView

LEMMA AtCancel ==
  ASSUME IInv, NEW u \in Client, req[u].op = "cancel"
  PROVE  req[u].id \in JobId /\ req[u].conv = jobConv[req[u].id]
  BY DEF IInv, ClientView, JobOps

(* Which actions touch the rows of analysis_jobs.                          *)
JobStep ==
  \/ \E c \in Conversation : EnqueueJob(c)
  \/ \E u \in Client : CancelJob(u)
  \/ \E u \in Client : CommitDelete(u)
  \/ \E w \in Worker : ClaimJob(w)
  \/ \E w \in Worker : CompleteJob(w)
  \/ \E w \in Worker : RequeueJob(w)
  \/ \E w \in Worker : FailJob(w)

LEMMA JobSteps == IInv /\ [Next]_vars => JobStep \/ UNCHANGED <<jobStatus, jobConv>>
<1>. SUFFICES ASSUME IInv, [Next]_vars, ~JobStep
              PROVE  UNCHANGED <<jobStatus, jobConv>>
  OBVIOUS
<1>. USE DEF JobStep, jobVars
<1>1. ASSUME NEW u \in Editor, EditorStarts(u) PROVE UNCHANGED <<jobStatus, jobConv>>
  BY <1>1 DEF EditorStarts, SendMessage, RequestDelete, StartArchive,
              StartRestore, StartRetry, StartCancel
<1>2. ASSUME NEW u \in Manager, ManagerStarts(u) PROVE UNCHANGED <<jobStatus, jobConv>>
  BY <1>2 DEF ManagerStarts, StartResolve, StartDelete
<1>3. ASSUME NEW u \in Rater, RaterStarts(u) PROVE UNCHANGED <<jobStatus, jobConv>>
  BY <1>3 DEF RaterStarts, Rate
<1>4. ASSUME NEW u \in Client, Proceed(u) PROVE UNCHANGED <<jobStatus, jobConv>>
  <2>1. ~FinishRetry(u)
    BY DEF FinishRetry, EnqueueJob, CanEnqueue, IInv, TypeOK, ClientView, JobRows, JobOps
  <2>. QED BY <1>4, <2>1 DEF Proceed, CancelTooLate, CheckCancelled, EmitCancelled, RefuseRetry,
              FinishResolve, ArchiveCheckJobs, ArchiveWrite, RestoreWrite,
              PurgeObjects, PurgeFails, RefuseDelete, ReadGate, ReadTaskStatus,
              ApplyGate
<1>5. ASSUME NEW w \in Worker, WorkerStep(w) \/ WorkerCrash(w)
      PROVE  UNCHANGED <<jobStatus, jobConv>>
  BY <1>5 DEF WorkerStep, WorkerCrash, SelectJob, MissJob, DropJob, CheckError, EmitError
<1>. QED
  BY <1>1, <1>2, <1>3, <1>4, <1>5
     DEF Next, vars, CreateConversation, Upload, RequestDies, BackoffElapsed

(* Which actions touch the rows of approval_requests.                      *)
ApprovalStep ==
  \/ \E u \in Client, c \in Conversation : RequestDelete(u, c)
  \/ \E u \in Client : FinishResolve(u)
  \/ \E u \in Client : CommitDelete(u)

LEMMA ApprovalSteps == [Next]_vars => ApprovalStep \/ UNCHANGED approval
<1>. SUFFICES ASSUME [Next]_vars, ~ApprovalStep PROVE UNCHANGED approval
  OBVIOUS
<1>. USE DEF ApprovalStep
<1>1. ASSUME NEW u \in Editor, EditorStarts(u) PROVE UNCHANGED approval
  BY <1>1 DEF EditorStarts, SendMessage, EnqueueJob, StartCancel, StartArchive,
              StartRestore, StartRetry
<1>2. ASSUME NEW u \in Client, Proceed(u) PROVE UNCHANGED approval
  BY <1>2 DEF Proceed, CancelJob, CancelTooLate, CheckCancelled, EmitCancelled,
              RefuseRetry, FinishRetry,
              EnqueueJob, ArchiveCheckJobs, ArchiveWrite, RestoreWrite,
              PurgeObjects, PurgeFails, RefuseDelete, ReadGate, ReadTaskStatus,
              ApplyGate
<1>3. ASSUME NEW w \in Worker, WorkerStep(w) \/ WorkerCrash(w)
      PROVE  UNCHANGED approval
  BY <1>3 DEF WorkerStep, WorkerCrash, SelectJob, MissJob, ClaimJob, CompleteJob, DropJob,
              RequeueJob, FailJob, CheckError, EmitError
<1>. QED
  BY <1>1, <1>2, <1>3
     DEF Next, vars, CreateConversation, Upload, RequestDies, BackoffElapsed,
         ManagerStarts, StartResolve, StartDelete, RaterStarts, Rate

----------------------------------------------------------------------------
(* One active job per task.                                                *)
LEMMA OneActiveJobStep == IInv /\ [Next]_vars => OneActiveJob'
<1>. SUFFICES ASSUME IInv, [Next]_vars,
                     NEW x \in JobId, NEW y \in JobId,
                     Active(x)', Active(y)', jobConv'[x] = jobConv'[y]
              PROVE  x = y
  BY DEF OneActiveJob
<1>. USE DEF Active
<1>a. /\ jobStatus \in [JobId -> {"none", "queued", "running", "completed",
                                   "failed", "cancelled", "deleted"}]
      /\ jobConv \in [JobId -> Conversation \cup {NoConv}]
      /\ Active(x) /\ Active(y) /\ jobConv[x] = jobConv[y] => x = y
  BY DEF IInv, TypeOK, OneActiveJob
<1>1. ASSUME NEW c \in Conversation, EnqueueJob(c) PROVE x = y
  <2>1. PICK n \in JobId : /\ jobStatus' = [jobStatus EXCEPT ![n] = "queued"]
                           /\ jobConv' = [jobConv EXCEPT ![n] = c]
    BY <1>1 DEF EnqueueJob
  <2>2. \A j \in JobId : Active(j) => jobConv[j] # c
    BY <1>1 DEF EnqueueJob, CanEnqueue, HasActive
  <2>. QED BY <1>a, <2>1, <2>2
<1>2. ASSUME NEW u \in Client, CancelJob(u) PROVE x = y
  BY <1>a, <1>2, AtCancel DEF CancelJob
<1>3. ASSUME NEW u \in Client, CommitDelete(u) PROVE x = y
  BY <1>a, <1>3 DEF CommitDelete
<1>4. ASSUME NEW w \in Worker, ClaimJob(w) PROVE x = y
  BY <1>a, <1>4, AtWork DEF ClaimJob, StillQueued
<1>5. ASSUME NEW w \in Worker, CompleteJob(w) PROVE x = y
  BY <1>a, <1>5 DEF CompleteJob
<1>6. ASSUME NEW w \in Worker, RequeueJob(w) PROVE x = y
  BY <1>a, <1>6 DEF RequeueJob, StillRunning
<1>7. ASSUME NEW w \in Worker, FailJob(w) PROVE x = y
  BY <1>a, <1>7 DEF FailJob
<1>8. CASE UNCHANGED <<jobStatus, jobConv>>
  BY <1>a, <1>8
<1>. QED
  BY <1>1, <1>2, <1>3, <1>4, <1>5, <1>6, <1>7, <1>8, JobSteps DEF JobStep

(* One open approval per task.                                             *)
LEMMA OneOpenApprovalStep == IInv /\ [Next]_vars => OneOpenApproval'
<1>. SUFFICES ASSUME IInv, [Next]_vars,
                     NEW x \in ApprovalId, NEW y \in ApprovalId,
                     Open(x)', Open(y)', approval'[x].conv = approval'[y].conv
              PROVE  x = y
  BY DEF OneOpenApproval
<1>. USE DEF Open
<1>a. /\ DOMAIN approval = ApprovalId
      /\ Open(x) /\ Open(y) /\ approval[x].conv = approval[y].conv => x = y
  BY DEF IInv, TypeOK, OneOpenApproval
<1>1. ASSUME NEW u \in Client, NEW c \in Conversation, RequestDelete(u, c)
      PROVE  x = y
  <2>1. PICK n \in ApprovalId : approval' = [approval EXCEPT ![n] =
            [status |-> "pending", conv |-> c, previous |-> status[c]]]
    BY <1>1 DEF RequestDelete
  <2>2. \A a \in ApprovalId : approval[a].conv = c => ~Open(a)
    BY <1>1 DEF RequestDelete, HasOpen
  <2>. QED BY <1>a, <2>1, <2>2
<1>2. ASSUME NEW u \in Client, FinishResolve(u) PROVE x = y
  <2>. DEFINE a == req[u].id
  <2>1. CASE ~StillPending(a)
    BY <1>a, <1>2, <2>1 DEF FinishResolve
  <2>2. CASE StillPending(a)
    <3>1. /\ a \in ApprovalId
          /\ approval' = [approval EXCEPT ![a] = Decided(a, req[u].arg)]
      BY <1>2, <2>2 DEF FinishResolve, IInv, ClientView, ApprovalOps
    <3>. QED BY <1>a, <2>2, <3>1 DEF StillPending, Decided
  <2>. QED BY <2>1, <2>2
<1>3. ASSUME NEW u \in Client, CommitDelete(u) PROVE x = y
  BY <1>a, <1>3 DEF CommitDelete, Decided
<1>4. CASE UNCHANGED approval
  BY <1>a, <1>4
<1>. QED
  BY <1>1, <1>2, <1>3, <1>4, ApprovalSteps DEF ApprovalStep

----------------------------------------------------------------------------
(* Types.                                                                  *)
LEMMA RequestMember ==
  ASSUME NEW op \in RequestOp, NEW c \in Conversation \cup {NoConv},
         NEW id \in Nat, NEW arg \in RequestArg
  PROVE  Request(op, c, id, arg) \in RequestState
  BY DEF Request, RequestState

LEMMA RequestTypes ==
  ASSUME TypeOK, NEW u
  PROVE  /\ Respond(u) => req' \in [Client -> RequestState]
         /\ \A op \in RequestOp, c \in Conversation \cup {NoConv},
               id \in Nat, arg \in RequestArg :
              Continue(u, op, c, id, arg) => req' \in [Client -> RequestState]
<1>1. Idle \in RequestState
  BY DEF Idle, RequestState, RequestOp, RequestArg
<1>2. req \in [Client -> RequestState]
  BY DEF TypeOK
<1>. QED BY <1>1, <1>2, RequestMember DEF Respond, Continue

(* What the steps of a request read from it.                               *)
LEMMA RequestFields ==
  ASSUME TypeOK, NEW u \in Client
  PROVE  /\ req[u].op \in RequestOp
         /\ req[u].conv \in Conversation \cup {NoConv}
         /\ req[u].id \in Nat
         /\ req[u].arg \in RequestArg
  BY DEF TypeOK, RequestState

(* Every string a handler keeps in its request.                            *)
LEMMA RequestWords ==
  /\ RequestOp = {"idle", "resolve", "purge", "commitDelete", "gate", "gated",
                  "apply", "archive", "archiveWrite", "restore", "retry", "cancel",
                  "cancelNotice", "cancelWrite"}
  /\ {"", "approved", "rejected"} \cup ConvStatus \subseteq RequestArg
  /\ JobId \subseteq Nat /\ ApprovalId \subseteq Nat /\ 0 \in Nat
<1>1. JobId \subseteq Nat /\ ApprovalId \subseteq Nat
  BY BoundsAssumption
<1>2. {"", "approved", "rejected"} \cup ConvStatus \subseteq RequestArg
  BY DEF RequestArg
<1>. QED BY <1>1, <1>2 DEF RequestOp

(* The request component of every step of a handler.                       *)
LEMMA ProceedReq ==
  ASSUME TypeOK, ClientView, NEW u \in Client, Proceed(u)
  PROVE  req' \in [Client -> RequestState]
<1>. USE RequestTypes, RequestFields, RequestWords
<1>1. CASE CheckCancelled(u)  BY <1>1 DEF CheckCancelled
<1>2. CASE EmitCancelled(u)  BY <1>2 DEF EmitCancelled
<1>3. CASE FinishRetry(u)  BY <1>3 DEF FinishRetry
<1>4. CASE RefuseRetry(u)  BY <1>4 DEF RefuseRetry
<1>5. CASE FinishResolve(u)  BY <1>5 DEF FinishResolve
<1>6. CASE ArchiveCheckJobs(u)  BY <1>6 DEF ArchiveCheckJobs
<1>7. CASE ArchiveWrite(u)  BY <1>7 DEF ArchiveWrite
<1>8. CASE RestoreWrite(u)  BY <1>8 DEF RestoreWrite
<1>9. CASE PurgeObjects(u)  BY <1>9 DEF PurgeObjects
<1>10. CASE PurgeFails(u)  BY <1>10 DEF PurgeFails
<1>11. CASE CommitDelete(u)  BY <1>11 DEF CommitDelete
<1>12. CASE RefuseDelete(u)  BY <1>12 DEF RefuseDelete
<1>13. CASE ReadGate(u)
  <2>1. GateStatus(req[u].id) \in RequestArg
    BY RequestWords DEF GateStatus, ConvStatus
  <2>. QED BY <1>13, <2>1 DEF ReadGate
<1>14. CASE ReadTaskStatus(u)  BY <1>14 DEF ReadTaskStatus
<1>15. CASE ApplyGate(u)  BY <1>15 DEF ApplyGate
<1>16. CASE CancelJob(u)  BY <1>16 DEF CancelJob
<1>17. CASE CancelTooLate(u)  BY <1>17 DEF CancelTooLate
<1>. QED
  BY <1>1, <1>2, <1>3, <1>4, <1>5, <1>6, <1>7, <1>8, <1>9, <1>10, <1>11, <1>12,
     <1>13, <1>14, <1>15, <1>16, <1>17 DEF Proceed

LEMMA TypeOKStep == IInv /\ [Next]_vars => TypeOK'
<1>. SUFFICES ASSUME IInv, [Next]_vars PROVE TypeOK'
  OBVIOUS
<1>. USE BoundsAssumption, VerdictAssumption
<1>. USE DEF convVars, jobVars, answerVars, processVars
<1>t. TypeOK
  BY DEF IInv
<1>r. ASSUME NEW u \in Client, Proceed(u) PROVE req' \in [Client -> RequestState]
  BY <1>r, ProceedReq DEF IInv
<1>1. ASSUME NEW c \in Conversation, CreateConversation(c) PROVE TypeOK'
  BY <1>1, <1>t DEF TypeOK, CreateConversation, ConvStatus
<1>2. ASSUME NEW c \in Conversation, Upload(c) PROVE TypeOK'
  BY <1>2, <1>t DEF TypeOK, Upload
<1>3. ASSUME NEW u \in Client, NEW c \in Conversation, SendMessage(u, c) PROVE TypeOK'
  BY <1>3, <1>t DEF TypeOK, SendMessage, EnqueueJob, ConvStatus
<1>4. ASSUME NEW u \in Client, NEW c \in Conversation, RequestDelete(u, c) PROVE TypeOK'
  BY <1>4, <1>t DEF TypeOK, RequestDelete, ConvStatus, Exists, ApprovalRow
<1>6. ASSUME NEW w \in Worker, ClaimJob(w) PROVE TypeOK'
  <2>1. Work("running", exec[w].job, 0) \in WorkerState
    BY <1>6, AtWork DEF ClaimJob, Work, WorkerState
  <2>2. exec[w].seen + 1 \in 0..MaxAttempts
    BY <1>6, AtWork DEF ClaimJob
  <2>. QED BY <1>6, <1>t, <2>1, <2>2 DEF TypeOK, ClaimJob
<1>7. ASSUME NEW u \in Client, CommitDelete(u) PROVE TypeOK'
  <2>1. CommitDelete(u) => Proceed(u)
    BY DEF Proceed
  <2>2. \A a \in ApprovalId : Decided(a, "deleted") \in ApprovalRow
    BY <1>t DEF TypeOK, Decided, ApprovalRow
  <2>3. approval' \in [ApprovalId -> ApprovalRow]
    BY <1>7, <1>t, <2>2 DEF TypeOK, CommitDelete
  <2>4. /\ verdict' \in [JobId -> [Rater -> RatingKind \cup {"none"}]]
        /\ notice' \in [JobId -> {"none", "ready", "error", "cancelled"}]
        /\ answered' \subseteq JobId
        /\ jobStatus' \in [JobId -> {"none", "queued", "running", "completed",
                                     "failed", "cancelled", "deleted"}]
    BY <1>7, <1>t DEF TypeOK, CommitDelete
  <2>5. /\ status' \in [Conversation -> ConvStatus \cup {"absent", "deleted"}]
        /\ asset' \in [Conversation -> {"none", "stored", "broken"}]
        /\ archived' \subseteq Conversation
    BY <1>7, <1>t DEF TypeOK, CommitDelete
  <2>. QED BY <1>7, <1>t, <1>r, <2>1, <2>3, <2>4, <2>5 DEF TypeOK, CommitDelete
<1>8. ASSUME NEW u \in Client, FinishResolve(u) PROVE TypeOK'
  <2>. DEFINE a == req[u].id
              c == req[u].conv
  <2>1. FinishResolve(u) => Proceed(u)
    BY DEF Proceed
  <2>2. a \in ApprovalId /\ req[u].arg \in {"approved", "rejected"}
    BY <1>8 DEF FinishResolve, IInv, ClientView, ApprovalOps
  <2>3. Decided(a, req[u].arg) \in ApprovalRow
    BY <1>t, <2>2 DEF TypeOK, Decided, ApprovalRow
  <2>4. approval' \in [ApprovalId -> ApprovalRow]
    BY <1>8, <1>t, <2>3 DEF TypeOK, FinishResolve
  <2>5. StatusAfter(a, req[u].arg) \in ConvStatus
    BY <1>t, <2>2 DEF TypeOK, ApprovalRow, StatusAfter, ConvStatus
  <2>6. status' \in [Conversation -> ConvStatus \cup {"absent", "deleted"}]
    BY <1>8, <1>t, <2>5 DEF TypeOK, FinishResolve
  <2>. QED BY <1>8, <1>t, <1>r, <2>1, <2>4, <2>6 DEF TypeOK, FinishResolve
<1>9. ASSUME NEW u \in Client, Proceed(u), ~CommitDelete(u), ~FinishResolve(u)
      PROVE  TypeOK'
  <2>. USE DEF TypeOK
  <2>1. CASE CheckCancelled(u)  BY <1>9, <1>r, <1>t, <2>1 DEF CheckCancelled
  <2>14. CASE CancelJob(u)  BY <1>9, <1>r, <1>t, <2>14 DEF CancelJob, ConvStatus
  <2>15. CASE CancelTooLate(u)  BY <1>9, <1>r, <1>t, <2>15 DEF CancelTooLate
  <2>2. CASE EmitCancelled(u)  BY <1>9, <1>r, <1>t, <2>2 DEF EmitCancelled
  <2>3. CASE FinishRetry(u)
    <3>1. req[u].conv \in Conversation
      BY <2>3 DEF FinishRetry, IInv, ClientView, JobOps, JobRows
    <3>2. /\ jobStatus' \in [JobId -> {"none", "queued", "running", "completed",
                                       "failed", "cancelled", "deleted"}]
          /\ jobConv' \in [JobId -> Conversation \cup {NoConv}]
          /\ status' \in [Conversation -> ConvStatus \cup {"absent", "deleted"}]
      BY <1>t, <2>3, <3>1 DEF FinishRetry, EnqueueJob, ConvStatus
    <3>. QED BY <1>9, <1>r, <1>t, <2>3, <3>2 DEF FinishRetry, EnqueueJob
  <2>4. CASE RefuseRetry(u)  BY <1>9, <1>r, <1>t, <2>4 DEF RefuseRetry
  <2>5. CASE ArchiveCheckJobs(u)  BY <1>9, <1>r, <1>t, <2>5 DEF ArchiveCheckJobs
  <2>6. CASE ArchiveWrite(u)
    BY <1>9, <1>r, <1>t, <2>6 DEF ArchiveWrite, IInv, ClientView, ConvOps
  <2>7. CASE RestoreWrite(u)  BY <1>9, <1>r, <1>t, <2>7 DEF RestoreWrite
  <2>8. CASE PurgeObjects(u)  BY <1>9, <1>r, <1>t, <2>8 DEF PurgeObjects, Purged
  <2>9. CASE PurgeFails(u)
    <3>1. [asset EXCEPT ![req[u].conv] = Purged(req[u].conv)]
            \in [Conversation -> {"none", "stored", "broken"}]
      BY <1>t DEF Purged
    <3>2. asset' \in [Conversation -> {"none", "stored", "broken"}]
      BY <1>t, <2>9, <3>1 DEF PurgeFails
    <3>. QED BY <1>9, <1>r, <1>t, <2>9, <3>2 DEF PurgeFails
  <2>10. CASE RefuseDelete(u)  BY <1>9, <1>r, <1>t, <2>10 DEF RefuseDelete
  <2>11. CASE ReadGate(u)  BY <1>9, <1>r, <1>t, <2>11 DEF ReadGate
  <2>12. CASE ReadTaskStatus(u)  BY <1>9, <1>r, <1>t, <2>12 DEF ReadTaskStatus
  <2>13. CASE ApplyGate(u)
    BY <1>9, <1>r, <1>t, <2>13 DEF ApplyGate, IInv, ClientView, ConvStatus
  <2>. QED
    BY <1>9, <2>1, <2>2, <2>3, <2>4, <2>5, <2>6, <2>7, <2>8, <2>9, <2>10,
       <2>11, <2>12, <2>13, <2>14, <2>15 DEF Proceed
<1>10. ASSUME NEW u \in Client,
              \/ \E c \in Conversation : StartArchive(u, c) \/ StartRestore(u, c)
              \/ \E j \in JobId : StartRetry(u, j) \/ StartCancel(u, j)
              \/ \E a \in ApprovalId : \/ StartResolve(u, a, "approved")
                                       \/ StartResolve(u, a, "rejected")
                                       \/ StartDelete(u, a)
       PROVE  TypeOK'
  <2>1. /\ \A j \in JobId : jobConv[j] \in Conversation \cup {NoConv}
        /\ \A a \in ApprovalId : approval[a].conv \in Conversation \cup {NoConv}
    BY <1>t DEF TypeOK, ApprovalRow
  <2>2. req' \in [Client -> RequestState]
    BY <1>10, <1>t, <2>1, RequestTypes, RequestWords
       DEF StartArchive, StartRestore, StartRetry, StartCancel, StartResolve,
           StartDelete
  <2>. QED
    BY <1>10, <1>t, <2>2
       DEF TypeOK, StartArchive, StartRestore, StartRetry, StartCancel,
           StartResolve, StartDelete
<1>11. ASSUME NEW u \in Rater, NEW j \in JobId, NEW v \in Verdict, Rate(u, j, v)
       PROVE  TypeOK'
  <2>1. jobConv[j] \in Conversation \cup {NoConv}
    BY <1>t DEF TypeOK
  <2>2. req' \in [Client -> RequestState]
    BY <1>11, <1>t, <2>1, RequestTypes, RequestWords DEF Rate
  <2>3. verdict' \in [JobId -> [Rater -> RatingKind \cup {"none"}]]
    BY <1>11, <1>t DEF TypeOK, Rate
  <2>. QED BY <1>11, <1>t, <2>2, <2>3 DEF TypeOK, Rate
<1>12. ASSUME NEW u \in Client, RequestDies(u) PROVE TypeOK'
  <2>1. req' \in [Client -> RequestState]
    BY <1>12, <1>t, RequestTypes DEF RequestDies
  <2>. QED BY <1>12, <1>t, <2>1 DEF TypeOK, RequestDies
<1>13. ASSUME NEW w \in Worker, WorkerStep(w), ~ClaimJob(w)
       PROVE  TypeOK'
  <2>. USE DEF TypeOK
  <2>1. /\ exec[w].job \in 0..MaxJobs
        /\ NoWork \in WorkerState
        /\ \A phase \in {"erroring", "errorWrite"} :
             Work(phase, exec[w].job, 0) \in WorkerState
        /\ \A j \in JobId : Work("claiming", j, attempts[j]) \in WorkerState
    BY <1>t DEF WorkerState, NoWork, Work
  <2>2. exec[w].phase # "idle" => exec[w].job \in JobId
    BY DEF IInv, WorkerView
  <2>3. CASE CompleteJob(w)
    BY <1>t, <2>1, <2>2, <2>3 DEF CompleteJob, ConvStatus
  <2>4. CASE DropJob(w)  BY <1>t, <2>1, <2>4 DEF DropJob
  <2>5. CASE RequeueJob(w)  BY <1>t, <2>1, <2>2, <2>5 DEF RequeueJob
  <2>6. CASE FailJob(w)  BY <1>t, <2>1, <2>6 DEF FailJob, ConvStatus
  <2>7. CASE CheckError(w)  BY <1>t, <2>1, <2>7 DEF CheckError
  <2>8. CASE EmitError(w)  BY <1>t, <2>1, <2>8 DEF EmitError
  <2>9. CASE MissJob(w)  BY <1>t, <2>1, <2>9 DEF MissJob
  <2>10. ASSUME NEW j \in JobId, SelectJob(w, j) PROVE TypeOK'
    BY <1>t, <2>1, <2>10 DEF SelectJob
  <2>. QED
    BY <1>13, <2>3, <2>4, <2>5, <2>6, <2>7, <2>8, <2>9, <2>10 DEF WorkerStep
<1>14. ASSUME NEW w \in Worker, WorkerCrash(w) PROVE TypeOK'
  BY <1>14, <1>t DEF TypeOK, WorkerCrash, NoWork, Work, WorkerState
<1>15. ASSUME NEW j \in JobId, BackoffElapsed(j) PROVE TypeOK'
  BY <1>15, <1>t DEF TypeOK, BackoffElapsed
<1>16. CASE UNCHANGED vars
  BY <1>16, <1>t DEF TypeOK, vars
<1>. QED
  BY <1>1, <1>2, <1>3, <1>4, <1>6, <1>7, <1>8, <1>9, <1>10, <1>11,
     <1>12, <1>13, <1>14, <1>15, <1>16
     DEF Next, EditorStarts, ManagerStarts, RaterStarts, WorkerStep

----------------------------------------------------------------------------
(* Rows.                                                                   *)

(* No action but these touches attempts or waiting.                        *)
LEMMA AttemptSteps ==
  IInv /\ [Next]_vars =>
    \/ \E u \in Client : CancelJob(u)
    \/ \E w \in Worker : ClaimJob(w)
    \/ \E w \in Worker : RequeueJob(w)
    \/ \E j \in JobId : BackoffElapsed(j)
    \/ UNCHANGED <<attempts, waiting>>
<1>. SUFFICES ASSUME [Next]_vars,
                     \A u \in Client : ~CancelJob(u),
                     \A w \in Worker : ~ClaimJob(w),
                     \A w \in Worker : ~RequeueJob(w),
                     \A j \in JobId : ~BackoffElapsed(j)
              PROVE  UNCHANGED <<attempts, waiting>>
  OBVIOUS
<1>. USE DEF jobVars
<1>1. ASSUME NEW u \in Editor, EditorStarts(u) PROVE UNCHANGED <<attempts, waiting>>
  BY <1>1 DEF EditorStarts, SendMessage, EnqueueJob, RequestDelete,
              StartArchive, StartRestore, StartRetry, StartCancel
<1>2. ASSUME NEW u \in Client, Proceed(u) PROVE UNCHANGED <<attempts, waiting>>
  BY <1>2 DEF Proceed, CancelJob, CancelTooLate, CheckCancelled, EmitCancelled,
              FinishRetry, EnqueueJob,
              RefuseRetry, FinishResolve, ArchiveCheckJobs, ArchiveWrite,
              RestoreWrite, PurgeObjects, PurgeFails, CommitDelete,
              RefuseDelete, ReadGate, ReadTaskStatus, ApplyGate
<1>3. ASSUME NEW w \in Worker, WorkerStep(w) \/ WorkerCrash(w)
      PROVE  UNCHANGED <<attempts, waiting>>
  BY <1>3 DEF WorkerStep, WorkerCrash, SelectJob, MissJob, CompleteJob, DropJob, FailJob,
              CheckError, EmitError
<1>. QED
  BY <1>1, <1>2, <1>3
     DEF Next, vars, ManagerStarts, StartResolve, StartDelete, RaterStarts, Rate,
         CreateConversation, Upload, RequestDies

LEMMA JobRowsStep == IInv /\ [Next]_vars => JobRows'
<1>. SUFFICES ASSUME IInv, [Next]_vars, NEW x \in JobId
              PROVE  (/\ jobStatus[x] # "none" => jobConv[x] \in Conversation
                      /\ jobStatus[x] = "none" => attempts[x] = 0
                      /\ jobStatus[x] = "queued" => attempts[x] < MaxAttempts
                      /\ x \in waiting => jobStatus[x] # "none")'
  BY DEF JobRows
<1>. USE BoundsAssumption
<1>a. /\ jobStatus \in [JobId -> {"none", "queued", "running", "completed",
                                   "failed", "cancelled", "deleted"}]
      /\ jobConv \in [JobId -> Conversation \cup {NoConv}]
      /\ attempts \in [JobId -> 0..MaxAttempts]
      /\ jobStatus[x] # "none" => jobConv[x] \in Conversation
      /\ jobStatus[x] = "none" => attempts[x] = 0
      /\ jobStatus[x] = "queued" => attempts[x] < MaxAttempts
      /\ x \in waiting => jobStatus[x] # "none"
  BY DEF IInv, TypeOK, JobRows
<1>. DEFINE Goal == (/\ jobStatus[x] # "none" => jobConv[x] \in Conversation
                     /\ jobStatus[x] = "none" => attempts[x] = 0
                     /\ jobStatus[x] = "queued" => attempts[x] < MaxAttempts
                     /\ x \in waiting => jobStatus[x] # "none")'
<1>1. ASSUME NEW c \in Conversation, EnqueueJob(c) PROVE Goal
  <2>1. PICK n \in JobId : /\ jobStatus[n] = "none"
                           /\ jobStatus' = [jobStatus EXCEPT ![n] = "queued"]
                           /\ jobConv' = [jobConv EXCEPT ![n] = c]
    BY <1>1 DEF EnqueueJob, NextJob
  <2>2. attempts' = attempts /\ waiting' = waiting
    BY <1>1 DEF EnqueueJob
  <2>. QED BY <1>a, <2>1, <2>2
<1>2. ASSUME NEW u \in Client, CancelJob(u) PROVE Goal
  BY <1>a, <1>2, AtCancel DEF CancelJob, Active
<1>3. ASSUME NEW u \in Client, CommitDelete(u) PROVE Goal
  <2>1. req[u].conv \in Conversation
    BY <1>3 DEF CommitDelete, Deletable, IInv, ClientView, ApprovalOps, ApprovalRows
  <2>. QED BY <1>a, <1>3, <2>1, NoConvAssumption DEF CommitDelete, NoConv
<1>4. ASSUME NEW w \in Worker, ClaimJob(w) PROVE Goal
  BY <1>a, <1>4, AtWork DEF ClaimJob, StillQueued
<1>5. ASSUME NEW w \in Worker, CompleteJob(w) PROVE Goal
  BY <1>a, <1>5 DEF CompleteJob, jobVars, StillRunning
<1>6. ASSUME NEW w \in Worker, RequeueJob(w) PROVE Goal
  BY <1>a, <1>6 DEF RequeueJob, StillRunning, AttemptsLeft
<1>7. ASSUME NEW w \in Worker, FailJob(w) PROVE Goal
  BY <1>a, <1>7 DEF FailJob, StillRunning
<1>8. ASSUME NEW j \in JobId, BackoffElapsed(j) PROVE Goal
  BY <1>a, <1>8 DEF BackoffElapsed
<1>9. CASE UNCHANGED <<jobStatus, jobConv, attempts, waiting>>
  BY <1>a, <1>9
<1>. QED
  <2>. USE JobSteps, AttemptSteps DEF JobStep
  <2>. QED BY <1>1, <1>2, <1>3, <1>4, <1>5, <1>6, <1>7, <1>8, <1>9

LEMMA ApprovalRowsStep == IInv /\ [Next]_vars => ApprovalRows'
<1>. SUFFICES ASSUME IInv, [Next]_vars, NEW x \in ApprovalId,
                     approval'[x].status # "none"
              PROVE  approval'[x].conv \in Conversation
  BY DEF ApprovalRows
<1>a. /\ DOMAIN approval = ApprovalId
      /\ approval[x].status # "none" => approval[x].conv \in Conversation
  BY DEF IInv, TypeOK, ApprovalRows
<1>1. ASSUME NEW u \in Client, NEW c \in Conversation, RequestDelete(u, c)
      PROVE  approval'[x].conv \in Conversation
  BY <1>a, <1>1 DEF RequestDelete
<1>2. ASSUME NEW u \in Client, FinishResolve(u)
      PROVE  approval'[x].conv \in Conversation
  BY <1>a, <1>2 DEF FinishResolve, StillPending, Decided
<1>3. ASSUME NEW u \in Client, CommitDelete(u)
      PROVE  approval'[x].conv \in Conversation
  <2>1. req[u].conv \in Conversation
    BY <1>3 DEF CommitDelete, Deletable, IInv, ClientView, ApprovalOps, ApprovalRows
  <2>. QED BY <1>a, <1>3, <2>1 DEF CommitDelete, Decided
<1>4. CASE UNCHANGED approval
  BY <1>a, <1>4
<1>. QED
  BY <1>1, <1>2, <1>3, <1>4, ApprovalSteps DEF ApprovalStep

----------------------------------------------------------------------------
(* What processes remember stays true.                                     *)

(* A job that left the world of the queue never comes back to it.          *)
LEMMA JobMonotone ==
  IInv /\ [Next]_vars =>
    \A x \in JobId :
      /\ jobStatus[x] # "none" => jobStatus'[x] # "none" /\ jobConv'[x] = jobConv[x]
      /\ jobStatus[x] \in {"cancelled", "deleted"} =>
           jobStatus'[x] \in {"cancelled", "deleted"}
      /\ jobStatus[x] \in {"failed", "deleted"} =>
           jobStatus'[x] \in {"failed", "deleted"}
<1>. SUFFICES ASSUME IInv, [Next]_vars, NEW x \in JobId
              PROVE  /\ jobStatus[x] # "none" =>
                          jobStatus'[x] # "none" /\ jobConv'[x] = jobConv[x]
                     /\ jobStatus[x] \in {"cancelled", "deleted"} =>
                          jobStatus'[x] \in {"cancelled", "deleted"}
                     /\ jobStatus[x] \in {"failed", "deleted"} =>
                          jobStatus'[x] \in {"failed", "deleted"}
  OBVIOUS
<1>. DEFINE Goal == /\ jobStatus[x] # "none" =>
                          jobStatus'[x] # "none" /\ jobConv'[x] = jobConv[x]
                    /\ jobStatus[x] \in {"cancelled", "deleted"} =>
                          jobStatus'[x] \in {"cancelled", "deleted"}
                    /\ jobStatus[x] \in {"failed", "deleted"} =>
                          jobStatus'[x] \in {"failed", "deleted"}
<1>a. DOMAIN jobStatus = JobId /\ DOMAIN jobConv = JobId
  BY DEF IInv, TypeOK
<1>1. ASSUME NEW c \in Conversation, EnqueueJob(c) PROVE Goal
  BY <1>a, <1>1 DEF EnqueueJob, NextJob
<1>2. ASSUME NEW u \in Client, CancelJob(u) PROVE Goal
  BY <1>a, <1>2, AtCancel DEF CancelJob, Active
<1>3. ASSUME NEW u \in Client, CommitDelete(u) PROVE Goal
  BY <1>a, <1>3 DEF CommitDelete
<1>4. ASSUME NEW w \in Worker, ClaimJob(w) PROVE Goal
  BY <1>a, <1>4, AtWork DEF ClaimJob, StillQueued
<1>5. ASSUME NEW w \in Worker, CompleteJob(w) PROVE Goal
  BY <1>a, <1>5 DEF CompleteJob, StillRunning
<1>6. ASSUME NEW w \in Worker, RequeueJob(w) PROVE Goal
  BY <1>a, <1>6 DEF RequeueJob, StillRunning
<1>7. ASSUME NEW w \in Worker, FailJob(w) PROVE Goal
  BY <1>a, <1>7 DEF FailJob, StillRunning
<1>8. CASE UNCHANGED <<jobStatus, jobConv>>
  BY <1>8
<1>. QED
  <2>. USE JobSteps DEF JobStep
  <2>. QED BY <1>1, <1>2, <1>3, <1>4, <1>5, <1>6, <1>7, <1>8

LEMMA ApprovalMonotone ==
  IInv /\ [Next]_vars =>
    \A x \in ApprovalId :
      approval[x].status # "none" => /\ approval'[x].status # "none"
                                     /\ approval'[x].conv = approval[x].conv
<1>. SUFFICES ASSUME IInv, [Next]_vars, NEW x \in ApprovalId,
                     approval[x].status # "none"
              PROVE  approval'[x].status # "none" /\ approval'[x].conv = approval[x].conv
  OBVIOUS
<1>. DEFINE Goal == approval'[x].status # "none" /\ approval'[x].conv = approval[x].conv
<1>a. DOMAIN approval = ApprovalId
  BY DEF IInv, TypeOK
<1>1. ASSUME NEW u \in Client, NEW c \in Conversation, RequestDelete(u, c)
      PROVE  Goal
  BY <1>a, <1>1 DEF RequestDelete, NextApproval
<1>2. ASSUME NEW u \in Client, FinishResolve(u) PROVE Goal
  <2>1. req[u].arg # "none"
    BY <1>2 DEF FinishResolve, IInv, ClientView
  <2>. QED BY <1>a, <1>2, <2>1 DEF FinishResolve, StillPending, Decided
<1>3. ASSUME NEW u \in Client, CommitDelete(u) PROVE Goal
  BY <1>a, <1>3 DEF CommitDelete, Decided
<1>4. CASE UNCHANGED approval
  BY <1>4
<1>. QED
  <2>. USE ApprovalSteps DEF ApprovalStep
  <2>. QED BY <1>1, <1>2, <1>3, <1>4

(* Only a worker changes what it is doing.                                 *)
LEMMA ExecSteps ==
  [Next]_vars => (\E w \in Worker : WorkerStep(w) \/ WorkerCrash(w)) \/ UNCHANGED exec
<1>. SUFFICES ASSUME [Next]_vars,
                     \A w \in Worker : ~WorkerStep(w) /\ ~WorkerCrash(w)
              PROVE  UNCHANGED exec
  OBVIOUS
<1>. USE DEF processVars
<1>1. ASSUME NEW u \in Editor, EditorStarts(u) PROVE UNCHANGED exec
  BY <1>1 DEF EditorStarts, SendMessage, EnqueueJob, RequestDelete, StartCancel,
              StartArchive, StartRestore, StartRetry
<1>2. ASSUME NEW u \in Client, Proceed(u) PROVE UNCHANGED exec
  BY <1>2 DEF Proceed, CancelJob, CancelTooLate, CheckCancelled, EmitCancelled,
              FinishRetry, EnqueueJob,
              RefuseRetry, FinishResolve, ArchiveCheckJobs, ArchiveWrite,
              RestoreWrite, PurgeObjects, PurgeFails, CommitDelete,
              RefuseDelete, ReadGate, ReadTaskStatus, ApplyGate
<1>. QED
  BY <1>1, <1>2
     DEF Next, vars, ManagerStarts, StartResolve, StartDelete, RaterStarts, Rate,
         CreateConversation, Upload, RequestDies, BackoffElapsed

(* The phase of a worker that starts, goes on or stops.                    *)
LEMMA WorkFields ==
  /\ NoWork.phase = "idle"
  /\ \A p, j, n : /\ Work(p, j, n).phase = p
                  /\ Work(p, j, n).job = j
                  /\ Work(p, j, n).seen = n
  BY DEF NoWork, Work

LEMMA WorkerViewStep == IInv /\ [Next]_vars => WorkerView'
<1>. DEFINE View(w) == LET j == exec[w].job
                       IN /\ exec[w].phase # "idle" => j \in JobId
                          /\ exec[w].phase = "claiming" =>
                               jobStatus[j] # "none" /\ exec[w].seen < MaxAttempts
                          /\ exec[w].phase = "running" =>
                               jobStatus[j] \in {"running", "cancelled", "deleted"}
                          /\ exec[w].phase \in {"erroring", "errorWrite"} =>
                               jobStatus[j] \in {"failed", "deleted"}
<1>. SUFFICES ASSUME IInv, [Next]_vars, NEW x \in Worker PROVE View(x)'
  BY DEF WorkerView
<1>a. /\ jobStatus \in [JobId -> {"none", "queued", "running", "completed",
                                   "failed", "cancelled", "deleted"}]
      /\ DOMAIN exec = Worker
      /\ View(x)
  BY DEF IInv, TypeOK, WorkerView
<1>b. \A w \in Worker : Executing(x) /\ Executing(w) /\ exec[x].job = exec[w].job => x = w
  BY DEF IInv, SoleExecutor
<1>1. CASE exec'[x] = exec[x]
  <2>1. ASSUME NEW j \in JobId, jobStatus'[j] # jobStatus[j],
               exec[x].phase = "running", exec[x].job = j
        PROVE  jobStatus'[j] \in {"running", "cancelled", "deleted"}
    <3>. USE <1>a, <2>1
    <3>1. ASSUME NEW c \in Conversation, EnqueueJob(c)
          PROVE  jobStatus'[j] \in {"running", "cancelled", "deleted"}
      BY <3>1 DEF EnqueueJob, NextJob
    <3>2. ASSUME NEW u \in Client, CancelJob(u)
          PROVE  jobStatus'[j] \in {"running", "cancelled", "deleted"}
      BY <3>2 DEF CancelJob
    <3>3. ASSUME NEW u \in Client, CommitDelete(u)
          PROVE  jobStatus'[j] \in {"running", "cancelled", "deleted"}
      BY <3>3 DEF CommitDelete
    <3>4. ASSUME NEW w \in Worker, ClaimJob(w)
          PROVE  jobStatus'[j] \in {"running", "cancelled", "deleted"}
      BY <3>4 DEF ClaimJob
    <3>5. ASSUME NEW w \in Worker, CompleteJob(w) \/ RequeueJob(w) \/ FailJob(w)
          PROVE  FALSE
      <4>1. exec[w].phase = "running" /\ exec[w].job = j
        BY <3>5 DEF CompleteJob, RequeueJob, FailJob
      <4>2. w = x
        BY <1>b, <4>1 DEF Executing
      <4>3. exec'[w].phase # "running"
        BY <3>5, WorkFields DEF CompleteJob, RequeueJob, FailJob
      <4>. QED BY <1>1, <4>2, <4>3
    <3>. QED
      <4>. USE JobSteps DEF JobStep
      <4>. QED BY <3>1, <3>2, <3>3, <3>4, <3>5
  <2>2. CASE exec[x].phase = "idle"
    BY <1>1, <2>2
  <2>3. CASE exec[x].phase # "idle"
    <3>1. exec[x].job \in JobId
      BY <1>a, <2>3
    <3>. QED BY <1>1, <1>a, <2>1, <2>3, <3>1, JobMonotone
  <2>. QED BY <2>2, <2>3
<1>2. ASSUME WorkerStep(x) \/ WorkerCrash(x) PROVE View(x)'
  <2>. USE <1>a, WorkFields
  <2>1. exec[x].phase # "idle" => exec[x].job \in JobId
    OBVIOUS
  <2>2. ASSUME NEW j \in JobId, SelectJob(x, j) PROVE View(x)'
    <3>1. jobStatus[j] = "queued" /\ attempts[j] < MaxAttempts
      BY <2>2 DEF SelectJob, Claimable, IInv, JobRows
    <3>. QED BY <2>2, <3>1 DEF SelectJob, jobVars
  <2>3. CASE ClaimJob(x)  BY <2>1, <2>3 DEF ClaimJob
  <2>4. CASE FailJob(x)  BY <2>1, <2>4 DEF FailJob
  <2>5. CASE CheckError(x)  BY <2>1, <2>5 DEF CheckError, jobVars
  <2>6. CASE MissJob(x) \/ CompleteJob(x) \/ DropJob(x) \/ RequeueJob(x)
               \/ EmitError(x) \/ WorkerCrash(x)
    <3>1. exec'[x] = NoWork
      BY <2>6 DEF MissJob, CompleteJob, DropJob, RequeueJob, EmitError, WorkerCrash
    <3>. QED BY <3>1
  <2>. QED BY <1>2, <2>2, <2>3, <2>4, <2>5, <2>6 DEF WorkerStep
<1>3. ASSUME NEW w \in Worker, w # x, WorkerStep(w) \/ WorkerCrash(w)
      PROVE  exec'[x] = exec[x]
  BY <1>a, <1>3
     DEF WorkerStep, WorkerCrash, SelectJob, MissJob, ClaimJob, CompleteJob,
         DropJob, RequeueJob, FailJob, CheckError, EmitError
<1>. QED BY <1>1, <1>2, <1>3, ExecSteps

(* claim_job takes a queued job only, and no worker executes a queued job. *)
LEMMA SoleExecutorStep == IInv /\ [Next]_vars => SoleExecutor'
<1>. SUFFICES ASSUME IInv, [Next]_vars, NEW x \in Worker, NEW y \in Worker,
                     Executing(x)', Executing(y)', exec'[x].job = exec'[y].job
              PROVE  x = y
  BY DEF SoleExecutor
<1>. USE WorkFields DEF Executing
<1>a. /\ DOMAIN exec = Worker
      /\ Executing(x) /\ Executing(y) /\ exec[x].job = exec[y].job => x = y
  BY DEF IInv, TypeOK, SoleExecutor
<1>b. \A v \in Worker : Executing(v) => jobStatus[exec[v].job] # "queued"
  BY DEF IInv, WorkerView
<1>1. ASSUME NEW w \in Worker, ClaimJob(w) PROVE x = y
  <2>1. /\ exec' = [exec EXCEPT ![w] = Work("running", exec[w].job, 0)]
        /\ jobStatus[exec[w].job] = "queued"
    BY <1>1 DEF ClaimJob, StillQueued
  <2>. QED BY <1>a, <1>b, <2>1
<1>2. ASSUME NEW w \in Worker, WorkerStep(w) \/ WorkerCrash(w), ~ClaimJob(w)
      PROVE  x = y
  <2>1. \/ exec' = [exec EXCEPT ![w] = NoWork]
        \/ \E j, n : exec' = [exec EXCEPT ![w] = Work("claiming", j, n)]
        \/ /\ Executing(w)
           /\ \E p : exec' = [exec EXCEPT ![w] = Work(p, exec[w].job, 0)]
    BY <1>2
       DEF WorkerStep, WorkerCrash, SelectJob, MissJob, CompleteJob, DropJob,
           RequeueJob, FailJob, CheckError, EmitError
  <2>. QED BY <1>a, <1>b, <2>1
<1>3. CASE UNCHANGED exec
  BY <1>a, <1>3
<1>. QED BY <1>1, <1>2, <1>3, ExecSteps

----------------------------------------------------------------------------
(* Outcomes and notices.                                                   *)
LEMMA NoticeSteps ==
  [Next]_vars =>
    \/ \E w \in Worker : CompleteJob(w) \/ EmitError(w)
    \/ \E u \in Client : CommitDelete(u) \/ EmitCancelled(u)
    \/ UNCHANGED <<answered, notice>>
<1>. SUFFICES ASSUME [Next]_vars,
                     \A w \in Worker : ~CompleteJob(w) /\ ~EmitError(w),
                     \A u \in Client : ~CommitDelete(u) /\ ~EmitCancelled(u)
              PROVE  UNCHANGED <<answered, notice>>
  OBVIOUS
<1>. USE DEF answerVars
<1>1. ASSUME NEW u \in Editor, EditorStarts(u) PROVE UNCHANGED <<answered, notice>>
  BY <1>1 DEF EditorStarts, SendMessage, EnqueueJob, RequestDelete, StartCancel,
              StartArchive, StartRestore, StartRetry
<1>2. ASSUME NEW u \in Client, Proceed(u) PROVE UNCHANGED <<answered, notice>>
  BY <1>2 DEF Proceed, CancelJob, CancelTooLate, CheckCancelled, FinishRetry,
              EnqueueJob, RefuseRetry,
              FinishResolve, ArchiveCheckJobs, ArchiveWrite, RestoreWrite,
              PurgeObjects, PurgeFails, RefuseDelete, ReadGate, ReadTaskStatus,
              ApplyGate
<1>3. ASSUME NEW w \in Worker, WorkerStep(w) \/ WorkerCrash(w)
      PROVE  UNCHANGED <<answered, notice>>
  BY <1>3 DEF WorkerStep, WorkerCrash, SelectJob, MissJob, ClaimJob, DropJob, RequeueJob, FailJob,
              CheckError
<1>. QED
  BY <1>1, <1>2, <1>3
     DEF Next, vars, ManagerStarts, StartResolve, StartDelete, RaterStarts, Rate,
         CreateConversation, Upload, RequestDies, BackoffElapsed

LEMMA NoticeMatchesOutcomeStep == IInv /\ [Next]_vars => NoticeMatchesOutcome'
<1>. DEFINE Told(j) ==
       /\ j \in answered <=> jobStatus[j] = "completed"
       /\ notice[j] = "ready" <=> jobStatus[j] = "completed"
       /\ notice[j] = "error" => jobStatus[j] \in {"failed", "deleted"}
       /\ notice[j] = "cancelled" => jobStatus[j] \in {"cancelled", "deleted"}
<1>. SUFFICES ASSUME IInv, [Next]_vars, NEW x \in JobId PROVE Told(x)'
  BY DEF NoticeMatchesOutcome
<1>a. /\ DOMAIN jobStatus = JobId /\ DOMAIN notice = JobId
      /\ notice[x] \in {"none", "ready", "error", "cancelled"}
      /\ Told(x)
  BY DEF IInv, TypeOK, NoticeMatchesOutcome
<1>1. ASSUME NEW w \in Worker, CompleteJob(w) PROVE Told(x)'
  BY <1>a, <1>1, AtWork DEF CompleteJob, StillRunning
<1>2. ASSUME NEW w \in Worker, EmitError(w) PROVE Told(x)'
  <2>1. exec[w].job \in JobId /\ jobStatus[exec[w].job] \in {"failed", "deleted"}
    BY <1>2 DEF EmitError, IInv, WorkerView
  <2>2. jobStatus[x] = "completed" => x # exec[w].job
    BY <2>1
  <2>. QED BY <1>a, <1>2, <2>1, <2>2 DEF EmitError, jobVars
<1>3. ASSUME NEW u \in Client, CommitDelete(u) PROVE Told(x)'
  BY <1>a, <1>3 DEF CommitDelete
<1>4. ASSUME NEW u \in Client, EmitCancelled(u) PROVE Told(x)'
  <2>1. req[u].id \in JobId /\ jobStatus[req[u].id] \in {"cancelled", "deleted"}
    BY <1>4 DEF EmitCancelled, IInv, ClientView, JobOps
  <2>2. jobStatus[x] = "completed" => x # req[u].id
    BY <2>1
  <2>. QED BY <1>a, <1>4, <2>1, <2>2 DEF EmitCancelled, jobVars
<1>5. CASE /\ UNCHANGED <<answered, notice>>
           /\ \A w \in Worker : ~CompleteJob(w)
           /\ \A u \in Client : ~CommitDelete(u)
  <2>1. CASE UNCHANGED <<jobStatus, jobConv>>
    BY <1>a, <1>5, <2>1
  <2>2. ASSUME NEW c \in Conversation, EnqueueJob(c) PROVE Told(x)'
    BY <1>a, <1>5, <2>2 DEF EnqueueJob, NextJob
  <2>3. ASSUME NEW u \in Client, CancelJob(u) PROVE Told(x)'
    BY <1>a, <1>5, <2>3, AtCancel DEF CancelJob, Active
  <2>4. ASSUME NEW w \in Worker, ClaimJob(w) PROVE Told(x)'
    BY <1>a, <1>5, <2>4, AtWork DEF ClaimJob, StillQueued
  <2>5. ASSUME NEW w \in Worker, RequeueJob(w) \/ FailJob(w) PROVE Told(x)'
    BY <1>a, <1>5, <2>5 DEF RequeueJob, FailJob, StillRunning
  <2>. QED
    <3>. USE JobSteps DEF JobStep
    <3>. QED BY <1>5, <2>1, <2>2, <2>3, <2>4, <2>5
<1>. QED BY <1>1, <1>2, <1>3, <1>4, <1>5, NoticeSteps

----------------------------------------------------------------------------
(* Requests in flight.                                                     *)

(* A request changes only by a step of its own client: it ends, it starts, *)
(* or it goes on to the next phase with the row it already names.          *)
LEMMA RequestSteps ==
  IInv /\ [Next]_vars =>
    \A x \in Client :
      \/ req'[x] = req[x]
      \/ req'[x] = Idle
      \/ \E j \in JobId : StartCancel(x, j) \/ StartRetry(x, j)
      \/ x \in Rater /\ \E j \in JobId, v \in Verdict : Rate(x, j, v)
      \/ \E c \in Conversation : StartArchive(x, c) \/ StartRestore(x, c)
      \/ /\ x \in Manager
         /\ \E a \in ApprovalId : \/ StartResolve(x, a, "approved")
                                  \/ StartResolve(x, a, "rejected")
                                  \/ StartDelete(x, a)
      \/ CancelJob(x)
      \/ CancelTooLate(x)
      \/ CheckCancelled(x)
      \/ ArchiveCheckJobs(x)
      \/ PurgeObjects(x)
      \/ ReadGate(x)
      \/ ReadTaskStatus(x)
<1>. SUFFICES ASSUME IInv, [Next]_vars, NEW x \in Client,
                     req'[x] # req[x], req'[x] # Idle
              PROVE  \/ \E j \in JobId : StartCancel(x, j) \/ StartRetry(x, j)
                     \/ x \in Rater /\ \E j \in JobId, v \in Verdict : Rate(x, j, v)
                     \/ \E c \in Conversation : StartArchive(x, c) \/ StartRestore(x, c)
                     \/ /\ x \in Manager
                        /\ \E a \in ApprovalId : \/ StartResolve(x, a, "approved")
                                                 \/ StartResolve(x, a, "rejected")
                                                 \/ StartDelete(x, a)
                     \/ CancelJob(x)
                     \/ CancelTooLate(x)
                     \/ CheckCancelled(x)
                     \/ ArchiveCheckJobs(x)
                     \/ PurgeObjects(x)
                     \/ ReadGate(x)
                     \/ ReadTaskStatus(x)
  OBVIOUS
<1>a. DOMAIN req = Client
  BY DEF IInv, TypeOK
<1>. DEFINE Goal ==  \/ \E j \in JobId : StartCancel(x, j) \/ StartRetry(x, j)
                     \/ x \in Rater /\ \E j \in JobId, v \in Verdict : Rate(x, j, v)
                     \/ \E c \in Conversation : StartArchive(x, c) \/ StartRestore(x, c)
                     \/ /\ x \in Manager
                        /\ \E a \in ApprovalId : \/ StartResolve(x, a, "approved")
                                                 \/ StartResolve(x, a, "rejected")
                                                 \/ StartDelete(x, a)
                     \/ CancelJob(x)
                     \/ CancelTooLate(x)
                     \/ CheckCancelled(x)
                     \/ ArchiveCheckJobs(x)
                     \/ PurgeObjects(x)
                     \/ ReadGate(x)
                     \/ ReadTaskStatus(x)
<1>. USE <1>a DEF Continue, Respond, processVars
<1>1. ASSUME NEW u \in Editor, EditorStarts(u) PROVE Goal
  <2>1. CASE \E c \in Conversation : SendMessage(u, c) \/ RequestDelete(u, c)
    BY <2>1 DEF SendMessage, RequestDelete
  <2>2. CASE \E c \in Conversation : StartArchive(u, c) \/ StartRestore(u, c)
    <3>1. u = x
      BY <2>2 DEF StartArchive, StartRestore
    <3>. QED BY <2>2, <3>1
  <2>3. CASE \E j \in JobId : StartCancel(u, j) \/ StartRetry(u, j)
    <3>1. u = x
      BY <2>3 DEF StartCancel, StartRetry
    <3>. QED BY <2>3, <3>1
  <2>. QED BY <1>1, <2>1, <2>2, <2>3 DEF EditorStarts
<1>2. ASSUME NEW u \in Manager, ManagerStarts(u) PROVE Goal
  <2>1. u = x
    BY <1>2 DEF ManagerStarts, StartResolve, StartDelete
  <2>. QED BY <1>2, <2>1 DEF ManagerStarts
<1>3. ASSUME NEW u \in Rater, RaterStarts(u) PROVE Goal
  <2>1. u = x
    BY <1>3 DEF RaterStarts, Rate
  <2>. QED BY <1>3, <2>1 DEF RaterStarts
<1>4. ASSUME NEW u \in Client, Proceed(u) PROVE Goal
  <2>1. CASE CancelJob(u) \/ CancelTooLate(u) \/ CheckCancelled(u)
               \/ ArchiveCheckJobs(u) \/ PurgeObjects(u)
               \/ ReadGate(u) \/ ReadTaskStatus(u)
    <3>1. u = x
      BY <2>1 DEF CancelJob, CancelTooLate, CheckCancelled, ArchiveCheckJobs,
                  PurgeObjects, ReadGate, ReadTaskStatus
    <3>. QED BY <2>1, <3>1
  <2>2. CASE Respond(u)
    BY <2>2
  <2>. QED
    BY <1>4, <2>1, <2>2
       DEF Proceed, EmitCancelled, FinishRetry, RefuseRetry, FinishResolve,
           ArchiveWrite, RestoreWrite, PurgeFails, CommitDelete, RefuseDelete,
           ApplyGate
<1>5. ASSUME NEW u \in Client, RequestDies(u) PROVE Goal
  BY <1>5 DEF RequestDies
<1>6. ASSUME NEW w \in Worker, WorkerStep(w) \/ WorkerCrash(w) PROVE Goal
  BY <1>6 DEF WorkerStep, WorkerCrash, SelectJob, MissJob, ClaimJob, CompleteJob, DropJob,
              RequeueJob, FailJob, CheckError, EmitError
<1>. QED
  BY <1>1, <1>2, <1>3, <1>4, <1>5, <1>6
     DEF Next, vars, CreateConversation, Upload, BackoffElapsed

LEMMA ClientViewStep == IInv /\ [Next]_vars => ClientView'
<1>. DEFINE View(op, c, id, arg) ==
       /\ op \in JobOps => /\ id \in JobId
                           /\ jobStatus[id] # "none"
                           /\ c = jobConv[id]
       /\ op \in {"cancelNotice", "cancelWrite"} =>
            jobStatus[id] \in {"cancelled", "deleted"}
       /\ op \in ApprovalOps => /\ id \in ApprovalId
                                /\ approval[id].status # "none"
                                /\ c = approval[id].conv
       /\ op = "resolve" => arg \in {"approved", "rejected"}
       /\ op \in {"gated", "apply"} => arg \in ConvStatus
       /\ op \in ConvOps => c \in Conversation
<1>. DEFINE Held(x) == View(req[x].op, req[x].conv, req[x].id, req[x].arg)
<1>. SUFFICES ASSUME IInv, [Next]_vars, NEW x \in Client PROVE Held(x)'
  BY DEF ClientView
<1>1. Held(x)
  BY DEF IInv, ClientView
<1>2. ASSUME NEW op, NEW c, NEW id, NEW arg, View(op, c, id, arg)
      PROVE  View(op, c, id, arg)'
  BY <1>2, JobMonotone, ApprovalMonotone DEF JobOps, ApprovalOps, ConvOps
<1>3. ASSUME NEW op, NEW c, NEW id, NEW arg, View(op, c, id, arg)',
             Continue(x, op, c, id, arg)
      PROVE  Held(x)'
  <2>1. DOMAIN req = Client
    BY DEF IInv, TypeOK
  <2>2. req'[x] = Request(op, c, id, arg)
    BY <1>3, <2>1 DEF Continue
  <2>3. LET r == Request(op, c, id, arg)
        IN r.op = op /\ r.conv = c /\ r.id = id /\ r.arg = arg
    BY DEF Request
  <2>4. /\ req'[x].op = op /\ req'[x].conv = c
        /\ req'[x].id = id /\ req'[x].arg = arg
    BY <2>2, <2>3
  <2>. QED BY <1>3, <2>4
<1>4. ASSUME NEW op, NEW c, NEW id, NEW arg, View(op, c, id, arg),
             Continue(x, op, c, id, arg)
      PROVE  Held(x)'
  <2>1. View(op, c, id, arg)'
    BY <1>2, <1>4
  <2>. HIDE DEF View, Held
  <2>. QED BY <1>3, <1>4, <2>1
<1>5. CASE req'[x] = req[x]
  BY <1>1, <1>5, JobMonotone, ApprovalMonotone DEF JobOps, ApprovalOps, ConvOps
<1>6. CASE req'[x] = Idle
  <2>1. Idle.op = "idle"
    BY DEF Idle
  <2>. QED BY <1>6, <2>1 DEF JobOps, ApprovalOps, ConvOps
<1>7. CASE CancelJob(x)
  <2>. PICK c, id : c = req[x].conv /\ id = req[x].id
    OBVIOUS
  <2>1. Continue(x, "cancelNotice", c, id, "")
    BY <1>7 DEF CancelJob
  <2>2. id \in JobId /\ jobStatus'[id] = "cancelled" /\ jobConv'[id] = c
    BY <1>7, AtCancel DEF CancelJob, IInv, TypeOK
  <2>3. View("cancelNotice", c, id, "")'
    BY <2>2 DEF JobOps, ApprovalOps, ConvOps
  <2>. HIDE DEF View, Held
  <2>. QED BY <1>3, <2>1, <2>3
<1>18. ASSUME NEW j \in JobId, StartCancel(x, j) PROVE Held(x)'
  <2>1. Continue(x, "cancel", jobConv[j], j, "") /\ jobStatus[j] # "none"
    BY <1>18 DEF StartCancel, Active
  <2>2. View("cancel", jobConv[j], j, "")
    BY <2>1 DEF JobOps, ApprovalOps, ConvOps
  <2>. HIDE DEF View, Held
  <2>. QED BY <1>4, <2>1, <2>2
<1>19. CASE CancelTooLate(x)
  <2>1. CASE jobStatus[req[x].id] = "cancelled"
    <3>1. Continue(x, "cancelNotice", req[x].conv, req[x].id, "")
      BY <1>19, <2>1 DEF CancelTooLate
    <3>2. View("cancelNotice", req[x].conv, req[x].id, "")
      BY <1>1, <1>19, <2>1 DEF CancelTooLate, JobOps, ApprovalOps, ConvOps
    <3>. HIDE DEF View, Held
    <3>. QED BY <1>4, <3>1, <3>2
  <2>. QED BY <1>6, <1>19, <2>1 DEF CancelTooLate, Respond, IInv, TypeOK
<1>8. ASSUME NEW j \in JobId, StartRetry(x, j) PROVE Held(x)'
  <2>1. Continue(x, "retry", jobConv[j], j, "") /\ jobStatus[j] # "none"
    BY <1>8 DEF StartRetry
  <2>2. View("retry", jobConv[j], j, "")
    BY <2>1 DEF JobOps, ApprovalOps, ConvOps
  <2>. HIDE DEF View, Held
  <2>. QED BY <1>4, <2>1, <2>2
<1>9. ASSUME NEW j \in JobId, NEW v \in Verdict, Rate(x, j, v) PROVE Held(x)'
  <2>1. Continue(x, "gate", jobConv[j], j, "") /\ jobStatus[j] # "none"
    BY <1>9 DEF Rate, IInv, NoticeMatchesOutcome
  <2>2. View("gate", jobConv[j], j, "")
    BY <2>1 DEF JobOps, ApprovalOps, ConvOps
  <2>. HIDE DEF View, Held
  <2>. QED BY <1>4, <2>1, <2>2
<1>10. ASSUME NEW c \in Conversation, StartArchive(x, c) \/ StartRestore(x, c)
       PROVE  Held(x)'
  <2>1. PICK op \in {"archive", "restore"} : Continue(x, op, c, 0, "")
    BY <1>10 DEF StartArchive, StartRestore
  <2>2. View(op, c, 0, "")
    BY DEF JobOps, ApprovalOps, ConvOps
  <2>. HIDE DEF View, Held
  <2>. QED BY <1>4, <2>1, <2>2
<1>11. ASSUME NEW a \in ApprovalId, NEW d \in {"approved", "rejected"},
              StartResolve(x, a, d)
       PROVE  Held(x)'
  <2>1. Continue(x, "resolve", approval[a].conv, a, d) /\ approval[a].status # "none"
    BY <1>11 DEF StartResolve
  <2>2. View("resolve", approval[a].conv, a, d)
    BY <2>1 DEF JobOps, ApprovalOps, ConvOps
  <2>. HIDE DEF View, Held
  <2>. QED BY <1>4, <2>1, <2>2
<1>12. ASSUME NEW a \in ApprovalId, StartDelete(x, a) PROVE Held(x)'
  <2>1. Continue(x, "purge", approval[a].conv, a, "") /\ approval[a].status # "none"
    BY <1>12 DEF StartDelete, Preflight
  <2>2. View("purge", approval[a].conv, a, "")
    BY <2>1 DEF JobOps, ApprovalOps, ConvOps
  <2>. HIDE DEF View, Held
  <2>. QED BY <1>4, <2>1, <2>2
<1>13. CASE CheckCancelled(x)
  <2>1. CASE Continue(x, "cancelWrite", req[x].conv, req[x].id, "")
    <3>1. View("cancelWrite", req[x].conv, req[x].id, "")
      BY <1>1, <1>13 DEF CheckCancelled, JobOps, ApprovalOps, ConvOps
    <3>. HIDE DEF View, Held
    <3>. QED BY <1>4, <2>1, <3>1
  <2>. QED BY <1>6, <1>13, <2>1 DEF CheckCancelled, Respond, IInv, TypeOK
<1>14. CASE ArchiveCheckJobs(x)
  <2>1. CASE Continue(x, "archiveWrite", req[x].conv, 0, "")
    <3>1. View("archiveWrite", req[x].conv, 0, "")
      BY <1>1, <1>14 DEF ArchiveCheckJobs, JobOps, ApprovalOps, ConvOps
    <3>. HIDE DEF View, Held
    <3>. QED BY <1>4, <2>1, <3>1
  <2>. QED BY <1>6, <1>14, <2>1 DEF ArchiveCheckJobs, Respond, IInv, TypeOK
<1>15. CASE PurgeObjects(x)
  <2>1. Continue(x, "commitDelete", req[x].conv, req[x].id, "")
    BY <1>15 DEF PurgeObjects
  <2>2. View("commitDelete", req[x].conv, req[x].id, "")
    BY <1>1, <1>15 DEF PurgeObjects, JobOps, ApprovalOps, ConvOps
  <2>. HIDE DEF View, Held
  <2>. QED BY <1>4, <2>1, <2>2
<1>16. CASE ReadGate(x)
  <2>. DEFINE g == GateStatus(req[x].id)
  <2>1. CASE Continue(x, "gated", req[x].conv, req[x].id, g)
    <3>1. g \in ConvStatus
      BY DEF GateStatus, ConvStatus
    <3>2. View("gated", req[x].conv, req[x].id, g)
      BY <1>1, <1>16, <3>1 DEF ReadGate, JobOps, ApprovalOps, ConvOps
    <3>. HIDE DEF View, Held
    <3>. QED BY <1>4, <2>1, <3>2
  <2>. QED BY <1>6, <1>16, <2>1 DEF ReadGate, Respond, IInv, TypeOK
<1>17. CASE ReadTaskStatus(x)
  <2>1. CASE Continue(x, "apply", req[x].conv, req[x].id, req[x].arg)
    <3>1. View("apply", req[x].conv, req[x].id, req[x].arg)
      BY <1>1, <1>17 DEF ReadTaskStatus, JobOps, ApprovalOps, ConvOps
    <3>. HIDE DEF View, Held
    <3>. QED BY <1>4, <2>1, <3>1
  <2>. QED BY <1>6, <1>17, <2>1 DEF ReadTaskStatus, Respond, IInv, TypeOK
<1>. QED
  <2>. HIDE DEF View, Held
  <2>. QED
    BY <1>5, <1>6, <1>7, <1>8, <1>9, <1>10, <1>11, <1>12, <1>13, <1>14, <1>15,
       <1>16, <1>17, <1>18, <1>19, RequestSteps

----------------------------------------------------------------------------
(* Theorems.                                                               *)

LEMMA InitIInv == Init => IInv
<1>. SUFFICES ASSUME Init PROVE IInv
  OBVIOUS
<1>. USE BoundsAssumption DEF Init
<1>1. TypeOK
  <2>1. /\ NoWork \in WorkerState /\ Idle \in RequestState
        /\ [status |-> "none", conv |-> NoConv, previous |-> "active"] \in ApprovalRow
    <3>1. NoWork \in WorkerState
      BY DEF NoWork, Work, WorkerState
    <3>2. Idle \in RequestState
      BY DEF Idle, RequestState, RequestOp, RequestArg
    <3>3. [status |-> "none", conv |-> NoConv, previous |-> "active"] \in ApprovalRow
      BY DEF ApprovalRow, ConvStatus
    <3>. QED BY <3>1, <3>2, <3>3
  <2>. QED BY <2>1 DEF TypeOK
<1>2. JobRows
  BY DEF JobRows
<1>3. /\ ApprovalRows
      /\ OneOpenApproval
  BY DEF ApprovalRows, OneOpenApproval, Open
<1>4. WorkerView /\ SoleExecutor
  BY WorkFields DEF WorkerView, SoleExecutor, Executing
<1>5. ClientView
  <2>1. Idle.op = "idle"
    BY DEF Idle
  <2>. QED BY <2>1 DEF ClientView, JobOps, ApprovalOps, ConvOps
<1>6. OneActiveJob /\ NoticeMatchesOutcome
  BY DEF OneActiveJob, Active, NoticeMatchesOutcome
<1>. QED BY <1>1, <1>2, <1>3, <1>4, <1>5, <1>6 DEF IInv

LEMMA IInvStep == IInv /\ [Next]_vars => IInv'
  BY TypeOKStep, JobRowsStep, ApprovalRowsStep, WorkerViewStep, ClientViewStep,
     OneActiveJobStep, SoleExecutorStep, NoticeMatchesOutcomeStep,
     OneOpenApprovalStep
     DEF IInv

(* The inductive invariant holds in every behaviour.                       *)
THEOREM Inductive == Spec => []IInv
  BY InitIInv, IInvStep, PTL DEF Spec

(* The store's rows, the workers' jobs and the requests in flight always   *)
(* have the types the handlers rely on.                                    *)
THEOREM TypeCorrect == Spec => []TypeOK
<1>1. IInv => TypeOK
  BY DEF IInv
<1>. QED BY Inductive, <1>1, PTL

(* However messages, retries, cancellations, deletions and workers         *)
(* interleave, a task never has two executions queued or running.          *)
THEOREM NeverTwoActiveJobs == Spec => []OneActiveJob
<1>1. IInv => OneActiveJob
  BY DEF IInv
<1>. QED BY Inductive, <1>1, PTL

(* However many workers share the queue, no job is in two hands.           *)
THEOREM NeverTwoExecutors == Spec => []SoleExecutor
<1>1. IInv => SoleExecutor
  BY DEF IInv
<1>. QED BY Inductive, <1>1, PTL

(* An answer is in the messages exactly when its job completed, and the    *)
(* client is never told anything else than what happened.                  *)
THEOREM ToldWhatHappened == Spec => []NoticeMatchesOutcome
<1>1. IInv => NoticeMatchesOutcome
  BY DEF IInv
<1>. QED BY Inductive, <1>1, PTL

(* Concurrent deletion requests of a task share one approval row.          *)
THEOREM NeverTwoOpenApprovals == Spec => []OneOpenApproval
<1>1. IInv => OneOpenApproval
  BY DEF IInv
<1>. QED BY Inductive, <1>1, PTL

(* Racing resolutions never change a decision that was taken: only the     *)
(* deletion of the task follows it.                                        *)
THEOREM DecisionsStand == Spec => DecidedOnce
<1>1. IInv /\ [Next]_vars =>
        [\A a \in ApprovalId :
           approval[a].status \in {"approved", "rejected"} =>
             approval'[a].status \in {approval[a].status, "deleted"}]_vars
  <2>. SUFFICES ASSUME IInv, [Next]_vars, NEW x \in ApprovalId,
                       approval[x].status \in {"approved", "rejected"}
                PROVE  approval'[x].status \in {approval[x].status, "deleted"}
    OBVIOUS
  <2>a. DOMAIN approval = ApprovalId
    BY DEF IInv, TypeOK
  <2>1. ASSUME NEW u \in Client, NEW c \in Conversation, RequestDelete(u, c)
        PROVE  approval'[x] = approval[x]
    BY <2>a, <2>1 DEF RequestDelete, NextApproval
  <2>2. ASSUME NEW u \in Client, FinishResolve(u)
        PROVE  approval'[x] = approval[x]
    BY <2>a, <2>2 DEF FinishResolve, StillPending
  <2>3. ASSUME NEW u \in Client, CommitDelete(u)
        PROVE  approval'[x].status \in {approval[x].status, "deleted"}
    BY <2>a, <2>3 DEF CommitDelete, Decided
  <2>. QED BY <2>1, <2>2, <2>3, ApprovalSteps DEF ApprovalStep
<1>. QED BY Inductive, <1>1, PTL DEF Spec, DecidedOnce

----------------------------------------------------------------------------
(* The refinement of TurnLedger.                                           *)
LEMMA Outcomes ==
  ASSUME NEW j \in JobId
  PROVE  /\ jobStatus[j] = "none" => OutcomeOf(j) = "unborn"
         /\ Active(j) => OutcomeOf(j) = "open"
         /\ jobStatus[j] = "completed" => OutcomeOf(j) = "answered"
         /\ jobStatus[j] = "failed" => OutcomeOf(j) = "failed"
         /\ jobStatus[j] = "cancelled" => OutcomeOf(j) = "stopped"
         /\ jobStatus[j] = "deleted" => OutcomeOf(j) = "erased"
         /\ jobStatus[j] \in {"none", "queued", "running", "completed",
                              "failed", "cancelled", "deleted"} =>
              (OutcomeOf(j) = "open" <=> Active(j))
  BY DEF OutcomeOf, Active

LEMMA LedgerInit == Init => Ledger!LedgerInit
  BY DEF Init, Ledger!LedgerInit, OutcomeOf, Active

LEMMA LedgerStep == IInv /\ [Next]_vars => [Ledger!LedgerNext]_(Ledger!ledgerVars)
<1>. SUFFICES ASSUME IInv, [Next]_vars
              PROVE  Ledger!LedgerNext \/ UNCHANGED Ledger!ledgerVars
  OBVIOUS
<1>. DEFINE out == [j \in JobId |-> OutcomeOf(j)]
<1>a. /\ jobStatus \in [JobId -> {"none", "queued", "running", "completed",
                                   "failed", "cancelled", "deleted"}]
      /\ jobConv \in [JobId -> Conversation \cup {NoConv}]
      /\ notice \in [JobId -> {"none", "ready", "error", "cancelled"}]
  BY DEF IInv, TypeOK
<1>b. \A w \in Worker : exec[w].phase # "idle" => exec[w].job \in JobId
  BY DEF IInv, WorkerView
<1>1. ASSUME NEW c \in Conversation, EnqueueJob(c) PROVE Ledger!LedgerNext
  <2>1. PICK n \in JobId : /\ jobStatus[n] = "none"
                           /\ jobStatus' = [jobStatus EXCEPT ![n] = "queued"]
                           /\ jobConv' = [jobConv EXCEPT ![n] = c]
    BY <1>1 DEF EnqueueJob, NextJob
  <2>2. Ledger!NothingOpen(c)
    BY <1>1, <1>a, Outcomes DEF EnqueueJob, CanEnqueue, HasActive, Ledger!NothingOpen
  <2>3. out[n] = "unborn"
    BY <2>1, Outcomes
  <2>4. out' = [out EXCEPT ![n] = "open"]
    BY <1>a, <2>1 DEF OutcomeOf, Active
  <2>5. answered' = answered /\ notice' = notice
    BY <1>1 DEF EnqueueJob, answerVars
  <2>6. Ledger!OpenTurn(n, c)
    BY <2>1, <2>2, <2>3, <2>4, <2>5 DEF Ledger!OpenTurn
  <2>. QED BY <2>6 DEF Ledger!LedgerNext
<1>2. ASSUME NEW u \in Client, CancelJob(u) PROVE Ledger!LedgerNext
  <2>. DEFINE j == req[u].id
  <2>1. j \in JobId
    BY <1>2, AtCancel DEF CancelJob
  <2>2. out[j] = "open"
    BY <1>2, <2>1, Outcomes DEF CancelJob
  <2>3. out' = [out EXCEPT ![j] = "stopped"]
    BY <1>a, <1>2 DEF CancelJob, OutcomeOf, Active
  <2>4. Ledger!GiveUp(j, "stopped")
    BY <1>2, <2>2, <2>3 DEF CancelJob, answerVars, Ledger!GiveUp
  <2>. QED BY <2>1, <2>4 DEF Ledger!LedgerNext, Ledger!Settled
<1>3. ASSUME NEW u \in Client, CommitDelete(u) PROVE Ledger!LedgerNext
  <2>. DEFINE c == req[u].conv
  <2>1. c \in Conversation
    BY <1>3 DEF CommitDelete, Deletable, IInv, ClientView, ApprovalOps, ApprovalRows
  <2>2. Ledger!NothingOpen(c)
    BY <1>3, <1>a, Outcomes DEF CommitDelete, Deletable, HasActive, Ledger!NothingOpen
  <2>3. out' = [j \in JobId |-> IF jobConv[j] = c THEN "erased" ELSE out[j]]
    BY <1>a, <1>3 DEF CommitDelete, OutcomeOf, Active
  <2>4. answered \subseteq JobId
    BY DEF IInv, TypeOK
  <2>5. Ledger!Erase(c)
    BY <1>3, <2>2, <2>3, <2>4 DEF CommitDelete, Ledger!Erase
  <2>. QED BY <2>1, <2>5 DEF Ledger!LedgerNext
<1>4. ASSUME NEW w \in Worker, ClaimJob(w)
      PROVE  UNCHANGED Ledger!ledgerVars
  <2>1. out' = out
    BY <1>a, <1>4 DEF ClaimJob, StillQueued, OutcomeOf, Active
  <2>. QED BY <1>4, <2>1 DEF ClaimJob, answerVars, Ledger!ledgerVars
<1>5. ASSUME NEW w \in Worker, CompleteJob(w) PROVE Ledger!LedgerNext
  <2>. DEFINE j == exec[w].job
  <2>1. j \in JobId /\ jobStatus[j] = "running"
    BY <1>5, <1>b DEF CompleteJob, StillRunning
  <2>2. out[j] = "open"
    BY <2>1, Outcomes DEF Active
  <2>3. out' = [out EXCEPT ![j] = "answered"]
    BY <1>a, <1>5, <2>1 DEF CompleteJob, OutcomeOf, Active
  <2>4. Ledger!Answer(j)
    BY <1>5, <2>2, <2>3 DEF CompleteJob, Ledger!Answer
  <2>. QED BY <2>1, <2>4 DEF Ledger!LedgerNext
<1>6. ASSUME NEW w \in Worker, RequeueJob(w) PROVE UNCHANGED Ledger!ledgerVars
  <2>1. out' = out
    BY <1>a, <1>b, <1>6 DEF RequeueJob, StillRunning, OutcomeOf, Active
  <2>. QED BY <1>6, <2>1 DEF RequeueJob, answerVars, Ledger!ledgerVars
<1>7. ASSUME NEW w \in Worker, FailJob(w) PROVE Ledger!LedgerNext
  <2>. DEFINE j == exec[w].job
  <2>1. j \in JobId /\ jobStatus[j] = "running"
    BY <1>7, <1>b DEF FailJob, StillRunning
  <2>2. out[j] = "open"
    BY <2>1, Outcomes DEF Active
  <2>3. out' = [out EXCEPT ![j] = "failed"]
    BY <1>a, <1>7, <2>1 DEF FailJob, OutcomeOf, Active
  <2>4. Ledger!GiveUp(j, "failed")
    BY <1>7, <2>2, <2>3 DEF FailJob, answerVars, Ledger!GiveUp
  <2>. QED BY <2>1, <2>4 DEF Ledger!LedgerNext, Ledger!Settled
<1>8. ASSUME NEW w \in Worker, EmitError(w) PROVE Ledger!LedgerNext
  <2>. DEFINE j == exec[w].job
  <2>1. j \in JobId /\ jobStatus[j] \in {"failed", "deleted"}
    BY <1>8 DEF EmitError, IInv, WorkerView
  <2>2. out[j] \in {"failed", "erased"}
    BY <2>1, Outcomes
  <2>3. out' = out
    BY <1>8 DEF EmitError, jobVars, OutcomeOf, Active
  <2>4. Ledger!Word("failed") = "error"
    BY DEF Ledger!Word
  <2>5. Ledger!Tell(j, "failed")
    BY <1>8, <2>2, <2>3, <2>4 DEF EmitError, jobVars, Ledger!Tell
  <2>. QED BY <2>1, <2>5 DEF Ledger!LedgerNext, Ledger!Settled
<1>9. ASSUME NEW u \in Client, EmitCancelled(u) PROVE Ledger!LedgerNext
  <2>. DEFINE j == req[u].id
  <2>1. j \in JobId /\ jobStatus[j] \in {"cancelled", "deleted"}
    BY <1>9 DEF EmitCancelled, IInv, ClientView, JobOps
  <2>2. out[j] \in {"stopped", "erased"}
    BY <2>1, Outcomes
  <2>3. out' = out
    BY <1>9 DEF EmitCancelled, jobVars, OutcomeOf, Active
  <2>4. Ledger!Word("stopped") = "cancelled"
    BY DEF Ledger!Word
  <2>5. Ledger!Tell(j, "stopped")
    BY <1>9, <2>2, <2>3, <2>4 DEF EmitCancelled, jobVars, Ledger!Tell
  <2>. QED BY <2>1, <2>5 DEF Ledger!LedgerNext, Ledger!Settled
<1>10. CASE UNCHANGED <<jobStatus, jobConv, answered, notice>>
  BY <1>10 DEF Ledger!ledgerVars, OutcomeOf, Active
<1>. QED
  <2>. USE JobSteps, NoticeSteps DEF JobStep
  <2>. QED BY <1>1, <1>2, <1>3, <1>4, <1>5, <1>6, <1>7, <1>8, <1>9, <1>10

(* Every behaviour of the store, its handlers and its workers is a         *)
(* behaviour of the ledger.                                                *)
THEOREM TaskKeepsLedger == Spec => KeepsLedger
  BY Inductive, LedgerInit, LedgerStep, PTL
     DEF Spec, KeepsLedger, Ledger!LedgerSpec

----------------------------------------------------------------------------
(* The governed deletion.  Two resolvers can break all of it, and a rating *)
(* under way while a deletion is requested all of it but RejectionRestores. *)
OneManager == \A u, v \in Manager : u = v
OneResolver == OneManager /\ Rater = {}

(* An open request locks its task; while it lasts nothing executes, and    *)
(* objects are missing only under an approved request.                     *)
Locked(c) ==
  /\ HasOpen(c) => status[c] = "waiting_approval" /\ ~HasActive(c)
  /\ asset[c] = "broken" =>
       \E a \in ApprovalId : approval[a].conv = c /\ approval[a].status = "approved"

(* What a rejection restores is never the lock itself.                     *)
PreviousIsFree ==
  \A a \in ApprovalId :
    approval[a].status = "pending" => approval[a].previous # "waiting_approval"

(* What the one manager has read of an approval is still so when it        *)
(* writes, and no quality gate sets the lock.                              *)
ResolverView ==
  \A u \in Client :
    /\ req[u].op \in ApprovalOps => u \in Manager
    /\ req[u].op = "resolve" => approval[req[u].id].status = "pending"
    /\ req[u].op \in {"purge", "commitDelete"} => approval[req[u].id].status = "approved"
    /\ req[u].op \in {"gated", "apply"} => req[u].arg # "waiting_approval"

RejectionInv == IInv /\ RejectionRestores /\ PreviousIsFree /\ ResolverView

NobodyRates == \A u \in Client : req[u].op \notin {"gate", "gated", "apply"}

DeletionInv ==
  /\ RejectionInv
  /\ \A c \in Conversation : Locked(c)
  /\ NobodyRates

(* Which actions touch conversations.status.                               *)
StatusStep ==
  \/ \E c \in Conversation : CreateConversation(c)
  \/ \E c \in Conversation : EnqueueJob(c)
  \/ \E u \in Client, c \in Conversation : RequestDelete(u, c)
  \/ \E u \in Client : CancelJob(u)
  \/ \E u \in Client : FinishResolve(u)
  \/ \E u \in Client : CommitDelete(u)
  \/ \E u \in Client : ApplyGate(u)
  \/ \E w \in Worker : CompleteJob(w)
  \/ \E w \in Worker : FailJob(w)

LEMMA StatusSteps == IInv /\ [Next]_vars => StatusStep \/ UNCHANGED status
<1>. SUFFICES ASSUME IInv, [Next]_vars, ~StatusStep PROVE UNCHANGED status
  OBVIOUS
<1>. USE DEF StatusStep, convVars
<1>1. ASSUME NEW u \in Editor, EditorStarts(u) PROVE UNCHANGED status
  BY <1>1 DEF EditorStarts, SendMessage, StartCancel, StartArchive,
              StartRestore, StartRetry
<1>2. ASSUME NEW u \in Client, Proceed(u) PROVE UNCHANGED status
  <2>1. ~FinishRetry(u)
    BY DEF FinishRetry, EnqueueJob, CanEnqueue, IInv, TypeOK, ClientView, JobRows, JobOps
  <2>. QED BY <1>2, <2>1 DEF Proceed, CancelTooLate, CheckCancelled, EmitCancelled,
              RefuseRetry, ArchiveCheckJobs, ArchiveWrite, RestoreWrite,
              PurgeObjects, PurgeFails, RefuseDelete, ReadGate, ReadTaskStatus
<1>3. ASSUME NEW w \in Worker, WorkerStep(w) \/ WorkerCrash(w)
      PROVE  UNCHANGED status
  BY <1>3 DEF WorkerStep, WorkerCrash, SelectJob, MissJob, ClaimJob, DropJob,
              RequeueJob, CheckError, EmitError
<1>. QED
  BY <1>1, <1>2, <1>3
     DEF Next, vars, Upload, RequestDies, BackoffElapsed,
         ManagerStarts, StartResolve, StartDelete, RaterStarts, Rate

(* Which actions touch the objects of a task.                              *)
AssetStep ==
  \/ \E c \in Conversation : Upload(c)
  \/ \E u \in Client : PurgeObjects(u) \/ PurgeFails(u)
  \/ \E u \in Client : CommitDelete(u)

LEMMA AssetSteps == [Next]_vars => AssetStep \/ UNCHANGED asset
<1>. SUFFICES ASSUME [Next]_vars, ~AssetStep PROVE UNCHANGED asset
  OBVIOUS
<1>. USE DEF AssetStep, convVars
<1>1. ASSUME NEW u \in Editor, EditorStarts(u) PROVE UNCHANGED asset
  BY <1>1 DEF EditorStarts, SendMessage, EnqueueJob, RequestDelete, StartCancel,
              StartArchive, StartRestore, StartRetry
<1>2. ASSUME NEW u \in Client, Proceed(u) PROVE UNCHANGED asset
  BY <1>2 DEF Proceed, CancelJob, CancelTooLate, CheckCancelled, EmitCancelled,
              FinishRetry, EnqueueJob, RefuseRetry, FinishResolve,
              ArchiveCheckJobs, ArchiveWrite, RestoreWrite, RefuseDelete,
              ReadGate, ReadTaskStatus, ApplyGate
<1>3. ASSUME NEW w \in Worker, WorkerStep(w) \/ WorkerCrash(w)
      PROVE  UNCHANGED asset
  BY <1>3 DEF WorkerStep, WorkerCrash, SelectJob, MissJob, ClaimJob, CompleteJob,
              DropJob, RequeueJob, FailJob, CheckError, EmitError
<1>. QED
  BY <1>1, <1>2, <1>3
     DEF Next, vars, CreateConversation, RequestDies, BackoffElapsed,
         ManagerStarts, StartResolve, StartDelete, RaterStarts, Rate

(* The lock of task c, given that its open approvals, its status, its      *)
(* executions and its objects are as they were.                            *)
LEMMA LockedStays ==
  ASSUME NEW c, Locked(c), TypeOK,
         status'[c] = status[c], approval' = approval,
         asset'[c] = "broken" => asset[c] = "broken",
         HasActive(c)' => HasActive(c) \/ status[c] # "waiting_approval"
  PROVE  Locked(c)'
  BY DEF Locked, HasOpen, Open

(* Only a task that is not locked gets an execution.                       *)
LEMMA ActiveGrows ==
  ASSUME IInv, [Next]_vars, NEW c \in Conversation, HasActive(c)', ~HasActive(c)
  PROVE  status[c] # "waiting_approval" /\ EnqueueJob(c)
<1>. DEFINE Goal == status[c] # "waiting_approval" /\ EnqueueJob(c)
<1>. USE DEF HasActive, Active
<1>a. /\ jobStatus \in [JobId -> {"none", "queued", "running", "completed",
                                   "failed", "cancelled", "deleted"}]
      /\ jobConv \in [JobId -> Conversation \cup {NoConv}]
  BY DEF IInv, TypeOK
<1>0. PICK j \in JobId : jobConv'[j] = c /\ Active(j)'
  OBVIOUS
<1>b. ~(jobConv[j] = c /\ Active(j))
  OBVIOUS
<1>1. ASSUME NEW d \in Conversation, EnqueueJob(d) PROVE Goal
  <2>1. PICK n \in JobId : /\ jobStatus' = [jobStatus EXCEPT ![n] = "queued"]
                           /\ jobConv' = [jobConv EXCEPT ![n] = d]
    BY <1>1 DEF EnqueueJob
  <2>2. d = c
    BY <1>a, <1>0, <1>b, <2>1
  <2>. QED BY <1>1, <2>2 DEF EnqueueJob, CanEnqueue
<1>2. ASSUME NEW u \in Client, CancelJob(u) PROVE Goal
  BY <1>a, <1>0, <1>b, <1>2, AtCancel DEF CancelJob
<1>3. ASSUME NEW u \in Client, CommitDelete(u) PROVE Goal
  BY <1>a, <1>0, <1>b, <1>3 DEF CommitDelete
<1>4. ASSUME NEW w \in Worker, ClaimJob(w) PROVE Goal
  BY <1>a, <1>0, <1>b, <1>4, AtWork DEF ClaimJob, StillQueued
<1>5. ASSUME NEW w \in Worker, CompleteJob(w) PROVE Goal
  BY <1>a, <1>0, <1>b, <1>5 DEF CompleteJob
<1>6. ASSUME NEW w \in Worker, RequeueJob(w) PROVE Goal
  BY <1>a, <1>0, <1>b, <1>6 DEF RequeueJob, StillRunning
<1>7. ASSUME NEW w \in Worker, FailJob(w) PROVE Goal
  BY <1>a, <1>0, <1>b, <1>7 DEF FailJob
<1>8. CASE UNCHANGED <<jobStatus, jobConv>>
  BY <1>a, <1>0, <1>b, <1>8
<1>. QED
  BY <1>1, <1>2, <1>3, <1>4, <1>5, <1>6, <1>7, <1>8, JobSteps DEF JobStep

(* Requests of the resolver: nobody else decides or deletes.               *)
LEMMA ResolverViewStep ==
  OneManager /\ RejectionInv /\ [Next]_vars => ResolverView'
<1>. SUFFICES ASSUME OneManager, RejectionInv, [Next]_vars, NEW x \in Client
              PROVE  (/\ req[x].op \in ApprovalOps => x \in Manager
                      /\ req[x].op = "resolve" =>
                           approval[req[x].id].status = "pending"
                      /\ req[x].op \in {"purge", "commitDelete"} =>
                           approval[req[x].id].status = "approved"
                      /\ req[x].op \in {"gated", "apply"} =>
                           req[x].arg # "waiting_approval")'
  BY DEF ResolverView
<1>. DEFINE Goal == (/\ req[x].op \in ApprovalOps => x \in Manager
                     /\ req[x].op = "resolve" =>
                          approval[req[x].id].status = "pending"
                     /\ req[x].op \in {"purge", "commitDelete"} =>
                          approval[req[x].id].status = "approved"
                     /\ req[x].op \in {"gated", "apply"} =>
                          req[x].arg # "waiting_approval")'
<1>a. /\ IInv
      /\ DOMAIN req = Client
      /\ DOMAIN approval = ApprovalId
      /\ \A u \in Client : req[u].op \in ApprovalOps =>
           /\ u \in Manager
           /\ req[u].id \in ApprovalId
           /\ approval[req[u].id].status # "none"
           /\ req[u].op = "resolve" => approval[req[u].id].status = "pending"
           /\ req[u].op \in {"purge", "commitDelete"} =>
                approval[req[u].id].status = "approved"
      /\ req[x].op \in {"gated", "apply"} => req[x].arg # "waiting_approval"
  BY DEF RejectionInv, ResolverView, IInv, TypeOK, ClientView, ApprovalOps
<1>b. Idle.op = "idle"
  BY DEF Idle
<1>c. \A op, c, id, arg :
        Continue(x, op, c, id, arg) =>
          req'[x].op = op /\ req'[x].id = id /\ req'[x].arg = arg
  BY <1>a DEF Continue, Request
<1>1. CASE req'[x] = req[x]
  <2>1. CASE req[x].op \in ApprovalOps
    <3>. DEFINE a == req[x].id
    <3>1. ASSUME NEW u \in Client, NEW c \in Conversation, RequestDelete(u, c)
          PROVE  approval'[a] = approval[a]
      BY <1>a, <2>1, <3>1 DEF RequestDelete, NextApproval
    <3>2. ASSUME NEW u \in Client, FinishResolve(u) \/ CommitDelete(u) PROVE FALSE
      <4>1. req[u].op \in ApprovalOps /\ req[u].op # "idle" /\ Respond(u)
        BY <3>2 DEF FinishResolve, CommitDelete, ApprovalOps
      <4>2. u = x
        BY <1>a, <2>1, <4>1 DEF OneManager
      <4>3. req'[x] = Idle
        BY <1>a, <4>1, <4>2 DEF Respond
      <4>. QED BY <1>1, <1>b, <4>1, <4>2, <4>3
    <3>3. approval'[a] = approval[a]
      BY <3>1, <3>2, ApprovalSteps DEF ApprovalStep
    <3>. QED BY <1>1, <1>a, <2>1, <3>3 DEF ApprovalOps
  <2>2. CASE req[x].op \notin ApprovalOps
    BY <1>1, <1>a, <2>2 DEF ApprovalOps
  <2>. QED BY <2>1, <2>2
<1>2. CASE req'[x] = Idle
  BY <1>2, <1>b DEF ApprovalOps
<1>3. CASE \/ \E j \in JobId : StartCancel(x, j) \/ StartRetry(x, j)
           \/ \E c \in Conversation : StartArchive(x, c) \/ StartRestore(x, c)
           \/ CancelJob(x)
  <2>1. req'[x].op \in {"cancel", "retry", "archive", "restore", "cancelNotice"}
    BY <1>3, <1>c DEF StartCancel, StartRetry, StartArchive, StartRestore, CancelJob
  <2>. QED BY <2>1 DEF ApprovalOps
<1>4. CASE CancelTooLate(x) \/ CheckCancelled(x) \/ ArchiveCheckJobs(x)
  <2>1. req'[x] = Idle \/ req'[x].op \in {"cancelNotice", "cancelWrite", "archiveWrite"}
    BY <1>4, <1>a, <1>c DEF CancelTooLate, CheckCancelled, ArchiveCheckJobs, Respond
  <2>. QED BY <1>b, <2>1 DEF ApprovalOps
<1>5. ASSUME NEW a \in ApprovalId, NEW d, StartResolve(x, a, d), x \in Manager PROVE Goal
  <2>1. req'[x].op = "resolve" /\ req'[x].id = a
    BY <1>5, <1>c DEF StartResolve
  <2>2. approval'[a].status = "pending"
    BY <1>5 DEF StartResolve
  <2>. QED BY <1>5, <2>1, <2>2 DEF ApprovalOps
<1>6. ASSUME NEW a \in ApprovalId, StartDelete(x, a), x \in Manager PROVE Goal
  <2>1. req'[x].op = "purge" /\ req'[x].id = a
    BY <1>6, <1>c DEF StartDelete
  <2>2. approval'[a].status = "approved"
    BY <1>6 DEF StartDelete, Preflight
  <2>. QED BY <1>6, <2>1, <2>2 DEF ApprovalOps
<1>7. CASE PurgeObjects(x)
  <2>1. req'[x].op = "commitDelete" /\ req'[x].id = req[x].id
    BY <1>7, <1>c DEF PurgeObjects
  <2>2. /\ x \in Manager
        /\ approval'[req[x].id].status = "approved"
    BY <1>7, <1>a DEF PurgeObjects, ApprovalOps
  <2>. QED BY <2>1, <2>2 DEF ApprovalOps
<1>8. ASSUME NEW j \in JobId, NEW v \in Verdict, Rate(x, j, v) PROVE Goal
  <2>1. req'[x].op = "gate"
    BY <1>8, <1>c DEF Rate
  <2>. QED BY <2>1 DEF ApprovalOps
<1>9. CASE ReadGate(x)
  <2>1. \/ req'[x] = Idle
        \/ req'[x].op = "gated" /\ req'[x].arg # "waiting_approval"
    BY <1>9, <1>a, <1>c DEF ReadGate, GateStatus, Respond
  <2>. QED BY <1>b, <2>1 DEF ApprovalOps
<1>10. CASE ReadTaskStatus(x)
  <2>1. \/ req'[x] = Idle
        \/ req'[x].op = "apply" /\ req'[x].arg # "waiting_approval"
    BY <1>10, <1>a, <1>c DEF ReadTaskStatus, Respond
  <2>. QED BY <1>b, <2>1 DEF ApprovalOps
<1>. QED
  BY <1>a, <1>1, <1>2, <1>3, <1>4, <1>5, <1>6, <1>7, <1>8, <1>9, <1>10, RequestSteps

(* A deletion request remembers a status in which the task was free.       *)
LEMMA PreviousIsFreeStep == RejectionInv /\ [Next]_vars => PreviousIsFree'
<1>. SUFFICES ASSUME RejectionInv, [Next]_vars, NEW x \in ApprovalId,
                     approval'[x].status = "pending"
              PROVE  approval'[x].previous # "waiting_approval"
  BY DEF PreviousIsFree
<1>. DEFINE Goal == approval'[x].previous # "waiting_approval"
<1>a. /\ IInv
      /\ DOMAIN approval = ApprovalId
      /\ approval[x].status = "pending" => approval[x].previous # "waiting_approval"
      /\ \A c \in Conversation : status[c] = "waiting_approval" => HasOpen(c)
  BY DEF RejectionInv, IInv, TypeOK, PreviousIsFree, RejectionRestores
<1>1. ASSUME NEW u \in Client, NEW c \in Conversation, RequestDelete(u, c) PROVE Goal
  <2>1. status[c] # "waiting_approval"
    BY <1>a, <1>1 DEF RequestDelete
  <2>. QED BY <1>a, <1>1, <2>1 DEF RequestDelete
<1>2. ASSUME NEW u \in Client, FinishResolve(u) PROVE Goal
  BY <1>a, <1>2 DEF FinishResolve, Decided, StillPending
<1>3. ASSUME NEW u \in Client, CommitDelete(u) PROVE Goal
  BY <1>a, <1>3 DEF CommitDelete, Decided
<1>4. CASE UNCHANGED approval
  BY <1>a, <1>4
<1>. QED BY <1>1, <1>2, <1>3, <1>4, ApprovalSteps DEF ApprovalStep

(* A task is set to waiting only along with an open request, and what      *)
(* closes the request sets it to something else.                           *)
LEMMA RestoresStep == RejectionInv /\ [Next]_vars => RejectionRestores'
<1>. SUFFICES ASSUME RejectionInv, [Next]_vars, NEW x \in Conversation,
                     status'[x] = "waiting_approval"
              PROVE  HasOpen(x)'
  BY DEF RejectionRestores
<1>a. /\ IInv
      /\ status[x] = "waiting_approval" => HasOpen(x)
      /\ status \in [Conversation -> ConvStatus \cup {"absent", "deleted"}]
      /\ DOMAIN approval = ApprovalId
  BY DEF RejectionInv, IInv, TypeOK, RejectionRestores
<1>b. \A u \in Client :
        /\ req[u].op \in ApprovalOps =>
             /\ req[u].id \in ApprovalId
             /\ req[u].conv = approval[req[u].id].conv
             /\ req[u].conv \in Conversation
             /\ req[u].op = "resolve" =>
                  /\ approval[req[u].id].status = "pending"
                  /\ approval[req[u].id].previous # "waiting_approval"
                  /\ req[u].arg \in {"approved", "rejected"}
        /\ req[u].op = "apply" => req[u].arg # "waiting_approval"
  BY DEF RejectionInv, ResolverView, PreviousIsFree, IInv, ClientView, ApprovalRows,
         ApprovalOps
<1>k. ASSUME status'[x] = status[x],
             \A a \in ApprovalId : approval[a].conv = x => approval'[a] = approval[a]
      PROVE  HasOpen(x)'
  BY <1>a, <1>k DEF HasOpen, Open
<1>s. ASSUME NEW c, NEW s, s # "waiting_approval",
             status' = [status EXCEPT ![c] = s], approval' = approval
      PROVE  HasOpen(x)'
  BY <1>a, <1>k, <1>s
<1>1. ASSUME NEW c \in Conversation, CreateConversation(c) \/ EnqueueJob(c)
      PROVE  HasOpen(x)'
  <2>1. status' = [status EXCEPT ![c] = "active"] /\ approval' = approval
    BY <1>1 DEF CreateConversation, EnqueueJob
  <2>. QED BY <1>s, <2>1
<1>2. ASSUME NEW u \in Client, NEW c \in Conversation, RequestDelete(u, c)
      PROVE  HasOpen(x)'
  <2>. DEFINE row == [status |-> "pending", conv |-> c, previous |-> status[c]]
  <2>1. PICK n \in ApprovalId : /\ approval[n].status = "none"
                                /\ approval' = [approval EXCEPT ![n] = row]
    BY <1>2 DEF RequestDelete, NextApproval
  <2>2. status' = [status EXCEPT ![c] = "waiting_approval"]
    BY <1>2 DEF RequestDelete
  <2>3. CASE c = x
    BY <1>a, <2>1, <2>3 DEF HasOpen, Open
  <2>4. CASE c # x
    <3>1. HasOpen(x)
      BY <1>a, <2>2, <2>4
    <3>. QED BY <1>a, <2>1, <3>1 DEF HasOpen, Open
  <2>. QED BY <2>3, <2>4
<1>3. ASSUME NEW u \in Client, CancelJob(u) PROVE HasOpen(x)'
  <2>1. /\ approval' = approval
        /\ status' = [status EXCEPT ![jobConv[req[u].id]] = "stopped"]
    BY <1>3 DEF CancelJob
  <2>. QED BY <1>s, <2>1
<1>8. ASSUME NEW u \in Client, ApplyGate(u) PROVE HasOpen(x)'
  <2>1. approval' = approval /\ req[u].arg # "waiting_approval"
    BY <1>8, <1>b DEF ApplyGate
  <2>2. \/ status' = [status EXCEPT ![req[u].conv] = req[u].arg]
        \/ status' = status
    BY <1>8 DEF ApplyGate
  <2>. QED BY <1>k, <1>s, <2>1, <2>2
<1>4. ASSUME NEW w \in Worker, CompleteJob(w) \/ FailJob(w) PROVE HasOpen(x)'
  <2>1. /\ approval' = approval
        /\ \E c, s : s # "waiting_approval" /\ status' = [status EXCEPT ![c] = s]
    BY <1>4 DEF CompleteJob, FailJob
  <2>. QED BY <1>s, <2>1
<1>5. ASSUME NEW u \in Client, FinishResolve(u) PROVE HasOpen(x)'
  <2>. DEFINE a == req[u].id
              c == req[u].conv
  <2>1. /\ a \in ApprovalId /\ c = approval[a].conv
        /\ approval[a].status = "pending"
        /\ approval[a].previous # "waiting_approval"
        /\ req[u].arg \in {"approved", "rejected"}
    BY <1>5, <1>b DEF FinishResolve, ApprovalOps
  <2>2. approval' = [approval EXCEPT ![a] = Decided(a, req[u].arg)]
    BY <1>5, <2>1 DEF FinishResolve, StillPending
  <2>3. CASE c = x
    <3>1. \/ status'[x] = status[x] /\ status[x] \in {"absent", "deleted"}
          \/ status'[x] = StatusAfter(a, req[u].arg)
      BY <1>5, <1>a, <2>3 DEF FinishResolve, Exists
    <3>2. req[u].arg = "approved"
      BY <2>1, <3>1 DEF StatusAfter
    <3>3. approval'[a].status = "approved" /\ approval'[a].conv = x
      BY <1>a, <2>1, <2>2, <2>3, <3>2 DEF Decided
    <3>. QED BY <2>1, <3>3 DEF HasOpen, Open
  <2>4. CASE c # x
    <3>1. status'[x] = status[x]
      BY <1>5, <1>a, <2>4 DEF FinishResolve
    <3>2. \A b \in ApprovalId : approval[b].conv = x => approval'[b] = approval[b]
      BY <1>a, <2>1, <2>2, <2>4
    <3>. QED BY <1>k, <3>1, <3>2
  <2>. QED BY <2>3, <2>4
<1>6. ASSUME NEW u \in Client, CommitDelete(u) PROVE HasOpen(x)'
  <2>. DEFINE c == req[u].conv
  <2>1. /\ status' = [status EXCEPT ![c] = "deleted"]
        /\ approval' = [a \in ApprovalId |->
             IF approval[a].conv = c THEN Decided(a, "deleted") ELSE approval[a]]
    BY <1>6 DEF CommitDelete
  <2>2. c # x /\ status'[x] = status[x]
    BY <1>a, <2>1
  <2>3. \A a \in ApprovalId : approval[a].conv = x => approval'[a] = approval[a]
    BY <2>1, <2>2
  <2>. QED BY <1>k, <2>2, <2>3
<1>7. CASE UNCHANGED <<status, approval>>
  BY <1>7, <1>k
<1>. QED
  <2>1. StatusStep \/ UNCHANGED status
    BY <1>a, StatusSteps
  <2>2. ApprovalStep \/ UNCHANGED approval
    BY ApprovalSteps
  <2>. QED
    BY <1>1, <1>2, <1>3, <1>4, <1>5, <1>6, <1>7, <1>8, <2>1, <2>2
       DEF StatusStep, ApprovalStep

(* Nobody rates: no request reads the quality gate.                        *)
LEMMA NobodyRatesStep ==
  IInv /\ Rater = {} /\ NobodyRates /\ [Next]_vars => NobodyRates'
<1>. SUFFICES ASSUME IInv, Rater = {}, NobodyRates, [Next]_vars, NEW x \in Client
              PROVE  req'[x].op \notin {"gate", "gated", "apply"}
  BY DEF NobodyRates
<1>a. DOMAIN req = Client /\ req[x].op \notin {"gate", "gated", "apply"}
  BY DEF IInv, TypeOK, NobodyRates
<1>b. Idle.op = "idle"
  BY DEF Idle
<1>c. \A op, c, id, arg : Continue(x, op, c, id, arg) => req'[x].op = op
  BY <1>a DEF Continue, Request
<1>1. ASSUME NEW a \in ApprovalId,
             \/ \E d \in {"approved", "rejected"} : StartResolve(x, a, d)
             \/ StartDelete(x, a)
      PROVE  req'[x].op \in {"resolve", "purge"}
  BY <1>1, <1>c DEF StartResolve, StartDelete
<1>2. CASE \/ \E j \in JobId : StartCancel(x, j) \/ StartRetry(x, j)
           \/ \E c \in Conversation : StartArchive(x, c) \/ StartRestore(x, c)
           \/ CancelJob(x) \/ PurgeObjects(x)
  BY <1>2, <1>c DEF StartCancel, StartRetry, StartArchive, StartRestore, CancelJob,
                    PurgeObjects
<1>3. CASE CancelTooLate(x) \/ CheckCancelled(x) \/ ArchiveCheckJobs(x)
  BY <1>3, <1>a, <1>b, <1>c DEF CancelTooLate, CheckCancelled, ArchiveCheckJobs, Respond
<1>4. ~ReadGate(x) /\ ~ReadTaskStatus(x)
  BY <1>a DEF ReadGate, ReadTaskStatus
<1>. QED BY <1>a, <1>b, <1>1, <1>2, <1>3, <1>4, RequestSteps

(* Every step that changes a status, an approval or an object keeps the    *)
(* lock and its request together.                                          *)
LEMMA LockedStep ==
  DeletionInv /\ [Next]_vars => \A c \in Conversation : Locked(c)'
<1>. SUFFICES ASSUME DeletionInv, [Next]_vars, NEW x \in Conversation
              PROVE  Locked(x)'
  OBVIOUS
<1>a. /\ IInv /\ TypeOK
      /\ Locked(x)
      /\ status \in [Conversation -> ConvStatus \cup {"absent", "deleted"}]
      /\ asset \in [Conversation -> {"none", "stored", "broken"}]
      /\ DOMAIN approval = ApprovalId
      /\ \A a, b \in ApprovalId :
           Open(a) /\ Open(b) /\ approval[a].conv = approval[b].conv => a = b
  BY DEF DeletionInv, RejectionInv, IInv, TypeOK, OneOpenApproval
<1>b. \A u \in Client : req[u].op \in ApprovalOps =>
           /\ req[u].id \in ApprovalId
           /\ req[u].conv = approval[req[u].id].conv
           /\ req[u].conv \in Conversation
           /\ req[u].op = "resolve" =>
                /\ approval[req[u].id].status = "pending"
                /\ req[u].arg \in {"approved", "rejected"}
           /\ req[u].op \in {"purge", "commitDelete"} =>
                approval[req[u].id].status = "approved"
  BY DEF DeletionInv, RejectionInv, ResolverView, IInv, ClientView, ApprovalRows,
         ApprovalOps
<1>k. ASSUME status'[x] = status[x], approval' = approval,
             asset'[x] = "broken" => asset[x] = "broken"
      PROVE  Locked(x)'
  <2>1. HasActive(x)' => HasActive(x) \/ status[x] # "waiting_approval"
    BY <1>a, ActiveGrows
  <2>. QED BY <1>a, <1>k, <2>1, LockedStays
<1>1. ASSUME NEW c \in Conversation, CreateConversation(c) PROVE Locked(x)'
  <2>1. CASE c = x
    <3>1. ~HasOpen(x) /\ status'[x] = "active" /\ asset' = asset /\ approval' = approval
      BY <1>1, <1>a, <2>1 DEF CreateConversation, Locked
    <3>. QED BY <1>a, <3>1 DEF Locked, HasOpen, Open
  <2>2. CASE c # x
    BY <1>1, <1>a, <1>k, <2>2 DEF CreateConversation
  <2>. QED BY <2>1, <2>2
<1>2. ASSUME NEW c \in Conversation, EnqueueJob(c) PROVE Locked(x)'
  <2>1. CASE c = x
    <3>1. /\ ~HasOpen(x) /\ status'[x] = "active"
          /\ asset' = asset /\ approval' = approval
      BY <1>2, <1>a, <2>1 DEF EnqueueJob, CanEnqueue, Locked
    <3>. QED BY <1>a, <3>1 DEF Locked, HasOpen, Open
  <2>2. CASE c # x
    BY <1>2, <1>a, <1>k, <2>2 DEF EnqueueJob
  <2>. QED BY <2>1, <2>2
<1>3. ASSUME NEW u \in Client, NEW c \in Conversation, RequestDelete(u, c)
      PROVE  Locked(x)'
  <2>. DEFINE row == [status |-> "pending", conv |-> c, previous |-> status[c]]
  <2>1. PICK n \in ApprovalId : /\ approval[n].status = "none"
                                /\ approval' = [approval EXCEPT ![n] = row]
    BY <1>3 DEF RequestDelete, NextApproval
  <2>2. /\ status' = [status EXCEPT ![c] = "waiting_approval"]
        /\ asset' = asset /\ HasActive(x)' = HasActive(x)
        /\ ~HasOpen(c) /\ ~HasActive(c)
    BY <1>3 DEF RequestDelete, jobVars, HasActive, Active
  <2>3. CASE c = x
    <3>1. HasOpen(x)'
      BY <1>a, <2>1, <2>3 DEF HasOpen, Open
    <3>2. asset[x] # "broken"
      BY <1>a, <2>2, <2>3 DEF Locked, HasOpen, Open
    <3>. QED BY <1>a, <2>2, <2>3, <3>1, <3>2 DEF Locked
  <2>4. CASE c # x
    <3>1. status'[x] = status[x]
      BY <1>a, <2>2, <2>4
    <3>2. \A a \in ApprovalId : approval'[a] = approval[a] \/ a = n
      BY <1>a, <2>1
    <3>3. approval'[n].conv # x /\ approval[n].status = "none"
      BY <1>a, <2>1, <2>4
    <3>4. HasOpen(x)' <=> HasOpen(x)
      BY <3>2, <3>3 DEF HasOpen, Open
    <3>5. \A a \in ApprovalId :
            approval[a].conv = x /\ approval[a].status = "approved" =>
              approval'[a] = approval[a]
      BY <3>2, <3>3
    <3>. QED BY <1>a, <2>2, <3>1, <3>4, <3>5 DEF Locked
  <2>. QED BY <2>3, <2>4
<1>4. ASSUME NEW u \in Client, CancelJob(u) PROVE Locked(x)'
  <2>. DEFINE j == req[u].id
  <2>1. j \in JobId /\ Active(j) /\ status' = [status EXCEPT ![jobConv[j]] = "stopped"]
    BY <1>4, <1>a, AtCancel DEF CancelJob
  <2>2. asset' = asset /\ approval' = approval
    BY <1>4 DEF CancelJob
  <2>3. CASE jobConv[j] = x
    <3>1. ~HasOpen(x) /\ status'[x] = "stopped"
      BY <1>a, <2>1, <2>3 DEF Locked, HasActive
    <3>. QED BY <1>a, <2>2, <3>1 DEF Locked, HasOpen, Open
  <2>4. CASE jobConv[j] # x
    BY <1>a, <1>k, <2>1, <2>2, <2>4
  <2>. QED BY <2>3, <2>4
<1>5. ASSUME NEW u \in Client, FinishResolve(u) PROVE Locked(x)'
  <2>. DEFINE a == req[u].id
              c == req[u].conv
  <2>1. /\ a \in ApprovalId /\ c \in Conversation /\ c = approval[a].conv
        /\ approval[a].status = "pending"
        /\ req[u].arg \in {"approved", "rejected"}
    BY <1>5, <1>b DEF FinishResolve, ApprovalOps
  <2>2. /\ approval' = [approval EXCEPT ![a] = Decided(a, req[u].arg)]
        /\ asset' = asset /\ HasActive(x)' = HasActive(x)
    BY <1>5, <2>1 DEF FinishResolve, StillPending, jobVars, HasActive, Active
  <2>3. /\ approval'[a].status = req[u].arg /\ approval'[a].conv = c
        /\ \A b \in ApprovalId : b # a => approval'[b] = approval[b]
    BY <1>a, <2>1, <2>2 DEF Decided
  <2>4. CASE c = x
    <3>1. /\ HasOpen(x) /\ status[x] = "waiting_approval" /\ ~HasActive(x)
          /\ \A b \in ApprovalId : b # a => ~(Open(b) /\ approval[b].conv = x)
      BY <1>a, <2>1, <2>4 DEF Locked, HasOpen, Open
    <3>2. asset[x] # "broken"
      BY <1>a, <2>1, <3>1 DEF Locked, Open
    <3>3. status'[x] = StatusAfter(a, req[u].arg)
      BY <1>5, <1>a, <2>4, <3>1 DEF FinishResolve, Exists, ConvStatus
    <3>4. CASE req[u].arg = "approved"
      <4>1. status'[x] = "waiting_approval"
        BY <3>3, <3>4 DEF StatusAfter
      <4>2. HasOpen(x)'
        BY <2>1, <2>3, <2>4, <3>4 DEF HasOpen, Open
      <4>. QED BY <2>2, <3>1, <3>2, <4>1, <4>2 DEF Locked
    <3>5. CASE req[u].arg = "rejected"
      <4>1. ~HasOpen(x)'
        BY <2>3, <3>1, <3>5 DEF HasOpen, Open
      <4>. QED BY <2>2, <3>2, <4>1 DEF Locked
    <3>. QED BY <2>1, <3>4, <3>5
  <2>5. CASE c # x
    <3>1. status'[x] = status[x]
      BY <1>5, <1>a, <2>5 DEF FinishResolve
    <3>2. HasOpen(x)' <=> HasOpen(x)
      BY <2>1, <2>3, <2>5 DEF HasOpen, Open
    <3>3. \A b \in ApprovalId : approval[b].conv = x => approval'[b] = approval[b]
      BY <2>1, <2>3, <2>5
    <3>. QED BY <1>a, <2>2, <3>1, <3>2, <3>3 DEF Locked
  <2>. QED BY <2>4, <2>5
<1>6. ASSUME NEW u \in Client, CommitDelete(u) PROVE Locked(x)'
  <2>. DEFINE c == req[u].conv
  <2>1. c \in Conversation
    BY <1>6, <1>b DEF CommitDelete, ApprovalOps
  <2>2. /\ status' = [status EXCEPT ![c] = "deleted"]
        /\ asset' = [asset EXCEPT ![c] = "none"]
        /\ approval' = [a \in ApprovalId |->
             IF approval[a].conv = c THEN Decided(a, "deleted") ELSE approval[a]]
    BY <1>6 DEF CommitDelete
  <2>3. CASE c = x
    <3>1. status'[x] = "deleted" /\ asset'[x] = "none"
      BY <1>a, <2>2, <2>3
    <3>2. ~HasOpen(x)'
      BY <2>2, <2>3 DEF HasOpen, Open, Decided
    <3>. QED BY <3>1, <3>2 DEF Locked
  <2>4. CASE c # x
    <3>1. status'[x] = status[x] /\ asset'[x] = asset[x]
      BY <1>a, <2>2, <2>4
    <3>2. \A a \in ApprovalId : /\ approval[a].conv = x => approval'[a] = approval[a]
                                /\ approval'[a].conv = x => approval'[a] = approval[a]
      BY <2>2, <2>4 DEF Decided
    <3>3. HasOpen(x)' <=> HasOpen(x)
      BY <3>2 DEF HasOpen, Open
    <3>4. HasActive(x)' => HasActive(x)
      BY <1>6 DEF CommitDelete, HasActive, Active
    <3>. QED BY <1>a, <3>1, <3>2, <3>3, <3>4 DEF Locked
  <2>. QED BY <2>3, <2>4
<1>7. ASSUME NEW w \in Worker, CompleteJob(w) \/ FailJob(w) PROVE Locked(x)'
  <2>. DEFINE j == exec[w].job
  <2>1. j \in JobId /\ Active(j)
    BY <1>7, <1>a, AtWork DEF CompleteJob, FailJob, StillRunning, Active
  <2>2. /\ asset' = asset /\ approval' = approval
        /\ \E s \in {"review", "blocked"} : status' = [status EXCEPT ![jobConv[j]] = s]
    BY <1>7 DEF CompleteJob, FailJob
  <2>3. CASE jobConv[j] = x
    <3>1. ~HasOpen(x) /\ status'[x] \in {"review", "blocked"}
      BY <1>a, <2>1, <2>2, <2>3 DEF Locked, HasActive
    <3>. QED BY <1>a, <2>2, <3>1 DEF Locked, HasOpen, Open
  <2>4. CASE jobConv[j] # x
    BY <1>a, <1>k, <2>2, <2>4
  <2>. QED BY <2>3, <2>4
<1>8. ASSUME NEW u \in Client, PurgeObjects(u) \/ PurgeFails(u) PROVE Locked(x)'
  <2>. DEFINE c == req[u].conv
              a == req[u].id
  <2>1. /\ a \in ApprovalId /\ c = approval[a].conv /\ approval[a].status = "approved"
        /\ status' = status /\ approval' = approval
        /\ HasActive(x)' = HasActive(x)
        /\ asset' \in {asset, [asset EXCEPT ![c] = Purged(c)]}
    BY <1>8, <1>b DEF PurgeObjects, PurgeFails, ApprovalOps, jobVars, HasActive, Active
  <2>2. CASE c = x
    BY <1>a, <2>1, <2>2 DEF Locked, HasOpen, Open
  <2>3. CASE c # x
    BY <1>a, <1>k, <2>1, <2>3
  <2>. QED BY <2>2, <2>3
<1>9. ASSUME NEW c \in Conversation, Upload(c) PROVE Locked(x)'
  BY <1>9, <1>a, <1>k DEF Upload
<1>10. \A u \in Client : ~ApplyGate(u)
  BY DEF ApplyGate, DeletionInv, NobodyRates
<1>11. CASE UNCHANGED <<status, approval, asset>>
  BY <1>11, <1>k
<1>. QED
  <2>1. StatusStep \/ UNCHANGED status
    BY <1>a, StatusSteps
  <2>2. ApprovalStep \/ UNCHANGED approval
    BY ApprovalSteps
  <2>3. AssetStep \/ UNCHANGED asset
    BY AssetSteps
  <2>. QED
    BY <1>1, <1>2, <1>3, <1>4, <1>5, <1>6, <1>7, <1>8, <1>9, <1>10, <1>11,
       <2>1, <2>2, <2>3 DEF StatusStep, ApprovalStep, AssetStep

LEMMA InitRejectionInv == Init => RejectionInv
<1>. SUFFICES ASSUME Init PROVE RejectionInv
  OBVIOUS
<1>1. RejectionRestores
  BY DEF Init, RejectionRestores
<1>2. PreviousIsFree /\ ResolverView
  BY DEF Init, PreviousIsFree, ResolverView, Idle, ApprovalOps
<1>. QED BY <1>1, <1>2, InitIInv DEF RejectionInv

(* The part of it that ratings cannot disturb.                             *)
THEOREM RejectionInductive == OneManager /\ Spec => []RejectionInv
<1>1. OneManager /\ RejectionInv /\ [Next]_vars => RejectionInv'
  BY IInvStep, ResolverViewStep, PreviousIsFreeStep, RestoresStep DEF RejectionInv
<1>. SUFFICES ASSUME OneManager PROVE Spec => []RejectionInv
  OBVIOUS
<1>2. RejectionInv /\ [Next]_vars => RejectionInv'
  BY <1>1
<1>. QED BY InitRejectionInv, <1>2, PTL DEF Spec

(* No task stays locked once its deletion was rejected or carried out.     *)
THEOREM RejectionUnlocks == OneManager /\ Spec => []RejectionRestores
<1>1. RejectionInv => RejectionRestores
  BY DEF RejectionInv
<1>. QED BY RejectionInductive, <1>1, PTL

(* The inductive invariant of the deletion.                                *)
THEOREM DeletionInductive == OneResolver /\ Spec => []DeletionInv
<1>1. Init => DeletionInv
  <2>. SUFFICES ASSUME Init PROVE DeletionInv
    OBVIOUS
  <2>1. \A c \in Conversation : Locked(c)
    BY DEF Init, Locked, HasOpen, Open
  <2>2. NobodyRates
    BY DEF Init, NobodyRates, Idle
  <2>. QED BY <2>1, <2>2, InitRejectionInv DEF DeletionInv
<1>2. OneResolver /\ DeletionInv /\ [Next]_vars => DeletionInv'
  <2>. SUFFICES ASSUME OneResolver, DeletionInv, [Next]_vars PROVE DeletionInv'
    OBVIOUS
  <2>1. RejectionInv'
    BY IInvStep, ResolverViewStep, PreviousIsFreeStep, RestoresStep
       DEF OneResolver, DeletionInv, RejectionInv
  <2>. QED BY <2>1, LockedStep, NobodyRatesStep DEF OneResolver, DeletionInv, RejectionInv
<1>. SUFFICES ASSUME OneResolver PROVE Spec => []DeletionInv
  OBVIOUS
<1>3. DeletionInv /\ [Next]_vars => DeletionInv'
  BY <1>2
<1>. QED BY <1>1, <1>3, PTL DEF Spec

(* A task whose deletion is requested or approved is locked against every  *)
(* change, whatever messages, retries, cancellations and workers do.       *)
THEOREM DeletionLocks == OneResolver /\ Spec => []DeletionLocksTask
<1>1. DeletionInv => DeletionLocksTask
  BY DEF DeletionInv, Locked, DeletionLocksTask
<1>. QED BY DeletionInductive, <1>1, PTL

(* An approved deletion that failed, or whose process died, can always be  *)
(* carried out later.                                                      *)
THEOREM DeletionCanBeRetried == OneResolver /\ Spec => []ApprovedDeleteRetryable
<1>1. DeletionInv => ApprovedDeleteRetryable
  BY DEF DeletionInv, RejectionInv, IInv, ApprovalRows, Locked, ApprovedDeleteRetryable,
         Deletable, HasOpen, Open, Exists, ConvStatus
<1>. QED BY DeletionInductive, <1>1, PTL

(* Once an object of a task is gone, the task can only be deleted.         *)
THEOREM PurgeIsFinal == OneResolver /\ Spec => []PurgedTaskIsDoomed
<1>1. DeletionInv => PurgedTaskIsDoomed
  BY DEF DeletionInv, Locked, PurgedTaskIsDoomed, Deletable, HasOpen, Open,
         Exists, ConvStatus
<1>. QED BY DeletionInductive, <1>1, PTL

=============================================================================
