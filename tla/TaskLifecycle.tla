--------------------------- MODULE TaskLifecycle ---------------------------
(***************************************************************************)
(* The life of a task (a conversation), its analysis jobs and its          *)
(* deletion approvals, as kept by ConversationStore (product/store.py) and *)
(* driven by the API handlers (api/app.py, product/control.py) and by the  *)
(* external worker (worker.py).                                            *)
(*                                                                         *)
(* The database is PostgreSQL at READ COMMITTED, the production topology:  *)
(* a transaction that takes the conversation's row lock, or that consists  *)
(* of one conditional UPDATE and writes that depend on its row count, is   *)
(* one step.  A handler that reads in one statement and writes in a later  *)
(* one without a lock takes several steps, and what it has read is kept in *)
(* req[u] until it writes.  Every client has at most one request in        *)
(* flight; the process that serves it may die between two steps.           *)
(*                                                                         *)
(* Job and approval numbers are handed out in order, so the number stands  *)
(* for created_at.                                                         *)
(***************************************************************************)
EXTENDS Integers, FiniteSets

CONSTANTS
  Conversation,  \* tasks of one workspace
  Worker,        \* worker processes
  Editor,        \* clients that send, cancel, retry, archive, request deletion
  Manager,       \* clients that resolve approvals and delete
  Rater,         \* clients that rate delivered answers
  Verdict,       \* the ratings in use, a subset of RatingKind
  MaxAttempts,   \* max_attempts of fail_job: 3 in the worker, 1 in process
  MaxJobs,       \* bound: jobs created in a behaviour
  MaxApprovals,  \* bound: approvals created in a behaviour
  MaxCrashes     \* bound: worker processes that die while executing

RatingKind == {"verified", "incorrect", "other"}

ASSUME BoundsAssumption ==
  /\ MaxAttempts \in Nat \ {0}
  /\ MaxJobs \in Nat
  /\ MaxApprovals \in Nat
  /\ MaxCrashes \in Nat

ASSUME VerdictAssumption == Verdict \subseteq RatingKind

ASSUME NoConvAssumption == "none" \notin Conversation

Client     == Editor \cup Manager \cup Rater
JobId      == 1..MaxJobs
ApprovalId == 1..MaxApprovals

VARIABLES
  status,      \* conversations.status, "absent" before and "deleted" after
  archived,    \* conversations whose archived_at is set
  asset,       \* objects behind the asset rows: "none", "stored", "broken"
  jobStatus,   \* analysis_jobs.status
  jobConv,     \* analysis_jobs.conversation_id
  attempts,    \* analysis_jobs.attempts
  waiting,     \* queued jobs whose available_at lies in the future
  answered,    \* jobs whose assistant message is in messages
  verdict,     \* result_feedback rows of the answer of a job
  notice,      \* the terminal task_event written for a job
  approval,    \* approval_requests rows
  exec,        \* what each worker process is doing
  req,         \* the request each client has in flight
  crashes

convVars     == <<status, archived, asset>>
jobVars      == <<jobStatus, jobConv, attempts, waiting>>
answerVars   == <<answered, verdict, notice>>
processVars  == <<exec, req, crashes>>
vars == <<convVars, jobVars, answerVars, approval, processVars>>

ConvStatus == {"active", "review", "waiting_approval", "blocked",
               "verified", "stopped"}
NoConv == "none"
Idle == [op |-> "idle", conv |-> NoConv, id |-> 0, arg |-> ""]
Request(op, c, id, arg) == [op |-> op, conv |-> c, id |-> id, arg |-> arg]
Work(phase, j, seen) == [phase |-> phase, job |-> j, seen |-> seen]
NoWork == Work("idle", 0, 0)

Exists(c)    == status[c] \in ConvStatus
JobsOf(c)    == {j \in JobId : jobConv[j] = c
                               /\ jobStatus[j] \notin {"none", "deleted"}}
Active(j)    == jobStatus[j] \in {"queued", "running"}

\* variant: the refusal looks at queued jobs only
HasQueued(c) == \E j \in JobId : jobConv[j] = c /\ jobStatus[j] = "queued"
HasActive(c) == \E j \in JobId : jobConv[j] = c /\ Active(j)

Open(a)      == approval[a].status \in {"pending", "approved"}

\* variant: create_approval looks for a pending request only
HasPending(c) ==
  \E a \in ApprovalId : approval[a].conv = c /\ approval[a].status = "pending"
HasOpen(c) == \E a \in ApprovalId : approval[a].conv = c /\ Open(a)

IsLatestJob(j) == \A k \in JobsOf(jobConv[j]) : k <= j
LatestIdle(c)  == \A j \in JobsOf(c) : IsLatestJob(j) => ~Active(j)
NextJob(j)      == /\ jobStatus[j] = "none"
                   /\ \A k \in 1..(j - 1) : jobStatus[k] # "none"
NextApproval(a) == /\ approval[a].status = "none"
                   /\ \A k \in 1..(a - 1) : approval[k].status # "none"

Respond(u) == req' = [req EXCEPT ![u] = Idle]
Continue(u, op, c, id, arg) ==
  req' = [req EXCEPT ![u] = Request(op, c, id, arg)]

ApprovalRow ==
  [status : {"none", "pending", "approved", "rejected", "deleted"},
   conv : Conversation \cup {NoConv},
   previous : ConvStatus]
WorkerState ==
  [phase : {"idle", "claiming", "running", "erroring", "errorWrite"},
   job : 0..MaxJobs, seen : 0..MaxAttempts]
RequestOp ==
  {"idle", "resolve", "purge", "commitDelete", "gate", "gated", "apply",
   "archive", "archiveWrite", "restore", "retry", "cancel", "cancelNotice",
   "cancelWrite"}
RequestArg == ConvStatus \cup {"", "approved", "rejected"}
RequestState ==
  [op : RequestOp, conv : Conversation \cup {NoConv}, id : Nat, arg : RequestArg]

TypeOK ==
  /\ status \in [Conversation -> ConvStatus \cup {"absent", "deleted"}]
  /\ archived \subseteq Conversation
  /\ asset \in [Conversation -> {"none", "stored", "broken"}]
  /\ jobStatus \in [JobId -> {"none", "queued", "running", "completed",
                              "failed", "cancelled", "deleted"}]
  /\ jobConv \in [JobId -> Conversation \cup {NoConv}]
  /\ attempts \in [JobId -> 0..MaxAttempts]
  /\ waiting \subseteq JobId
  /\ answered \subseteq JobId
  /\ verdict \in [JobId -> [Rater -> RatingKind \cup {"none"}]]
  /\ notice \in [JobId -> {"none", "ready", "error", "cancelled"}]
  /\ approval \in [ApprovalId -> ApprovalRow]
  /\ exec \in [Worker -> WorkerState]
  /\ req \in [Client -> RequestState]
  /\ crashes \in 0..MaxCrashes

Init ==
  /\ status = [c \in Conversation |-> "absent"]
  /\ archived = {}
  /\ asset = [c \in Conversation |-> "none"]
  /\ jobStatus = [j \in JobId |-> "none"]
  /\ jobConv = [j \in JobId |-> NoConv]
  /\ attempts = [j \in JobId |-> 0]
  /\ waiting = {}
  /\ answered = {}
  /\ verdict = [j \in JobId |-> [u \in Rater |-> "none"]]
  /\ notice = [j \in JobId |-> "none"]
  /\ approval = [a \in ApprovalId |->
                  [status |-> "none", conv |-> NoConv, previous |-> "active"]]
  /\ exec = [w \in Worker |-> NoWork]
  /\ req = [u \in Client |-> Idle]
  /\ crashes = 0

----------------------------------------------------------------------------
(* Requests that commit in one transaction.                                *)

CreateConversation(c) ==
  /\ status[c] = "absent"
  /\ status' = [status EXCEPT ![c] = "active"]
  /\ UNCHANGED <<archived, asset, jobVars, answerVars, approval, processVars>>

(* The objects are put first and the row is added under the row lock; a    *)
(* refused upload removes its objects again and leaves nothing behind.     *)
Upload(c) ==
  /\ Exists(c) /\ c \notin archived /\ status[c] # "waiting_approval"
  /\ asset[c] = "none"
  /\ asset' = [asset EXCEPT ![c] = "stored"]
  /\ UNCHANGED <<status, archived, jobVars, answerVars, approval, processVars>>

(* What create_message_job and enqueue_job have in common: under the row   *)
(* lock, refuse an archived task, one that waits for a deletion and one    *)
(* that has an active job; then insert the job and make the task active.   *)
\* variant: the check for a deletion in progress is forgotten
CanEnqueueUnlocked(c) == Exists(c) /\ c \notin archived /\ ~HasActive(c)
CanEnqueue(c) ==
  /\ Exists(c) /\ c \notin archived /\ status[c] # "waiting_approval"
  /\ ~HasActive(c)

EnqueueJob(c) ==
  /\ CanEnqueue(c)
  /\ \E j \in JobId :
       /\ NextJob(j)
       /\ jobStatus' = [jobStatus EXCEPT ![j] = "queued"]
       /\ jobConv' = [jobConv EXCEPT ![j] = c]
  /\ status' = [status EXCEPT ![c] = "active"]
  /\ UNCHANGED <<archived, asset, attempts, waiting, answerVars, approval,
                 exec, crashes>>

SendMessage(u, c) ==
  /\ req[u] = Idle
  /\ EnqueueJob(c)
  /\ UNCHANGED req

(* create_approval: an open request is returned as it is; otherwise the    *)
(* task must be idle, and it is locked by the new pending request.         *)
RequestDelete(u, c) ==
  /\ req[u] = Idle
  /\ Exists(c) /\ ~HasOpen(c) /\ ~HasActive(c)
  /\ \E a \in ApprovalId :
       /\ NextApproval(a)
       /\ approval' = [approval EXCEPT ![a] =
            [status |-> "pending", conv |-> c, previous |-> status[c]]]
  /\ status' = [status EXCEPT ![c] = "waiting_approval"]
  /\ UNCHANGED <<archived, asset, jobVars, answerVars, processVars>>

----------------------------------------------------------------------------
(* Requests that read first and write later.                               *)

StartRetry(u, j) ==
  /\ req[u] = Idle
  /\ jobStatus[j] \in {"failed", "cancelled"}
  /\ IsLatestJob(j)
  /\ Continue(u, "retry", jobConv[j], j, "")
  /\ UNCHANGED <<convVars, jobVars, answerVars, approval, exec, crashes>>

FinishRetry(u) ==
  /\ req[u].op = "retry"
  /\ EnqueueJob(req[u].conv)
  /\ Respond(u)

RefuseRetry(u) ==
  /\ req[u].op = "retry"
  /\ ~CanEnqueue(req[u].conv)
  /\ Respond(u)
  /\ UNCHANGED <<convVars, jobVars, answerVars, approval, exec, crashes>>

(* job_cancel returns a terminal job as it is; cancel_job commits, and the  *)
(* notice is another transaction.  A client that finds the job cancelled   *)
(* by someone else meanwhile writes its notice too.                        *)
StartCancel(u, j) ==
  /\ req[u] = Idle
  /\ Active(j)
  /\ Continue(u, "cancel", jobConv[j], j, "")
  /\ UNCHANGED <<convVars, jobVars, answerVars, approval, exec, crashes>>

CancelJob(u) ==
  LET j == req[u].id
  IN /\ req[u].op = "cancel"
     /\ Active(j)
     /\ jobStatus' = [jobStatus EXCEPT ![j] = "cancelled"]
     /\ waiting' = waiting \ {j}
     /\ status' = [status EXCEPT ![jobConv[j]] = "stopped"]
     /\ Continue(u, "cancelNotice", req[u].conv, j, "")
     /\ UNCHANGED <<archived, asset, jobConv, attempts, answerVars, approval,
                    exec, crashes>>

CancelTooLate(u) ==
  /\ req[u].op = "cancel"
  /\ ~Active(req[u].id)
  /\ IF jobStatus[req[u].id] = "cancelled"
     THEN Continue(u, "cancelNotice", req[u].conv, req[u].id, "")
     ELSE Respond(u)
  /\ UNCHANGED <<convVars, jobVars, answerVars, approval, exec, crashes>>

(* add_event reads the conversation (404 when it is gone) and inserts the  *)
(* event in a transaction of its own.                                      *)
CheckCancelled(u) ==
  /\ req[u].op = "cancelNotice"
  /\ IF Exists(req[u].conv)
     THEN Continue(u, "cancelWrite", req[u].conv, req[u].id, "")
     ELSE Respond(u)
  /\ UNCHANGED <<convVars, jobVars, answerVars, approval, exec, crashes>>

EmitCancelled(u) ==
  /\ req[u].op = "cancelWrite"
  /\ notice' = [notice EXCEPT ![req[u].id] = "cancelled"]
  /\ Respond(u)
  /\ UNCHANGED <<convVars, jobVars, answered, verdict, approval, exec, crashes>>

StartResolve(u, a, decision) ==
  /\ req[u] = Idle
  /\ approval[a].status = "pending"
  /\ Continue(u, "resolve", approval[a].conv, a, decision)
  /\ UNCHANGED <<convVars, jobVars, answerVars, approval, exec, crashes>>

(* The approval row is updated only if it is still pending, but the        *)
(* conversation row is updated whatever the row count was.                 *)
\* variant: a rejection leaves the task waiting
StatusAfterStuck(a, decision) == "waiting_approval"
\* variant: an approval restores the task as a rejection does
StatusAfterUnlock(a, decision) == approval[a].previous
Decided(a, s) ==
  [status |-> s, conv |-> approval[a].conv, previous |-> approval[a].previous]
StatusAfter(a, decision) ==
  IF decision = "approved" THEN "waiting_approval" ELSE approval[a].previous

\* variant: the UPDATE is not conditional on the row being pending
Overwritable(a) == approval[a].status \in {"pending", "approved", "rejected"}
StillPending(a) == approval[a].status = "pending"

FinishResolve(u) ==
  LET a == req[u].id
      c == req[u].conv
  IN /\ req[u].op = "resolve"
     /\ approval' = IF StillPending(a)
                    THEN [approval EXCEPT ![a] = Decided(a, req[u].arg)]
                    ELSE approval
     /\ status' = IF Exists(c)
                  THEN [status EXCEPT ![c] = StatusAfter(a, req[u].arg)]
                  ELSE status
     /\ Respond(u)
     /\ UNCHANGED <<archived, asset, jobVars, answerVars, exec, crashes>>

StartArchive(u, c) ==
  /\ req[u] = Idle
  /\ Exists(c) /\ status[c] # "waiting_approval"
  /\ Continue(u, "archive", c, 0, "")
  /\ UNCHANGED <<convVars, jobVars, answerVars, approval, exec, crashes>>

ArchiveCheckJobs(u) ==
  /\ req[u].op = "archive"
  /\ IF LatestIdle(req[u].conv)
     THEN Continue(u, "archiveWrite", req[u].conv, 0, "")
     ELSE Respond(u)
  /\ UNCHANGED <<convVars, jobVars, answerVars, approval, exec, crashes>>

ArchiveWrite(u) ==
  /\ req[u].op = "archiveWrite"
  /\ archived' = IF Exists(req[u].conv)
                 THEN archived \cup {req[u].conv} ELSE archived
  /\ Respond(u)
  /\ UNCHANGED <<status, asset, jobVars, answerVars, approval, exec, crashes>>

StartRestore(u, c) ==
  /\ req[u] = Idle
  /\ Exists(c) /\ status[c] # "waiting_approval"
  /\ Continue(u, "restore", c, 0, "")
  /\ UNCHANGED <<convVars, jobVars, answerVars, approval, exec, crashes>>

RestoreWrite(u) ==
  /\ req[u].op = "restore"
  /\ archived' = archived \ {req[u].conv}
  /\ Respond(u)
  /\ UNCHANGED <<status, asset, jobVars, answerVars, approval, exec, crashes>>

(* conversation_delete: check, remove the objects, delete the rows.        *)
\* variant: the handler is satisfied with a request that is not rejected
PreflightLax(a) == Open(a) /\ LatestIdle(approval[a].conv)
Preflight(a) == approval[a].status = "approved" /\ LatestIdle(approval[a].conv)

StartDelete(u, a) ==
  LET c == approval[a].conv
  IN /\ req[u] = Idle
     /\ Preflight(a)
     /\ Continue(u, "purge", c, a, "")
     /\ UNCHANGED <<convVars, jobVars, answerVars, approval, exec, crashes>>

Purged(c) == IF asset[c] = "stored" THEN "broken" ELSE asset[c]

PurgeObjects(u) ==
  LET c == req[u].conv
  IN /\ req[u].op = "purge"
     /\ asset' = [asset EXCEPT ![c] = Purged(c)]
     /\ Continue(u, "commitDelete", c, req[u].id, "")
     /\ UNCHANGED <<status, archived, jobVars, answerVars, approval,
                    exec, crashes>>

(* storage.delete raises for one of the objects: 503, the rows remain.     *)
PurgeFails(u) ==
  LET c == req[u].conv
  IN /\ req[u].op = "purge"
     /\ asset[c] # "none"
     /\ asset' \in {asset, [asset EXCEPT ![c] = Purged(c)]}
     /\ Respond(u)
     /\ UNCHANGED <<status, archived, jobVars, answerVars, approval,
                    exec, crashes>>

Deletable(c, a) ==
  /\ Exists(c) /\ status[c] = "waiting_approval"
  /\ approval[a].status = "approved" /\ approval[a].conv = c
  /\ ~HasActive(c)

CommitDelete(u) ==
  LET c == req[u].conv
  IN /\ req[u].op = "commitDelete"
     /\ Deletable(c, req[u].id)
     /\ status' = [status EXCEPT ![c] = "deleted"]
     /\ archived' = archived \ {c}
     /\ asset' = [asset EXCEPT ![c] = "none"]
     /\ jobStatus' = [j \in JobId |->
          IF jobConv[j] = c THEN "deleted" ELSE jobStatus[j]]
     /\ answered' = {j \in answered : jobConv[j] # c}
     /\ verdict' = [j \in JobId |->
          IF jobConv[j] = c /\ j \in answered THEN [r \in Rater |-> "none"]
                                              ELSE verdict[j]]
     /\ notice' = [j \in JobId |-> IF jobConv[j] = c THEN "none" ELSE notice[j]]
     /\ approval' = [a \in ApprovalId |->
          IF approval[a].conv = c THEN Decided(a, "deleted")
                                  ELSE approval[a]]
     /\ Respond(u)
     /\ UNCHANGED <<jobConv, attempts, waiting, exec, crashes>>

RefuseDelete(u) ==
  /\ req[u].op = "commitDelete"
  /\ ~Deletable(req[u].conv, req[u].id)
  /\ Respond(u)
  /\ UNCHANGED <<convVars, jobVars, answerVars, approval, exec, crashes>>

(* upsert_feedback: the rating is one transaction; the quality gate, the   *)
(* conversation's status and the new status are read and written by three  *)
(* later ones.                                                             *)
Rate(u, j, v) ==
  /\ req[u] = Idle
  /\ j \in answered
  /\ verdict' = [verdict EXCEPT ![j][u] = v]
  /\ Continue(u, "gate", jobConv[j], j, "")
  /\ UNCHANGED <<convVars, jobVars, answered, notice, approval, exec, crashes>>

LatestAnswer(j) ==
  /\ j \in answered
  /\ \A k \in answered : jobConv[k] = jobConv[j] => k <= j

GateStatus(j) ==
  LET given == {verdict[j][r] : r \in Rater}
  IN IF "incorrect" \in given THEN "blocked"
     ELSE IF "verified" \in given THEN "verified" ELSE "review"

ReadGate(u) ==
  /\ req[u].op = "gate"
  /\ IF LatestAnswer(req[u].id)
     THEN Continue(u, "gated", req[u].conv, req[u].id, GateStatus(req[u].id))
     ELSE Respond(u)
  /\ UNCHANGED <<convVars, jobVars, answerVars, approval, exec, crashes>>

ReadTaskStatus(u) ==
  /\ req[u].op = "gated"
  /\ IF Exists(req[u].conv) /\ status[req[u].conv] # "waiting_approval"
     THEN Continue(u, "apply", req[u].conv, req[u].id, req[u].arg)
     ELSE Respond(u)
  /\ UNCHANGED <<convVars, jobVars, answerVars, approval, exec, crashes>>

ApplyGate(u) ==
  /\ req[u].op = "apply"
  /\ status' = IF Exists(req[u].conv)
               THEN [status EXCEPT ![req[u].conv] = req[u].arg] ELSE status
  /\ Respond(u)
  /\ UNCHANGED <<archived, asset, jobVars, answerVars, approval, exec, crashes>>

(* The process that serves a request dies between two of its steps.        *)
RequestDies(u) ==
  /\ req[u] # Idle
  /\ crashes < MaxCrashes
  /\ crashes' = crashes + 1
  /\ Respond(u)
  /\ UNCHANGED <<convVars, jobVars, answerVars, approval, exec>>

----------------------------------------------------------------------------
(* The worker process.                                                     *)

(* claim_job reads the oldest queued job and its attempts, then updates    *)
(* the row if it is queued at that moment.                                 *)
\* variant: a job is claimed once only, never after it was requeued
ClaimableOnce(j) == jobStatus[j] = "queued" /\ attempts[j] = 0
Claimable(j) == jobStatus[j] = "queued" /\ j \notin waiting

SelectJob(w, j) ==
  /\ exec[w] = NoWork
  /\ Claimable(j)
  /\ \A k \in JobId : Claimable(k) => j <= k
  /\ exec' = [exec EXCEPT ![w] = Work("claiming", j, attempts[j])]
  /\ UNCHANGED <<convVars, jobVars, answerVars, approval, req, crashes>>

\* variant: the UPDATE does not look at the status again
StillThere(j) == jobStatus[j] \in {"queued", "running"}
StillQueued(j) == jobStatus[j] = "queued"

ClaimJob(w) ==
  LET j == exec[w].job
  IN /\ exec[w].phase = "claiming"
     /\ StillQueued(j)
     /\ jobStatus' = [jobStatus EXCEPT ![j] = "running"]
     /\ attempts' = [attempts EXCEPT ![j] = exec[w].seen + 1]
     /\ waiting' = waiting \ {j}
     /\ exec' = [exec EXCEPT ![w] = Work("running", j, 0)]
     /\ UNCHANGED <<convVars, jobConv, answerVars, approval, req, crashes>>

MissJob(w) ==
  /\ exec[w].phase = "claiming"
  /\ ~StillQueued(exec[w].job)
  /\ exec' = [exec EXCEPT ![w] = NoWork]
  /\ UNCHANGED <<convVars, jobVars, answerVars, approval, req, crashes>>

BackoffElapsed(j) ==
  /\ j \in waiting
  /\ waiting' = waiting \ {j}
  /\ UNCHANGED <<convVars, jobStatus, jobConv, attempts, answerVars, approval,
                 processVars>>

\* variant: a worker's result is accepted after a cancellation
StillWanted(j) == jobStatus[j] \in {"running", "cancelled"}
StillRunning(j) == jobStatus[j] = "running"

\* variant: the number of the attempt is compared with <= instead of <
AttemptsLeftLax(j) == attempts[j] <= MaxAttempts
AttemptsLeft(j) == attempts[j] < MaxAttempts

(* complete_job_answer: job, message, task and answer.ready together.      *)
CompleteJob(w) ==
  LET j == exec[w].job
  IN /\ exec[w].phase = "running"
     /\ StillRunning(j)
     /\ jobStatus' = [jobStatus EXCEPT ![j] = "completed"]
     /\ answered' = answered \cup {j}
     /\ notice' = [notice EXCEPT ![j] = "ready"]
     /\ status' = [status EXCEPT ![jobConv[j]] = "review"]
     /\ exec' = [exec EXCEPT ![w] = NoWork]
     /\ UNCHANGED <<archived, asset, jobConv, attempts, waiting, verdict,
                    approval, req, crashes>>

(* ensure_active, complete_job_answer or fail_job finds that the job was   *)
(* cancelled or deleted meanwhile: nothing is written.                     *)
DropJob(w) ==
  /\ exec[w].phase = "running"
  /\ ~StillRunning(exec[w].job)
  /\ exec' = [exec EXCEPT ![w] = NoWork]
  /\ UNCHANGED <<convVars, jobVars, answerVars, approval, req, crashes>>

(* fail_job with attempts left: back to the queue with a backoff.          *)
RequeueJob(w) ==
  LET j == exec[w].job
  IN /\ exec[w].phase = "running"
     /\ StillRunning(j) /\ AttemptsLeft(j)
     /\ jobStatus' = [jobStatus EXCEPT ![j] = "queued"]
     /\ waiting' = waiting \cup {j}
     /\ exec' = [exec EXCEPT ![w] = NoWork]
     /\ UNCHANGED <<convVars, jobConv, attempts, answerVars, approval,
                    req, crashes>>

(* fail_job on the last attempt; answer.error follows in its own           *)
(* transaction.                                                            *)
FailJob(w) ==
  LET j == exec[w].job
  IN /\ exec[w].phase = "running"
     /\ StillRunning(j) /\ ~AttemptsLeft(j)
     /\ jobStatus' = [jobStatus EXCEPT ![j] = "failed"]
     /\ status' = [status EXCEPT ![jobConv[j]] = "blocked"]
     /\ exec' = [exec EXCEPT ![w] = Work("erroring", j, 0)]
     /\ UNCHANGED <<archived, asset, jobConv, attempts, waiting, answerVars,
                    approval, req, crashes>>

(* If the task was deleted meanwhile, add_event raises out of run_worker   *)
(* and the process is restarted: the worker is idle again.                 *)
\* variant: the last failure is not announced
CheckErrorSilent(w) ==
  /\ exec[w].phase = "erroring"
  /\ exec' = [exec EXCEPT ![w] = NoWork]
  /\ UNCHANGED <<convVars, jobVars, answerVars, approval, req, crashes>>
CheckError(w) ==
  /\ exec[w].phase = "erroring"
  /\ exec' = IF Exists(jobConv[exec[w].job])
             THEN [exec EXCEPT ![w] = Work("errorWrite", exec[w].job, 0)]
             ELSE [exec EXCEPT ![w] = NoWork]
  /\ UNCHANGED <<convVars, jobVars, answerVars, approval, req, crashes>>

EmitError(w) ==
  LET j == exec[w].job
  IN /\ exec[w].phase = "errorWrite"
     /\ notice' = [notice EXCEPT ![j] = "error"]
     /\ exec' = [exec EXCEPT ![w] = NoWork]
     /\ UNCHANGED <<convVars, jobVars, answered, verdict, approval, req, crashes>>

(* The process dies and is restarted; nothing gives its job to another.    *)
WorkerCrash(w) ==
  /\ exec[w] # NoWork
  /\ crashes < MaxCrashes
  /\ crashes' = crashes + 1
  /\ exec' = [exec EXCEPT ![w] = NoWork]
  /\ UNCHANGED <<convVars, jobVars, answerVars, approval, req>>

----------------------------------------------------------------------------
EditorStarts(u) ==
  \/ \E c \in Conversation : SendMessage(u, c)
  \/ \E c \in Conversation : RequestDelete(u, c)
  \/ \E c \in Conversation : StartArchive(u, c)
  \/ \E c \in Conversation : StartRestore(u, c)
  \/ \E j \in JobId : StartCancel(u, j)
  \/ \E j \in JobId : StartRetry(u, j)

ManagerStarts(u) ==
  \/ \E a \in ApprovalId, d \in {"approved", "rejected"} : StartResolve(u, a, d)
  \/ \E a \in ApprovalId : StartDelete(u, a)

RaterStarts(u) ==
  \E j \in JobId, v \in Verdict : Rate(u, j, v)

(* The rest of a handler, once its request has been accepted.              *)
Proceed(u) ==
  \/ CancelJob(u)
  \/ CancelTooLate(u)
  \/ CheckCancelled(u)
  \/ EmitCancelled(u)
  \/ FinishRetry(u)
  \/ RefuseRetry(u)
  \/ FinishResolve(u)
  \/ ArchiveCheckJobs(u)
  \/ ArchiveWrite(u)
  \/ RestoreWrite(u)
  \/ PurgeObjects(u)
  \/ PurgeFails(u)
  \/ CommitDelete(u)
  \/ RefuseDelete(u)
  \/ ReadGate(u)
  \/ ReadTaskStatus(u)
  \/ ApplyGate(u)

WorkerStep(w) ==
  \/ \E j \in JobId : SelectJob(w, j)
  \/ ClaimJob(w)
  \/ MissJob(w)
  \/ CompleteJob(w)
  \/ DropJob(w)
  \/ RequeueJob(w)
  \/ FailJob(w)
  \/ CheckError(w)
  \/ EmitError(w)

Next ==
  \/ \E c \in Conversation : CreateConversation(c)
  \/ \E c \in Conversation : Upload(c)
  \/ \E u \in Editor : EditorStarts(u)
  \/ \E u \in Manager : ManagerStarts(u)
  \/ \E u \in Rater : RaterStarts(u)
  \/ \E u \in Client : Proceed(u)
  \/ \E u \in Client : RequestDies(u)
  \/ \E w \in Worker : WorkerStep(w)
  \/ \E w \in Worker : WorkerCrash(w)
  \/ \E j \in JobId : BackoffElapsed(j)

Spec == Init /\ [][Next]_vars

(* The worker loops for ever and the analyzer's provider calls time out; a *)
(* handler runs to its end; a backoff is a finite delay.  Nobody is        *)
(* obliged to send a request.                                              *)
Fairness ==
  /\ \A w \in Worker : WF_vars(WorkerStep(w))
  /\ \A u \in Client : WF_vars(Proceed(u))
  /\ \A j \in JobId : WF_vars(BackoffElapsed(j))

FairSpec == Spec /\ Fairness

----------------------------------------------------------------------------
(* What holds whatever the interleaving.                                   *)

(* create_message_job and enqueue_job look for an active job under the row *)
(* lock: a task never has two executions queued or running at once.        *)
OneActiveJob ==
  \A i, j \in JobId :
    Active(i) /\ Active(j) /\ jobConv[i] = jobConv[j] => i = j

(* claim_job's conditional UPDATE: no two workers ever execute one job,    *)
(* also when it has been requeued, cancelled or retried meanwhile.         *)
Executing(w) == exec[w].phase \in {"running", "erroring", "errorWrite"}
SoleExecutor ==
  \A v, w \in Worker :
    Executing(v) /\ Executing(w) /\ exec[v].job = exec[w].job => v = w

(* "a late failure or success of the past cannot overwrite a newer status" *)
(* (BUILD_REPORT.md:90).  The client learns the outcome from task_events:  *)
(* what it is told is what happened, and an answer is in the messages      *)
(* exactly when the job completed.                                         *)
NoticeMatchesOutcome ==
  \A j \in JobId :
    /\ j \in answered <=> jobStatus[j] = "completed"
    /\ notice[j] = "ready" <=> jobStatus[j] = "completed"
    /\ notice[j] = "error" => jobStatus[j] \in {"failed", "deleted"}
    /\ notice[j] = "cancelled" => jobStatus[j] \in {"cancelled", "deleted"}

(* create_approval returns the open request instead of adding another.     *)
OneOpenApproval ==
  \A a, b \in ApprovalId :
    Open(a) /\ Open(b) /\ approval[a].conv = approval[b].conv => a = b

(* A decision on a deletion is never changed by a later or concurrent one. *)
DecidedOnce ==
  [][\A a \in ApprovalId :
       approval[a].status \in {"approved", "rejected"} =>
         approval'[a].status \in {approval[a].status, "deleted"}]_vars

(* The detailed life of jobs, messages and events keeps the promise of     *)
(* TurnLedger: one open turn per task, one outcome per turn.               *)
OutcomeOf(j) ==
  CASE jobStatus[j] = "none"      -> "unborn"
    [] Active(j)                  -> "open"
    [] jobStatus[j] = "completed" -> "answered"
    [] jobStatus[j] = "failed"    -> "failed"
    [] jobStatus[j] = "cancelled" -> "stopped"
    [] jobStatus[j] = "deleted"   -> "erased"

Ledger == INSTANCE TurnLedger WITH
  Turn <- JobId, Task <- Conversation, NoTask <- NoConv,
  outcome <- [j \in JobId |-> OutcomeOf(j)],
  owner <- jobConv, delivered <- answered, told <- notice

KeepsLedger == Ledger!LedgerSpec

----------------------------------------------------------------------------
(* What the governed deletion promises.  It holds when approvals are       *)
(* resolved one at a time and nobody rates an answer meanwhile; ratings    *)
(* disturb all of it but RejectionRestores.                                *)

(* "Permanent deletion first enters a persisted approval and locks the     *)
(* operations that change the task" (docs/FRONTEND.md:81).                 *)
DeletionLocksTask ==
  \A c \in Conversation : HasOpen(c) => status[c] = "waiting_approval"

(* "A rejected approval restores the status from before it"                *)
(* (docs/FRONTEND.md:82): no task stays locked without an open approval.   *)
RejectionRestores ==
  \A c \in Conversation : status[c] = "waiting_approval" => HasOpen(c)

(* "an approved delete that fails storage/database cleanup should remain   *)
(* retryable" (docs/RUNBOOK.md:76).                                        *)
ApprovedDeleteRetryable ==
  \A a \in ApprovalId :
    approval[a].status = "approved" => Deletable(approval[a].conv, a)

(* conversation_delete removes the objects before the rows: from then on   *)
(* the task can only be deleted, never be used without its assets.         *)
PurgedTaskIsDoomed ==
  \A c \in Conversation :
    asset[c] = "broken" => \E a \in ApprovalId : Deletable(c, a)

----------------------------------------------------------------------------
(* What other statements of the repository promise.                        *)

(* "a running task must be stopped before it can be archived"              *)
(* (product/store.py:482): an archived task has no active job.             *)
ArchivedTaskIsIdle == \A c \in archived : ~HasActive(c)

(* "the latest delivery becomes verified once a person has confirmed it    *)
(* and no feedback calls it wrong" (docs/FRONTEND.md:79).                  *)
VerifiedIsCurrent ==
  \A c \in Conversation :
    status[c] = "verified" /\ (\A u \in Client : req[u] = Idle) =>
      \E j \in answered : /\ jobConv[j] = c
                          /\ LatestAnswer(j) /\ GateStatus(j) = "verified"

(* "only the latest failed or stopped execution can be run again"          *)
(* (product/store.py:752).                                                 *)
RetryRepeatsLatest ==
  [][\A u \in Client : FinishRetry(u) => IsLatestJob(req[u].id)]_vars

----------------------------------------------------------------------------
(* Liveness, unless a process has died.                                    *)

(* Every accepted execution ends: completed, failed or cancelled.          *)
EveryJobSettles ==
  \A j \in JobId : Active(j) ~> ~Active(j) \/ crashes > 0

(* Every outcome is announced to the client, unless the task is deleted.   *)
EveryOutcomeAnnounced ==
  \A j \in JobId :
    jobStatus[j] \in {"completed", "failed", "cancelled"}
      ~> notice[j] # "none" \/ jobStatus[j] = "deleted" \/ crashes > 0
=============================================================================
