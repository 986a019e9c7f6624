---------------------------- MODULE ProjectMemory ----------------------------
(***************************************************************************)
(* The versioned long-term memory of one project                           *)
(* (context/project_memory.py), the review of its proposals                *)
(* (context/memory_consolidator.py) and the references a job freezes when  *)
(* it is enqueued and materializes when it runs (context/project_job.py).  *)
(*                                                                         *)
(* The slots are the scopes that one memory key has heads for.  The        *)
(* content of a revision is named by the revision that first carried it.   *)
(* put_memory reads the head and then writes in one transaction, but locks *)
(* nothing at the read: two steps.  An approval locks the proposal and the *)
(* head: one step.  The deletion of the memory locks the heads it finds    *)
(* and deletes the items by a later statement: two steps, for another      *)
(* transaction may commit in between.                                      *)
(***************************************************************************)
EXTENDS Integers, FiniteSets, Sequences

CONSTANTS
  Slot,       \* scopes of the key, each the set of refs it fixes
  JobScope,   \* the refs the retrieval of each job is bound to
  Client,     \* requests that write memories
  Proposal,   \* staged proposals
  SlotOf,     \* and the slot each is approved into
  Job,        \* analysis jobs
  Retries,    \* max_retries of put_memory, 4
  MaxItems,   \* bound: revisions written in a behaviour
  MaxDeletes  \* bound: deletions of the whole memory

Ref == {"build", "branch", "commit", "environment"}

ASSUME MemoryAssumption ==
  /\ Slot \subseteq SUBSET Ref /\ Slot # {}
  /\ JobScope \in [Job -> SUBSET Ref]
  /\ SlotOf \in [Proposal -> Slot]
  /\ "client" \notin Proposal
  /\ Retries \in Nat \ {0} /\ MaxItems \in Nat /\ MaxDeletes \in Nat

VARIABLES
  item,      \* context_memory_items, by id: every revision ever written
  head,      \* context_memory_heads: the id each slot points to, or 0
  req,       \* put_memory and set_memory_state in progress
  proposal,  \* status and approved_memory_id of each proposal
  job,       \* frozen references of each job, and what its last run used
  locked,    \* heads that delete_project_memory holds
  deleting,  \* it has run its first statement
  member,    \* the actor belongs to the workspace
  deletes,   \* deletions so far
  moves      \* how often the head of each slot was changed (history)

memoryVars == <<item, head, req, proposal, job, locked, deleting, member, deletes, moves>>

Id == 1..Len(item)
Head0 == 0..Len(item)
States == {"active", "disputed", "retracted"}
Row == [slot : Slot, rev : Nat, state : States, text : Nat, prev : Nat,
        from : Proposal \cup {"client"}, kept : BOOLEAN]
Request == [at : {"idle", "read", "write"}, slot : Slot, state : States,
            text : Nat, base : Nat, tries : 0..(Retries - 1), since : Nat]
Idle == [at |-> "idle", slot |-> CHOOSE s \in Slot : TRUE, state |-> "active",
         text |-> 0, base |-> 0, tries |-> 0, since |-> 0]

MemoryTypeOK ==
  /\ item \in Seq(Row)
  /\ head \in [Slot -> Head0]
  /\ req \in [Client -> Request]
  /\ proposal \in [Proposal -> [status : {"pending", "approved", "rejected"},
                                id : Head0]]
  /\ job \in [Job -> [at : {"none", "queued", "done"}, refs : SUBSET Id,
                      used : SUBSET Id]]
  /\ locked \in SUBSET Slot /\ deleting \in BOOLEAN
  /\ member \in BOOLEAN
  /\ deletes \in 0..MaxDeletes
  /\ moves \in [Slot -> Nat]

MemoryInit ==
  /\ item = << >>
  /\ head = [s \in Slot |-> 0]
  /\ req = [c \in Client |-> Idle]
  /\ proposal = [p \in Proposal |-> [status |-> "pending", id |-> 0]]
  /\ job = [j \in Job |-> [at |-> "none", refs |-> {}, used |-> {}]]
  /\ locked = {} /\ deleting = FALSE
  /\ member = TRUE /\ deletes = 0
  /\ moves = [s \in Slot |-> 0]

-----------------------------------------------------------------------------
(* Writing a revision                                                      *)

\* the row of a head is still among the items
Present(s) == head[s] # 0 /\ item[head[s]].kept

Revision(s, base, state, text, from) ==
  [slot |-> s, state |-> state, text |-> text, from |-> from, kept |-> TRUE,
   prev |-> base, rev |-> IF base = 0 THEN 1 ELSE item[base].rev + 1]

\* insert the item that follows base and move the head to it
Advance(s, base, state, text, from) ==
  LET id == Len(item) + 1 IN
  /\ id <= MaxItems
  /\ item' = Append(item, Revision(s, base, state, IF text = 0 THEN id ELSE text, from))
  /\ head' = [head EXCEPT ![s] = id]
  /\ moves' = [moves EXCEPT ![s] = @ + 1]

Begin(c, s, state, text) ==
  /\ req[c].at = "idle" /\ member
  /\ req' = [req EXCEPT ![c] = [Idle EXCEPT !.at = "read", !.slot = s,
                !.state = state, !.text = text, !.since = moves[s]]]
  /\ UNCHANGED <<item, head, proposal, job, locked, deleting, member, deletes, moves>>

\* the API writes active memories only
PutMemory(c, s) == Begin(c, s, "active", 0)

\* current_memory in a transaction of its own, whatever the state
SetMemoryState(c, s) ==
  /\ Present(s)
  /\ \E state \in {"active", "retracted"} :
       Begin(c, s, state, item[head[s]].text)

ReadHead(c) ==
  /\ req[c].at = "read" /\ member
  /\ req' = [req EXCEPT ![c].at = "write", ![c].base = head[req[c].slot]]
  /\ UNCHANGED <<item, head, proposal, job, locked, deleting, member, deletes, moves>>

\* variant: the head is moved whatever it points to by now
BlindWin(c) == TRUE

\* variant: an attempt may fail without another writer's commit
NeverWin(c) == FALSE

\* nobody wrote the next revision, moved the head or deleted it
Wins(c) == head[req[c].slot] = req[c].base

\* the insert and the compare and swap; a head a deletion holds is waited for
WriteOnce(c) ==
  LET r == req[c] IN
  /\ r.at = "write" /\ r.slot \notin locked
  /\ Wins(c)
  /\ Advance(r.slot, r.base, r.state, r.text, "client")
  /\ req' = [req EXCEPT ![c] = Idle]
  /\ UNCHANGED <<proposal, job, locked, deleting, member, deletes>>

\* variant: the last attempt is not counted
WriteFailsLate(c) ==
  LET r == req[c] IN
  /\ r.at = "write" /\ r.slot \notin locked
  /\ ~Wins(c)
  /\ req' = [req EXCEPT ![c] = IF r.tries = Retries THEN Idle
                               ELSE [r EXCEPT !.at = "read", !.base = 0,
                                              !.tries = @ + 1]]
  /\ UNCHANGED <<item, head, proposal, job, locked, deleting, member, deletes, moves>>

\* IntegrityError or MemoryConflict: up to Retries attempts, then 409
WriteFails(c) ==
  LET r == req[c] IN
  /\ r.at = "write" /\ r.slot \notin locked
  /\ ~Wins(c)
  /\ req' = [req EXCEPT ![c] = IF r.tries + 1 = Retries THEN Idle
                               ELSE [r EXCEPT !.at = "read", !.base = 0,
                                                 !.tries = @ + 1]]
  /\ UNCHANGED <<item, head, proposal, job, locked, deleting, member, deletes, moves>>

\* PermissionError: the membership is asked for in every attempt
Refused(c) ==
  /\ req[c].at = "read" /\ ~member
  /\ req' = [req EXCEPT ![c] = Idle]
  /\ UNCHANGED <<item, head, proposal, job, locked, deleting, member, deletes, moves>>

-----------------------------------------------------------------------------
(* Review of proposals                                                     *)

\* variant: the status is not looked at under the lock
AnyStatus(p) == proposal[p].status # "rejected"

Reviewable(p) == proposal[p].status = "pending"

ApproveProposal(p) ==
  /\ member /\ Reviewable(p) /\ SlotOf[p] \notin locked
  /\ Advance(SlotOf[p], head[SlotOf[p]], "active", 0, p)
  /\ proposal' = [proposal EXCEPT ![p] = [status |-> "approved", id |-> Len(item) + 1]]
  /\ UNCHANGED <<req, job, locked, deleting, member, deletes>>

RejectProposal(p) ==
  /\ member /\ Reviewable(p)
  /\ proposal' = [proposal EXCEPT ![p].status = "rejected"]
  /\ UNCHANGED <<item, head, req, job, locked, deleting, member, deletes, moves>>

-----------------------------------------------------------------------------
(* Deletion of the project's memory; proposals and jobs stay               *)

DeleteHeads ==
  /\ member /\ ~deleting /\ deletes < MaxDeletes
  /\ deleting' = TRUE /\ deletes' = deletes + 1
  /\ locked' = {s \in Slot : head[s] # 0}
  /\ UNCHANGED <<item, head, req, proposal, job, member, moves>>

Emptied == [i \in Id |-> [item[i] EXCEPT !.kept = FALSE]]

DeleteItems ==
  /\ deleting
  /\ item' = Emptied
  /\ head' = [s \in Slot |-> IF s \in locked THEN 0 ELSE head[s]]
  /\ moves' = [s \in Slot |-> IF s \in locked THEN moves[s] + 1 ELSE moves[s]]
  /\ locked' = {} /\ deleting' = FALSE
  /\ UNCHANGED <<req, proposal, job, member, deletes>>

-----------------------------------------------------------------------------
(* Search, and the references of a job                                     *)

Bit(s, ref, weight) == IF ref \in s THEN weight ELSE 0
Specificity(s) == Bit(s, "commit", 8) + Bit(s, "build", 4) + Bit(s, "branch", 2)
                    + Bit(s, "environment", 1)

\* the most specific scope that matches decides, and only if it is active
Search(scope) ==
  LET matching == {s \in Slot : s \subseteq scope /\ Present(s)}
      winners == {s \in matching : \A t \in matching : Specificity(t) <= Specificity(s)}
  IN {head[s] : s \in {t \in winners : item[head[t]].state = "active"}}

\* build_job_project_context: only locators are frozen
EnqueueJob(j) ==
  /\ member /\ job[j].at = "none"
  /\ job' = [job EXCEPT ![j].at = "queued", ![j].refs = Search(JobScope[j])]
  /\ UNCHANGED <<item, head, req, proposal, locked, deleting, member, deletes, moves>>

\* variant: the frozen items are read without their heads
AnyRevision(i) == item[i].kept /\ item[i].state = "active"

StillCurrent(i) ==
  item[i].kept /\ head[item[i].slot] = i /\ item[i].state = "active"

\* materialize_job_project_memory, in every attempt of the job
RunJob(j) ==
  /\ member /\ job[j].at # "none"
  /\ job' = [job EXCEPT ![j].at = "done",
                        ![j].used = {i \in job[j].refs : StillCurrent(i)}]
  /\ UNCHANGED <<item, head, req, proposal, locked, deleting, member, deletes, moves>>

RemoveMember ==
  /\ member' = FALSE
  /\ UNCHANGED <<item, head, req, proposal, job, locked, deleting, deletes, moves>>

-----------------------------------------------------------------------------
MemoryNext ==
  \/ \E c \in Client :
       \/ \E s \in Slot : PutMemory(c, s) \/ SetMemoryState(c, s)
       \/ ReadHead(c) \/ WriteOnce(c) \/ WriteFails(c) \/ Refused(c)
  \/ \E p \in Proposal : ApproveProposal(p) \/ RejectProposal(p)
  \/ DeleteHeads \/ DeleteItems
  \/ \E j \in Job : EnqueueJob(j) \/ RunJob(j)
  \/ RemoveMember

MemorySpec == MemoryInit /\ [][MemoryNext]_memoryVars

-----------------------------------------------------------------------------
(* Properties                                                              *)

\* Each revision of a slot is written once and follows the one before it, and
\* none is lost between the oldest kept and the head, however many writers
\* race, approve and delete (project_memory.py:512).
RevisionChain ==
  \A i \in Id :
    LET r == item[i] IN
    /\ IF r.rev = 1 THEN r.prev = 0
       ELSE r.prev \in 1..(i - 1) /\ item[r.prev].slot = r.slot
                                  /\ item[r.prev].rev = r.rev - 1
    /\ r.kept =>
         /\ \A k \in Id \ {i} :
              item[k].kept /\ item[k].slot = r.slot => item[k].rev # r.rev
         /\ head[r.slot] = i \/ \E k \in Id : item[k].kept /\ item[k].prev = i

\* A proposal becomes memory once if it was approved and never if it was not,
\* and it names the revision it became, even after the memory was deleted
\* (memory_consolidator.py:521).
ApprovedOnce ==
  \A p \in Proposal :
    {i \in Id : item[i].from = p} =
      IF proposal[p].status = "approved" THEN {proposal[p].id} ELSE {}

\* A write is refused as a conflict only when others have moved the same head
\* at least as often as it tried (project_memory.py:629).
FailureIsCharged ==
  \A c \in Client : req[c].at # "idle" =>
    req[c].tries + req[c].since <= moves[req[c].slot]

\* A run of a job uses only what was found when it was enqueued, and nothing
\* of it that was superseded, retracted or deleted before the run
\* (project_job.py:150).
JobsUseCurrent ==
  [][\A j \in Job : job'[j].used # job[j].used =>
       \A i \in job'[j].used :
         /\ i \in job[j].refs /\ item[i].kept
         /\ \A k \in Id : item[k].slot = item[i].slot /\ item[k].kept
                            => item[k].rev <= item[i].rev]_memoryVars

\* A change of state keeps the content it found: "concurrent workers cannot
\* silently overwrite a revision" (project_memory.py:119).
StateChangeKeepsContent ==
  \A i \in Id : item[i].text # i =>
    item[i].prev # 0 /\ item[item[i].prev].text = item[i].text
=============================================================================
