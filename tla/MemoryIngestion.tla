-------------------------- MODULE MemoryIngestion --------------------------
(***************************************************************************)
(* The durable outbox that turns accepted user messages into memory        *)
(* proposals (context/memory_ingestion.py) and the staging transaction of  *)
(* the consolidator (context/memory_consolidator.py).  Every API process   *)
(* drains the outbox from its event hub (product/fanout.py); a receipt row *)
(* per event carries a lease and the outcome.                              *)
(*                                                                         *)
(* Time is left out: a lease runs out and a backoff elapses by actions of  *)
(* their own.  The attempt counter only sets the length of the backoff and *)
(* is left out with it.  The proposals of one message are inserted in one  *)
(* transaction, so a count per message stands for them.                    *)
(***************************************************************************)
EXTENDS Integers, FiniteSets

CONSTANTS
  Event,      \* message.accepted rows of task_events
  Process,    \* API processes, each draining from its hub
  Mail,       \* the mixes of messages a behaviour may start with
  MaxCrashes, \* bound: processes that die in a behaviour
  MaxPurges,  \* bound: tasks that are purged in a behaviour
  MaxRevokes  \* bound: times the author leaves the workspace

\* nothing to propose, one rule, or the same rule twice in one message
Texts == {"chatter", "rule", "repeated"}
\* v2 locator, legacy job envelope, none of a project, or a lost envelope
Locators == {"v2", "legacy", "unbound", "lost"}

ASSUME IngestionAssumption ==
  /\ Event \subseteq Nat
  /\ Mail \subseteq [Event -> [text : Texts, locator : Locators]]
  /\ MaxCrashes \in Nat /\ MaxPurges \in Nat /\ MaxRevokes \in Nat

VARIABLES
  mail,     \* what the extractor finds in each message, and how the event
            \* names the project the message was accepted under
  source,   \* the message and its event are still in the database
  member,   \* the author is a member of the workspace
  receipt,  \* status of each event's receipt row
  due,      \* the lease has run out, or the backoff has elapsed
  staged,   \* proposal rows of each message
  proc,     \* what the drain of each process is doing
  losses    \* crashes, purges and revocations so far

ingestionVars == <<mail, source, member, receipt, due, staged, proc, losses>>

Statuses == {"none", "processing", "failed", "completed", "ignored"}
Outcomes == {"completed", "ignored", "failed"}

Asleep == [at |-> "idle", todo |-> {}, tries |-> 0, seen |-> 0, out |-> "failed"]

IngestionInit ==
  /\ mail \in Mail
  /\ source = [e \in Event |-> TRUE]
  /\ member = TRUE
  /\ receipt = [e \in Event |-> "none"]
  /\ due = [e \in Event |-> FALSE]
  /\ staged = [e \in Event |-> 0]
  /\ proc = [p \in Process |-> Asleep]
  /\ losses = [crashes |-> 0, purges |-> 0, revokes |-> 0]

-----------------------------------------------------------------------------
(* The drain                                                               *)

\* variant: a receipt is retryable whatever its outcome
AnyRetryable(e) == receipt[e] \in Outcomes \/ (receipt[e] = "processing" /\ due[e])

\* variant: the lease of a dead process never runs out
FailedRetryable(e) == receipt[e] = "failed" /\ due[e]

\* an existing receipt another delivery may take over
Retryable(e) == receipt[e] \in {"failed", "processing"} /\ due[e]

Pending == {e \in Event : source[e] /\ (receipt[e] = "none" \/ Retryable(e))}

\* the event process_event works on: drain goes through the batch in id order
Current(p, e) == e \in proc[p].todo /\ \A f \in proc[p].todo : e <= f

Go(p, at) == proc' = [proc EXCEPT ![p].at = at]
Settle(p, out) == proc' = [proc EXCEPT ![p].at = "finish", ![p].out = out]
Skip(p, e) ==
  LET left == proc[p].todo \ {e} IN
  proc' = [proc EXCEPT ![p] =
             [Asleep EXCEPT !.at = IF left = {} THEN "idle" ELSE "claim",
                            !.todo = left]]

\* the hub saw a message.accepted event, or its recovery interval elapsed
Drain(p) ==
  /\ proc[p].at = "idle" /\ Pending # {}
  /\ proc' = [proc EXCEPT ![p].at = "claim", ![p].todo = Pending]
  /\ UNCHANGED <<mail, source, member, receipt, due, staged, losses>>

\* the conditional update, else the insert that one process wins
Claim(p, e) ==
  /\ proc[p].at = "claim" /\ Current(p, e)
  /\ receipt[e] = "none" \/ Retryable(e)
  /\ receipt' = [receipt EXCEPT ![e] = "processing"]
  /\ due' = [due EXCEPT ![e] = FALSE]
  /\ Go(p, "source")
  /\ UNCHANGED <<mail, source, member, staged, losses>>

\* no row matched and the insert hit the primary key
Leased(p, e) ==
  /\ proc[p].at = "claim" /\ Current(p, e)
  /\ receipt[e] # "none" /\ ~Retryable(e)
  /\ Skip(p, e)
  /\ UNCHANGED <<mail, source, member, receipt, due, staged, losses>>

\* _source_for_event: the message is read again, then the frozen locator.
\* A message without candidates completes before any check of authority.
Source(p, e) ==
  /\ proc[p].at = "source" /\ Current(p, e)
  /\ \/ (~source[e] \/ mail[e].locator = "unbound") /\ Settle(p, "ignored")
     \/ source[e] /\ mail[e].locator = "lost" /\ Settle(p, "failed")
     \/ source[e] /\ mail[e].locator \in {"v2", "legacy"}
        /\ IF mail[e].text = "chatter" THEN Settle(p, "completed")
           ELSE Go(p, "authorize")
  /\ UNCHANGED <<mail, source, member, receipt, due, staged, losses>>

-----------------------------------------------------------------------------
(* propose_user_message: reads that lock nothing, then the inserts         *)

\* variant: an author without membership counts as nothing to propose
SilentAuthorize(p, e) ==
  /\ proc[p].at = "authorize" /\ Current(p, e)
  /\ IF member /\ source[e]
     THEN proc' = [proc EXCEPT ![p].at = "insert", ![p].seen = staged[e]]
     ELSE Settle(p, "completed")
  /\ UNCHANGED <<mail, source, member, receipt, due, staged, losses>>

Authorize(p, e) ==
  /\ proc[p].at = "authorize" /\ Current(p, e)
  /\ IF member /\ source[e]
     THEN proc' = [proc EXCEPT ![p].at = "insert", ![p].seen = staged[e]]
     ELSE Settle(p, "failed")
  /\ UNCHANGED <<mail, source, member, receipt, due, staged, losses>>

\* variant: the table lacks uq_context_memory_proposal_source
UnguardedViolates(p, e) == FALSE

\* the row is already there, or the message holds the same sentence twice
ViolatesUnique(p, e) ==
  proc[p].seen = 0 /\ (staged[e] > 0 \/ mail[e].text = "repeated")

InsertProposals(p, e) ==
  /\ proc[p].at = "insert" /\ Current(p, e)
  /\ ~ViolatesUnique(p, e)
  /\ staged' = [staged EXCEPT ![e] = IF proc[p].seen = 0 THEN @ + 1 ELSE @]
  /\ Go(p, "list")
  /\ UNCHANGED <<mail, source, member, receipt, due, losses>>

\* IntegrityError: the transaction is tried four times
InsertFails(p, e) ==
  /\ proc[p].at = "insert" /\ Current(p, e)
  /\ ViolatesUnique(p, e)
  /\ proc' = [proc EXCEPT ![p].tries = @ + 1, ![p].out = "failed",
                ![p].at = IF proc[p].tries = 3 THEN "finish" ELSE "authorize"]
  /\ UNCHANGED <<mail, source, member, receipt, due, staged, losses>>

\* list_proposals asks for the membership again
ListProposals(p, e) ==
  /\ proc[p].at = "list" /\ Current(p, e)
  /\ Settle(p, IF member THEN "completed" ELSE "failed")
  /\ UNCHANGED <<mail, source, member, receipt, due, staged, losses>>

-----------------------------------------------------------------------------
(* _finish writes by event id alone, whoever holds the lease by then       *)

FinishReceipt(p, e) ==
  /\ proc[p].at = "finish" /\ Current(p, e)
  /\ receipt' = [receipt EXCEPT ![e] = proc[p].out]
  /\ due' = [due EXCEPT ![e] = FALSE]
  /\ Skip(p, e)
  /\ UNCHANGED <<mail, source, member, staged, losses>>

\* lease_seconds passed since claimed_at, or available_at is reached
Elapse(e) ==
  /\ receipt[e] \in {"processing", "failed"} /\ ~due[e]
  /\ due' = [due EXCEPT ![e] = TRUE]
  /\ UNCHANGED <<mail, source, member, receipt, staged, proc, losses>>

Crash(p) ==
  /\ proc[p].at # "idle" /\ losses.crashes < MaxCrashes
  /\ proc' = [proc EXCEPT ![p] = Asleep]
  /\ losses' = [losses EXCEPT !.crashes = @ + 1]
  /\ UNCHANGED <<mail, source, member, receipt, due, staged>>

\* delete_conversation removes messages and events; receipts and proposals stay
Purge(e) ==
  /\ source[e] /\ losses.purges < MaxPurges
  /\ source' = [source EXCEPT ![e] = FALSE]
  /\ losses' = [losses EXCEPT !.purges = @ + 1]
  /\ UNCHANGED <<mail, member, receipt, due, staged, proc>>

Revoke ==
  /\ member /\ losses.revokes < MaxRevokes
  /\ member' = FALSE
  /\ losses' = [losses EXCEPT !.revokes = @ + 1]
  /\ UNCHANGED <<mail, source, receipt, due, staged, proc>>

Rejoin ==
  /\ ~member
  /\ member' = TRUE
  /\ UNCHANGED <<mail, source, receipt, due, staged, proc, losses>>

-----------------------------------------------------------------------------
Work(p) ==
  \/ Drain(p)
  \/ \E e \in Event :
       \/ Claim(p, e) \/ Leased(p, e) \/ Source(p, e)
       \/ Authorize(p, e) \/ InsertProposals(p, e) \/ InsertFails(p, e)
       \/ ListProposals(p, e) \/ FinishReceipt(p, e)

IngestionNext ==
  \/ \E p \in Process : Work(p) \/ Crash(p)
  \/ \E e \in Event : Elapse(e) \/ Purge(e)
  \/ Revoke \/ Rejoin

IngestionSpec == IngestionInit /\ [][IngestionNext]_ingestionVars

\* the hub drains every memory_recovery_interval; clocks advance
FairIngestionSpec ==
  /\ IngestionSpec
  /\ \A p \in Process : WF_ingestionVars(Work(p))
  /\ \A e \in Event : WF_ingestionVars(Elapse(e))

-----------------------------------------------------------------------------
(* Properties                                                              *)

\* However often a message is delivered, by however many processes, and
\* wherever they die, its rule is proposed once
\* (uq_context_memory_proposal_source, memory_consolidator.py:219).
StagedOnce == \A e \in Event : staged[e] <= 1

\* A receipt says completed only when the proposals of the message are in the
\* table, even when the writer of the receipt had lost its lease
\* (memory_ingestion.py:251).
CompletedIsStaged ==
  \A e \in Event : receipt[e] = "completed" => mail[e].text = "chatter" \/ staged[e] > 0

Settled(e) == receipt[e] \in {"completed", "ignored"}
InFlight(e) == \E p \in Process : proc[p].at \notin {"idle", "claim"} /\ Current(p, e)

\* what a reader of receipts and proposals knows of an event
Fate(e) == IF staged[e] > 0 THEN "staged"
           ELSE IF Settled(e) /\ ~InFlight(e) THEN "closed" ELSE "pending"

Ledger == INSTANCE Outbox WITH fate <- [e \in Event |-> Fate(e)]

\* The receipts and the proposals implement the outbox: an event whose receipt
\* is closed and that no process holds is never worked on again, and nothing
\* staged is staged anew (memory_ingestion.py:156).
OutboxImplemented == Ledger!Spec

\* Every accepted message is settled for good, whatever process dies, unless it
\* is purged, its author stays out of the workspace, or its envelope is lost
\* (the recovery drain of fanout.py:131).
EveryMessageSettles ==
  \A e \in Event :
    <>[](Settled(e) \/ ~source[e] \/ ~member \/ mail[e].locator = "lost")
=============================================================================
