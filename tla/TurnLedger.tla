----------------------------- MODULE TurnLedger -----------------------------
(***************************************************************************)
(* What a task promises to the people who use it, with no database, worker *)
(* or retry in sight: a turn (one accepted message or retry) is opened     *)
(* only when its task has no open turn, it is settled exactly once, only   *)
(* an answered turn ever delivers an answer, what the client is told       *)
(* agrees with what happened, and a task is erased only as a whole and     *)
(* only when nothing is open.                                              *)
(***************************************************************************)
CONSTANTS Turn, Task, NoTask

VARIABLES
  outcome,    \* "unborn", "open", then one of Settled, finally "erased"
  owner,      \* the task of a turn
  delivered,  \* turns whose answer is in the task's messages
  told        \* what the client was told about a turn

ledgerVars == <<outcome, owner, delivered, told>>

Settled == {"answered", "failed", "stopped"}
Word(o) == CASE o = "answered" -> "ready"
             [] o = "failed"   -> "error"
             [] o = "stopped"  -> "cancelled"

NothingOpen(k) == \A t \in Turn : owner[t] = k => outcome[t] # "open"

LedgerInit ==
  /\ outcome = [t \in Turn |-> "unborn"]
  /\ owner = [t \in Turn |-> NoTask]
  /\ delivered = {}
  /\ told = [t \in Turn |-> "none"]

OpenTurn(t, k) ==
  /\ outcome[t] = "unborn" /\ NothingOpen(k)
  /\ outcome' = [outcome EXCEPT ![t] = "open"]
  /\ owner' = [owner EXCEPT ![t] = k]
  /\ UNCHANGED <<delivered, told>>

Answer(t) ==
  /\ outcome[t] = "open"
  /\ outcome' = [outcome EXCEPT ![t] = "answered"]
  /\ delivered' = delivered \cup {t}
  /\ told' = [told EXCEPT ![t] = "ready"]
  /\ UNCHANGED owner

GiveUp(t, o) ==
  /\ outcome[t] = "open"
  /\ o \in {"failed", "stopped"}
  /\ outcome' = [outcome EXCEPT ![t] = o]
  /\ UNCHANGED <<owner, delivered, told>>

(* A notice on its way when the task is erased may still arrive.           *)
Tell(t, o) ==
  /\ o \in {"failed", "stopped"}
  /\ outcome[t] \in {o, "erased"}
  /\ told' = [told EXCEPT ![t] = Word(o)]
  /\ UNCHANGED <<outcome, owner, delivered>>

Erase(k) ==
  /\ NothingOpen(k)
  /\ outcome' = [t \in Turn |-> IF owner[t] = k THEN "erased" ELSE outcome[t]]
  /\ delivered' = {t \in delivered : owner[t] # k}
  /\ told' = [t \in Turn |-> IF owner[t] = k THEN "none" ELSE told[t]]
  /\ UNCHANGED owner

LedgerNext ==
  \/ \E t \in Turn, k \in Task : OpenTurn(t, k)
  \/ \E t \in Turn : Answer(t)
  \/ \E t \in Turn, o \in Settled : GiveUp(t, o)
  \/ \E t \in Turn, o \in Settled : Tell(t, o)
  \/ \E k \in Task : Erase(k)

LedgerSpec == LedgerInit /\ [][LedgerNext]_ledgerVars
=============================================================================
