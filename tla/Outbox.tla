------------------------------- MODULE Outbox -------------------------------
(***************************************************************************)
(* What the memory outbox promises for every message.accepted event        *)
(* (context/memory_ingestion.py): its proposals are staged once, or the    *)
(* event is closed with nothing to stage, and neither is ever undone.      *)
(***************************************************************************)
CONSTANT Event
VARIABLE fate

Init == fate = [e \in Event |-> "pending"]

Stage(e) == fate[e] = "pending" /\ fate' = [fate EXCEPT ![e] = "staged"]
Close(e) == fate[e] = "pending" /\ fate' = [fate EXCEPT ![e] = "closed"]

Next == \E e \in Event : Stage(e) \/ Close(e)

Spec == Init /\ [][Next]_fate
=============================================================================
