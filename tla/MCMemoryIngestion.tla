------------------------- MODULE MCMemoryIngestion -------------------------
(* Two messages: a rule, and next to it a message of every other kind.        *)
EXTENDS MemoryIngestion

CONSTANTS p1, p2

Rule == [text |-> "rule", locator |-> "v2"]

MailMixes ==
  {<<Rule, m>> : m \in {[text |-> "rule", locator |-> l] : l \in {"unbound", "lost"}}
                         \cup {[text |-> "chatter", locator |-> "legacy"]}}
=============================================================================
