----------------------------- MODULE MCAnalysis -----------------------------
(* What an analysis is given: the conversation, compiled from what its job    *)
(* froze, the long-term memory of its project, and the evidence among the     *)
(* materials of its task.  The three share no state, so a behaviour exercises *)
(* one of them and the others rest in an initial state.                       *)
EXTENDS EvidencePipeline, ContextCompile, ProjectMemory, TLC

CONSTANTS Part, Conversation, Evidence, Memory  \* the parts

VARIABLE part

\* Evidence: materials, the markers of a question, what providers take in.
M(k, b, long, sound) == [kind |-> k, builds |-> b, long |-> long, small |-> ~long, sound |-> sound]
Mixed == <<M("video", {"b1"}, TRUE, TRUE), M("text", {"b2"}, FALSE, FALSE),
           M("video", {}, FALSE, FALSE), M("audio", {"b1"}, FALSE, TRUE)>>
Texts == <<M("image", {}, FALSE, FALSE), M("text", {"b1"}, FALSE, FALSE),
           M("text", {"b1", "b2"}, FALSE, FALSE)>>
MaterialSets == {Mixed, Texts}
Wordings == {{"causal"}, {"compare", "visual"}, {"temporal"}, {"identifier", "text"},
             {"audio", "range"}}
Abilities == {{{"image"}}, {{"image", "video", "audio"}}}
OneEach == [k \in Kinds |-> 1]

\* Conversation: a limit stated twice, and an answer.
Says(role, topic, cost, says) == [role |-> role, topic |-> topic, cost |-> cost, says |-> says]
Cap(value) == [kind |-> "constraint", slot |-> "cap", value |-> value]
Talk == {Says("user", "hp", 2, Cap(5)), Says("user", "mana", 1, Cap(6)),
         Says("assistant", "hp", 2, Nothing)}

\* Memory: one key with a general revision and one for a build.
General == {}
Build == {"build"}
TwoScopes == {General, Build}
ForBuild == [j \in Job |-> Build]
IntoGeneral == [p \in Proposal |-> General]

\* The same two names serve as turns and as clients, which rest in turn: one
\* exchange of the names covers both.
Swap == Permutations(Turn)

Init == /\ EvidenceInit /\ ContextInit /\ MemoryInit /\ part \in Part
        /\ part # Evidence =>
             analysis = [assets |-> Texts, query |-> {"causal"}, scope |-> NoBuild,
                         routes |-> {{"image"}}, textHit |-> TRUE]

Next == \/ part = Evidence /\ EvidenceNext /\ UNCHANGED <<contextVars, memoryVars>>
        \/ part = Conversation /\ ContextNext /\ UNCHANGED <<evidenceVars, memoryVars>>
        \/ part = Memory /\ MemoryNext /\ UNCHANGED <<evidenceVars, contextVars>>

Spec == Init /\ [][Next /\ UNCHANGED part]_<<part, evidenceVars, contextVars, memoryVars>>
=============================================================================
