------------------------------ MODULE MCKernel ------------------------------
(* The frozen kernel, its gateway to external engines and the search for      *)
(* better harnesses, side by side.  They share no state here: an external     *)
(* observation never enters a canonical run, and a search is judged on runs   *)
(* of its own.  A behaviour exercises one of them and the others rest in an   *)
(* initial state, which spares the product.                                   *)
EXTENDS WorldKernel, AdapterTickets, HarnessSearch, TLC

CONSTANTS Part, Kernel, Adapter, Evolution  \* Part = {Kernel, Adapter, Evolution}

VARIABLE part

Worlds == {[gold |-> 38, hp |-> 2, exploit |-> 0], [gold |-> 8, hp |-> 3, exploit |-> 4]}
Yields == {16}
Picks == {"defend", "heavy_attack", "farm", "buy_armor", "buy_blade", "heal", "retreat"}

G(t, o, s, e, c) == [train |-> t, objective |-> o, safety |-> s, efficiency |-> e, cost |-> c]
First == G(2, 2, 2, 2, 4)
Plateau == <<First, First, First, First>>
Lands == {<<G(3, 3, 2, 2, 4), G(2, 2, 3, 2, 4), G(1, 4, 3, 3, 1)>>,
          Plateau \o <<G(3, 5, 1, 2, 5), G(3, 2, 2, 1, 6), G(4, 4, 2, 2, 5)>>}

Symmetry == Permutations(Searcher)

Init == /\ KernelInit /\ TicketsInit /\ SearchInit /\ part \in Part
        /\ part = Kernel => durable
        /\ part # Kernel => world.gold = 8 /\ summary.counterfactual

Next == \/ part = Kernel /\ KernelNext /\ UNCHANGED <<ticketVars, searchVars>>
        \/ part = Adapter /\ TicketsNext /\ UNCHANGED <<kernelVars, searchVars>>
        \/ part = Evolution /\ SearchNext /\ UNCHANGED <<kernelVars, ticketVars>>

Spec == Init /\ [][Next /\ UNCHANGED part]_<<part, kernelVars, ticketVars, searchVars>>
=============================================================================
