---------------------------- MODULE KernelProofs ----------------------------
(***************************************************************************)
(* Theorems of the frozen kernel, of its gateway to external engines and   *)
(* of the search for better harnesses: WorldKernel for every scenario,     *)
(* yield and ranking, AdapterTickets for every set of tickets, calls and   *)
(* gateways and both configurations of the replay store, HarnessSearch for *)
(* every set of processes, landscape of grades and setting.                *)
(***************************************************************************)
EXTENDS WorldKernel, AdapterTickets, HarnessSearch, ArrangeProofs

(* The kernel.                                                             *)
Outcomes == {None, "victory", "defeat", "retreated", "timeout"}

World == [tick : Nat, hp : 0..3, enemy : 0..1, energy : 0..MaxEnergy, gold : Nat,
          potions : Nat, farm : Nat, exploit : Nat, anomaly : BOOLEAN, outcome : Outcomes]

Tally == [rounds : Nat, invalid : {0}, recovered : BOOLEAN, critical : {FALSE},
          counterfactual : BOOLEAN]

(* A decision that is being executed or judged was taken in the checkpoint. *)
Decided ==
  /\ ~Terminal(checkpoint)
  /\ plan.first \in Legal(checkpoint)
  /\ plan.selected \in Legal(checkpoint)

KernelInv ==
  /\ world \in World
  /\ checkpoint \in World
  /\ step \in {"head", "execute", "judge", "done"}
  /\ summary \in Tally
  /\ step \in {"execute", "judge"} => Decided
  /\ step = "execute" => world = checkpoint
  /\ usedAt # {} => summary.recovered
  /\ step \in {"head", "done"} /\ world.outcome = "defeat" /\ summary.counterfactual
       => summary.recovered

(* A blow leaves hit points that the reduction knows.                      *)
LEMMA StruckTypes == ASSUME NEW h \in 0..3 PROVE Struck(h) \subseteq 0..3
BY DEF Struck

(* An action, before the enemy answers, leads to a world.                  *)
LEMMA ActedTypes ==
  ASSUME NEW w \in World, NEW a \in Legal(w), NEW v \in Acted(w, a)
  PROVE  v \in World
<1> USE DEF World, Outcomes, None, MaxEnergy
<1>0. a \in {"attack", "defend", "scout", "farm", "heavy_attack", "cast", "heal",
             "buy_blade", "buy_armor", "retreat"}
  BY DEF Legal
<1>1. CASE a = "attack"
  <2>1. PICK e \in 0..w.enemy : v = [Rested(w) EXCEPT !.enemy = e]
    BY <1>1 DEF Acted
  <2>2. Rested(w) \in World
    BY DEF Rested
  <2> QED BY <2>1, <2>2
<1>2. CASE a \in {"heavy_attack", "cast"}
  <2>1. PICK e \in 0..w.enemy : v = [w EXCEPT !.energy = @ - 2, !.enemy = e]
    BY <1>2 DEF Acted
  <2>2. w.energy - 2 \in 0..MaxEnergy /\ e \in 0..1
    BY <1>2 DEF Legal
  <2> HIDE DEF MaxEnergy, Outcomes
  <2> QED BY <2>1, <2>2
<1>3. CASE a \in {"defend", "scout"}
  BY <1>3 DEF Acted, Rested
<1>4. CASE a = "heal"
  <2>1. PICK h \in {2, 3} : v = [w EXCEPT !.potions = @ - 1, !.hp = h]
    BY <1>4 DEF Acted
  <2>2. w.potions - 1 \in Nat /\ h \in 0..3
    BY <1>4 DEF Legal
  <2> HIDE DEF MaxEnergy, Outcomes
  <2> QED BY <2>1, <2>2
<1>5. CASE a = "farm"
  <2>1. PICK g \in FarmYields : v = Farmed(w, g)
    BY <1>5 DEF Acted
  <2> DEFINE farm == IF w.farm < w.exploit THEN w.farm + 1 ELSE w.farm
             anomaly == w.anomaly \/ (w.exploit > 0 /\ w.farm + 1 >= w.exploit)
  <2>2. w.gold + g \in Nat /\ farm \in Nat
    BY KernelAssumption
  <2>3. anomaly \in BOOLEAN
    OBVIOUS
  <2>4. v = [w EXCEPT !.gold = w.gold + g, !.farm = farm, !.anomaly = anomaly]
    BY <2>1 DEF Farmed
  <2> HIDE DEF farm, anomaly, MaxEnergy, Outcomes
  <2> QED BY <2>2, <2>3, <2>4
<1>6. CASE a = "buy_blade"
  <2>1. v = [w EXCEPT !.gold = @ - 26]
    BY <1>6 DEF Acted
  <2>2. w.gold >= 26
    BY <1>6 DEF Legal
  <2> QED BY <2>1, <2>2
<1>7. CASE a = "buy_armor"
  <2>1. v = [w EXCEPT !.gold = @ - 22]
    BY <1>7 DEF Acted
  <2>2. w.gold >= 22
    BY <1>7 DEF Legal
  <2> QED BY <2>1, <2>2
<1>8. CASE a = "retreat"
  BY <1>8 DEF Acted
<1> QED BY <1>0, <1>1, <1>2, <1>3, <1>4, <1>5, <1>6, <1>7, <1>8

(* Judging a world changes no more than its outcome.                       *)
LEMMA JudgedTypes == ASSUME NEW w \in World PROVE Judged(w) \in World
BY DEF Judged, World, Outcomes, None

(* A legal action is never counted as invalid, and leads to a world.       *)
LEMMA LegalStep ==
  ASSUME NEW w \in World, NEW a \in Legal(w), NEW r \in EnvStep(w, a)
  PROVE  r.world \in World /\ r.invalid = FALSE
<1> DEFINE next == [w EXCEPT !.tick = @ + 1]
           answers(v) == IF Terminal(v) \/ v.enemy = 0 THEN {v}
                         ELSE {[v EXCEPT !.hp = h] : h \in Struck(v.hp)}
<1>1. next \in World /\ a \in Legal(next)
  BY DEF World, Legal, Terminal
<1>2. EnvStep(w, a) = {[world |-> Judged(v), invalid |-> FALSE] :
                         v \in UNION {answers(u) : u \in Acted(next, a)}}
  BY DEF EnvStep
<1>3. PICK v \in UNION {answers(u) : u \in Acted(next, a)} :
             r = [world |-> Judged(v), invalid |-> FALSE]
  BY <1>2
<1>4. PICK u \in Acted(next, a) : v \in answers(u)
  BY <1>3
<1>5. u \in World
  BY <1>1, <1>4, ActedTypes
<1>6. v \in World
  <2>1. CASE v = u
    BY <1>5, <2>1
  <2>2. CASE \E h \in Struck(u.hp) : v = [u EXCEPT !.hp = h]
    <3>1. u.hp \in 0..3
      BY <1>5 DEF World
    <3> QED BY <1>5, <2>2, <3>1, StruckTypes DEF World
  <2> QED BY <1>4, <2>1, <2>2
<1> QED BY <1>3, <1>6, JudgedTypes

(* No world trips a critical invariant of the environment.                 *)
LEMMA WorldsAreSound == ASSUME NEW w \in World PROVE ~Critical(w)
BY DEF World, Critical, MaxEnergy

(* The start of an episode satisfies the invariant.                        *)
LEMMA KernelInitInv == KernelInit => KernelInv
<1> SUFFICES ASSUME KernelInit PROVE KernelInv
  OBVIOUS
<1>1. PICK s \in Scenarios : world = Start(s)
  BY DEF KernelInit
<1>2. world \in World
  BY <1>1, KernelAssumption DEF Start, World, Outcomes, None, MaxEnergy
<1>3. world.outcome = None
  BY <1>1 DEF Start
<1> QED BY <1>2, <1>3 DEF KernelInit, KernelInv, Tally, None

(* Whatever the planner ranks first, what is selected is legal.            *)
LEMMA SelectionsAreLegal ==
  ASSUME NEW first \in Legal(world) PROVE Selections(first) \subseteq Legal(world)
BY DEF Selections

(* A round only counts itself.                                             *)
LEMMA RoundCounted ==
  ASSUME NEW s \in Tally
  PROVE  /\ [s EXCEPT !.rounds = @ + 1] \in Tally
         /\ [s EXCEPT !.rounds = @ + 1].recovered = s.recovered
<1>1. s.rounds + 1 \in Nat
  BY DEF Tally
<1> QED BY <1>1 DEF Tally

(* A decision is taken in the checkpoint, in a world that goes on.         *)
LEMMA DecideInv == KernelInv /\ Decide => KernelInv'
<1> SUFFICES ASSUME KernelInv, Decide PROVE KernelInv'
  OBVIOUS
<1>0. PICK first \in Ranked \cap Legal(world) : \E selected \in Selections(first) :
             plan' = [first |-> first, selected |-> selected]
  BY DEF Decide
<1>1. PICK selected \in Selections(first) :
             plan' = [first |-> first, selected |-> selected]
  BY <1>0
<1>2. selected \in Legal(world)
  BY <1>1, SelectionsAreLegal
<1>3. Decided'
  BY <1>1, <1>2 DEF Decide, Decided, Legal, Terminal
<1>4. summary' \in Tally /\ summary'.recovered = summary.recovered
  BY RoundCounted DEF Decide, KernelInv
<1>5. usedAt' # {} => summary'.recovered
  BY <1>4 DEF Decide, KernelInv
<1>6. world' \in World /\ checkpoint' \in World /\ step' = "execute" /\ world' = checkpoint'
  BY DEF Decide, KernelInv
<1> QED BY <1>3, <1>4, <1>5, <1>6 DEF KernelInv

(* The result of a legal action leaves the tally of failures alone.        *)
LEMMA CountedLegal ==
  ASSUME NEW s \in Tally, NEW r, r.world \in World, r.invalid = FALSE
  PROVE  [s EXCEPT !.invalid = @ + (IF r.invalid THEN 1 ELSE 0),
                   !.critical = @ \/ Critical(r.world)] = s
<1>1. ~Critical(r.world)
  BY WorldsAreSound
<1>2. s.invalid + (IF r.invalid THEN 1 ELSE 0) = s.invalid
  BY DEF Tally
<1>3. (s.critical \/ Critical(r.world)) = s.critical
  BY <1>1 DEF Tally
<1>4. [s EXCEPT !.invalid = s.invalid, !.critical = s.critical] = s
  BY DEF Tally
<1> QED BY <1>2, <1>3, <1>4

(* Execution of a legal decision.                                          *)
LEMMA ExecuteInv == KernelInv /\ Execute => KernelInv'
<1> SUFFICES ASSUME KernelInv, Execute PROVE KernelInv'
  OBVIOUS
<1>1. PICK r \in EnvStep(world, plan.selected) : Committed(r)
  BY DEF Execute
<1>2. world \in World /\ plan.selected \in Legal(world) /\ summary \in Tally
  BY DEF KernelInv, Execute, Decided
<1>3. r.world \in World /\ r.invalid = FALSE
  BY <1>1, <1>2, LegalStep
<1>4. world' \in World /\ summary' = summary
  BY <1>1, <1>2, <1>3, CountedLegal DEF Committed
<1>5. Decided'
  BY DEF KernelInv, Execute, Decided, Legal, Terminal
<1> QED BY <1>4, <1>5 DEF Execute, KernelInv

(* The counterfactual action is legal in the checkpoint it is tried in.    *)
LEMMA AlternativesAreLegal ==
  ASSUME Decided, NEW next \in Alternatives, next # None
  PROVE  next \in Legal(checkpoint)
BY DEF Alternatives, Decided

(* A rollback restores the checkpoint, or replaces it by the outcome of a  *)
(* legal alternative, and is recorded as a recovery.                       *)
LEMMA RollbackInv == KernelInv /\ Rollback => KernelInv'
<1> SUFFICES ASSUME KernelInv, Rollback PROVE KernelInv'
  OBVIOUS
<1> DEFINE count == [summary EXCEPT !.recovered = TRUE]
<1>1. count \in Tally /\ count.recovered
  BY DEF KernelInv, Tally
<1>2. Decided /\ checkpoint \in World
  BY DEF KernelInv, Rollback
<1>3. world' \in World /\ summary' = count
  <2>1. PICK next \in Alternatives :
          \/ /\ next = None
             /\ world' = checkpoint /\ summary' = count
          \/ /\ next # None
             /\ \E result \in EnvStep(checkpoint, next) :
                  /\ world' = result.world
                  /\ summary' =
                       [count EXCEPT !.invalid = @ + (IF result.invalid THEN 1 ELSE 0),
                                     !.critical = @ \/ Critical(result.world)]
    BY DEF Rollback, Restored
  <2>2. CASE next = None
    BY <1>2, <2>1, <2>2
  <2>3. CASE next # None
    <3>1. PICK r \in EnvStep(checkpoint, next) :
            /\ world' = r.world
            /\ summary' = [count EXCEPT !.invalid = @ + (IF r.invalid THEN 1 ELSE 0),
                                        !.critical = @ \/ Critical(r.world)]
      BY <2>1, <2>3
    <3>2. next \in Legal(checkpoint)
      BY <1>2, <2>1, <2>3, AlternativesAreLegal
    <3>3. r.world \in World /\ r.invalid = FALSE
      BY <1>2, <3>1, <3>2, LegalStep
    <3> QED BY <1>1, <3>1, <3>3, CountedLegal
  <2> QED BY <2>2, <2>3
<1>4. checkpoint' = world' /\ step' = "head"
  BY DEF Rollback, NextRound
<1> QED BY <1>1, <1>3, <1>4 DEF KernelInv

(* A round accepted without rollback did not lead to a defeat that could   *)
(* have been replaced.                                                     *)
LEMMA AcceptInv == KernelInv /\ Accept => KernelInv'
<1> SUFFICES ASSUME KernelInv, Accept PROVE KernelInv'
  OBVIOUS
<1>1. world' = world /\ checkpoint' = world /\ step' = "head" /\ summary' = summary
  BY DEF Accept, NextRound
<1>2. usedAt' \subseteq usedAt
  BY DEF Accept
<1>3. world.outcome = "defeat" /\ summary.counterfactual => summary.recovered
  <2> SUFFICES ASSUME world.outcome = "defeat", summary.counterfactual
               PROVE  summary.recovered
    OBVIOUS
  <2>0. Recommendation(world) = "rollback"
    BY DEF Recommendation
  <2>1. world.tick \in usedAt
    BY <2>0 DEF Accept, RollsBack
  <2>2. usedAt # {}
    BY <2>1
  <2>3. usedAt # {} => summary.recovered
    BY DEF KernelInv
  <2> QED BY <2>2, <2>3
<1>4. usedAt' # {} => summary'.recovered
  BY <1>1, <1>2 DEF KernelInv
<1>5. world'.outcome = "defeat" /\ summary'.counterfactual => summary'.recovered
  <2>1. world'.outcome = world.outcome /\ summary'.counterfactual = summary.counterfactual
        /\ summary'.recovered = summary.recovered
    BY <1>1
  <2> QED BY <1>3, <2>1
<1>6. world' \in World /\ checkpoint' \in World /\ summary' \in Tally
  BY <1>1 DEF KernelInv
<1> QED BY <1>1, <1>4, <1>5, <1>6 DEF KernelInv

(* The end of an episode.                                                  *)
LEMMA CompleteInv == KernelInv /\ Complete => KernelInv'
<1> SUFFICES ASSUME KernelInv, Complete PROVE KernelInv'
  OBVIOUS
<1>1. world' \in World /\ (world'.outcome = "defeat" => world.outcome = "defeat")
  BY DEF Complete, KernelInv, World, Outcomes
<1> QED BY <1>1 DEF Complete, KernelInv

(* Every step keeps the invariant.                                         *)
LEMMA KernelNextInv == KernelInv /\ [KernelNext]_kernelVars => KernelInv'
<1> SUFFICES ASSUME KernelInv, [KernelNext]_kernelVars PROVE KernelInv'
  OBVIOUS
<1>1. CASE UNCHANGED kernelVars
  BY <1>1 DEF KernelInv, kernelVars, Decided, Legal, Terminal
<1> QED BY <1>1, DecideInv, ExecuteInv, RollbackInv, AcceptInv, CompleteInv DEF KernelNext

(* The invariant says more than the property.                              *)
LEMMA KernelInvSound == KernelInv => KernelSound
BY DEF KernelInv, KernelSound, LegalOnly, DefeatIsSecondTry, Tally

(* An episode executes legal actions only, trips no critical invariant,    *)
(* and with counterfactual rollback ends in defeat only after a recovery   *)
(* was tried (self_evolving_engine.py, world_model.py), for every scenario, *)
(* yield, ranking and number of steps.                                     *)
THEOREM KernelIsSound == KernelSpec => []KernelSound
<1>1. KernelSpec => []KernelInv
  BY KernelInitInv, KernelNextInv, PTL DEF KernelSpec
<1> QED BY <1>1, KernelInvSound, PTL

-----------------------------------------------------------------------------
(* The gateway.                                                            *)
TicketRow == [issued : BOOLEAN, expires : Nat, by : Gateway \cup {Shared}, epoch : Nat]
CallRow == [pc : {"idle", "ready", "consume", "dispatch", "observed", "ambiguous",
                  "refused", "lost"},
            ticket : Ticket \cup {Shared}, by : Gateway \cup {Shared}, now : Nat,
            fit : BOOLEAN]

TicketTypes ==
  /\ clock \in Nat
  /\ durable \in BOOLEAN
  /\ ticket \in [Ticket -> TicketRow]
  /\ epoch \in [Gateway -> 0..1]
  /\ replays \in [Gateway \cup {Shared} -> [Ticket -> Nat \cup {Gone}]]
  /\ call \in [Call -> CallRow]
  /\ spent \in [Ticket -> SUBSET (Nat \X Call)]

Open == {"ready", "consume", "dispatch", "observed", "ambiguous"}

(* A call past its first await holds an issued ticket and the instant it   *)
(* verified it at; a call that went out has a consumption of its own.      *)
CallHolds(c) ==
  /\ call[c].pc \in Open => /\ call[c].ticket \in Ticket /\ call[c].by \in Gateway
                            /\ ticket[call[c].ticket].issued
  /\ call[c].pc = "consume" => durable /\ call[c].now <= clock
  /\ call[c].pc \in {"dispatch", "observed", "ambiguous"} =>
       \E e \in spent[call[c].ticket] : e[2] = c

TicketHolds(t) ==
  /\ ticket[t].issued => ticket[t].by \in Gateway /\ ticket[t].epoch <= epoch[ticket[t].by]
  /\ ~ticket[t].issued => spent[t] = {}

(* A row of the store is the expiry of an issued ticket.                   *)
RowsAreExpiries ==
  \A s \in Gateway \cup {Shared}, t \in Ticket :
    replays[s][t] # Gone => ticket[t].issued /\ replays[s][t] = ticket[t].expires

InTime(t, e) == e \in spent[t] /\ e[1] <= ticket[t].expires

(* A ticket consumed in time keeps its row until the clock has passed its  *)
(* expiry, or its gateway has lost the secret that signed it.              *)
Guarded(t) ==
  \/ clock > ticket[t].expires
  \/ durable /\ replays[Shared][t] = ticket[t].expires
  \/ ~durable /\ replays[ticket[t].by][t] = ticket[t].expires
  \/ ~durable /\ ticket[t].epoch # epoch[ticket[t].by]

OnceInTime(t) ==
  /\ \A e \in spent[t] : InTime(t, e) => Guarded(t)
  /\ \A e, f \in spent[t] : InTime(t, e) /\ InTime(t, f) => e = f

TicketsInv ==
  /\ TicketTypes
  /\ \A c \in Call : CallHolds(c)
  /\ \A t \in Ticket : TicketHolds(t) /\ OnceInTime(t)
  /\ RowsAreExpiries

----------------------------------------------------------------------------
LEMMA InitHolds == TicketsInit => TicketsInv
<1> SUFFICES ASSUME TicketsInit PROVE TicketsInv
  OBVIOUS
<1>1. Unissued \in TicketRow /\ Idle \in CallRow
  BY DEF Unissued, TicketRow, Idle, CallRow
<1>2. TicketTypes
  BY <1>1 DEF TicketsInit, TicketTypes, Gone
<1>3. \A c \in Call : CallHolds(c)
  BY DEF TicketsInit, CallHolds, Idle, Open
<1>4. \A t \in Ticket : TicketHolds(t) /\ OnceInTime(t)
  BY DEF TicketsInit, TicketHolds, OnceInTime, Unissued
<1>5. RowsAreExpiries
  BY DEF TicketsInit, RowsAreExpiries, Gone
<1>. QED BY <1>2, <1>3, <1>4, <1>5 DEF TicketsInv

(* A step that changes one call only, into a row of its type that keeps    *)
(* what a call holds.                                                      *)
LEMMA OneCall ==
  ASSUME TicketsInv, NEW c \in Call, NEW row \in CallRow,
         UNCHANGED <<clock, durable, ticket, epoch, replays, spent>>,
         call' = [call EXCEPT ![c] = row],
         row.pc \in Open => /\ row.ticket \in Ticket /\ row.by \in Gateway
                            /\ ticket[row.ticket].issued,
         row.pc = "consume" => durable /\ row.now <= clock,
         row.pc \in {"dispatch", "observed", "ambiguous"} =>
           \E e \in spent[row.ticket] : e[2] = c
  PROVE  TicketsInv'
<1>1. call \in [Call -> CallRow]
  BY DEF TicketsInv, TicketTypes
<1>2. call'[c] = row /\ \A d \in Call \ {c} : call'[d] = call[d]
  BY <1>1
<1>3. TicketTypes'
  BY <1>1 DEF TicketsInv, TicketTypes
<1>4. ASSUME NEW d \in Call PROVE CallHolds(d)'
  <2>1. CASE d = c
    BY <2>1, <1>2 DEF CallHolds
  <2>2. CASE d # c
    BY <2>2, <1>2 DEF CallHolds, TicketsInv
  <2>. QED BY <2>1, <2>2
<1>5. ASSUME NEW t \in Ticket PROVE TicketHolds(t)' /\ OnceInTime(t)'
  BY DEF TicketsInv, TicketHolds, OnceInTime, InTime, Guarded
<1>6. RowsAreExpiries'
  BY DEF TicketsInv, RowsAreExpiries
<1>. QED BY <1>3, <1>4, <1>5, <1>6 DEF TicketsInv

LEMMA ClosedRow == \A pc \in {"refused", "lost"} :
                     Closed(pc) \in CallRow /\ Closed(pc).pc = pc /\ pc \notin Open
BY DEF Closed, Idle, CallRow, Open

LEMMA RefusedStep ==
  ASSUME TicketsInv, NEW c \in Call, call' = [call EXCEPT ![c] = Closed("refused")],
         UNCHANGED <<clock, durable, ticket, epoch, replays, spent>>
  PROVE  TicketsInv'
BY ClosedRow, OneCall DEF Open

LEMMA TickStep == ASSUME TicketsInv, Tick PROVE TicketsInv'
<1>1. clock \in Nat /\ clock' = clock + 1
      /\ UNCHANGED <<durable, ticket, epoch, replays, call, spent>>
  BY DEF TicketsInv, TicketTypes, Tick
<1>2. TicketTypes'
  BY <1>1 DEF TicketsInv, TicketTypes
<1>3. ASSUME NEW c \in Call PROVE CallHolds(c)'
  <2>1. CallHolds(c) /\ call[c].now \in Nat
    BY DEF TicketsInv, TicketTypes, CallRow
  <2>. QED BY <1>1, <2>1 DEF CallHolds
<1>4. ASSUME NEW t \in Ticket PROVE TicketHolds(t)' /\ OnceInTime(t)'
  <2>1. TicketHolds(t) /\ OnceInTime(t) /\ ticket[t].expires \in Nat
    BY DEF TicketsInv, TicketTypes, TicketRow
  <2>2. Guarded(t) => Guarded(t)'
    BY <1>1, <2>1 DEF Guarded
  <2>. QED BY <1>1, <2>1, <2>2 DEF TicketHolds, OnceInTime, InTime
<1>5. RowsAreExpiries'
  BY <1>1 DEF TicketsInv, RowsAreExpiries
<1>. QED BY <1>2, <1>3, <1>4, <1>5 DEF TicketsInv

LEMMA IssueTicketStep ==
  ASSUME TicketsInv, NEW t \in Ticket, NEW g \in Gateway, IssueTicket(t, g)
  PROVE  TicketsInv'
<1>1. /\ clock \in Nat /\ TicketLife \in Nat /\ epoch[g] \in 0..1
      /\ ticket \in [Ticket -> TicketRow]
      /\ UNCHANGED <<clock, durable, epoch, replays, call, spent>>
  BY TicketsAssumption DEF TicketsInv, TicketTypes, IssueTicket
<1>. DEFINE row == [issued |-> TRUE, expires |-> clock + TicketLife, by |-> g, epoch |-> epoch[g]]
<1>2. /\ row \in TicketRow /\ row.issued /\ row.by = g /\ row.epoch = epoch[g]
  BY <1>1 DEF TicketRow
<1>3. ticket' = [ticket EXCEPT ![t] = row] /\ ~ticket[t].issued
  BY DEF IssueTicket
<1>. HIDE DEF row
<1>4. ticket'[t] = row /\ \A u \in Ticket \ {t} : ticket'[u] = ticket[u]
  BY <1>1, <1>3
<1>5. spent[t] = {}
  BY <1>3 DEF TicketsInv, TicketHolds
<1>6. TicketTypes'
  BY <1>1, <1>2, <1>3 DEF TicketsInv, TicketTypes
<1>7. ASSUME NEW c \in Call PROVE CallHolds(c)'
  BY <1>1, <1>2, <1>4 DEF TicketsInv, CallHolds
<1>8. ASSUME NEW u \in Ticket PROVE TicketHolds(u)' /\ OnceInTime(u)'
  <2>1. CASE u = t
    BY <1>1, <1>2, <1>4, <1>5, <2>1 DEF TicketHolds, OnceInTime
  <2>2. CASE u # t
    <3>1. ticket'[u] = ticket[u] /\ TicketHolds(u) /\ OnceInTime(u)
      BY <1>4, <2>2 DEF TicketsInv
    <3>2. Guarded(u) => Guarded(u)'
      BY <1>1, <3>1 DEF Guarded
    <3>. QED BY <1>1, <3>1, <3>2 DEF TicketHolds, OnceInTime, InTime
  <2>. QED BY <2>1, <2>2
<1>9. RowsAreExpiries'
  BY <1>1, <1>3, <1>4 DEF TicketsInv, RowsAreExpiries
<1>. QED BY <1>6, <1>7, <1>8, <1>9 DEF TicketsInv

LEMMA AwaitCapabilitiesStep ==
  ASSUME TicketsInv, NEW c \in Call, NEW t \in Ticket, NEW g \in Gateway,
         AwaitCapabilities(c, t, g)
  PROVE  TicketsInv'
<1>1. UNCHANGED <<clock, durable, ticket, epoch, replays, spent>> /\ ticket[t].issued
  BY DEF AwaitCapabilities
<1>2. CASE call' = [call EXCEPT ![c] = Closed("refused")]
  BY <1>1, <1>2, RefusedStep
<1>3. ASSUME NEW fit \in BOOLEAN,
             call' = [call EXCEPT ![c] = [Idle EXCEPT !.pc = "ready", !.ticket = t,
                                                      !.by = g, !.fit = fit]]
      PROVE  TicketsInv'
  <2>. DEFINE row == [Idle EXCEPT !.pc = "ready", !.ticket = t, !.by = g, !.fit = fit]
  <2>1. row \in CallRow /\ row.pc = "ready" /\ row.ticket = t /\ row.by = g
    BY DEF Idle, CallRow
  <2>2. call' = [call EXCEPT ![c] = row]
    BY <1>3
  <2>. HIDE DEF row
  <2>. QED BY <1>1, <2>1, <2>2, OneCall
<1>. QED BY <1>2, <1>3 DEF AwaitCapabilities

LEMMA CallFields ==
  ASSUME TicketsInv, NEW c \in Call
  PROVE  call[c] \in CallRow /\ CallHolds(c) /\ call \in [Call -> CallRow] /\ clock \in Nat
BY DEF TicketsInv, TicketTypes

LEMMA VerifyForThreadStep ==
  ASSUME TicketsInv, NEW c \in Call, VerifyForThread(c)
  PROVE  TicketsInv'
<1>. DEFINE row == [call[c] EXCEPT !.pc = "consume", !.now = clock]
<1>1. /\ row \in CallRow /\ row.pc = "consume" /\ row.now = clock
      /\ row.ticket = call[c].ticket /\ row.by = call[c].by
  BY CallFields DEF CallRow
<1>2. call' = [call EXCEPT ![c] = row]
  BY CallFields DEF VerifyForThread
<1>. HIDE DEF row
<1>3. /\ row.ticket \in Ticket /\ row.by \in Gateway /\ ticket[row.ticket].issued
      /\ durable /\ row.now <= clock
  BY <1>1, CallFields DEF VerifyForThread, CallHolds, Open
<1>4. UNCHANGED <<clock, durable, ticket, epoch, replays, spent>>
  BY DEF VerifyForThread
<1>. QED BY <1>1, <1>2, <1>3, <1>4, OneCall

LEMMA DispatchStep ==
  ASSUME TicketsInv, NEW c \in Call, Dispatch(c)
  PROVE  TicketsInv'
<1>1. PICK outcome \in {"observed", "ambiguous"} : call' = [call EXCEPT ![c].pc = outcome]
  BY DEF Dispatch
<1>. DEFINE row == [call[c] EXCEPT !.pc = outcome]
<1>2. /\ row \in CallRow /\ row.pc = outcome
      /\ row.ticket = call[c].ticket /\ row.by = call[c].by
  BY CallFields DEF CallRow
<1>3. call' = [call EXCEPT ![c] = row]
  BY <1>1, CallFields
<1>. HIDE DEF row
<1>4. /\ row.ticket \in Ticket /\ row.by \in Gateway /\ ticket[row.ticket].issued
      /\ \E e \in spent[row.ticket] : e[2] = c
  BY <1>2, CallFields DEF Dispatch, CallHolds, Open
<1>5. UNCHANGED <<clock, durable, ticket, epoch, replays, spent>>
  BY DEF Dispatch
<1>. QED BY <1>2, <1>3, <1>4, <1>5, OneCall

(* A restart of a gateway loses an in-memory row only with the secret that *)
(* signed the ticket.                                                      *)
LEMMA RestartGatewayStep ==
  ASSUME TicketsInv, NEW g \in Gateway, RestartGateway(g)
  PROVE  TicketsInv'
<1>1. /\ epoch \in [Gateway -> 0..1] /\ epoch[g] = 0 /\ epoch' = [epoch EXCEPT ![g] = 1]
      /\ replays \in [Gateway \cup {Shared} -> [Ticket -> Nat \cup {Gone}]]
      /\ replays' = [replays EXCEPT ![g] = [t \in Ticket |-> Gone]]
      /\ UNCHANGED <<clock, durable, ticket, spent>>
  BY DEF TicketsInv, TicketTypes, RestartGateway
<1>2. ASSUME NEW c \in Call PROVE call'[c] \in CallRow /\ CallHolds(c)'
  <2>1. CASE call'[c] = call[c]
    BY <1>1, <2>1, CallFields DEF CallHolds
  <2>2. CASE call'[c] = Closed("lost")
    <3>1. call'[c] \in CallRow /\ call'[c].pc = "lost"
      BY <2>2, ClosedRow
    <3>. QED BY <3>1 DEF CallHolds, Open
  <2>. QED BY <2>1, <2>2 DEF RestartGateway
<1>3. TicketTypes'
  <2>1. replays' \in [Gateway \cup {Shared} -> [Ticket -> Nat \cup {Gone}]]
    BY <1>1
  <2>2. call' \in [Call -> CallRow]
    BY <1>2 DEF RestartGateway
  <2>3. epoch' \in [Gateway -> 0..1]
    BY <1>1
  <2>. QED BY <1>1, <2>1, <2>2, <2>3 DEF TicketsInv, TicketTypes
<1>4. ASSUME NEW t \in Ticket PROVE TicketHolds(t)' /\ OnceInTime(t)'
  <2>1. /\ TicketHolds(t) /\ OnceInTime(t) /\ ticket[t] \in TicketRow
    BY DEF TicketsInv, TicketTypes
  <2>2. ticket[t].issued => ticket[t].epoch <= epoch'[ticket[t].by]
    BY <1>1, <2>1 DEF TicketHolds, TicketRow
  <2>3. TicketHolds(t)'
    BY <1>1, <2>1, <2>2 DEF TicketHolds
  <2>4. ASSUME spent[t] # {}, Guarded(t) PROVE Guarded(t)'
    <3>1. ticket[t].by \in Gateway /\ ticket[t].epoch <= epoch[ticket[t].by]
      BY <2>1, <2>4 DEF TicketHolds
    <3>2. CASE ticket[t].by = g
      <4>1. ticket[t].epoch # epoch'[ticket[t].by]
        BY <1>1, <2>1, <3>1, <3>2 DEF TicketRow
      <4>2. replays'[Shared] = replays[Shared]
        BY <1>1, StoreAssumption
      <4>. QED BY <1>1, <2>4, <4>1, <4>2 DEF Guarded, TicketsInv, TicketTypes
    <3>3. CASE ticket[t].by # g
      <4>1. /\ replays'[ticket[t].by] = replays[ticket[t].by]
            /\ epoch'[ticket[t].by] = epoch[ticket[t].by]
            /\ replays'[Shared] = replays[Shared]
        BY <1>1, <3>1, <3>3, StoreAssumption
      <4>. QED BY <1>1, <2>4, <4>1 DEF Guarded
    <3>. QED BY <3>2, <3>3
  <2>5. OnceInTime(t)'
    BY <1>1, <2>1, <2>4 DEF OnceInTime, InTime
  <2>. QED BY <2>3, <2>5
<1>5. RowsAreExpiries'
  BY <1>1 DEF TicketsInv, RowsAreExpiries
<1>. QED BY <1>2, <1>3, <1>4, <1>5 DEF TicketsInv

----------------------------------------------------------------------------
(* The rows that survive the purge of a consumer.                          *)
LEMMA PurgeKeeps ==
  ASSUME TicketsInv, NEW s \in Gateway \cup {Shared}, NEW now \in Nat, now <= clock,
         NEW t \in Ticket
  PROVE  /\ Purged(replays[s], now)[t] \in {Gone, replays[s][t]}
         /\ Purged(replays[s], now) \in [Ticket -> Nat \cup {Gone}]
         /\ Purged(replays[s], now)[t] = Gone =>
              replays[s][t] = Gone \/ clock > ticket[t].expires
<1>1. /\ replays[s] \in [Ticket -> Nat \cup {Gone}] /\ clock \in Nat
      /\ replays[s][t] # Gone => replays[s][t] = ticket[t].expires
      /\ ticket[t].expires \in Nat
  BY DEF TicketsInv, TicketTypes, RowsAreExpiries, TicketRow
<1>. QED BY <1>1 DEF Purged, Stale, Gone

(* consume: the heart of the one-use ticket.                               *)
LEMMA ConsumeStep ==
  ASSUME TicketsInv, NEW c \in Call, call[c].pc \in {"ready", "consume"},
         NEW now \in Nat, now <= clock, durable \/ Signed(call[c].ticket, call[c].by),
         UNCHANGED <<clock, durable, ticket, epoch>>, Consume(c, now)
  PROVE  TicketsInv'
<1>. DEFINE t == call[c].ticket
            s == Store(call[c].by)
            rows == Purged(replays[s], now)
            fresh == rows[t] = Gone
            sent == [call[c] EXCEPT !.pc = "dispatch", !.now = 0]
<1>1. /\ t \in Ticket /\ call[c].by \in Gateway /\ ticket[t].issued
      /\ s \in Gateway \cup {Shared} /\ call[c] \in CallRow
  BY CallFields DEF CallHolds, Open, Store
<1>2. /\ replays \in [Gateway \cup {Shared} -> [Ticket -> Nat \cup {Gone}]]
      /\ spent \in [Ticket -> SUBSET (Nat \X Call)] /\ call \in [Call -> CallRow]
      /\ clock \in Nat /\ ticket[t].expires \in Nat /\ durable \in BOOLEAN
  BY <1>1 DEF TicketsInv, TicketTypes, TicketRow
<1>3. /\ replays' = [replays EXCEPT ![s] = IF fresh THEN [rows EXCEPT ![t] = ticket[t].expires]
                                           ELSE IF durable THEN replays[s] ELSE rows]
      /\ call' = [call EXCEPT ![c] = IF fresh THEN sent ELSE Closed("refused")]
      /\ spent' = IF fresh THEN [spent EXCEPT ![t] = spent[t] \cup {<<clock, c>>}] ELSE spent
  BY <1>2 DEF Consume
<1>4. /\ sent \in CallRow /\ sent.pc = "dispatch" /\ sent.ticket = t /\ sent.by = call[c].by
  BY <1>1 DEF CallRow
<1>5. rows \in [Ticket -> Nat \cup {Gone}]
  BY <1>1, PurgeKeeps
<1>6. \A u \in Ticket : rows[u] \in {Gone, replays[s][u]}
                        /\ (rows[u] = Gone => replays[s][u] = Gone \/ clock > ticket[u].expires)
  BY <1>1, PurgeKeeps
<1>7. s = IF durable THEN Shared ELSE ticket[t].by
  BY <1>1 DEF Store, Signed
<1>. HIDE DEF t, s, rows, sent
<1>8. /\ replays'[s] = IF fresh THEN [rows EXCEPT ![t] = ticket[t].expires]
                       ELSE IF durable THEN replays[s] ELSE rows
      /\ \A x \in Gateway \cup {Shared} : x # s => replays'[x] = replays[x]
  BY <1>1, <1>2, <1>3
<1>9. TicketTypes'
  <2>1. replays' \in [Gateway \cup {Shared} -> [Ticket -> Nat \cup {Gone}]]
    BY <1>1, <1>2, <1>3, <1>5
  <2>2. call' \in [Call -> CallRow]
    BY <1>2, <1>3, <1>4, ClosedRow
  <2>3. spent' \in [Ticket -> SUBSET (Nat \X Call)]
    BY <1>1, <1>2, <1>3
  <2>. QED BY <2>1, <2>2, <2>3 DEF TicketsInv, TicketTypes
<1>10. \A u \in Ticket : spent[u] \subseteq spent'[u]
  BY <1>1, <1>2, <1>3
<1>11. ASSUME NEW d \in Call PROVE CallHolds(d)'
  <2>1. CASE d # c
    <3>1. call'[d] = call[d] /\ CallHolds(d)
      BY <1>2, <1>3, <2>1 DEF TicketsInv
    <3>. QED BY <1>10, <3>1 DEF CallHolds, Open
  <2>2. CASE d = c /\ fresh
    <3>1. call'[c] = sent /\ <<clock, c>> \in spent'[t]
      BY <1>1, <1>2, <1>3, <2>2
    <3>2. \E e \in spent'[t] : e[2] = c
      BY <3>1
    <3>. QED BY <1>1, <1>4, <2>2, <3>1, <3>2 DEF CallHolds, Open
  <2>3. CASE d = c /\ ~fresh
    <3>1. call'[c].pc = "refused"
      BY <1>2, <1>3, <2>3, ClosedRow
    <3>. QED BY <2>3, <3>1 DEF CallHolds, Open
  <2>. QED BY <2>1, <2>2, <2>3
<1>12. RowsAreExpiries'
  <2>. SUFFICES ASSUME NEW x \in Gateway \cup {Shared}, NEW u \in Ticket, replays'[x][u] # Gone
                PROVE  ticket[u].issued /\ replays'[x][u] = ticket[u].expires
    BY DEF RowsAreExpiries
  <2>1. CASE replays'[x][u] = replays[x][u]
    BY <2>1 DEF TicketsInv, RowsAreExpiries
  <2>2. CASE x = s /\ u = t /\ fresh
    BY <1>1, <1>5, <1>8, <2>2
  <2>3. CASE x = s /\ replays'[x][u] = rows[u]
    BY <1>6, <2>1, <2>3
  <2>. QED BY <1>5, <1>8, <2>1, <2>2, <2>3
<1>13. ASSUME NEW u \in Ticket PROVE TicketHolds(u)' /\ OnceInTime(u)'
  <2>1. TicketHolds(u) /\ OnceInTime(u) /\ ticket[u].expires \in Nat
    BY DEF TicketsInv, TicketTypes, TicketRow
  <2>2. TicketHolds(u)'
    <3>1. u = t \/ spent'[u] = spent[u]
      BY <1>1, <1>2, <1>3
    <3>. QED BY <1>1, <2>1, <3>1 DEF TicketHolds
  <2>3. ASSUME Guarded(u) PROVE Guarded(u)'
    <3>1. ASSUME NEW x \in Gateway \cup {Shared}, replays[x][u] = ticket[u].expires
          PROVE  replays'[x][u] = ticket[u].expires \/ clock > ticket[u].expires
      <4>1. CASE x # s
        BY <1>8, <3>1, <4>1
      <4>2. CASE x = s
        <5>1. rows[u] = ticket[u].expires \/ clock > ticket[u].expires
          BY <1>6, <2>1, <3>1, <4>2 DEF Gone
        <5>. QED BY <1>1, <1>5, <1>8, <3>1, <4>2, <5>1
      <4>. QED BY <4>1, <4>2
    <3>2. ticket[u].by \in Gateway \cup {Shared}
      BY DEF TicketsInv, TicketTypes, TicketRow
    <3>. QED BY <2>3, <3>1, <3>2 DEF Guarded
  <2>4. CASE spent'[u] = spent[u]
    BY <2>1, <2>2, <2>3, <2>4 DEF OnceInTime, InTime
  <2>5. CASE u = t /\ fresh
    <3>1. spent'[u] = spent[u] \cup {<<clock, c>>}
      BY <1>1, <1>2, <1>3, <2>5
    <3>2. replays'[s][u] = ticket[u].expires /\ (s = IF durable THEN Shared ELSE ticket[u].by)
      BY <1>1, <1>5, <1>7, <1>8, <2>5
    <3>3. Guarded(u)'
      BY <3>2, <1>2 DEF Guarded
    <3>4. CASE clock > ticket[u].expires
      <4>1. <<clock, c>>[1] = clock
        OBVIOUS
      <4>2. ~(clock <= ticket[u].expires)
        BY <1>2, <2>1, <3>4
      <4>3. \A e \in spent'[u] : InTime(u, e)' => InTime(u, e)
        BY <3>1, <4>1, <4>2 DEF InTime
      <4>. QED BY <2>1, <2>2, <3>3, <4>3 DEF OnceInTime, InTime
    <3>5. CASE ~(clock > ticket[u].expires)
      <4>1. replays[s][u] = Gone
        BY <1>1, <1>6, <2>5, <3>5
      <4>2. durable \/ Signed(u, call[c].by)
        BY <2>5 DEF t
      <4>3. ~Guarded(u)
        <5>1. ~durable => ticket[u].epoch = epoch[ticket[u].by]
          BY <4>2 DEF Signed
        <5>2. replays[s][u] # ticket[u].expires
          BY <2>1, <4>1 DEF Gone
        <5>. QED BY <3>2, <3>5, <5>1, <5>2 DEF Guarded
      <4>4. \A e \in spent[u] : ~InTime(u, e)
        BY <2>1, <4>3 DEF OnceInTime
      <4>5. \A e \in spent'[u] : InTime(u, e)' => e = <<clock, c>>
        BY <3>1, <4>4 DEF InTime
      <4>. QED BY <2>2, <3>3, <4>5 DEF OnceInTime, InTime
    <3>. QED BY <3>4, <3>5
  <2>6. spent'[u] = spent[u] \/ (u = t /\ fresh)
    BY <1>1, <1>2, <1>3
  <2>. QED BY <2>2, <2>4, <2>5, <2>6
<1>. QED BY <1>9, <1>11, <1>12, <1>13 DEF TicketsInv

----------------------------------------------------------------------------
LEMMA NextHolds == TicketsInv /\ [TicketsNext]_ticketVars => TicketsInv'
<1> SUFFICES ASSUME TicketsInv, [TicketsNext]_ticketVars PROVE TicketsInv'
  OBVIOUS
<1>1. CASE UNCHANGED ticketVars
  BY <1>1 DEF ticketVars, TicketsInv, TicketTypes, CallHolds, TicketHolds, OnceInTime, InTime,
              Guarded, RowsAreExpiries
<1>2. ASSUME NEW c \in Call, VerifyInMemory(c) PROVE TicketsInv'
  <2>1. /\ clock \in Nat /\ clock <= clock /\ Consume(c, clock) /\ call[c].pc = "ready"
        /\ UNCHANGED <<clock, durable, ticket, epoch>> /\ Signed(call[c].ticket, call[c].by)
    BY <1>2, CallFields DEF VerifyInMemory, Verified
  <2>. QED BY <2>1, ConsumeStep
<1>3. ASSUME NEW c \in Call, ConsumeInThread(c) PROVE TicketsInv'
  <2>1. /\ call[c].now \in Nat /\ call[c].now <= clock /\ durable
        /\ Consume(c, call[c].now) /\ call[c].pc = "consume"
        /\ UNCHANGED <<clock, durable, ticket, epoch>>
    BY <1>3, CallFields DEF ConsumeInThread, CallHolds, CallRow
  <2>. QED BY <2>1, ConsumeStep
<1>4. ASSUME NEW c \in Call, Refuse(c) \/ StoreFails(c) PROVE TicketsInv'
  BY <1>4, RefusedStep DEF Refuse, StoreFails, OnStoreError
<1>. QED BY <1>1, <1>2, <1>3, <1>4, TickStep, RestartGatewayStep, IssueTicketStep,
            AwaitCapabilitiesStep, VerifyForThreadStep, DispatchStep DEF TicketsNext

(* The rows of the replay stores and the calls in flight, with the types,  *)
(* are an inductive invariant of the gateways (game_adapter.py).           *)
THEOREM TicketsInductive == TicketsSpec => []TicketsInv
BY InitHolds, NextHolds, PTL DEF TicketsSpec

LEMMA AtMostOne ==
  ASSUME NEW S, \A e, f \in S : e = f
  PROVE  Cardinality(S) <= 1
<1>1. CASE S = {}
  BY <1>1, FS_EmptySet
<1>2. CASE S # {}
  <2>1. PICK e \in S : TRUE
    BY <1>2
  <2>2. S = {e}
    BY <2>1
  <2>3. Cardinality({e}) = 1
    BY FS_Singleton
  <2>. QED BY <2>2, <2>3
<1>. QED BY <1>1, <1>2

(* A ticket is consumed once until it expires, and no call reaches an      *)
(* engine without a consumption of its own (game_adapter.py:172-222).      *)
THEOREM TicketsOneShot == TicketsSpec => []TicketsAreOneShot
<1>1. TicketsInv => ConsumedOnce
  <2> SUFFICES ASSUME TicketsInv, NEW t \in Ticket PROVE Cardinality(SpentInTime(t)) <= 1
    BY DEF ConsumedOnce
  <2>1. \A e, f \in SpentInTime(t) : e = f
    BY DEF TicketsInv, OnceInTime, InTime, SpentInTime
  <2>. QED BY <2>1, AtMostOne
<1>2. TicketsInv => SentWasConsumed
  BY DEF TicketsInv, CallHolds, SentWasConsumed, Sent
<1>. QED BY <1>1, <1>2, TicketsInductive, PTL DEF TicketsAreOneShot

-----------------------------------------------------------------------------
(* The search.                                                             *)
Genomes == [same : BOOLEAN, on : Nat \ {0}, grade : Grade]
Versioned == [version : Nat, genome : Genomes]
SearchRow ==
  [phase : {"idle", "explore", "refine", "trust", "seal", "archive"},
   base : Versioned \cup {<<>>}, peers : SUBSET Nat, land : Landscapes \cup {<<>>},
   made : Nat, round : Nat, pool : Seq(Genomes), champion : Seq(Genomes),
   elites : Seq(Genomes)]

NoWorse(g, h) == g.objective >= h.objective /\ g.safety >= h.safety

(* A search under way remembers a genome that was current; the version     *)
(* tells whether it still is, and a champion is no worse than it.          *)
SearchHolds(h) ==
  /\ h.phase # "idle" =>
       /\ h.base \in Versioned /\ h.base.version <= current.version
       /\ h.base.version = current.version => h.base.genome.grade = current.genome.grade
  /\ h.phase \notin {"idle", "archive"} => h.land \in Landscapes
  /\ h.champion # <<>> =>
       h.phase = "archive" /\ NoWorse(h.champion[1].grade, h.base.genome.grade)

SearchInv ==
  /\ current \in Versioned /\ cell \in Seq(Genomes) /\ past \subseteq Grade
  /\ search \in [Searcher -> SearchRow]
  /\ \A s \in Searcher : SearchHolds(search[s])
  /\ NeverRegresses /\ CellIsFrontier

(* The types of the parts of a genome.                                     *)
LEMMA GenomeFields ==
  ASSUME NEW g \in Genomes
  PROVE  /\ g.same \in BOOLEAN /\ g.on \in Nat \ {0} /\ g.grade \in Grade
         /\ g.grade.train \in Int /\ g.grade.objective \in Int /\ g.grade.safety \in Int
         /\ g.grade.efficiency \in Int /\ g.grade.cost \in Nat
BY DEF Genomes, Grade

(* The grades in a pool are integers.                                      *)
LEMMA GenomesOf ==
  ASSUME NEW pool \in Seq(Genomes)
  PROVE  /\ Len(pool) \in Nat /\ DOMAIN pool = 1..Len(pool)
         /\ \A n \in 1..Len(pool) :
              /\ pool[n] \in Genomes
              /\ pool[n].grade.train \in Int /\ pool[n].grade.objective \in Int
              /\ pool[n].grade.safety \in Int /\ pool[n].grade.efficiency \in Int
<1>1. Len(pool) \in Nat /\ DOMAIN pool = 1..Len(pool)
      /\ \A n \in 1..Len(pool) : pool[n] \in Genomes
  OBVIOUS
<1> QED BY <1>1, GenomeFields

(* A sorted pool is made of the genomes of the pool.                       *)
LEMMA Sorted ==
  ASSUME NEW pool \in Seq(Genomes), NEW score \in [1..Len(pool) -> Int]
  PROVE  LET best == BestFirst(pool, score)
         IN  /\ best \in Seq(Genomes) /\ Len(best) = Len(pool)
             /\ \A n \in 1..Len(pool) : \E i \in 1..Len(pool) : best[n] = pool[i]
<1> DEFINE N == Len(pool)  best == BestFirst(pool, score)
<1>1. /\ best \in Seq(Genomes) /\ Len(best) = N
      /\ \E order \in [1..N -> 1..N] :
            /\ \A n \in 1..N : best[n] = pool[order[n]]
            /\ \A i \in 1..N : \E n \in 1..N : order[n] = i
            /\ \A n, m \in 1..N : n < m => score[order[n]] >= score[order[m]]
  BY BestFirstSorts
<1> HIDE DEF N, best
<1>2. PICK order \in [1..N -> 1..N] : \A n \in 1..N : best[n] = pool[order[n]]
  BY <1>1
<1>3. \A n \in 1..N : \E i \in 1..N : best[n] = pool[i]
  BY <1>2
<1> QED BY <1>1, <1>3 DEF N, best

(* So is a pool ranked on the train cases.                                 *)
LEMMA TrainRanking ==
  ASSUME NEW pool \in Seq(Genomes)
  PROVE  /\ ByTrain(pool) \in Seq(Genomes) /\ Len(ByTrain(pool)) = Len(pool)
         /\ \A n \in 1..Len(pool) : \E i \in 1..Len(pool) : ByTrain(pool)[n] = pool[i]
<1> DEFINE score == [n \in DOMAIN pool |-> pool[n].grade.train]
<1>1. score \in [1..Len(pool) -> Int]
  BY GenomesOf
<1> HIDE DEF score
<1>2. ByTrain(pool) = BestFirst(pool, score)
  BY DEF ByTrain, score
<1> QED BY <1>1, <1>2, Sorted

Undominated(pool) == {n \in 1..Len(pool) :
                        \A o \in ToSet(pool) : ~Dominates(o.grade, pool[n].grade)}

(* The frontier is made of what no genome of the pool dominates, and no    *)
(* element of it dominates another.                                        *)
LEMMA FrontierElements ==
  ASSUME NEW pool \in Seq(Genomes)
  PROVE  /\ Frontier(pool) \in Seq(Genomes)
         /\ \A n \in 1..Len(Frontier(pool)) :
              \E i \in Undominated(pool) : Frontier(pool)[n] = pool[i]
         /\ \A i \in Undominated(pool) :
              \E n \in 1..Len(Frontier(pool)) : Frontier(pool)[n] = pool[i]
         /\ \A n, m \in 1..Len(Frontier(pool)) :
              ~Dominates(Frontier(pool)[m].grade, Frontier(pool)[n].grade)
<1> DEFINE T == Undominated(pool)  F == Frontier(pool)
<1>1. T \in SUBSET (1..Len(pool)) /\ DOMAIN pool = 1..Len(pool)
  BY DEF Undominated
<1>2. F = Kept(pool, T)
  BY <1>1 DEF Frontier, Undominated
<1> HIDE DEF T, F
<1>3. /\ F \in Seq(Genomes)
      /\ \A n \in 1..Len(F) : \E i \in T : F[n] = pool[i]
      /\ \A i \in T : \E n \in 1..Len(F) : F[n] = pool[i]
  BY <1>1, <1>2, KeptElements
<1>4. \A n, m \in 1..Len(F) : ~Dominates(F[m].grade, F[n].grade)
  <2> SUFFICES ASSUME NEW n \in 1..Len(F), NEW m \in 1..Len(F)
               PROVE  ~Dominates(F[m].grade, F[n].grade)
    OBVIOUS
  <2>1. PICK i \in T : F[n] = pool[i]
    BY <1>3
  <2>2. PICK k \in T : F[m] = pool[k]
    BY <1>3
  <2>3. pool[k] \in ToSet(pool)
    BY <1>1, <2>2 DEF ToSet
  <2> QED BY <2>1, <2>2, <2>3 DEF T, Undominated
<1> QED BY <1>3, <1>4 DEF T, F

(* What the frontier is cut by.                                            *)
Total(pool) == [n \in DOMAIN pool |-> pool[n].grade.objective + pool[n].grade.safety
                                      + pool[n].grade.efficiency]

(* A genome that dominates another has the higher total.                   *)
LEMMA TotalOfGrades ==
  ASSUME NEW pool \in Seq(Genomes)
  PROVE  /\ Total(pool) \in [1..Len(pool) -> Int]
         /\ \A n, m \in 1..Len(pool) :
              Dominates(pool[n].grade, pool[m].grade) => Total(pool)[n] > Total(pool)[m]
<1>1. \A n \in 1..Len(pool) :
         Total(pool)[n] = pool[n].grade.objective + pool[n].grade.safety
                         + pool[n].grade.efficiency
  BY GenomesOf DEF Total
<1>2. Total(pool) \in [1..Len(pool) -> Int]
  BY GenomesOf DEF Total
<1>3. ASSUME NEW n \in 1..Len(pool), NEW m \in 1..Len(pool),
             Dominates(pool[n].grade, pool[m].grade)
      PROVE  Total(pool)[n] > Total(pool)[m]
  <2>1. /\ pool[n].grade.objective \in Int /\ pool[n].grade.safety \in Int
        /\ pool[n].grade.efficiency \in Int
    BY GenomesOf
  <2>2. /\ pool[m].grade.objective \in Int /\ pool[m].grade.safety \in Int
        /\ pool[m].grade.efficiency \in Int
    BY GenomesOf
  <2>3. \A a, b, c, x, y, z \in Int :
           a >= x /\ b >= y /\ c >= z /\ (a > x \/ b > y \/ c > z) => a + b + c > x + y + z
    OBVIOUS
  <2>4. pool[n].grade.objective + pool[n].grade.safety + pool[n].grade.efficiency
          > pool[m].grade.objective + pool[m].grade.safety + pool[m].grade.efficiency
    BY <1>3, <2>1, <2>2, <2>3 DEF Dominates
  <2> QED BY <1>1, <2>4
<1> QED BY <1>2, <1>3

(* The element with the highest sum is dominated by none, so the frontier  *)
(* of a pool that is not empty is not empty.                               *)
LEMMA FrontierIsInhabited ==
  ASSUME NEW pool \in Seq(Genomes), pool # <<>> PROVE Frontier(pool) # <<>>
<1> DEFINE N == Len(pool)  sum == Total(pool)
<1>1. N \in Nat /\ 1 \in 1..N /\ DOMAIN pool = 1..N
  OBVIOUS
<1>2. sum \in [1..N -> Int]
      /\ \A n, m \in 1..N : Dominates(pool[n].grade, pool[m].grade) => sum[n] > sum[m]
  BY TotalOfGrades
<1> HIDE DEF N, sum
<1>3. PICK top \in 1..N : \A k \in 1..N : sum[top] >= sum[k]
  <2>1. N >= 1 /\ sum \in [1..N -> Int]
    BY <1>1, <1>2
  <2> QED BY <1>1, <2>1, HighestExists
<1>6. \A k \in 1..N : ~(sum[k] > sum[top])
  BY <1>2, <1>3
<1>7. \A k \in 1..N : ~Dominates(pool[k].grade, pool[top].grade)
  BY <1>2, <1>3, <1>6
<1>8. \A o \in ToSet(pool) : \E k \in 1..N : o = pool[k]
  BY <1>1 DEF ToSet
<1>9. top \in Undominated(pool)
  BY <1>3, <1>7, <1>8 DEF Undominated, N
<1>10. PICK n \in 1..Len(Frontier(pool)) : Frontier(pool)[n] = pool[top]
  BY <1>9, FrontierElements
<1> QED BY <1>10

(* The cell that Elect leaves is within its size and a frontier.           *)
LEMMA ElectedCell ==
  ASSUME NEW entries \in Seq(Genomes), NEW new \in Genomes
  PROVE  /\ Elect(entries, new) \in Seq(Genomes)
         /\ Len(Elect(entries, new)) <= MaxPerCell
         /\ \A a, b \in ToSet(Elect(entries, new)) : ~Dominates(a.grade, b.grade)
<1> DEFINE front == Frontier(Append(entries, new))
           best == BestFirst(front, Total(front))
           E == Elect(entries, new)
<1>0. Append(entries, new) \in Seq(Genomes)
  OBVIOUS
<1>1. front \in Seq(Genomes)
      /\ \A n, m \in 1..Len(front) : ~Dominates(front[m].grade, front[n].grade)
  BY <1>0, FrontierElements
<1>2. E = SubSeq(best, 1, Min({Len(front), MaxPerCell}))
  BY ValueOfSingleton DEF Elect, Total
<1> HIDE DEF front, E
<1>3. Total(front) \in [1..Len(front) -> Int]
  BY <1>1, TotalOfGrades
<1>4. best \in Seq(Genomes) /\ Len(best) = Len(front)
      /\ \A n \in 1..Len(front) : \E i \in 1..Len(front) : best[n] = front[i]
  BY <1>1, <1>3, Sorted
<1> HIDE DEF best
<1>m. MaxPerCell \in Nat
  BY SearchAssumption
<1>5. E = SubSeq(best, 1, Min({Len(best), MaxPerCell}))
  BY <1>2, <1>4
<1>6. /\ E \in Seq(Genomes) /\ Len(E) <= MaxPerCell
      /\ \A n \in 1..Len(E) : n \in 1..Len(best) /\ E[n] = best[n]
  BY <1>4, <1>5, <1>m, Prefix
<1>7. \A n \in 1..Len(E) : \E i \in 1..Len(front) : E[n] = front[i]
  BY <1>4, <1>6
<1>8. \A a \in ToSet(E) : \E n \in 1..Len(E) : a = E[n]
  BY <1>6 DEF ToSet
<1>9. ASSUME NEW a \in ToSet(E), NEW b \in ToSet(E) PROVE ~Dominates(a.grade, b.grade)
  <2>1. PICK n \in 1..Len(front) : a = front[n]
    BY <1>7, <1>8
  <2>2. PICK m \in 1..Len(front) : b = front[m]
    BY <1>7, <1>8
  <2> QED BY <1>1, <2>1, <2>2
<1> QED BY <1>6, <1>9 DEF E

(* A search that is neither idle nor archiving draws grades of its landscape. *)
LEMMA GradesOfSearch ==
  ASSUME SearchInv, NEW s \in Searcher, search[s].phase \notin {"idle", "archive"},
         NEW n \in Int
  PROVE  GradeAt(s, n) \in Grade
<1> DEFINE land == search[s].land
<1>1. land \in Seq(Grade) /\ land # <<>>
  BY SearchAssumption DEF SearchInv, SearchHolds
<1> HIDE DEF land
<1>2. Len(land) \in Nat /\ Len(land) > 0
  BY <1>1
<1>3. ((n - 1) % Len(land)) + 1 \in 1..Len(land)
  BY <1>2
<1>4. land[((n - 1) % Len(land)) + 1] \in Grade
  BY <1>1, <1>3
<1> QED BY <1>4 DEF GradeAt, land

(* The baseline of a search under way is a genome.                         *)
LEMMA BaseOfSearch ==
  ASSUME SearchInv, NEW s \in Searcher, search[s].phase # "idle"
  PROVE  Base(s) \in Genomes
BY DEF SearchInv, SearchHolds, Base, Versioned

Edit == [same : BOOLEAN, on : Nat \ {0}]

(* No edit leaves a genome without a specialist.                           *)
LEMMA EditsKeepOne ==
  ASSUME NEW parent \in Genomes, NEW peers \in SUBSET Nat, NEW e \in Edits(parent, peers)
  PROVE  e.same \in BOOLEAN /\ e.on \in Nat \ {0}
<1>1. parent.same \in BOOLEAN /\ parent.on \in Nat \ {0}
  BY GenomeFields
<1>2. CASE e = [same |-> parent.same, on |-> parent.on]
  BY <1>1, <1>2
<1>3. CASE e = [same |-> FALSE, on |-> parent.on + 1]
  BY <1>1, <1>3
<1>4. CASE Prunable(parent.on) /\ e = [same |-> parent.same, on |-> parent.on - 1]
  BY <1>1, <1>4 DEF Prunable
<1>5. CASE \E p \in peers : \E k \in 0..p : e = [same |-> FALSE, on |-> parent.on + k]
  <2>1. PICK p \in peers : \E k \in 0..p : e = [same |-> FALSE, on |-> parent.on + k]
    BY <1>5
  <2>2. PICK k \in 0..p : e = [same |-> FALSE, on |-> parent.on + k]
    BY <2>1
  <2>3. k \in Nat
    BY <2>1
  <2> QED BY <1>1, <2>2, <2>3
<1> QED BY <1>2, <1>3, <1>4, <1>5 DEF Edits

(* An edit with a grade is a genome.                                       *)
LEMMA GenomeOf ==
  ASSUME NEW e, e.same \in BOOLEAN, e.on \in Nat \ {0}, NEW g \in Grade
  PROVE  Genome(e, g) \in Genomes
BY DEF Genome, Genomes

(* The types of the fields of a search.                                    *)
LEMMA RowFields ==
  ASSUME NEW h \in SearchRow
  PROVE  /\ h.peers \in SUBSET Nat /\ h.made \in Nat /\ h.round \in Nat
         /\ h.pool \in Seq(Genomes) /\ h.champion \in Seq(Genomes)
         /\ h.elites \in Seq(Genomes)
BY DEF SearchRow

(* A step of a search that touches nothing shared.                         *)
LEMMA InnerStep ==
  ASSUME SearchInv, NEW s \in Searcher, UNCHANGED <<current, cell, past>>,
         search' \in [Searcher -> SearchRow],
         \A o \in Searcher \ {s} : search'[o] = search[o],
         SearchHolds(search[s])'
  PROVE  SearchInv'
<1>1. \A o \in Searcher : SearchHolds(search[o])'
  BY DEF SearchInv, SearchHolds
<1>2. NeverRegresses' /\ CellIsFrontier'
  BY DEF SearchInv, NeverRegresses, CellIsFrontier
<1> QED BY <1>1, <1>2 DEF SearchInv

(* A step that changes the pool and the place of a search only.            *)
LEMMA Moves ==
  ASSUME SearchInv, NEW s \in Searcher, search[s].phase \in {"explore", "refine", "trust"},
         UNCHANGED <<current, cell, past>>,
         NEW phase \in {"explore", "refine", "trust", "seal"}, NEW pool \in Seq(Genomes),
         NEW made \in Nat, NEW round \in Nat,
         search' = [search EXCEPT ![s].pool = pool, ![s].made = made, ![s].round = round,
                      ![s].phase = phase]
  PROVE  SearchInv'
<1> DEFINE h == search[s]
           r == [phase |-> phase, base |-> h.base, peers |-> h.peers, land |-> h.land,
                 made |-> made, round |-> round, pool |-> pool, champion |-> h.champion,
                 elites |-> h.elites]
<1>0. h \in SearchRow /\ SearchHolds(h)
  BY DEF SearchInv
<1>1. search'[s] = r
  BY <1>0 DEF SearchInv, SearchRow
<1>2. r \in SearchRow
  BY <1>0 DEF SearchRow
<1> HIDE DEF h, r
<1>3. search' \in [Searcher -> SearchRow] /\ \A o \in Searcher \ {s} : search'[o] = search[o]
  BY <1>1, <1>2 DEF SearchInv
<1>4. SearchHolds(search[s])'
  BY <1>0, <1>1 DEF SearchHolds, r, h
<1> QED BY <1>3, <1>4, InnerStep

(* A search starts from the current genome.                                *)
LEMMA BeginHolds ==
  ASSUME SearchInv, NEW s \in Searcher, Begin(s) PROVE SearchInv'
<1>1. PICK land \in Landscapes :
        search' = [search EXCEPT ![s] = [Resting EXCEPT !.phase = "explore",
                     !.base = current, !.peers = {e.on : e \in ToSet(cell)}, !.land = land]]
  BY DEF Begin
<1> DEFINE peers == {e.on : e \in ToSet(cell)}
<1>2. peers \in SUBSET Nat
  <2>1. \A e \in ToSet(cell) : e \in Genomes
    BY DEF SearchInv, ToSet
  <2> QED BY <2>1, GenomeFields
<1> HIDE DEF peers
<1>3. search'[s] = [phase |-> "explore", base |-> current, peers |-> peers, land |-> land,
                    made |-> 0, round |-> 0, pool |-> <<>>, champion |-> <<>>,
                    elites |-> <<>>]
  BY <1>1 DEF SearchInv, Resting, peers
<1>4. search'[s] \in SearchRow
  <2>1. <<>> \in Seq(Genomes)
    OBVIOUS
  <2> QED BY <1>2, <1>3, <2>1 DEF SearchInv, SearchRow
<1>5. search' \in [Searcher -> SearchRow] /\ \A o \in Searcher \ {s} : search'[o] = search[o]
  BY <1>1, <1>4 DEF SearchInv
<1>6. SearchHolds(search[s])'
  <2>1. /\ search[s]'.phase = "explore" /\ search[s]'.base = current
        /\ search[s]'.land = land /\ search[s]'.champion = <<>>
    BY <1>3
  <2>2. current' = current /\ current \in Versioned /\ current.version \in Nat
    BY DEF Begin, SearchInv, Versioned
  <2> QED BY <2>1, <2>2 DEF SearchHolds
<1> QED BY <1>5, <1>6, InnerStep DEF Begin

(* Pairs of antithetic proposals cover the population.                     *)
LEMMA PairsMany == Pairs \in Nat /\ 2 * Pairs \in Nat /\ Population <= 2 * Pairs
                   /\ \A i \in 1..(2 * Pairs) : (i + 1) \div 2 \in 1..Pairs
<1>1. Population \in Nat
  BY SearchAssumption
<1>2. Pairs \in Nat /\ Population <= 2 * Pairs
  BY <1>1 DEF Pairs
<1> DEFINE p == Pairs
<1> HIDE DEF p
<1>3. \A i \in 1..(2 * p) : (i + 1) \div 2 \in 1..p
  BY <1>2 DEF p
<1> QED BY <1>2, <1>3 DEF p

(* Exploration adds genomes to the pool.                                   *)
LEMMA ExploreHolds ==
  ASSUME SearchInv, NEW s \in Searcher, Explore(s) PROVE SearchInv'
<1> DEFINE h == search[s]
<1>0. h \in SearchRow /\ h.phase = "explore" /\ SearchHolds(h)
  BY DEF SearchInv, Explore, Holds
<1>1. PICK edits \in [1..Pairs -> Edits(Base(s), h.peers)] :
        \E over \in BOOLEAN :
          search' = [search EXCEPT ![s].pool = @ \o SubSeq(Proposed(s, edits), 1, Population),
                       ![s].made = @ + Len(Proposed(s, edits)),
                       ![s].round = IF over THEN 0 ELSE @ + 1,
                       ![s].phase = IF ~over THEN "explore"
                                    ELSE IF Population >= 4 THEN "refine" ELSE "seal"]
  BY DEF Explore
<1> DEFINE new == Proposed(s, edits)
<1>2. new \in [1..(2 * Pairs) -> Genomes]
  <2>1. Base(s) \in Genomes /\ h.peers \in SUBSET Nat /\ h.made \in Nat
    BY <1>0, BaseOfSearch, RowFields
  <2>2. ASSUME NEW i \in 1..(2 * Pairs)
        PROVE  Genome(edits[(i + 1) \div 2], GradeAt(s, h.made + i)) \in Genomes
    <3>1. (i + 1) \div 2 \in 1..Pairs
      BY PairsMany
    <3>2. edits[(i + 1) \div 2] \in Edits(Base(s), h.peers)
      BY <3>1
    <3>3. h.made + i \in Int
      BY <2>1
    <3>4. GradeAt(s, h.made + i) \in Grade
      BY <1>0, <3>3, GradesOfSearch
    <3> QED BY <2>1, <3>2, <3>4, EditsKeepOne, GenomeOf
  <2> QED BY <2>2 DEF Proposed
<1> HIDE DEF new
<1>3. new \in Seq(Genomes) /\ Len(new) = 2 * Pairs
  BY <1>2, PairsMany
<1>4. SubSeq(new, 1, Population) \in Seq(Genomes)
  <2>1. Population \in Nat /\ Population <= Len(new)
    BY <1>3, PairsMany, SearchAssumption
  <2>2. \A i \in 1..Population : new[i] \in Genomes
    BY <1>2, <1>3, <2>1, PairsMany
  <2> QED BY <2>1, <2>2
<1> DEFINE pool == h.pool \o SubSeq(new, 1, Population)
           made == h.made + Len(new)
<1>5. pool \in Seq(Genomes) /\ made \in Nat
  BY <1>0, <1>3, <1>4, RowFields, PairsMany
<1>6. PICK over \in BOOLEAN :
          search' = [search EXCEPT ![s].pool = pool, ![s].made = made,
                       ![s].round = IF over THEN 0 ELSE h.round + 1,
                       ![s].phase = IF ~over THEN "explore"
                                    ELSE IF Population >= 4 THEN "refine" ELSE "seal"]
  BY <1>1 DEF new
<1> HIDE DEF pool, made
<1> DEFINE round == IF over THEN 0 ELSE h.round + 1
           phase == IF ~over THEN "explore" ELSE IF Population >= 4 THEN "refine" ELSE "seal"
<1>7. round \in Nat /\ phase \in {"explore", "refine", "trust", "seal"}
  BY <1>0, RowFields
<1> HIDE DEF round, phase
<1>8. search' = [search EXCEPT ![s].pool = pool, ![s].made = made, ![s].round = round,
                   ![s].phase = phase]
  BY <1>6 DEF round, phase
<1> QED BY <1>0, <1>5, <1>7, <1>8, Moves DEF Explore

(* The elites are genomes of the pool.                                     *)
LEMMA ElitesOfPool ==
  ASSUME NEW s \in Searcher, search[s].pool \in Seq(Genomes)
  PROVE  Elites(s) \in Seq(Genomes)
<1> DEFINE ranked == ByTrain(search[s].pool)
<1>1. ranked \in Seq(Genomes) /\ Len(ranked) = Len(search[s].pool)
  BY TrainRanking
<1>2. Elites(s) = SubSeq(ranked, 1, Min({Len(ranked), Pairs}))
  BY <1>1 DEF Elites
<1> HIDE DEF ranked
<1>3. Pairs \in Nat
  BY PairsMany
<1> DEFINE k == Pairs
<1> HIDE DEF k
<1>4. SubSeq(ranked, 1, Min({Len(ranked), k})) \in Seq(Genomes)
  BY <1>1, <1>3, Prefix DEF k
<1> QED BY <1>2, <1>4 DEF k

(* Refinement adds genomes to the pool.                                    *)
LEMMA RefineHolds ==
  ASSUME SearchInv, NEW s \in Searcher, Refine(s) PROVE SearchInv'
<1> DEFINE h == search[s]
           elites == Elites(s)
           mates(n) == h.peers \cup {elites[k].on : k \in DOMAIN elites \ {n}}
           grade(n, i) == GradeAt(s, h.made + 2 * (n - 1) + i)
           best(n) == IF grade(n, 2).train > grade(n, 1).train THEN grade(n, 2) ELSE grade(n, 1)
<1>0. h \in SearchRow /\ h.phase = "refine" /\ SearchHolds(h)
  BY DEF SearchInv, Refine, Holds
<1>1. \E edits :
        /\ \A n \in DOMAIN elites : edits[n] \in Edits(elites[n], mates(n))
        /\ search' = [search EXCEPT ![s].round = @ + 1, ![s].made = @ + 2 * Len(elites),
                        ![s].pool = @ \o [n \in DOMAIN elites |-> Genome(edits[n], best(n))]]
  <2>1. PICK held \in {Elites(s)} :
          LET mate(n) == search[s].peers \cup {held[k].on : k \in DOMAIN held \ {n}}
              edited == [n \in DOMAIN held |-> Edits(held[n], mate(n))]
              mark(n, i) == GradeAt(s, search[s].made + 2 * (n - 1) + i)
              top(n) == IF mark(n, 2).train > mark(n, 1).train THEN mark(n, 2) ELSE mark(n, 1)
          IN \E edits \in [DOMAIN held -> UNION {edited[n] : n \in DOMAIN held}] :
               /\ \A n \in DOMAIN held : edits[n] \in edited[n]
               /\ search' = [search EXCEPT ![s].round = @ + 1,
                                ![s].made = @ + 2 * Len(held),
                                ![s].pool = @ \o [n \in DOMAIN held |-> Genome(edits[n], top(n))]]
    BY Zenon DEF Refine
  <2>2. held = elites
    OBVIOUS
  <2> DEFINE mate(n) == search[s].peers \cup {held[k].on : k \in DOMAIN held \ {n}}
             edited == [n \in DOMAIN held |-> Edits(held[n], mate(n))]
             mark(n, i) == GradeAt(s, search[s].made + 2 * (n - 1) + i)
             top(n) == IF mark(n, 2).train > mark(n, 1).train THEN mark(n, 2) ELSE mark(n, 1)
  <2>3. PICK edits \in [DOMAIN held -> UNION {edited[n] : n \in DOMAIN held}] :
               /\ \A n \in DOMAIN held : edits[n] \in edited[n]
               /\ search' = [search EXCEPT ![s].round = @ + 1,
                                ![s].made = @ + 2 * Len(held),
                                ![s].pool = @ \o [n \in DOMAIN held |-> Genome(edits[n], top(n))]]
    BY Zenon, <2>1
  <2>4. \A n \in DOMAIN held : edits[n] \in Edits(held[n], mate(n))
    BY Zenon, <2>3
  <2>5. search' = [search EXCEPT ![s].round = @ + 1, ![s].made = @ + 2 * Len(elites),
                        ![s].pool = @ \o [n \in DOMAIN elites |-> Genome(edits[n], best(n))]]
    BY Zenon, <2>2, <2>3
  <2>6. \A n \in DOMAIN elites : edits[n] \in Edits(elites[n], mates(n))
    <3>1. \A n : mates(n) = mate(n)
      BY <2>2
    <3> HIDE DEF mates, mate, elites
    <3> QED BY <2>2, <2>4, <3>1
  <2> QED BY Zenon, <2>5, <2>6
<1>1p. PICK edits :
        /\ \A n \in DOMAIN elites : edits[n] \in Edits(elites[n], mates(n))
        /\ search' = [search EXCEPT ![s].round = @ + 1, ![s].made = @ + 2 * Len(elites),
                        ![s].pool = @ \o [n \in DOMAIN elites |-> Genome(edits[n], best(n))]]
  BY <1>1
<1>2. elites \in Seq(Genomes) /\ h.peers \in SUBSET Nat /\ h.made \in Nat
      /\ h.pool \in Seq(Genomes) /\ h.round \in Nat
  BY <1>0, ElitesOfPool, RowFields
<1>3. ASSUME NEW n \in Int, NEW i \in 1..2 PROVE grade(n, i) \in Grade
  <2>1. h.made + 2 * (n - 1) + i \in Int
    BY <1>2
  <2> QED BY <1>0, <2>1, GradesOfSearch
<1>4. \A n \in Int : best(n) \in Grade
  BY <1>3
<1> HIDE DEF h, elites, best, grade
<1>5. \A n \in 1..Len(elites) : elites[n] \in Genomes
  BY <1>2
<1>6. \A n \in 1..Len(elites) : mates(n) \in SUBSET Nat
  <2>1. \A k \in DOMAIN elites : elites[k].on \in Nat
    BY <1>2, <1>5, GenomeFields
  <2> QED BY <1>2, <2>1
<1>7. DOMAIN elites = 1..Len(elites) /\ Len(elites) \in Nat
  BY <1>2
<1> DEFINE born == [n \in DOMAIN elites |-> Genome(edits[n], best(n))]
<1>8. born \in Seq(Genomes)
  <2>1. ASSUME NEW n \in 1..Len(elites) PROVE Genome(edits[n], best(n)) \in Genomes
    <3>1. edits[n] \in Edits(elites[n], mates(n))
      BY <1>1p, <1>7
    <3>2. edits[n].same \in BOOLEAN /\ edits[n].on \in Nat \ {0}
      <4> HIDE DEF mates
      <4> QED BY <1>5, <1>6, <3>1, EditsKeepOne
    <3> QED BY <1>4, <3>2, GenomeOf
  <2>2. born \in [1..Len(elites) -> Genomes]
    BY <1>7, <2>1
  <2> QED BY <1>7, <2>2
<1> DEFINE pool == h.pool \o born
           made == h.made + 2 * Len(elites)
           round == h.round + 1
<1>9. pool \in Seq(Genomes) /\ made \in Nat /\ round \in Nat
  BY <1>2, <1>7, <1>8
<1>10. search' = [search EXCEPT ![s].pool = pool, ![s].made = made, ![s].round = round,
                    ![s].phase = "refine"]
  <2>1. search' = [search EXCEPT ![s].round = round, ![s].made = made, ![s].pool = pool]
    BY <1>1p DEF h
  <2>2. search[s].phase = "refine" /\ search[s] \in SearchRow /\ DOMAIN search = Searcher
    BY <1>0 DEF h, SearchInv
  <2> HIDE DEF pool, made, round
  <2>3. [search[s] EXCEPT !.round = round, !.made = made, !.pool = pool] =
        [search[s] EXCEPT !.pool = pool, !.made = made, !.round = round, !.phase = "refine"]
    BY <2>2 DEF SearchRow
  <2> QED BY <2>1, <2>2, <2>3
<1> HIDE DEF pool, made, round
<1>11. search[s].phase \in {"explore", "refine", "trust"}
  BY <1>0 DEF h
<1> QED BY <1>9, <1>10, <1>11, Moves DEF Refine

(* The elites of the trust region are genomes of the pool.                 *)
LEMMA EndRefineHolds ==
  ASSUME SearchInv, NEW s \in Searcher, EndRefine(s) PROVE SearchInv'
<1> DEFINE h == search[s]
           ranked == ByTrain(h.pool)
           alike == Kept(ranked, {n \in DOMAIN ranked : ranked[n].same})
           first == SubSeq(alike, 1, Min({Len(alike), TrustElites}))
           elites == Kept(first, {n \in DOMAIN first :
                                    first[n].grade.train > Base(s).grade.train})
<1>0. h \in SearchRow /\ h.phase = "refine" /\ SearchHolds(h)
  BY DEF SearchInv, EndRefine, Holds
<1>1. search' = [search EXCEPT ![s].phase = "trust", ![s].elites = elites]
  <2>1. \E a \in {ranked} : \E b \in {Kept(a, {n \in DOMAIN a : a[n].same})} :
        \E c \in {SubSeq(b, 1, Min({Len(b), TrustElites}))} :
          search' = [search EXCEPT ![s].phase = "trust",
                       ![s].elites = Kept(c, {n \in DOMAIN c :
                                                c[n].grade.train > Base(s).grade.train})]
    BY Zenon DEF EndRefine
  <2> HIDE DEF ranked
  <2>2. \E b \in {alike} : \E c \in {SubSeq(b, 1, Min({Len(b), TrustElites}))} :
          search' = [search EXCEPT ![s].phase = "trust",
                       ![s].elites = Kept(c, {n \in DOMAIN c :
                                                c[n].grade.train > Base(s).grade.train})]
    <3>1. PICK a \in {ranked} : \E b \in {Kept(a, {n \in DOMAIN a : a[n].same})} :
        \E c \in {SubSeq(b, 1, Min({Len(b), TrustElites}))} :
          search' = [search EXCEPT ![s].phase = "trust",
                       ![s].elites = Kept(c, {n \in DOMAIN c :
                                                c[n].grade.train > Base(s).grade.train})]
      BY Zenon, <2>1
    <3>2. a = ranked
      OBVIOUS
    <3>3. alike = Kept(a, {n \in DOMAIN a : a[n].same})
      BY Zenon, <3>2
    <3>4. PICK b \in {Kept(a, {n \in DOMAIN a : a[n].same})} :
        \E c \in {SubSeq(b, 1, Min({Len(b), TrustElites}))} :
          search' = [search EXCEPT ![s].phase = "trust",
                       ![s].elites = Kept(c, {n \in DOMAIN c :
                                                c[n].grade.train > Base(s).grade.train})]
      BY Zenon, <3>1
    <3>5. b \in {alike}
      BY Zenon, <3>3
    <3> HIDE DEF alike
    <3> QED BY Zenon, <3>4, <3>5
  <2> HIDE DEF alike
  <2> QED BY ZenonT(40), <2>2
<1>2. ranked \in Seq(Genomes)
  BY <1>0, RowFields, TrainRanking
<1> HIDE DEF ranked
<1>3. alike \in Seq(Genomes)
  <2>1. {n \in DOMAIN ranked : ranked[n].same} \in SUBSET (1..Len(ranked))
    BY <1>2
  <2> QED BY <1>2, <2>1, KeptElements
<1> HIDE DEF alike
<1>4. first \in Seq(Genomes)
  BY <1>3, Prefix, SearchAssumption
<1> HIDE DEF first
<1>5. elites \in Seq(Genomes)
  <2>1. {n \in DOMAIN first : first[n].grade.train > Base(s).grade.train}
          \in SUBSET (1..Len(first))
    BY <1>4
  <2> QED BY <1>4, <2>1, KeptElements
<1> HIDE DEF elites
<1> DEFINE r == [phase |-> "trust", base |-> h.base, peers |-> h.peers, land |-> h.land,
                 made |-> h.made, round |-> h.round, pool |-> h.pool,
                 champion |-> h.champion, elites |-> elites]
<1>6. search'[s] = r
  BY <1>0, <1>1 DEF SearchInv, SearchRow
<1>7. r \in SearchRow
  BY <1>0, <1>5 DEF SearchRow
<1> HIDE DEF h, r
<1>8. search' \in [Searcher -> SearchRow] /\ \A o \in Searcher \ {s} : search'[o] = search[o]
  BY <1>1, <1>6, <1>7 DEF SearchInv
<1>9. SearchHolds(search[s])'
  <2>1. r.phase \notin {"idle", "archive"} /\ h.phase \notin {"idle", "archive"}
        /\ r.base = h.base /\ r.land = h.land /\ r.champion = h.champion
    BY <1>0 DEF r
  <2>2. SearchHolds(r)
    BY <1>0, <2>1 DEF SearchHolds
  <2>3. UNCHANGED current
    BY DEF EndRefine
  <2> HIDE DEF r
  <2> QED BY <1>6, <2>2, <2>3 DEF SearchHolds
<1> QED BY <1>8, <1>9, InnerStep DEF EndRefine

(* The elite that the i-th probe starts from.                              *)
LEMMA ProbeElite ==
  ASSUME NEW each \in Nat \ {0}, NEW n \in Nat, NEW i \in 1..(each * n)
  PROVE  ((i - 1) \div each) + 1 \in 1..n
<1> DEFINE q == (i - 1) \div each
<1>1. i - 1 \in Nat /\ i - 1 < each * n
  OBVIOUS
<1>2. q \in Nat /\ each * q <= i - 1
  BY <1>1
<1> HIDE DEF q
<1>3. each * q < each * n
  BY <1>1, <1>2
<1>4. q < n
  BY <1>2, <1>3
<1> QED BY <1>2, <1>4 DEF q

(* Blends and probes are genomes.                                          *)
LEMMA TrustRegionHolds ==
  ASSUME SearchInv, NEW s \in Searcher, TrustRegion(s) PROVE SearchInv'
<1> DEFINE h == search[s]
<1>0. h \in SearchRow /\ h.phase = "trust" /\ SearchHolds(h)
  BY DEF SearchInv, TrustRegion, Holds
<1>1. PICK probes \in 1..Min({Bisections, 3}) :
        LET each == Alphas + probes
            total == each * Len(h.elites)
            blend(i) == Genome(h.elites[((i - 1) \div each) + 1], GradeAt(s, h.made + i))
        IN search' = [search EXCEPT ![s].phase = "seal", ![s].elites = <<>>,
                        ![s].made = @ + total,
                        ![s].pool = @ \o [i \in 1..total |-> blend(i)]]
  BY DEF TrustRegion
<1> DEFINE each == Alphas + probes
           total == each * Len(h.elites)
           blends == [i \in 1..total |-> Genome(h.elites[((i - 1) \div each) + 1],
                                                GradeAt(s, h.made + i))]
           made == h.made + total
           pool == h.pool \o blends
<1>2. each \in Nat \ {0}
  BY SearchAssumption
<1>3. /\ h.elites \in Seq(Genomes) /\ Len(h.elites) \in Nat /\ h.made \in Nat
      /\ h.pool \in Seq(Genomes)
  BY <1>0, RowFields
<1>4. search' = [search EXCEPT ![s].phase = "seal", ![s].elites = <<>>, ![s].made = made,
                               ![s].pool = pool]
  BY <1>1
<1> HIDE DEF each
<1>5. total \in Nat
  BY <1>2, <1>3
<1>6. blends \in Seq(Genomes)
  <2>1. ASSUME NEW i \in 1..total
        PROVE  Genome(h.elites[((i - 1) \div each) + 1], GradeAt(s, h.made + i)) \in Genomes
    <3>1. ((i - 1) \div each) + 1 \in 1..Len(h.elites)
      BY <1>2, <1>3, ProbeElite
    <3> DEFINE e == h.elites[((i - 1) \div each) + 1]
    <3>2. e \in Genomes
      BY <1>3, <3>1
    <3>3. h.made + i \in Int
      BY <1>3, <1>5
    <3>4. GradeAt(s, h.made + i) \in Grade
      BY <1>0, <3>3, GradesOfSearch
    <3> HIDE DEF e
    <3>5. e.same \in BOOLEAN /\ e.on \in Nat \ {0}
      BY <3>2, GenomeFields
    <3>6. Genome(e, GradeAt(s, h.made + i)) \in Genomes
      BY <3>4, <3>5, GenomeOf
    <3> QED BY <3>6 DEF e
  <2> HIDE DEF total
  <2>2. blends \in [1..total -> Genomes]
    BY <2>1
  <2> QED BY <1>5, <2>2
<1> HIDE DEF total, blends
<1>7. made \in Nat /\ pool \in Seq(Genomes)
  BY <1>3, <1>5, <1>6
<1> HIDE DEF made, pool
<1> DEFINE r == [phase |-> "seal", base |-> h.base, peers |-> h.peers, land |-> h.land,
                 made |-> made, round |-> h.round, pool |-> pool,
                 champion |-> h.champion, elites |-> <<>>]
<1>8. search'[s] = r
  BY <1>0, <1>4 DEF SearchInv, SearchRow
<1>9. r \in SearchRow
  <2>1. <<>> \in Seq(Genomes)
    OBVIOUS
  <2> QED BY <1>0, <1>7, <2>1 DEF SearchRow
<1> HIDE DEF h, r
<1>10. search' \in [Searcher -> SearchRow] /\ \A o \in Searcher \ {s} : search'[o] = search[o]
  BY <1>4, <1>8, <1>9 DEF SearchInv
<1>11. SearchHolds(search[s])'
  <2>1. r.phase \notin {"idle", "archive"} /\ h.phase \notin {"idle", "archive"}
        /\ r.base = h.base /\ r.land = h.land /\ r.champion = h.champion
    BY <1>0 DEF r
  <2>2. SearchHolds(r)
    BY <1>0, <2>1 DEF SearchHolds
  <2>3. UNCHANGED current
    BY DEF TrustRegion
  <2> HIDE DEF r
  <2> QED BY <1>8, <2>2, <2>3 DEF SearchHolds
<1> QED BY <1>10, <1>11, InnerStep DEF TrustRegion

(* The candidate put forward passed the gate, whatever the ranking.        *)
LEMMA ChampionPassed ==
  ASSUME NEW pool \in Seq(Genomes), pool # <<>>
  PROVE  LET best == ByTrain(Frontier(pool))
             top == Head(BestFirst(best, [n \in DOMAIN best |-> best[n].grade.objective]))
         IN  \E i \in 1..Len(pool) : top = pool[i]
<1> DEFINE front == Frontier(pool)
           best == ByTrain(front)
           score == [n \in DOMAIN best |-> best[n].grade.objective]
           list == BestFirst(best, score)
<1>1. /\ front \in Seq(Genomes)
      /\ \A n \in 1..Len(front) : \E i \in 1..Len(pool) : front[n] = pool[i]
  <2>1. Undominated(pool) \subseteq 1..Len(pool)
    BY DEF Undominated
  <2> QED BY <2>1, FrontierElements
<1>2. Len(front) \in Nat /\ Len(front) > 0
  <2>1. front # <<>>
    BY FrontierIsInhabited
  <2> HIDE DEF front
  <2> QED BY <1>1, <2>1
<1> HIDE DEF front
<1>3. /\ best \in Seq(Genomes) /\ Len(best) = Len(front)
      /\ \A n \in 1..Len(front) : \E i \in 1..Len(front) : best[n] = front[i]
  BY <1>1, TrainRanking
<1> HIDE DEF best
<1>4. score \in [1..Len(best) -> Int]
  BY <1>3, GenomesOf
<1> HIDE DEF score
<1>5. /\ list \in Seq(Genomes) /\ Len(list) = Len(best)
      /\ \A n \in 1..Len(best) : \E i \in 1..Len(best) : list[n] = best[i]
  BY <1>3, <1>4, Sorted
<1> HIDE DEF list
<1>6. Head(list) = list[1] /\ 1 \in 1..Len(front)
  BY <1>2, <1>3, <1>5
<1>7. PICK i \in 1..Len(front) : list[1] = best[i]
  BY <1>3, <1>5, <1>6
<1>8. PICK j \in 1..Len(front) : best[i] = front[j]
  BY <1>3
<1>9. PICK k \in 1..Len(pool) : front[j] = pool[k]
  BY <1>1
<1>10. Head(list) = pool[k]
  BY <1>6, <1>7, <1>8, <1>9
<1> QED BY <1>10 DEF list, score, best, front

(* The gate puts forward a genome no worse than the baseline.              *)
LEMMA AdmitHolds ==
  ASSUME SearchInv, NEW s \in Searcher, Admit(s) PROVE SearchInv'
<1> DEFINE h == search[s]
           b == Base(s).grade
           pool == [i \in DOMAIN h.pool |-> [h.pool[i] EXCEPT !.same = TRUE]]
           passing(noise) == {n \in DOMAIN pool :
              Accepted(pool[n].grade, b, pool[n].grade.objective - b.objective - noise)}
           best(eligible) == ByTrain(Frontier(eligible))
           top(eligible) == Head(BestFirst(best(eligible),
              [n \in DOMAIN best(eligible) |-> best(eligible)[n].grade.objective]))
<1>0. h \in SearchRow /\ h.phase = "seal" /\ SearchHolds(h)
  BY DEF SearchInv, Admit, Holds
<1>1. \E noise \in 0..1 : LET eligible == Kept(pool, passing(noise)) IN
        search' = [search EXCEPT ![s].phase = "archive", ![s].land = <<>>, ![s].made = 0,
                     ![s].round = 0, ![s].peers = {}, ![s].pool = Frontier(pool),
                     ![s].champion = IF eligible = <<>> THEN <<>> ELSE <<top(eligible)>>]
  <2>1. PICK noise \in 0..1 : \E p \in {pool} :
          LET c == Base(s).grade
              lower(g) == g.grade.objective - c.objective - noise
          IN \E eligible \in {Kept(p, {n \in DOMAIN p : Accepted(p[n].grade, c, lower(p[n]))})} :
             \E top1 \in {ByTrain(Frontier(eligible))} :
               search' = [search EXCEPT ![s].phase = "archive", ![s].land = <<>>, ![s].made = 0,
                     ![s].round = 0, ![s].peers = {}, ![s].pool = Frontier(p),
                     ![s].champion = IF eligible = <<>> THEN <<>> ELSE
                         <<Head(BestFirst(top1, [n \in DOMAIN top1 |-> top1[n].grade.objective]))>>]
    BY Zenon DEF Admit
  <2>2. PICK p \in {pool} :
          \E eligible \in {Kept(p, {n \in DOMAIN p :
                             Accepted(p[n].grade, b, p[n].grade.objective - b.objective - noise)})} :
             \E top1 \in {ByTrain(Frontier(eligible))} :
               search' = [search EXCEPT ![s].phase = "archive", ![s].land = <<>>, ![s].made = 0,
                     ![s].round = 0, ![s].peers = {}, ![s].pool = Frontier(p),
                     ![s].champion = IF eligible = <<>> THEN <<>> ELSE
                         <<Head(BestFirst(top1, [n \in DOMAIN top1 |-> top1[n].grade.objective]))>>]
    BY Zenon, <2>1
  <2>3. p = pool
    OBVIOUS
  <2> HIDE DEF pool
  <2>4. PICK eligible \in {Kept(p, {n \in DOMAIN p :
                     Accepted(p[n].grade, b, p[n].grade.objective - b.objective - noise)})} :
             \E top1 \in {ByTrain(Frontier(eligible))} :
               search' = [search EXCEPT ![s].phase = "archive", ![s].land = <<>>, ![s].made = 0,
                     ![s].round = 0, ![s].peers = {}, ![s].pool = Frontier(p),
                     ![s].champion = IF eligible = <<>> THEN <<>> ELSE
                         <<Head(BestFirst(top1, [n \in DOMAIN top1 |-> top1[n].grade.objective]))>>]
    BY Zenon, <2>2
  <2>5. eligible = Kept(pool, passing(noise))
    <3>1. passing(noise) = {n \in DOMAIN p :
                             Accepted(p[n].grade, b, p[n].grade.objective - b.objective - noise)}
      BY <2>3
    <3> HIDE DEF passing, b
    <3> QED BY <2>3, <3>1
  <2>6. PICK top1 \in {ByTrain(Frontier(eligible))} :
               search' = [search EXCEPT ![s].phase = "archive", ![s].land = <<>>, ![s].made = 0,
                     ![s].round = 0, ![s].peers = {}, ![s].pool = Frontier(p),
                     ![s].champion = IF eligible = <<>> THEN <<>> ELSE
                         <<Head(BestFirst(top1, [n \in DOMAIN top1 |-> top1[n].grade.objective]))>>]
    BY Zenon, <2>4
  <2>7. top1 = best(eligible)
    OBVIOUS
  <2>8. search' = [search EXCEPT ![s].phase = "archive", ![s].land = <<>>, ![s].made = 0,
                     ![s].round = 0, ![s].peers = {}, ![s].pool = Frontier(pool),
                     ![s].champion = IF eligible = <<>> THEN <<>> ELSE <<top(eligible)>>]
    BY Zenon, <2>3, <2>6, <2>7
  <2> QED BY Zenon, <2>5, <2>8
<1>2. PICK noise \in 0..1 : LET eligible == Kept(pool, passing(noise)) IN
        search' = [search EXCEPT ![s].phase = "archive", ![s].land = <<>>, ![s].made = 0,
                     ![s].round = 0, ![s].peers = {}, ![s].pool = Frontier(pool),
                     ![s].champion = IF eligible = <<>> THEN <<>> ELSE <<top(eligible)>>]
  BY Zenon, <1>1
<1>3. pool \in Seq(Genomes)
  <2>1. h.pool \in Seq(Genomes)
    BY <1>0, RowFields
  <2>2. \A i \in 1..Len(h.pool) : [h.pool[i] EXCEPT !.same = TRUE] \in Genomes
    <3>1. ASSUME NEW g \in Genomes PROVE [g EXCEPT !.same = TRUE] \in Genomes
      BY DEF Genomes
    <3>2. \A i \in 1..Len(h.pool) : h.pool[i] \in Genomes
      BY <2>1
    <3> HIDE DEF h
    <3> QED BY <3>1, <3>2
  <2>3. DOMAIN h.pool = 1..Len(h.pool) /\ Len(h.pool) \in Nat
    BY <2>1
  <2>4. pool \in [1..Len(h.pool) -> Genomes]
    <3> HIDE DEF h
    <3> QED BY <2>2, <2>3
  <2> HIDE DEF pool, h
  <2> QED BY <2>3, <2>4
<1> HIDE DEF pool
<1> DEFINE eligible == Kept(pool, passing(noise))
           champion == IF eligible = <<>> THEN <<>> ELSE <<top(eligible)>>
<1>4. b \in Grade /\ b.objective \in Int /\ b.safety \in Int
  BY <1>0, BaseOfSearch, GenomeFields
<1>5. /\ eligible \in Seq(Genomes)
      /\ \A n \in 1..Len(eligible) : \E i \in passing(noise) : eligible[n] = pool[i]
  <2>1. passing(noise) \in SUBSET (1..Len(pool))
    BY <1>3
  <2> HIDE DEF passing
  <2> QED BY <1>3, <2>1, KeptElements
<1>6. \A n \in 1..Len(eligible) : NoWorse(eligible[n].grade, b)
  <2>1. \A i \in passing(noise) : NoWorse(pool[i].grade, b)
    BY DEF Accepted, NoWorse
  <2> QED BY <1>5, <2>1
<1> HIDE DEF eligible, b
<1>7. eligible # <<>> => top(eligible) \in Genomes /\ NoWorse(top(eligible).grade, b)
  <2> SUFFICES ASSUME eligible # <<>>
               PROVE  top(eligible) \in Genomes /\ NoWorse(top(eligible).grade, b)
    OBVIOUS
  <2>1. \E i \in 1..Len(eligible) : top(eligible) = eligible[i]
    BY <1>5, ChampionPassed
  <2> HIDE DEF top
  <2> QED BY <1>5, <1>6, <2>1
<1>8. champion \in Seq(Genomes) /\ (champion # <<>> => NoWorse(champion[1].grade, b))
  <2> HIDE DEF top
  <2> QED BY <1>7
<1>9. Frontier(pool) \in Seq(Genomes)
  BY <1>3, FrontierElements
<1>10. search' = [search EXCEPT ![s].phase = "archive", ![s].land = <<>>, ![s].made = 0,
                     ![s].round = 0, ![s].peers = {}, ![s].pool = Frontier(pool),
                     ![s].champion = champion]
  BY <1>2 DEF eligible
<1> HIDE DEF champion
<1> DEFINE r == [phase |-> "archive", base |-> h.base, peers |-> {}, land |-> <<>>,
                 made |-> 0, round |-> 0, pool |-> Frontier(pool),
                 champion |-> champion, elites |-> h.elites]
<1>11. search'[s] = r
  BY <1>0, <1>10 DEF SearchInv, SearchRow
<1>12. r \in SearchRow
  BY <1>0, <1>8, <1>9 DEF SearchRow
<1>13. b = h.base.genome.grade
  BY DEF b, Base
<1> HIDE DEF h, r
<1>14. search' \in [Searcher -> SearchRow] /\ \A o \in Searcher \ {s} : search'[o] = search[o]
  <2>1. search \in [Searcher -> SearchRow]
    BY DEF SearchInv
  <2>2. \A o \in Searcher \ {s} : search'[o] = search[o]
    BY <1>10, <2>1
  <2>3. search' = [search EXCEPT ![s] = search'[s]]
    BY <1>10, <2>1
  <2>4. search'[s] \in SearchRow
    BY <1>11, <1>12
  <2> QED BY <2>1, <2>2, <2>3, <2>4
<1>15. SearchHolds(search[s])'
  <2>1. /\ search[s]'.phase = "archive" /\ search[s]'.champion = champion
        /\ search[s]'.base = h.base
    BY <1>11 DEF r
  <2>2. current' = current
    BY DEF Admit
  <2>3. h.phase # "idle"
    BY <1>0
  <2> QED BY <1>0, <1>8, <1>13, <2>1, <2>2, <2>3 DEF SearchHolds
<1> QED BY <1>14, <1>15, InnerStep DEF Admit

(* The archive takes a newcomer.                                           *)
LEMMA ArchiveOneHolds ==
  ASSUME SearchInv, NEW s \in Searcher, ArchiveOne(s) PROVE SearchInv'
<1> DEFINE h == search[s]
           pool == Tail(h.pool)
           r == [phase |-> "archive", base |-> h.base, peers |-> h.peers, land |-> h.land,
                 made |-> h.made, round |-> h.round, pool |-> pool,
                 champion |-> h.champion, elites |-> h.elites]
<1>0. h \in SearchRow /\ h.phase = "archive" /\ SearchHolds(h) /\ h.pool # <<>>
  BY DEF SearchInv, ArchiveOne
<1>1. pool \in Seq(Genomes) /\ Head(h.pool) \in Genomes
  BY <1>0, RowFields
<1>2. /\ cell' \in Seq(Genomes) /\ CellIsFrontier'
  <2>1. cell \in Seq(Genomes) /\ cell' = Elect(cell, Head(h.pool))
    BY DEF SearchInv, ArchiveOne
  <2> HIDE DEF h
  <2>2. /\ cell' \in Seq(Genomes) /\ Len(cell') <= MaxPerCell
        /\ \A a, b \in ToSet(cell') : ~Dominates(a.grade, b.grade)
    BY <1>1, <2>1, ElectedCell
  <2> QED BY <2>2 DEF CellIsFrontier
<1>3. search' = [search EXCEPT ![s].pool = pool]
  BY DEF ArchiveOne
<1> HIDE DEF pool
<1>4. search'[s] = r
  BY <1>0, <1>3 DEF SearchInv, SearchRow
<1>5. r \in SearchRow
  BY <1>0, <1>1 DEF SearchRow
<1> HIDE DEF r
<1>6. search' \in [Searcher -> SearchRow] /\ \A o \in Searcher \ {s} : search'[o] = search[o]
  BY <1>3, <1>4, <1>5 DEF SearchInv
<1>7. SearchHolds(search[s])'
  BY <1>0, <1>4 DEF SearchHolds, r, ArchiveOne
<1>8. \A o \in Searcher : SearchHolds(search[o])'
  BY <1>6, <1>7 DEF SearchInv, SearchHolds, ArchiveOne
<1>9. NeverRegresses'
  BY DEF SearchInv, NeverRegresses, ArchiveOne
<1> QED BY <1>2, <1>6, <1>8, <1>9 DEF SearchInv, ArchiveOne

(* A promotion replaces the very genome the champion was judged against,   *)
(* and any other search then sees that its baseline is gone.               *)
LEMMA PromoteHolds ==
  ASSUME SearchInv, NEW s \in Searcher, Promote(s) PROVE SearchInv'
<1> DEFINE h == search[s]
<1>0. /\ h \in SearchRow /\ h.phase = "archive" /\ SearchHolds(h)
      /\ current \in Versioned /\ current.genome.grade \in Grade
  BY GenomeFields DEF SearchInv, Promote, Versioned
<1>1. /\ search' = [search EXCEPT ![s] = Resting] /\ Resting \in SearchRow
      /\ cell' = cell
  <2>1. <<>> \in Seq(Genomes)
    OBVIOUS
  <2> QED BY <2>1 DEF Promote, Resting, SearchRow
<1>2. /\ search' \in [Searcher -> SearchRow] /\ search'[s] = Resting
      /\ \A o \in Searcher \ {s} : search'[o] = search[o]
  BY <1>1 DEF SearchInv
<1>3. CellIsFrontier'
  BY <1>1 DEF SearchInv, CellIsFrontier
<1>4. CASE h.champion # <<>> /\ StillCurrent(s)
  <2> DEFINE g == h.champion[1]
  <2>1. /\ current' = [version |-> current.version + 1, genome |-> g]
        /\ past' = past \cup {current.genome.grade}
    BY <1>4 DEF Promote
  <2>2. g \in Genomes
    BY <1>0, <1>4, RowFields
  <2>3. NoWorse(g.grade, current.genome.grade)
    BY <1>0, <1>4 DEF SearchHolds, StillCurrent
  <2> HIDE DEF g
  <2>4. current' \in Versioned /\ current.version \in Nat
        /\ current'.version = current.version + 1 /\ current'.genome = g
    BY <1>0, <2>1, <2>2 DEF Versioned
  <2>5. past' \subseteq Grade
    BY <1>0, <2>1 DEF SearchInv
  <2>6. NeverRegresses'
    <3> SUFFICES ASSUME NEW p \in past'
                 PROVE  g.grade.objective >= p.objective /\ g.grade.safety >= p.safety
      BY <2>4 DEF NeverRegresses
    <3>1. /\ p.objective \in Int /\ p.safety \in Int
      BY <2>5 DEF Grade
    <3>2. /\ g.grade.objective \in Int /\ g.grade.safety \in Int
          /\ current.genome.grade.objective \in Int /\ current.genome.grade.safety \in Int
      BY <1>0, <2>2, GenomeFields DEF Versioned
    <3>3. NoWorse(current.genome.grade, p)
      BY <2>1, <3>2 DEF SearchInv, NeverRegresses, NoWorse
    <3> QED BY <2>3, <3>1, <3>2, <3>3 DEF NoWorse
  <2>7. ASSUME NEW o \in Searcher PROVE SearchHolds(search[o])'
    <3>1. CASE o = s
      BY <1>2, <3>1 DEF SearchHolds, Resting
    <3>2. CASE o # s
      <4>1. search'[o] = search[o] /\ SearchHolds(search[o])
        BY <1>2, <3>2 DEF SearchInv
      <4>2. search[o].phase # "idle" => search[o].base.version \in Nat
        BY <4>1 DEF SearchHolds, Versioned
      <4> QED BY <2>4, <4>1, <4>2 DEF SearchHolds
    <3> QED BY <3>1, <3>2
  <2> QED BY <1>1, <1>2, <1>3, <2>4, <2>5, <2>6, <2>7 DEF SearchInv
<1>5. CASE ~(h.champion # <<>> /\ StillCurrent(s))
  <2>1. current' = current /\ past' = past
    BY <1>5 DEF Promote
  <2>2. ASSUME NEW o \in Searcher PROVE SearchHolds(search[o])'
    BY <1>2, <2>1 DEF SearchInv, SearchHolds, Resting
  <2>3. NeverRegresses'
    BY <2>1 DEF SearchInv, NeverRegresses
  <2> QED BY <1>1, <1>2, <1>3, <2>1, <2>2, <2>3 DEF SearchInv
<1> QED BY <1>4, <1>5

(* The first state.                                                        *)
LEMMA SearchInitHolds == ASSUME SearchInit PROVE SearchInv
<1>1. <<>> \in Seq(Genomes)
  OBVIOUS
<1>2. FirstGrade \in Grade /\ MaxPerCell \in Nat
  BY SearchAssumption
<1>3. current \in Versioned
  BY <1>2 DEF SearchInit, Versioned, Genomes
<1>4. Resting \in SearchRow
  BY <1>1 DEF Resting, SearchRow
<1>5. \A s \in Searcher : SearchHolds(search[s])
  BY DEF SearchInit, SearchHolds, Resting
<1>6. NeverRegresses
  BY DEF SearchInit, NeverRegresses
<1>7. CellIsFrontier
  BY <1>2 DEF SearchInit, CellIsFrontier, ToSet
<1> QED BY <1>1, <1>3, <1>4, <1>5, <1>6, <1>7 DEF SearchInit, SearchInv

(* Every step keeps the invariant.                                         *)
LEMMA SearchNextHolds ==
  ASSUME SearchInv, [SearchNext]_searchVars PROVE SearchInv'
<1>1. CASE SearchNext
  BY <1>1, BeginHolds, ExploreHolds, RefineHolds, EndRefineHolds, TrustRegionHolds,
     AdmitHolds, ArchiveOneHolds, PromoteHolds DEF SearchNext
<1>2. CASE UNCHANGED searchVars
  BY <1>2 DEF searchVars, SearchInv, SearchHolds, NeverRegresses, CellIsFrontier
<1> QED BY <1>1, <1>2

(* The invariant says more than the property.                              *)
LEMMA SearchInvImplies == ASSUME SearchInv PROVE SearchSound
<1>1. current.genome.on >= 1
  <2>1. current.genome \in Genomes
    BY DEF SearchInv, Versioned
  <2> QED BY <2>1, GenomeFields
<1>2. ASSUME NEW s \in Searcher, NEW g \in ToSet(search[s].pool) PROVE g.on >= 1
  <2>1. search[s].pool \in Seq(Genomes)
    BY RowFields DEF SearchInv
  <2>2. g \in Genomes
    BY <2>1 DEF ToSet
  <2> QED BY <2>2, GenomeFields
<1> QED BY <1>1, <1>2 DEF SearchInv, SearchSound, SomebodyActs

(* Over any number of concurrent searches the active genome never falls    *)
(* behind one that was active before, keeps a specialist, and the archive  *)
(* cell stays a frontier within its size (harness_search.py,               *)
(* harness_evolution.py), for every landscape of grades and every setting. *)
THEOREM SearchIsSound == SearchSpec => []SearchSound
<1>1. SearchInit => SearchInv
  BY SearchInitHolds
<1>2. SearchInv /\ [SearchNext]_searchVars => SearchInv'
  BY SearchNextHolds
<1>3. SearchInv => SearchSound
  BY SearchInvImplies
<1> QED BY <1>1, <1>2, <1>3, PTL DEF SearchSpec
=============================================================================
