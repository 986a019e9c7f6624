---------------------------- MODULE WorldKernel ----------------------------
(* One canonical run of the frozen execution kernel: the BalanceLab world    *)
(* (worldforge/envs/balance_lab.py), the pre-execution sandbox, the state     *)
(* verifier and the decision loop of WorldForgeEngine.run with its checkpoint *)
(* and its one rollback.  Health and enemy health are the classes the guards  *)
(* tell apart; energy, gold, potions and the farm count are exact.            *)
EXTENDS Integers, Sequences, SequencesExt, FiniteSets

CONSTANTS Scenarios,   \* initial worlds: [gold, hp, exploit (0: no exploit)]
          FarmYields,  \* gold one farm action may bring
          MaxSteps,    \* RunConfig.max_steps
          Ranked       \* actions a ranking puts first or second (a bound)

ASSUME KernelAssumption ==
  /\ MaxSteps \in Nat /\ FarmYields \subseteq Nat
  /\ \A s \in Scenarios : s.gold \in Nat /\ s.hp \in 1..3 /\ s.exploit \in Nat

VARIABLES world,      \* env.state with the farm count and the anomaly flag
          checkpoint, \* env.snapshot() at the head of the iteration
          step,       \* where the iteration stands
          plan,       \* the decision: the first branch and what the sandbox let by
          history,    \* the last five sandbox records: was it irreversible?
          usedAt,     \* rollback_used_at, without the ticks already passed
          summary     \* the configuration, and counters of RunSummary

kernelVars == <<world, checkpoint, step, plan, history, usedAt, summary>>

None == "none"
MaxEnergy == 6
Window == 5
Budget == 4
Irreversible == {"heavy_attack", "cast", "buy_blade", "buy_armor"}

\* Health: dead, under 30 %, hurt, full.  No blow kills at full health.
Struck(hp) == IF hp = 3 THEN {2, 3} ELSE 0..hp

Start(s) == [tick |-> 0, hp |-> s.hp, enemy |-> 1, energy |-> 3, gold |-> s.gold,
             potions |-> 1, farm |-> 0, exploit |-> s.exploit, anomaly |-> FALSE,
             outcome |-> None]

Terminal(w) == w.outcome # None

Legal(w) ==
  IF Terminal(w) THEN {} ELSE
  {"attack", "defend", "scout", "farm"}
  \cup (IF w.energy >= 2 THEN {"heavy_attack", "cast"} ELSE {})
  \cup (IF w.potions > 0 /\ w.hp < 3 THEN {"heal"} ELSE {})
  \cup (IF w.gold >= 26 THEN {"buy_blade"} ELSE {})
  \cup (IF w.gold >= 22 THEN {"buy_armor"} ELSE {})
  \cup (IF w.hp <= 1 THEN {"retreat"} ELSE {})

\* What the action itself does, before the enemy answers.
Rested(w) == [w EXCEPT !.energy = IF @ < MaxEnergy THEN @ + 1 ELSE MaxEnergy]

Farmed(w, gain) ==
  [w EXCEPT !.gold = @ + gain,
            !.farm = IF @ < w.exploit THEN @ + 1 ELSE @,  \* counted to the threshold
            !.anomaly = @ \/ (w.exploit > 0 /\ w.farm + 1 >= w.exploit)]

Acted(w, a) ==
  CASE a = "attack" -> {[Rested(w) EXCEPT !.enemy = e] : e \in 0..w.enemy}
    [] a \in {"heavy_attack", "cast"} ->
         {[w EXCEPT !.energy = @ - 2, !.enemy = e] : e \in 0..w.enemy}
    [] a \in {"defend", "scout"} -> {Rested(w)}
    [] a = "heal" -> {[w EXCEPT !.potions = @ - 1, !.hp = h] : h \in {2, 3}}
    [] a = "farm" -> {Farmed(w, g) : g \in FarmYields}
    [] a = "buy_blade" -> {[w EXCEPT !.gold = @ - 26]}
    [] a = "buy_armor" -> {[w EXCEPT !.gold = @ - 22]}
    [] a = "retreat" -> {[w EXCEPT !.outcome = "retreated"]}

Judged(w) ==
  CASE w.enemy = 0 -> [w EXCEPT !.outcome = "victory"]
    [] w.enemy > 0 /\ w.hp = 0 -> [w EXCEPT !.outcome = "defeat"]
    [] OTHER -> w

\* env.step: the worlds one submitted action may lead to, and whether the
\* environment called it invalid.
EnvStep(w, a) ==
  IF a \notin Legal(w) THEN {[world |-> w, invalid |-> TRUE]} ELSE
  LET answered == UNION {IF Terminal(v) \/ v.enemy = 0 THEN {v}
                         ELSE {[v EXCEPT !.hp = h] : h \in Struck(v.hp)} :
                         v \in Acted([w EXCEPT !.tick = @ + 1], a)}
  IN {[world |-> Judged(v), invalid |-> FALSE] : v \in answered}

\* ActionSandbox.validate.  The window keeps the last five records.
Allowed(a, w, past) ==
  /\ a \in Legal(w)
  /\ ~ /\ a \in Irreversible \cup {"retreat"}
       /\ Len(SelectSeq(past, LAMBDA irreversible : irreversible)) >= Budget
  /\ ~(a = "retreat" /\ w.hp >= 3)

Recorded(past, a) == LET all == Append(past, a \in Irreversible)
                     IN SubSeq(all, IF Len(all) > Window THEN 2 ELSE 1, Len(all))

\* StateVerifier.verify: what it recommends and whether it is critical.  The
\* loop acts on "rollback" alone: a "replan" for a survival risk, and the class
\* of health that raises it, are left out.
Recommendation(w) ==
  CASE w.outcome = "defeat" -> "rollback"
    [] w.outcome # "defeat" /\ w.anomaly -> "flag_and_continue"
    [] OTHER -> "continue"

Critical(w) == w.gold < 0 \/ w.energy < 0 \/ w.energy > MaxEnergy

-----------------------------------------------------------------------------
NoPlan == [first |-> None, selected |-> None]

KernelInit ==
  /\ \E s \in Scenarios : world = Start(s)
  /\ checkpoint = world
  /\ step = "head"
  /\ plan = NoPlan
  /\ history = <<>>
  /\ usedAt = {}
  /\ \E counterfactual \in BOOLEAN :
       summary = [rounds |-> 0, invalid |-> 0, recovered |-> FALSE,
                  critical |-> FALSE, counterfactual |-> counterfactual]

\* When the sandbox refuses the first choice, the first allowed candidate of
\* the ranking replaces it, if there is one.
Selections(first) ==
  LET others == {a \in Legal(world) \ {first} : Allowed(a, world, history)}
  IN IF Allowed(first, world, history) \/ others = {} THEN {first} ELSE others

\* Checkpoint, ranking, counterfactual branches and the sandbox's check: the
\* order of the legal actions is the genome's, so any may come first.
Decide ==
  /\ step = "head" /\ ~Terminal(world) /\ summary.rounds < MaxSteps
  /\ \E first \in Ranked \cap Legal(world) : \E selected \in Selections(first) :
       plan' = [first |-> first, selected |-> selected]
  /\ summary' = [summary EXCEPT !.rounds = @ + 1]
  /\ checkpoint' = world
  /\ step' = "execute"
  /\ UNCHANGED <<world, history, usedAt>>

\* The canonical commit, its verification and the qa.finding event.
Committed(result) ==
  /\ world' = result.world
  /\ summary' = [summary EXCEPT !.invalid = @ + (IF result.invalid THEN 1 ELSE 0),
                                !.critical = @ \/ Critical(result.world)]

Execute ==
  /\ step = "execute"
  /\ \E result \in EnvStep(world, plan.selected) : Committed(result)
  /\ history' = Recorded(history, plan.selected)
  /\ step' = "judge"
  /\ UNCHANGED <<checkpoint, plan, usedAt>>

RollsBack == /\ Recommendation(world) = "rollback"
             /\ summary.counterfactual
             /\ world.tick \notin usedAt

\* The first branch whose action is not the one that failed: the refused first
\* choice, or the second branch (None: the genome's width left only one).
Alternatives == IF plan.selected # plan.first THEN {plan.first}
                ELSE ((Ranked \cap Legal(checkpoint)) \ {plan.first}) \cup {None}

\* variant: the alternative is submitted without restoring the checkpoint.
KeepWorld(saved, now) == now
Restored(saved, now) == saved

\* The next iteration overwrites the decision and the checkpoint.
NextRound(w) == /\ step' = "head" /\ plan' = NoPlan /\ checkpoint' = w
                /\ UNCHANGED history

\* Restore the checkpoint; run the alternative branch, if there is one, as a
\* recovery action: neither the sandbox's check nor its record covers it.
Rollback ==
  /\ step = "judge" /\ RollsBack
  /\ usedAt' = {world.tick}
  /\ LET back == Restored(checkpoint, world)
         count == [summary EXCEPT !.recovered = TRUE]
     IN \E next \in Alternatives :
          \/ /\ next = None
             /\ world' = back /\ summary' = count
          \/ /\ next # None
             /\ \E result \in EnvStep(back, next) :
                  /\ world' = result.world
                  /\ summary' =
                       [count EXCEPT !.invalid = @ + (IF result.invalid THEN 1 ELSE 0),
                                     !.critical = @ \/ Critical(result.world)]
  /\ NextRound(world')

Accept ==
  /\ step = "judge" /\ ~RollsBack
  /\ usedAt' = {t \in usedAt : t > world.tick}
  /\ NextRound(world)
  /\ UNCHANGED <<world, summary>>

\* The loop is over: a world that is not terminal is timed out.
Complete ==
  /\ step = "head" /\ (Terminal(world) \/ summary.rounds = MaxSteps)
  /\ world' = IF Terminal(world) THEN world ELSE [world EXCEPT !.outcome = "timeout"]
  /\ step' = "done"
  /\ UNCHANGED <<checkpoint, plan, history, usedAt, summary>>

KernelNext == Decide \/ Execute \/ Rollback \/ Accept \/ Complete

KernelSpec == KernelInit /\ [][KernelNext]_kernelVars
-----------------------------------------------------------------------------
\* The environment only ever sees legal actions, on the recovery path too, and
\* therefore never leaves the ranges whose breach the verifier calls critical
\* (engine.py:354-455, verifier.py:42-53): no counter of invalid actions moves.
LegalOnly == summary.invalid = 0 /\ ~summary.critical

\* A run with counterfactual branches never ends in defeat at the first try:
\* it has gone back to a checkpoint at least once (engine.py:407-455).
DefeatIsSecondTry ==
  step = "done" /\ world.outcome = "defeat" /\ summary.counterfactual => summary.recovered

\* Neither branch of the decision loop hands the environment an illegal action,
\* and no defeat is accepted untried (engine.py:354-455).
KernelSound == LegalOnly /\ DefeatIsSecondTry
=============================================================================
