--------------------------- MODULE HarnessSearch ---------------------------
(* The search of the harness evolution (runtime/harness_search.py over        *)
(* runtime/harness_evolution.py): several processes search at once, share     *)
(* the archive file and compete for the active genome.  A genome is reduced   *)
(* to whether its topology is that of the baseline, how many of its dynamic   *)
(* specialists are enabled, and its grade: what the frozen evaluator says of  *)
(* it on the train and on the held-out cases.                                 *)
EXTENDS Integers, Sequences, SequencesExt, FiniteSets, FiniteSetsExt, Arrange

CONSTANTS Searcher,
          Landscapes,  \* grades that the genomes of a search get, in turn
          FirstGrade,
          Population, PlateauRounds, RefinementRounds, TrustElites, Alphas,
          Bisections,
          Tolerance,   \* efficiency_tolerance, in units of the grades
          MaxPerCell,
          MaxSpecialists, MaxSearches  \* bounds

Grade == [train : Int, objective : Int, safety : Int, efficiency : Int, cost : Nat]

ASSUME SearchAssumption ==
  /\ FirstGrade \in Grade /\ Landscapes \subseteq Seq(Grade) \ {<<>>}
  /\ Population \in Nat \ {0, 1}
  /\ {PlateauRounds, RefinementRounds, Alphas, Tolerance} \subseteq Nat
  /\ {TrustElites, Bisections, MaxPerCell, MaxSpecialists} \subseteq Nat \ {0}

VARIABLES current,  \* the durable genome and its version
          cell,     \* the archive cell, best first
          search,   \* what each process holds
          past,     \* ghost: grades of every genome that was current
          searches

searchVars == <<current, cell, search, past, searches>>

Resting == [phase |-> "idle", base |-> <<>>, peers |-> {}, land |-> <<>>, made |-> 0,
            round |-> 0, pool |-> <<>>, champion |-> <<>>, elites |-> <<>>]

SearchInit ==
  /\ current = [version |-> 0, genome |-> [same |-> TRUE, on |-> 1, grade |-> FirstGrade]]
  /\ cell = <<>>
  /\ search = [s \in Searcher |-> Resting]
  /\ past = {} /\ searches = 0

\* Between its first reads and its archive a search touches nothing shared, so
\* the inner phases of two searches need not be interleaved.
Inner == {"refine", "trust", "seal"}
Holds(s, phase) == /\ search[s].phase = phase
                /\ \A o \in Searcher \ {s} : search[o].phase \notin Inner

\* The baseline and the peers of the cell are read once.
Begin(s) ==
  /\ search[s].phase = "idle" /\ searches < MaxSearches
  /\ \E land \in Landscapes :
       search' = [search EXCEPT ![s] = [Resting EXCEPT !.phase = "explore", !.base = current,
                    !.peers = {e.on : e \in ToSet(cell)}, !.land = land]]
  /\ searches' = searches + 1
  /\ UNCHANGED <<current, cell, past>>

Base(s) == search[s].base.genome
GradeAt(s, n) == search[s].land[((n - 1) % Len(search[s].land)) + 1]
Pairs == (Population + 1) \div 2

\* variant: the last dynamic specialist may be pruned.
AnyVictim(on) == on >= 1
Prunable(on) == on > 1

\* propose: the edits an operator may make; only split, prune and recombine
\* change the specialists.
Edits(parent, peers) ==
  {e \in {[same |-> parent.same, on |-> parent.on],
          [same |-> FALSE, on |-> parent.on + 1]}
         \cup (IF Prunable(parent.on) THEN {[same |-> parent.same, on |-> parent.on - 1]} ELSE {})
         \cup {[same |-> FALSE, on |-> parent.on + k] : k \in UNION {0..p : p \in peers}}
     : e.on <= MaxSpecialists}

Genome(edit, grade) == [same |-> edit.same, on |-> edit.on, grade |-> grade]
\* propose_pair: an antithetic pair shares its edit and differs in its numbers.
Proposed(s, edits) == [i \in 1..(2 * Pairs) |->
                         Genome(edits[(i + 1) \div 2], GradeAt(s, search[s].made + i))]
Informative(s, pool) ==
  Cardinality({i \in DOMAIN pool : pool[i].grade.train # Base(s).grade.train})

\* One round of antithetic pairs; a plateau widens sigma and asks for another.
Explore(s) ==
  /\ Holds(s, "explore")
  /\ \E edits \in [1..Pairs -> Edits(Base(s), search[s].peers)] :
       LET new == Proposed(s, edits)
           over == \/ Informative(s, new) >= Max({2, Len(new) \div 3})
                   \/ Population < 4 \/ search[s].round = PlateauRounds
       IN search' = [search EXCEPT ![s].pool = @ \o SubSeq(new, 1, Population),
                       ![s].made = @ + Len(new),
                       ![s].round = IF over THEN 0 ELSE @ + 1,
                       ![s].phase = IF ~over THEN "explore"
                                    ELSE IF Population >= 4 THEN "refine" ELSE "seal"]
  /\ UNCHANGED <<current, cell, past, searches>>

\* _train_rank, best first.
ByTrain(pool) == BestFirst(pool, [n \in DOMAIN pool |-> pool[n].grade.train])
Elites(s) == SubSeq(ByTrain(search[s].pool), 1, Min({Len(search[s].pool), Pairs}))

\* Each elite bears a pair, of which the better on the train cases stays.
Refine(s) ==
  /\ Holds(s, "refine") /\ search[s].round < RefinementRounds
  /\ \E elites \in {Elites(s)} :
       LET mates(n) == search[s].peers \cup {elites[k].on : k \in DOMAIN elites \ {n}}
           edited == [n \in DOMAIN elites |-> Edits(elites[n], mates(n))]
           grade(n, i) == GradeAt(s, search[s].made + 2 * (n - 1) + i)
           best(n) == IF grade(n, 2).train > grade(n, 1).train THEN grade(n, 2) ELSE grade(n, 1)
       IN \E edits \in [DOMAIN elites -> UNION {edited[n] : n \in DOMAIN elites}] :
            /\ \A n \in DOMAIN elites : edits[n] \in edited[n]
            /\ search' = [search EXCEPT ![s].round = @ + 1,
                             ![s].made = @ + 2 * Len(elites),
                             ![s].pool = @ \o [n \in DOMAIN elites |-> Genome(edits[n], best(n))]]
  /\ UNCHANGED <<current, cell, past, searches>>

\* Only a genome with the topology of the baseline can be blended with it.
EndRefine(s) ==
  /\ Holds(s, "refine") /\ search[s].round = RefinementRounds
  /\ \E ranked \in {ByTrain(search[s].pool)} :
     \E alike \in {Kept(ranked, {n \in DOMAIN ranked : ranked[n].same})} :
     \E first \in {SubSeq(alike, 1, Min({Len(alike), TrustElites}))} :
       search' = [search EXCEPT ![s].phase = "trust",
                    ![s].elites = Kept(first, {n \in DOMAIN first :
                                         first[n].grade.train > Base(s).grade.train})]
  /\ UNCHANGED <<current, cell, past, searches>>

\* Blends at each alpha, then the bisection of the boundary: a gain of a unit
\* is min_train_gain, and the probes kept are at most three.
TrustRegion(s) ==
  /\ Holds(s, "trust")
  /\ \E probes \in 1..Min({Bisections, 3}) :
       LET each == Alphas + probes
           total == each * Len(search[s].elites)
           blend(i) == Genome(search[s].elites[((i - 1) \div each) + 1],
                              GradeAt(s, search[s].made + i))
       IN search' = [search EXCEPT ![s].phase = "seal", ![s].elites = <<>>,
                       ![s].made = @ + total,
                       ![s].pool = @ \o [i \in 1..total |-> blend(i)]]
  /\ UNCHANGED <<current, cell, past, searches>>

\* _pareto_frontier and _pareto_entries, over objective, safety and efficiency.
Dominates(a, b) ==
  /\ a.objective >= b.objective /\ a.safety >= b.safety /\ a.efficiency >= b.efficiency
  /\ a.objective > b.objective \/ a.safety > b.safety \/ a.efficiency > b.efficiency
Frontier(pool) ==
  Kept(pool, {n \in DOMAIN pool :
                \A o \in ToSet(pool) : ~Dominates(o.grade, pool[n].grade)})

\* variant: the held-out gate does not look at safety.
GateOnGain(g, b, lower) ==
  /\ g.train >= b.train + 1 /\ g.objective >= b.objective /\ lower >= 0
\* The gate, on the sealed held-out cases; quality is judged like safety.
Accepted(g, b, lower) ==
  /\ g.train >= b.train + 1
  /\ g.objective >= b.objective /\ lower >= 0
  /\ g.safety >= b.safety
  /\ g.efficiency >= b.efficiency - Tolerance
  /\ 100 * g.cost <= Max({135 * b.cost, 100 * b.cost + 100})

\* noise is how far the bootstrap bound lies below the paired gain.
Admit(s) ==
  /\ Holds(s, "seal")
  \* the topology was compared with this baseline's only
  /\ \E noise \in 0..1 : \E pool \in {[i \in DOMAIN search[s].pool |->
                                         [search[s].pool[i] EXCEPT !.same = TRUE]]} :
       LET b == Base(s).grade
           lower(g) == g.grade.objective - b.objective - noise
       IN
       \E eligible \in {Kept(pool, {n \in DOMAIN pool :
                                    Accepted(pool[n].grade, b, lower(pool[n]))})} :
       \E best \in {ByTrain(Frontier(eligible))} :
         search' = [search EXCEPT ![s].phase = "archive", ![s].land = <<>>, ![s].made = 0,
                       ![s].round = 0, ![s].peers = {}, ![s].pool = Frontier(pool),
                       ![s].champion = IF eligible = <<>> THEN <<>> ELSE
                         <<Head(BestFirst(best, [n \in DOMAIN best |-> best[n].grade.objective]))>>]
  /\ UNCHANGED <<current, cell, past, searches>>

\* variant: the cell takes the newcomer without a look at the others.
Crowd(entries, new) == SubSeq(<<new>> \o entries, 1, Min({Len(entries) + 1, MaxPerCell}))
\* The frontier of the cell with the newcomer, the best sums first; among equal
\* sums the older, for novelty is left out.
Elect(entries, new) ==
  Value({LET sum == [n \in DOMAIN front |-> front[n].grade.objective + front[n].grade.safety
                                              + front[n].grade.efficiency]
         IN SubSeq(BestFirst(front, sum), 1, Min({Len(front), MaxPerCell})) :
           front \in {Frontier(Append(entries, new))}})

\* AtomicSemanticQDArchive.add: reloads and saves under the lock of the file.
ArchiveOne(s) ==
  /\ search[s].phase = "archive" /\ search[s].pool # <<>>
  /\ cell' = Elect(cell, Head(search[s].pool))
  /\ search' = [search EXCEPT ![s].pool = Tail(@)]
  /\ UNCHANGED <<current, past, searches>>

\* variant: a promotion does not ask what it was evaluated against.
AnyBaseline(s) == TRUE
StillCurrent(s) == current.version = search[s].base.version

\* HarnessGenomeStore.promote, compare and swap under the lock.
Promote(s) ==
  /\ search[s].phase = "archive" /\ search[s].pool = <<>>
  /\ IF search[s].champion # <<>> /\ StillCurrent(s)
     THEN /\ current' = [version |-> current.version + 1, genome |-> search[s].champion[1]]
          /\ past' = past \cup {current.genome.grade}
     ELSE UNCHANGED <<current, past>>
  /\ search' = [search EXCEPT ![s] = Resting]
  /\ UNCHANGED <<cell, searches>>

SearchNext ==
  \E s \in Searcher :
    \/ Begin(s) \/ Explore(s) \/ Refine(s) \/ EndRefine(s) \/ TrustRegion(s)
    \/ Admit(s) \/ ArchiveOne(s) \/ Promote(s)

SearchSpec == SearchInit /\ [][SearchNext]_searchVars
-----------------------------------------------------------------------------
\* Over any number of searches, by processes that do not know of each other, the
\* active genome never falls behind one that was active before, in its held-out
\* objective or its safety (harness_search.py:321, "no quality/safety regression").
NeverRegresses ==
  \A g \in past : /\ current.genome.grade.objective >= g.objective
                  /\ current.genome.grade.safety >= g.safety

\* However often specialists are split, pruned and recombined, somebody is left
\* to propose an action (selfplay.py:95, "no-active-specialists").
SomebodyActs ==
  /\ current.genome.on >= 1
  /\ \A s \in Searcher : \A g \in ToSet(search[s].pool) : g.on >= 1

\* The archive cell stays within its size, and none of its elites dominates another.
CellIsFrontier ==
  Len(cell) <= MaxPerCell /\ \A a, b \in ToSet(cell) : ~Dominates(a.grade, b.grade)

SearchSound == NeverRegresses /\ SomebodyActs /\ CellIsFrontier
=============================================================================
