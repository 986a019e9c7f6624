-------------------------- MODULE IndexBuildProofs --------------------------
(***************************************************************************)
(* Theorems of IndexBuild for every set of worker processes, every file,   *)
(* every batch size and every number of crashes and prunes.                *)
(***************************************************************************)
EXTENDS IndexBuild, FiniteSetTheorems, TLAPS

(* What may be stored: of a text, nothing but the chunks of the full pass. *)
Part == IF kind = "text" THEN Whole ELSE Nat

WorkerRow == [pc : {"idle", "claim", "scan", "encode", "unit", "refresh", "mark", "release"},
              full : BOOLEAN, late : BOOLEAN, todo : Seq(Part), missing : Seq(Part),
              count : Nat, level : {"coarse", "fine"}, overran : BOOLEAN]

IndexTypes ==
  /\ kind \in {"text", "segments"}
  /\ vectors \subseteq Part /\ units \subseteq Part
  /\ worker \in [Worker -> WorkerRow]
  /\ lease \in [owner : Worker \cup {Nobody, "gone"}, live : BOOLEAN]

Busy == {"scan", "encode", "unit", "refresh", "mark"}

(* Where a request stands: as long as it is not late, the chunks it has    *)
(* counted and those it has still to read are the whole pass.              *)
RowHolds(r) ==
  /\ r.pc = "claim" => /\ r.count = 0 /\ r.late = FALSE /\ r.level = "coarse"
                       /\ r.missing = <<>> /\ r.todo = <<>>
  /\ r.pc \in {"encode", "unit"} => r.missing # <<>>
  /\ kind = "text" /\ r.pc \in Busy =>
       /\ r.level = "coarse"
       /\ IF r.late THEN ~r.full ELSE r.count + Len(r.todo) = Len(Pass(r.full))
  /\ kind = "text" /\ r.pc = "mark" => r.todo = <<>>

(* A builder that has not overrun its lease holds it.                      *)
Leased(w) == Building(w) /\ ~worker[w].overran => lease.owner = w /\ lease.live

MarkerHolds == marker # NoMarker => kind = "text" /\ marker = Cardinality(Whole)

IndexInv ==
  /\ IndexTypes /\ MarkerHolds
  /\ \A w \in Worker : RowHolds(worker[w]) /\ Leased(w)

----------------------------------------------------------------------------
LEMMA WholeText ==
  ASSUME kind = "text"
  PROVE  /\ Smaller(Chunks, FullMax) \in Nat /\ Whole = 1..Smaller(Chunks, FullMax)
         /\ IsFiniteSet(Whole) /\ Cardinality(Whole) = Smaller(Chunks, FullMax)
<1>1. Smaller(Chunks, FullMax) \in Nat /\ Whole = 1..Smaller(Chunks, FullMax)
  BY IndexAssumption DEF Smaller, Whole
<1>2. IsFiniteSet(1..Smaller(Chunks, FullMax))
      /\ Cardinality(1..Smaller(Chunks, FullMax)) = Smaller(Chunks, FullMax)
  BY <1>1, FS_Interval
<1>. QED BY <1>1, <1>2

(* A pass reads parts, and the full pass over a text reads all of them; so *)
(* does an online pass that stays below its limit.                         *)
LEMMA PassReads ==
  ASSUME IndexTypes, NEW full \in BOOLEAN
  PROVE  /\ Pass(full) \in Seq(Part)
         /\ kind = "text" /\ (full \/ Len(Pass(full)) < OnlineMax)
              => Len(Pass(full)) = Cardinality(Whole)
<1>1. CASE kind = "text"
  <2>. DEFINE all == Smaller(Chunks, FullMax)
              some == Smaller(Chunks, OnlineMax)
  <2>1. all \in Nat /\ some \in Nat /\ some <= all /\ (some < OnlineMax => some = all)
    BY IndexAssumption DEF Smaller
  <2>2. Whole = 1..all /\ Part = 1..all /\ Cardinality(Whole) = all
    BY <1>1, WholeText DEF Part
  <2>. HIDE DEF all, some
  <2>3. CASE full
    <3>1. Pass(full) = [i \in 1..all |-> i]
      BY <2>2, <2>3 DEF Pass
    <3>. QED BY <2>1, <2>2, <3>1
  <2>4. CASE ~full
    <3>1. Pass(full) = [i \in 1..some |-> i]
      BY <1>1, <2>4 DEF Pass, some
    <3>2. \A i \in 1..some : i \in 1..all
      BY <2>1
    <3>. QED BY <2>1, <2>2, <2>4, <3>1, <3>2
  <2>. QED BY <2>3, <2>4
<1>2. CASE kind # "text"
  <2>1. Whole = 1..Windows /\ Part = Nat /\ Windows \in Nat /\ Wide \in Nat
    BY <1>2, IndexAssumption DEF Whole, Part, Wide
  <2>2. CASE full
    <3>1. Pass(full) = [i \in 1..Windows |-> i]
      BY <2>1, <2>2 DEF Pass
    <3>. QED BY <1>2, <2>1, <3>1
  <2>3. CASE ~full
    BY <1>2, <2>1, <2>3 DEF Pass
  <2>. QED BY <2>2, <2>3
<1>. QED BY <1>1, <1>2

LEMMA WaitingRow == Waiting \in WorkerRow /\ Waiting.pc = "idle" /\ RowHolds(Waiting)
BY DEF Waiting, WorkerRow, RowHolds, Busy

LEMMA InitHolds == IndexInit => IndexInv
<1> SUFFICES ASSUME IndexInit PROVE IndexInv
  OBVIOUS
<1>1. IndexTypes
  BY WaitingRow DEF IndexInit, IndexTypes, Free
<1>2. MarkerHolds
  BY DEF IndexInit, MarkerHolds
<1>3. ASSUME NEW w \in Worker PROVE RowHolds(worker[w]) /\ Leased(w)
  BY WaitingRow DEF IndexInit, Leased, Building
<1>. QED BY <1>1, <1>2, <1>3 DEF IndexInv

LEMMA SameKind ==
  ASSUME kind' = kind
  PROVE  /\ Part' = Part /\ Whole' = Whole /\ WorkerRow' = WorkerRow
         /\ \A r : RowHolds(r)' <=> RowHolds(r)
BY DEF Part, Whole, WorkerRow, RowHolds, Pass

(* A step of one process.                                                  *)
LEMMA OneWorker ==
  ASSUME IndexInv, NEW w \in Worker, NEW r \in WorkerRow, RowHolds(r),
         kind' = kind, worker' = [worker EXCEPT ![w] = r],
         vectors' \subseteq Part, units' \subseteq Part, MarkerHolds',
         lease' \in [owner : Worker \cup {Nobody, "gone"}, live : BOOLEAN],
         r.pc \notin {"idle", "claim"} /\ ~r.overran => lease'.owner = w /\ lease'.live,
         \A v \in Worker \ {w} : Leased(v) /\ Building(v) /\ ~worker[v].overran
                                   => lease'.owner = v /\ lease'.live
  PROVE  IndexInv'
<1>1. worker \in [Worker -> WorkerRow]
  BY DEF IndexInv, IndexTypes
<1>2. worker'[w] = r /\ \A v \in Worker \ {w} : worker'[v] = worker[v]
  BY <1>1
<1>3. IndexTypes'
  BY <1>1, SameKind DEF IndexInv, IndexTypes
<1>4. ASSUME NEW v \in Worker PROVE RowHolds(worker[v])' /\ Leased(v)'
  <2>1. RowHolds(worker[v])'
    <3>1. RowHolds(worker'[v])
      BY <1>2 DEF IndexInv
    <3>. QED BY <3>1, SameKind DEF RowHolds, Pass
  <2>2. Leased(v)'
    BY <1>2 DEF IndexInv, Leased, Building
  <2>. QED BY <2>1, <2>2
<1>. QED BY <1>3, <1>4 DEF IndexInv

LEMMA RowFields ==
  ASSUME IndexInv, NEW w \in Worker
  PROVE  /\ worker[w] \in WorkerRow /\ RowHolds(worker[w]) /\ Leased(w)
         /\ worker \in [Worker -> WorkerRow] /\ worker[w].count \in Nat
         /\ worker[w].todo \in Seq(Part) /\ worker[w].missing \in Seq(Part)
         /\ worker[w].full \in BOOLEAN
         /\ lease \in [owner : Worker \cup {Nobody, "gone"}, live : BOOLEAN]
BY DEF IndexInv, IndexTypes, WorkerRow

(* A step of one process that leaves the store and the lease alone.        *)
LEMMA QuietStep ==
  ASSUME IndexInv, NEW w \in Worker, NEW r \in WorkerRow, RowHolds(r),
         worker' = [worker EXCEPT ![w] = r],
         UNCHANGED <<kind, vectors, units, marker, lease>>,
         r.pc \in {"idle", "claim"} \/ (Building(w) /\ r.overran = worker[w].overran)
  PROVE  IndexInv'
<1>1. MarkerHolds'
  BY SameKind DEF IndexInv, MarkerHolds
<1>2. r.pc \notin {"idle", "claim"} /\ ~r.overran => lease'.owner = w /\ lease'.live
  BY RowFields DEF Leased
<1>3. vectors' \subseteq Part /\ units' \subseteq Part
  BY DEF IndexInv, IndexTypes
<1>. QED BY <1>1, <1>2, <1>3, RowFields, OneWorker DEF Leased

LEMMA DoneStep ==
  ASSUME IndexInv, NEW w \in Worker, Done(w), UNCHANGED <<kind, vectors, units, marker, lease>>
  PROVE  IndexInv'
BY WaitingRow, QuietStep DEF Done

LEMMA RequestStep ==
  ASSUME IndexInv, NEW w \in Worker, NEW full \in BOOLEAN, Request(w, full)
  PROVE  IndexInv'
<1>. DEFINE r == [Waiting EXCEPT !.pc = "claim", !.full = full]
<1>1. r \in WorkerRow /\ r.pc = "claim"
  <2>1. Waiting \in WorkerRow
    BY WaitingRow
  <2>. QED BY <2>1 DEF WorkerRow
<1>3. /\ r.count = 0 /\ r.late = FALSE /\ r.level = "coarse" /\ r.missing = <<>>
      /\ r.todo = <<>>
  BY DEF Waiting
<1>2. worker' = [worker EXCEPT ![w] = r] /\ UNCHANGED <<kind, vectors, units, marker, lease>>
  BY DEF Request, StoreUnchanged, Quiet
<1>. HIDE DEF r
<1>4. RowHolds(r)
  BY <1>1, <1>3 DEF RowHolds, Busy
<1>. QED BY <1>1, <1>2, <1>4, QuietStep

LEMMA ClaimStep ==
  ASSUME IndexInv, NEW w \in Worker, Claim(w)
  PROVE  IndexInv'
<1>. DEFINE reuse == kind = "segments" /\ ~worker[w].full /\ Coarse # {}
            todo == IF reuse THEN <<>> ELSE Pass(worker[w].full)
            pc == IF reuse THEN "refresh" ELSE "scan"
            r == [worker[w] EXCEPT !.pc = pc, !.todo = todo]
<1>1. /\ worker[w].pc = "claim" /\ Claimable(w) /\ lease' = [owner |-> w, live |-> TRUE]
      /\ UNCHANGED <<kind, vectors, units, marker>>
  BY DEF Claim, At, StoreUnchanged, Quiet
<1>2. worker' = [worker EXCEPT ![w] = r]
  BY RowFields DEF Claim
<1>3. todo \in Seq(Part) /\ pc \in {"refresh", "scan"} /\ (pc = "refresh" => kind = "segments")
      /\ (pc = "scan" => todo = Pass(worker[w].full))
  BY RowFields, PassReads DEF IndexInv
<1>. HIDE DEF todo, pc
<1>4. /\ r \in WorkerRow /\ r.pc = pc /\ r.todo = todo /\ r.full = worker[w].full
      /\ r.level = worker[w].level /\ r.late = worker[w].late /\ r.count = worker[w].count
  BY <1>3, RowFields DEF WorkerRow
<1>. HIDE DEF r
<1>5. worker[w].count = 0 /\ worker[w].late = FALSE /\ worker[w].level = "coarse"
  BY <1>1, RowFields DEF RowHolds
<1>6. Len(todo) \in Nat
  BY <1>3
<1>7. RowHolds(r)
  BY <1>3, <1>4, <1>5, <1>6 DEF RowHolds, Busy
<1>8. MarkerHolds'
  BY <1>1, SameKind DEF IndexInv, MarkerHolds
<1>9. vectors' \subseteq Part /\ units' \subseteq Part
  BY <1>1 DEF IndexInv, IndexTypes
<1>10. ASSUME NEW v \in Worker \ {w}, Leased(v), Building(v), ~worker[v].overran
       PROVE  FALSE
  BY <1>1, <1>10, WorkerAssumption DEF Leased, Claimable
<1>11. lease' \in [owner : Worker \cup {Nobody, "gone"}, live : BOOLEAN]
       /\ lease'.owner = w /\ lease'.live
  BY <1>1
<1>. QED BY <1>1, <1>2, <1>4, <1>7, <1>8, <1>9, <1>10, <1>11, OneWorker

LEMMA ScanStep ==
  ASSUME IndexInv, NEW w \in Worker, Scan(w)
  PROVE  IndexInv'
<1>. DEFINE part == Head(worker[w].todo)
            count == IF kind = "text" THEN worker[w].count + 1 ELSE worker[w].count
            missing == IF part \in vectors THEN worker[w].missing
                       ELSE Append(worker[w].missing, part)
            r == [worker[w] EXCEPT !.todo = Tail(worker[w].todo), !.count = count,
                                   !.missing = missing]
<1>1. /\ worker[w].pc = "scan" /\ worker[w].todo # <<>>
      /\ units' = IF part \in vectors THEN units \cup {part} ELSE units
      /\ UNCHANGED <<kind, vectors, marker, lease>>
  BY DEF Scan, At, BatchReady
<1>2. worker' = [worker EXCEPT ![w] = r]
  BY RowFields DEF Scan
<1>3. /\ part \in Part /\ Tail(worker[w].todo) \in Seq(Part)
      /\ Len(Tail(worker[w].todo)) = Len(worker[w].todo) - 1 /\ Len(worker[w].todo) \in Nat
  BY <1>1, RowFields
<1>4. count \in Nat /\ missing \in Seq(Part) /\ (kind = "text" => count = worker[w].count + 1)
  BY <1>3, RowFields
<1>. HIDE DEF count, missing, part
<1>5. /\ r \in WorkerRow /\ r.pc = "scan" /\ r.todo = Tail(worker[w].todo) /\ r.count = count
      /\ r.full = worker[w].full /\ r.level = worker[w].level /\ r.late = worker[w].late
      /\ r.overran = worker[w].overran
  BY <1>1, <1>3, <1>4, RowFields DEF WorkerRow
<1>. HIDE DEF r
<1>6. RowHolds(r)
  <2>1. ASSUME kind = "text"
        PROVE  /\ r.level = "coarse"
               /\ IF r.late THEN ~r.full ELSE r.count + Len(r.todo) = Len(Pass(r.full))
    <3>1. /\ worker[w].level = "coarse"
          /\ IF worker[w].late THEN ~worker[w].full
             ELSE worker[w].count + Len(worker[w].todo) = Len(Pass(worker[w].full))
      BY <1>1, <2>1, RowFields DEF RowHolds, Busy
    <3>2. r.count = worker[w].count + 1 /\ Len(r.todo) = Len(worker[w].todo) - 1
      BY <1>3, <1>4, <1>5, <2>1
    <3>3. worker[w].count \in Nat
      BY RowFields
    <3>4. r.count + Len(r.todo) = worker[w].count + Len(worker[w].todo)
      <4>1. \A a, b \in Nat : (a + 1) + (b - 1) = a + b
        OBVIOUS
      <4>2. Len(worker[w].todo) \in Nat
        BY <1>3
      <4>3. (worker[w].count + 1) + (Len(worker[w].todo) - 1)
              = worker[w].count + Len(worker[w].todo)
        BY <3>3, <4>1, <4>2, Zenon
      <4>. QED BY <3>2, <4>3, Zenon
    <3>5. /\ r.level = worker[w].level /\ r.late = worker[w].late
          /\ r.full = worker[w].full
      BY <1>5
    <3>6. Pass(r.full) = Pass(worker[w].full)
      BY <3>5
    <3>7. CASE worker[w].late
      BY <3>1, <3>5, <3>7
    <3>8. CASE ~worker[w].late
      BY <3>1, <3>4, <3>5, <3>6, <3>8
    <3>. QED BY <3>7, <3>8
  <2>. QED BY <1>5, <2>1 DEF RowHolds
<1>7. vectors' \subseteq Part /\ units' \subseteq Part
  BY <1>1, <1>3 DEF IndexInv, IndexTypes
<1>8. MarkerHolds'
  BY <1>1, SameKind DEF IndexInv, MarkerHolds
<1>9. ~r.overran => lease'.owner = w /\ lease'.live
  BY <1>1, <1>5, RowFields DEF Leased, Building
<1>. QED BY <1>1, <1>2, <1>5, <1>6, <1>7, <1>8, <1>9, RowFields, OneWorker DEF Leased

LEMMA StopScanStep ==
  ASSUME IndexInv, NEW w \in Worker, StopScan(w)
  PROVE  IndexInv'
<1>1. /\ worker[w].pc = "scan" /\ ~worker[w].full
      /\ UNCHANGED <<kind, vectors, units, marker, lease>>
  BY DEF StopScan, At, StoreUnchanged, Quiet
<1>2. PICK pc \in {"mark", "release", "refresh"} : pc = AfterLevel(w)
  BY DEF AfterLevel, AfterBatch
<1>. DEFINE r == [worker[w] EXCEPT !.pc = pc, !.late = TRUE, !.missing = <<>>, !.todo = <<>>]
<1>3. worker' = [worker EXCEPT ![w] = r]
  BY <1>2, RowFields DEF StopScan
<1>4. <<>> \in Seq(Part) /\ worker[w] \in WorkerRow
  BY RowFields
<1>5. r \in WorkerRow
  BY <1>4 DEF WorkerRow
<1>6. /\ r.pc = pc /\ r.late /\ r.todo = <<>>
      /\ r.full = worker[w].full /\ r.level = worker[w].level /\ r.overran = worker[w].overran
  BY <1>4 DEF WorkerRow
<1>. HIDE DEF r
<1>7. RowHolds(r)
  BY <1>1, <1>6, RowFields DEF RowHolds, Busy
<1>. QED BY <1>1, <1>3, <1>5, <1>6, <1>7, QuietStep DEF Building

(* A step that only moves the program counter to a place it may move to.   *)
LEMMA MovesTo ==
  ASSUME IndexInv, NEW w \in Worker,
         NEW pc \in {"scan", "encode", "unit", "refresh", "mark", "release"},
         worker' = [worker EXCEPT ![w].pc = pc], Building(w),
         worker[w].pc # "release" \/ pc = "release",
         pc \in {"encode", "unit"} => worker[w].missing # <<>>,
         kind = "text" /\ pc = "mark" => worker[w].todo = <<>>,
         kind' = kind, vectors' \subseteq Part, units' \subseteq Part, marker' = marker,
         lease' = lease
  PROVE  IndexInv'
<1>. DEFINE r == [worker[w] EXCEPT !.pc = pc]
<1>1. worker' = [worker EXCEPT ![w] = r]
  BY RowFields
<1>2. /\ r \in WorkerRow /\ r.pc = pc /\ r.todo = worker[w].todo /\ r.missing = worker[w].missing
      /\ r.full = worker[w].full /\ r.level = worker[w].level /\ r.late = worker[w].late
      /\ r.overran = worker[w].overran /\ r.count = worker[w].count
  BY RowFields DEF WorkerRow
<1>. HIDE DEF r
<1>3. worker[w].pc \in Busy \cup {"release"}
  BY RowFields DEF Building, WorkerRow, Busy
<1>4. RowHolds(r)
  BY <1>2, <1>3, RowFields DEF RowHolds, Busy
<1>5. MarkerHolds'
  BY SameKind DEF IndexInv, MarkerHolds
<1>6. ~r.overran => lease'.owner = w /\ lease'.live
  BY <1>2, RowFields DEF Leased
<1>. QED BY <1>1, <1>2, <1>4, <1>5, <1>6, RowFields, OneWorker DEF Leased

LEMMA StartBatchStep ==
  ASSUME IndexInv, NEW w \in Worker, StartBatch(w)
  PROVE  IndexInv'
<1>1. /\ worker[w].pc = "scan" /\ UNCHANGED <<kind, vectors, units, marker, lease>>
      /\ vectors' \subseteq Part /\ units' \subseteq Part
  BY DEF StartBatch, At, StoreUnchanged, Quiet, IndexInv, IndexTypes
<1>2. AfterBatch(w) \in {"release", "refresh"}
  BY DEF AfterBatch
<1>3. CASE worker[w].missing = <<>>
  <2>1. worker' = [worker EXCEPT ![w].pc = AfterBatch(w)]
    BY <1>3 DEF StartBatch
  <2>. QED BY <1>1, <1>2, <2>1, MovesTo DEF Building
<1>4. CASE worker[w].missing # <<>>
  <2>1. worker' = [worker EXCEPT ![w].pc = "encode"]
    BY <1>4 DEF StartBatch
  <2>. QED BY <1>1, <1>4, <2>1, MovesTo DEF Building
<1>. QED BY <1>3, <1>4

LEMMA MissingHead ==
  ASSUME IndexInv, NEW w \in Worker, worker[w].pc \in {"encode", "unit"}
  PROVE  /\ worker[w].missing # <<>> /\ Head(worker[w].missing) \in Part
         /\ Tail(worker[w].missing) \in Seq(Part)
<1>1. worker[w].missing # <<>> /\ worker[w].missing \in Seq(Part)
  BY RowFields DEF RowHolds
<1>. QED BY <1>1

LEMMA PutVectorStep ==
  ASSUME IndexInv, NEW w \in Worker, PutVector(w)
  PROVE  IndexInv'
<1>1. /\ worker[w].pc = "encode" /\ UNCHANGED <<kind, units, marker, lease>>
      /\ worker' = [worker EXCEPT ![w].pc = "unit"]
      /\ vectors' = vectors \cup {Head(worker[w].missing)}
  BY DEF PutVector, At
<1>2. vectors' \subseteq Part /\ units' \subseteq Part
  BY <1>1, MissingHead DEF IndexInv, IndexTypes
<1>. QED BY <1>1, <1>2, MissingHead, MovesTo DEF Building

LEMMA PutUnitStep ==
  ASSUME IndexInv, NEW w \in Worker, PutUnit(w)
  PROVE  IndexInv'
<1>1. PICK stop \in {FALSE, kind = "segments" /\ ~worker[w].full} :
        worker' = [worker EXCEPT ![w].missing = IF stop THEN <<>> ELSE Tail(worker[w].missing),
                     ![w].late = worker[w].late \/ stop,
                     ![w].pc = IF (IF stop THEN <<>> ELSE Tail(worker[w].missing)) = <<>>
                               THEN AfterBatch(w) ELSE "encode"]
  BY RowFields DEF PutUnit
<1>2. /\ worker[w].pc = "unit" /\ UNCHANGED <<kind, vectors, marker, lease>>
      /\ units' = units \cup {Head(worker[w].missing)}
  BY DEF PutUnit, At, Quiet
<1>. DEFINE left == IF stop THEN <<>> ELSE Tail(worker[w].missing)
            late == worker[w].late \/ stop
            pc == IF left = <<>> THEN AfterBatch(w) ELSE "encode"
            r == [worker[w] EXCEPT !.missing = left, !.late = late, !.pc = pc]
<1>3. /\ left \in Seq(Part) /\ late \in BOOLEAN /\ pc \in {"encode", "release", "refresh"}
      /\ (pc = "encode" => left # <<>>)
      /\ (kind = "text" => late = worker[w].late)
  <2>1. left \in Seq(Part)
    BY <1>2, MissingHead
  <2>2. stop \in BOOLEAN /\ worker[w].late \in BOOLEAN /\ (kind = "text" => ~stop)
    BY RowFields DEF WorkerRow
  <2>3. AfterBatch(w) \in {"release", "refresh"}
    BY DEF AfterBatch
  <2>. QED BY <2>1, <2>2, <2>3
<1>4. worker' = [worker EXCEPT ![w] = r]
  BY <1>1, RowFields
<1>. HIDE DEF left, late, pc
<1>5. /\ r \in WorkerRow /\ r.pc = pc /\ r.todo = worker[w].todo /\ r.missing = left
      /\ r.full = worker[w].full /\ r.level = worker[w].level /\ r.late = late
      /\ r.overran = worker[w].overran /\ r.count = worker[w].count
  BY <1>3, RowFields DEF WorkerRow
<1>. HIDE DEF r
<1>6. RowHolds(r)
  BY <1>2, <1>3, <1>5, RowFields DEF RowHolds, Busy
<1>7. vectors' \subseteq Part /\ units' \subseteq Part
  BY <1>2, MissingHead DEF IndexInv, IndexTypes
<1>8. MarkerHolds'
  BY <1>2, SameKind DEF IndexInv, MarkerHolds
<1>9. ~r.overran => lease'.owner = w /\ lease'.live
  BY <1>2, <1>5, RowFields DEF Leased, Building
<1>. QED BY <1>2, <1>4, <1>5, <1>6, <1>7, <1>8, <1>9, RowFields, OneWorker DEF Leased

LEMMA RefreshStep ==
  ASSUME IndexInv, NEW w \in Worker, Refresh(w)
  PROVE  IndexInv'
<1>. DEFINE overran == worker[w].overran /\ lease.owner # w
            pc == IF worker[w].todo = <<>> THEN "mark" ELSE "scan"
            r == [worker[w] EXCEPT !.overran = overran, !.pc = pc]
<1>1. /\ worker[w].pc = "refresh" /\ UNCHANGED <<kind, vectors, units, marker>>
      /\ IF lease.owner = w THEN lease' = [lease EXCEPT !.live = TRUE] ELSE UNCHANGED lease
  BY DEF Refresh, At, StoreUnchanged, Quiet
<1>2. worker' = [worker EXCEPT ![w] = r]
  BY RowFields DEF Refresh
<1>3. overran \in BOOLEAN /\ pc \in {"mark", "scan"} /\ (pc = "mark" => worker[w].todo = <<>>)
  BY RowFields DEF WorkerRow
<1>. HIDE DEF pc
<1>4. /\ r \in WorkerRow /\ r.pc = pc /\ r.todo = worker[w].todo /\ r.overran = overran
      /\ r.full = worker[w].full /\ r.level = worker[w].level /\ r.late = worker[w].late
      /\ r.count = worker[w].count
  BY <1>3, RowFields DEF WorkerRow
<1>. HIDE DEF r
<1>5. RowHolds(r)
  BY <1>1, <1>3, <1>4, RowFields DEF RowHolds, Busy
<1>6. vectors' \subseteq Part /\ units' \subseteq Part /\ MarkerHolds'
  BY <1>1, SameKind DEF IndexInv, IndexTypes, MarkerHolds
<1>7. lease' \in [owner : Worker \cup {Nobody, "gone"}, live : BOOLEAN]
      /\ lease'.owner = lease.owner /\ (lease.live => lease'.live)
      /\ (lease.owner = w => lease'.live)
  BY <1>1, RowFields
<1>8. ~r.overran => lease'.owner = w /\ lease'.live
  <2>1. ~r.overran => lease.owner = w
    BY <1>1, <1>4, RowFields DEF Leased, Building
  <2>. QED BY <1>7, <2>1
<1>. QED BY <1>1, <1>2, <1>4, <1>5, <1>6, <1>7, <1>8, OneWorker DEF Leased

LEMMA RaisesStep ==
  ASSUME IndexInv, NEW w \in Worker, Raises(w)
  PROVE  IndexInv'
<1>1. /\ worker[w].pc \in Busy /\ UNCHANGED <<kind, vectors, units, marker, lease>>
      /\ worker' = [worker EXCEPT ![w].pc = "release"]
      /\ vectors' \subseteq Part /\ units' \subseteq Part
  BY DEF Raises, Busy, StoreUnchanged, Quiet, IndexInv, IndexTypes
<1>. QED BY <1>1, MovesTo DEF Building, Busy

(* The marker of a scan that read the whole pass is the count of its       *)
(* chunks.                                                                 *)
LEMMA MarkTextStep ==
  ASSUME IndexInv, NEW w \in Worker, MarkText(w)
  PROVE  IndexInv'
<1>1. /\ worker[w].pc = "mark" /\ kind = "text" /\ UNCHANGED <<kind, vectors, units, lease>>
      /\ worker' = [worker EXCEPT ![w].pc = "release"]
      /\ vectors' \subseteq Part /\ units' \subseteq Part
  BY DEF MarkText, At, Quiet, IndexInv, IndexTypes
<1>2. MarkerHolds'
  <2>1. CASE marker' = marker
    BY <1>1, <2>1, SameKind DEF IndexInv, MarkerHolds
  <2>2. CASE FullScan(w) /\ marker' = worker[w].count
    <3>1. /\ worker[w].todo = <<>>
          /\ IF worker[w].late THEN ~worker[w].full
             ELSE worker[w].count + Len(worker[w].todo) = Len(Pass(worker[w].full))
      BY <1>1, RowFields DEF RowHolds, Busy
    <3>2. ~worker[w].late /\ (worker[w].full \/ worker[w].count < OnlineMax)
      BY <2>2, <3>1 DEF FullScan
    <3>3. worker[w].count = Len(Pass(worker[w].full))
      BY <3>1, <3>2, RowFields
    <3>4. worker[w].count = Cardinality(Whole)
      BY <1>1, <3>2, <3>3, RowFields, PassReads DEF IndexInv
    <3>. QED BY <1>1, <2>2, <3>4, SameKind DEF MarkerHolds
  <2>. QED BY <2>1, <2>2 DEF MarkText
<1>. DEFINE r == [worker[w] EXCEPT !.pc = "release"]
<1>3. worker' = [worker EXCEPT ![w] = r]
  BY <1>1, RowFields
<1>4. r \in WorkerRow /\ r.pc = "release" /\ r.overran = worker[w].overran
  BY RowFields DEF WorkerRow
<1>. HIDE DEF r
<1>5. RowHolds(r)
  BY <1>4 DEF RowHolds, Busy
<1>6. ~r.overran => lease'.owner = w /\ lease'.live
  BY <1>1, <1>4, RowFields DEF Leased, Building
<1>. QED BY <1>1, <1>2, <1>3, <1>4, <1>5, <1>6, RowFields, OneWorker DEF Leased

LEMMA LocateStep ==
  ASSUME IndexInv, NEW w \in Worker, Locate(w)
  PROVE  IndexInv'
<1>1. /\ worker[w].pc = "mark" /\ kind = "segments"
      /\ UNCHANGED <<kind, vectors, units, marker, lease>>
      /\ vectors' \subseteq Part /\ units' \subseteq Part
  BY DEF Locate, At, StoreUnchanged, Quiet, IndexInv, IndexTypes
<1>2. CASE worker' = [worker EXCEPT ![w].pc = "release"]
  BY <1>1, <1>2, MovesTo DEF Building
<1>3. CASE worker' = [worker EXCEPT ![w].pc = "scan", ![w].level = "fine", ![w].todo = <<Fine>>]
  <2>. DEFINE r == [worker[w] EXCEPT !.pc = "scan", !.level = "fine", !.todo = <<Fine>>]
  <2>1. <<Fine>> \in Seq(Part)
    BY <1>1, IndexAssumption DEF Fine, Part
  <2>2. worker' = [worker EXCEPT ![w] = r]
    BY <1>3, RowFields
  <2>3. r \in WorkerRow /\ r.pc = "scan" /\ r.overran = worker[w].overran
    BY <2>1, RowFields DEF WorkerRow
  <2>. HIDE DEF r
  <2>4. RowHolds(r)
    BY <1>1, <2>3 DEF RowHolds
  <2>. QED BY <1>1, <2>2, <2>3, <2>4, QuietStep DEF Building
<1>. QED BY <1>2, <1>3 DEF Locate

(* Only the owner frees the lease, or the death of a process.              *)
LEMMA LetGo ==
  ASSUME IndexInv, NEW w \in Worker, Done(w), UNCHANGED <<kind, vectors, units, marker>>,
         lease' \in [owner : Worker \cup {Nobody, "gone"}, live : BOOLEAN],
         lease.owner # w => lease' = lease
  PROVE  IndexInv'
<1>1. vectors' \subseteq Part /\ units' \subseteq Part /\ MarkerHolds'
  BY SameKind DEF IndexInv, IndexTypes, MarkerHolds
<1>2. ASSUME NEW v \in Worker \ {w}, Leased(v), Building(v), ~worker[v].overran
      PROVE  lease'.owner = v /\ lease'.live
  BY <1>2 DEF Leased
<1>. QED BY <1>1, <1>2, WaitingRow, OneWorker DEF Done

LEMMA ReleaseStep ==
  ASSUME IndexInv, NEW w \in Worker, Release(w)
  PROVE  IndexInv'
<1>1. /\ Done(w) /\ UNCHANGED <<kind, vectors, units, marker>>
      /\ lease' = IF lease.owner = w THEN Free ELSE lease
  BY DEF Release, StoreUnchanged, Quiet, StillOwner
<1>2. lease' \in [owner : Worker \cup {Nobody, "gone"}, live : BOOLEAN]
  BY <1>1, RowFields DEF Free
<1>. QED BY <1>1, <1>2, LetGo

LEMMA CrashStep ==
  ASSUME IndexInv, NEW w \in Worker, Crash(w)
  PROVE  IndexInv'
<1>1. /\ Done(w) /\ UNCHANGED <<kind, vectors, units, marker>>
      /\ lease' = IF lease.owner = w THEN [lease EXCEPT !.owner = "gone"] ELSE lease
  BY DEF Crash, StoreUnchanged
<1>2. lease' \in [owner : Worker \cup {Nobody, "gone"}, live : BOOLEAN]
  BY <1>1, RowFields
<1>. QED BY <1>1, <1>2, LetGo

LEMMA ExpireStep ==
  ASSUME IndexInv, Expire
  PROVE  IndexInv'
<1>1. /\ UNCHANGED <<kind, vectors, units, marker>> /\ lease' = [lease EXCEPT !.live = FALSE]
      /\ worker' = [w \in Worker |-> IF lease.owner = w THEN [worker[w] EXCEPT !.overran = TRUE]
                                      ELSE worker[w]]
  BY DEF Expire, StoreUnchanged, Quiet
<1>2. lease \in [owner : Worker \cup {Nobody, "gone"}, live : BOOLEAN]
  BY DEF IndexInv, IndexTypes
<1>3. ASSUME NEW w \in Worker
      PROVE  /\ worker'[w] \in WorkerRow /\ RowHolds(worker'[w]) /\ Leased(w)'
  <2>1. CASE lease.owner = w
    <3>. DEFINE r == [worker[w] EXCEPT !.overran = TRUE]
    <3>1. worker'[w] = r
      BY <1>1, <2>1
    <3>0. worker[w] \in WorkerRow
      BY RowFields
    <3>2. /\ r \in WorkerRow /\ r.pc = worker[w].pc /\ r.todo = worker[w].todo
          /\ r.missing = worker[w].missing /\ r.full = worker[w].full
          /\ r.level = worker[w].level /\ r.late = worker[w].late
          /\ r.overran /\ r.count = worker[w].count
      BY <3>0 DEF WorkerRow
    <3>. HIDE DEF r
    <3>3. RowHolds(worker[w])
      BY RowFields
    <3>4. RowHolds(r)
      BY ZenonT(40), <3>2, <3>3 DEF RowHolds
    <3>. QED BY <3>1, <3>2, <3>4 DEF Leased
  <2>2. CASE lease.owner # w
    <3>1. worker'[w] = worker[w]
      BY <1>1, <2>2
    <3>. QED BY <2>2, <3>1, RowFields DEF Leased, Building
  <2>. QED BY <2>1, <2>2
<1>4. IndexTypes'
  <2>1. worker' \in [Worker -> WorkerRow]
    BY <1>1, <1>3
  <2>2. lease' \in [owner : Worker \cup {Nobody, "gone"}, live : BOOLEAN]
    BY <1>1, <1>2
  <2>. QED BY <1>1, <2>1, <2>2, SameKind DEF IndexInv, IndexTypes
<1>5. MarkerHolds'
  BY <1>1, SameKind DEF IndexInv, MarkerHolds
<1>6. \A w \in Worker : RowHolds(worker[w])'
  BY <1>1, <1>3, SameKind DEF RowHolds, Pass
<1>. QED BY <1>3, <1>4, <1>5, <1>6 DEF IndexInv

LEMMA PruneStep ==
  ASSUME IndexInv, Prune
  PROVE  IndexInv'
<1>1. PICK kept \in SUBSET vectors :
        vectors' = kept /\ units' = IF kept = vectors THEN units ELSE units \cap kept
  BY DEF Prune
<1>2. UNCHANGED <<kind, marker, worker>> /\ lease' = IF lease.live THEN lease ELSE Free
  BY DEF Prune
<1>3. IndexTypes'
  BY <1>1, <1>2, SameKind DEF IndexInv, IndexTypes, Free
<1>4. MarkerHolds'
  BY <1>2, SameKind DEF IndexInv, MarkerHolds
<1>5. ASSUME NEW w \in Worker PROVE RowHolds(worker[w])' /\ Leased(w)'
  <2>1. RowHolds(worker[w])'
    BY <1>2, RowFields, SameKind DEF RowHolds, Pass
  <2>2. Leased(w)'
    BY <1>2, RowFields DEF Leased, Building
  <2>. QED BY <2>1, <2>2
<1>. QED BY <1>3, <1>4, <1>5 DEF IndexInv

----------------------------------------------------------------------------
LEMMA NextHolds == IndexInv /\ [IndexNext]_indexVars => IndexInv'
<1> SUFFICES ASSUME IndexInv, [IndexNext]_indexVars PROVE IndexInv'
  OBVIOUS
<1>1. CASE UNCHANGED indexVars
  <2>1. UNCHANGED <<kind, vectors, units, marker, lease, worker>>
    BY <1>1 DEF indexVars
  <2>2. IndexTypes' /\ MarkerHolds'
    BY <2>1, SameKind DEF IndexInv, IndexTypes, MarkerHolds
  <2>3. ASSUME NEW w \in Worker PROVE RowHolds(worker[w])' /\ Leased(w)'
    <3>1. RowHolds(worker[w])'
      BY <2>1, RowFields, SameKind DEF RowHolds, Pass
    <3>2. Leased(w)'
      BY <2>1, RowFields DEF Leased, Building
    <3>. QED BY <3>1, <3>2
  <2>. QED BY <2>2, <2>3 DEF IndexInv
<1>2. ASSUME NEW w \in Worker, LoseClaim(w) PROVE IndexInv'
  BY <1>2, DoneStep DEF LoseClaim, StoreUnchanged, Quiet
<1>. QED BY <1>1, <1>2, RequestStep, ClaimStep, ScanStep, StopScanStep, StartBatchStep,
            PutVectorStep, PutUnitStep, RefreshStep, MarkTextStep, LocateStep, ReleaseStep,
            RaisesStep, CrashStep, ExpireStep, PruneStep DEF IndexNext, BuildStep

(* Who holds the lease, what every request has read and what the marker    *)
(* counts, with the types, is an inductive invariant of the build.         *)
THEOREM IndexInductive == IndexSpec => []IndexInv
BY InitHolds, NextHolds, PTL DEF IndexSpec

(* Two processes build at once only if one of them overran its lease, and  *)
(* an index taken for complete has every chunk (vector_store.py:287,       *)
(* worker_wemm_hierarchical.py:434-440).                                   *)
THEOREM IndexIsSound == IndexSpec => []IndexSound
<1>1. IndexInv => BuildersExclude
  BY DEF IndexInv, Leased, BuildersExclude
<1>2. IndexInv => CompleteIsWhole
  <2> SUFFICES ASSUME IndexInv, marker # NoMarker, Cardinality(Rows) = marker
               PROVE  Rows = Whole
    BY DEF CompleteIsWhole
  <2>1. kind = "text" /\ marker = Cardinality(Whole)
    BY DEF IndexInv, MarkerHolds
  <2>2. Rows \subseteq Whole
    BY <2>1 DEF IndexInv, IndexTypes, Rows, Part
  <2>3. IsFiniteSet(Whole)
    BY <2>1, WholeText
  <2>. QED BY <2>1, <2>2, <2>3, FS_Subset
<1>. QED BY <1>1, <1>2, IndexInductive, PTL DEF IndexSound
=============================================================================
