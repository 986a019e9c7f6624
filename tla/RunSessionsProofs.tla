------------------------- MODULE RunSessionsProofs -------------------------
(***************************************************************************)
(* Theorems of RunSessions for every set of sessions and processes, every  *)
(* number of genomes, policy generations, decision steps and restarts.     *)
(***************************************************************************)
EXTENDS RunSessions, TLAPS

Genome == [id : Nat, gen : Nat, against : Nat]
RunRow == [pc : {"idle", "created", "sleeping", "policyLock", "evolveLock", "evolving",
                 "completed", "failed", "cancelled", "lost"},
           proc : Process \cup {Nobody}, pin : Genome, used : SUBSET Nat, left : Nat,
           cancel : Nat, summary : BOOLEAN]
ThreadRow == [state : {"none", "search", "rejected", "gated", "error"},
              baseline : Genome, promoted : BOOLEAN]

EventTypes == {"run.started", "run.completed", "run.failed", "run.cancelled",
               "harness.evolution.started", "harness.evolution", "harness.promoted",
               "harness.promotion.stale"}

SessionTypes ==
  /\ file \in Genome
  /\ minted \in Nat
  /\ active \in [Process -> Genome]
  /\ run \in [Session -> RunRow]
  /\ thread \in [Session -> ThreadRow]
  /\ log \in [Session -> Seq(EventTypes)]

(* What the coroutine of a session knows of its chain.                     *)
Knows(s) ==
  /\ run[s].pc \in {"idle", "lost"} \/ run[s].proc \in Process
  /\ run[s].pc = "idle" => log[s] = <<>> /\ run[s].cancel = 0
  /\ run[s].cancel > 0 => Contains(log[s], "run.cancelled")
  /\ Contains(log[s], "run.cancelled") =>
       run[s].cancel > 0 \/ run[s].pc \in {"cancelled", "lost"}
  /\ run[s].summary \/ run[s].pc \in {"evolveLock", "evolving"} =>
       Contains(log[s], "run.completed")
  /\ run[s].pc = "failed" => Contains(log[s], "run.failed")
  /\ run[s].pc = "cancelled" => Contains(log[s], "run.cancelled")

ChainInv == (\A s \in Session : Knows(s)) /\ NothingAfterCancel
SessionsInv == SessionTypes /\ ChainInv

----------------------------------------------------------------------------
(* Appending to a chain.                                                   *)
LEMMA ContainsAppended ==
  ASSUME NEW a \in Seq(EventTypes), NEW b \in Seq(EventTypes), NEW e
  PROVE  Contains(a \o b, e) <=> Contains(a, e) \/ Contains(b, e)
<1>1. \A i \in 1..Len(a) : (a \o b)[i] = a[i] /\ i \in 1..Len(a \o b)
  OBVIOUS
<1>2. \A i \in 1..Len(b) : (a \o b)[Len(a) + i] = b[i] /\ Len(a) + i \in 1..Len(a \o b)
  OBVIOUS
<1>3. \A i \in 1..Len(a \o b) : i \in 1..Len(a) \/ i - Len(a) \in 1..Len(b)
  OBVIOUS
<1>4. ASSUME Contains(a \o b, e) PROVE Contains(a, e) \/ Contains(b, e)
  <2>1. PICK i \in 1..Len(a \o b) : (a \o b)[i] = e
    BY <1>4 DEF Contains
  <2>2. CASE i \in 1..Len(a)
    BY <2>1, <2>2, <1>1 DEF Contains
  <2>3. CASE i - Len(a) \in 1..Len(b)
    <3>1. (a \o b)[Len(a) + (i - Len(a))] = b[i - Len(a)]
      BY <2>3, <1>2
    <3>2. Len(a) + (i - Len(a)) = i
      OBVIOUS
    <3>. QED BY <2>1, <2>3, <3>1, <3>2 DEF Contains
  <2>. QED BY <2>2, <2>3, <1>3
<1>5. ASSUME Contains(a, e) PROVE Contains(a \o b, e)
  BY <1>5, <1>1 DEF Contains
<1>6. ASSUME Contains(b, e) PROVE Contains(a \o b, e)
  BY <1>6, <1>2 DEF Contains
<1>. QED BY <1>4, <1>5, <1>6

LEMMA EmptyContainsNothing == \A e : ~Contains(<<>>, e)
BY DEF Contains

LEMMA OneTyped == ASSUME NEW S, NEW x \in S PROVE <<x>> \in Seq(S)
OBVIOUS

LEMMA TwoTyped == ASSUME NEW S, NEW x \in S, NEW y \in S PROVE <<x, y>> \in Seq(S)
OBVIOUS

LEMMA OneContains == ASSUME NEW x PROVE \A e : Contains(<<x>>, e) <=> e = x
BY DEF Contains

LEMMA TwoContain ==
  ASSUME NEW x, NEW y PROVE \A e : Contains(<<x, y>>, e) <=> e = x \/ e = y
<1>1. Len(<<x, y>>) = 2 /\ <<x, y>>[1] = x /\ <<x, y>>[2] = y
  OBVIOUS
<1>2. 1..2 = {1, 2}
  OBVIOUS
<1>. QED BY <1>1, <1>2 DEF Contains

(* The end of a chain: nothing but cancellations behind a cancellation.    *)
Closes(chain) ==
  \A i, j \in DOMAIN chain : i < j /\ chain[i] = "run.cancelled" => chain[j] = "run.cancelled"

LEMMA ClosesAppended ==
  ASSUME NEW a \in Seq(EventTypes), NEW b \in Seq(EventTypes), Closes(a), Closes(b),
         Contains(a, "run.cancelled") => \A j \in DOMAIN b : b[j] = "run.cancelled"
  PROVE  Closes(a \o b)
<1> SUFFICES ASSUME NEW i \in DOMAIN (a \o b), NEW j \in DOMAIN (a \o b),
                    i < j, (a \o b)[i] = "run.cancelled"
             PROVE  (a \o b)[j] = "run.cancelled"
  BY DEF Closes
<1>1. /\ i \in 1..Len(a) => (a \o b)[i] = a[i]
      /\ j \in 1..Len(a) => (a \o b)[j] = a[j]
      /\ i \notin 1..Len(a) => i - Len(a) \in 1..Len(b) /\ (a \o b)[i] = b[i - Len(a)]
      /\ j \notin 1..Len(a) => j - Len(a) \in 1..Len(b) /\ (a \o b)[j] = b[j - Len(a)]
      /\ i \in Nat /\ j \in Nat
  OBVIOUS
<1>2. DOMAIN a = 1..Len(a) /\ DOMAIN b = 1..Len(b)
  OBVIOUS
<1>3. CASE j \in 1..Len(a)
  <2>1. i \in 1..Len(a)
    BY <1>1, <1>3
  <2>. QED BY <2>1, <1>1, <1>2, <1>3 DEF Closes
<1>4. CASE i \in 1..Len(a) /\ j \notin 1..Len(a)
  <2>1. Contains(a, "run.cancelled")
    BY <1>1, <1>4 DEF Contains
  <2>. QED BY <2>1, <1>1, <1>2, <1>4
<1>5. CASE i \notin 1..Len(a) /\ j \notin 1..Len(a)
  BY <1>1, <1>2, <1>5 DEF Closes
<1>. QED BY <1>3, <1>4, <1>5

----------------------------------------------------------------------------
(* A step of one session disturbs only what that session knows.            *)
LEMMA OneSession ==
  ASSUME SessionsInv, NEW s \in Session, SessionTypes',
         \A x \in Session \ {s} : run'[x] = run[x] /\ log'[x] = log[x],
         Knows(s)', Closes(log'[s])
  PROVE  SessionsInv'
<1>1. ASSUME NEW x \in Session PROVE Knows(x)' /\ Closes(log'[x])
  <2>1. CASE x = s
    BY <2>1
  <2>2. CASE x # s
    <3>1. Knows(x) /\ Closes(log[x])
      BY DEF SessionsInv, ChainInv, NothingAfterCancel, Closes
    <3>2. run'[x] = run[x] /\ log'[x] = log[x]
      BY <2>2
    <3>. QED BY <3>1, <3>2 DEF Knows
  <2>. QED BY <2>1, <2>2
<1>2. NothingAfterCancel'
  BY <1>1 DEF NothingAfterCancel, Closes
<1>. QED BY <1>1, <1>2 DEF SessionsInv, ChainInv

(* A step that emits nothing and leaves the row of the session alone.      *)
LEMMA NoSession ==
  ASSUME SessionsInv, SessionTypes', run' = run, log' = log
  PROVE  SessionsInv'
BY DEF SessionsInv, ChainInv, Knows, NothingAfterCancel

LEMMA RowFields ==
  ASSUME SessionTypes, NEW s \in Session
  PROVE  /\ run[s] \in RunRow /\ thread[s] \in ThreadRow /\ log[s] \in Seq(EventTypes)
         /\ run[s].pin \in Genome /\ run[s].cancel \in Nat /\ thread[s].baseline \in Genome
         /\ thread[s].baseline.id \in Nat /\ thread[s].baseline.gen \in Nat
         /\ run[s].pin.id \in Nat /\ run[s].used \in SUBSET Nat
BY DEF SessionTypes, RunRow, ThreadRow, Genome

LEMMA Constants ==
  /\ Bootstrap \in Genome
  /\ NoRun \in RunRow /\ NoThread \in ThreadRow
  /\ MaxGenomes \in Nat /\ MaxSteps \in Nat
<1>1. Bootstrap \in Genome
  BY DEF Bootstrap, Genome
<1>. QED BY <1>1, SessionsAssumption DEF NoRun, NoThread, RunRow, ThreadRow

LEMMA EmitsType ==
  ASSUME SessionTypes, NEW s \in Session, NEW types \in Seq(EventTypes), Emit(s, types)
  PROVE  /\ log' \in [Session -> Seq(EventTypes)]
         /\ log'[s] = log[s] \o types
         /\ \A x \in Session \ {s} : log'[x] = log[x]
BY DEF SessionTypes, Emit

LEMMA InitHolds == SessionsInit => SessionsInv
<1> SUFFICES ASSUME SessionsInit PROVE SessionsInv
  OBVIOUS
<1>1. SessionTypes
  BY Constants DEF SessionsInit, SessionTypes
<1>2. \A s \in Session : Knows(s)
  BY EmptyContainsNothing DEF SessionsInit, Knows, NoRun
<1>3. NothingAfterCancel
  BY DEF SessionsInit, NothingAfterCancel
<1>. QED BY <1>1, <1>2, <1>3 DEF SessionsInv, ChainInv

----------------------------------------------------------------------------
LEMMA StartRunStep ==
  ASSUME SessionsInv, NEW s \in Session, NEW p \in Process, StartRun(s, p)
  PROVE  SessionsInv'
<1>1. SessionTypes
  BY DEF SessionsInv
<1>. DEFINE row == [NoRun EXCEPT !.pc = "created", !.proc = p]
<1>2. row \in RunRow /\ row.pc = "created" /\ row.proc = p /\ row.cancel = 0 /\ ~row.summary
  BY Constants DEF NoRun, RunRow
<1>3. run' = [run EXCEPT ![s] = row] /\ log' = log
  BY DEF StartRun
<1>. HIDE DEF row
<1>4. SessionTypes'
  BY <1>1, <1>2, <1>3 DEF SessionTypes, StartRun
<1>5. log[s] = <<>>
  BY DEF StartRun, SessionsInv, ChainInv, Knows
<1>6. run'[s] = row /\ log'[s] = <<>>
  BY <1>1, <1>3, <1>5 DEF SessionTypes
<1>7. Knows(s)'
  BY <1>2, <1>6, EmptyContainsNothing DEF Knows
<1>8. Closes(log'[s])
  BY <1>6 DEF Closes
<1>9. \A x \in Session \ {s} : run'[x] = run[x] /\ log'[x] = log[x]
  BY <1>1, <1>3 DEF SessionTypes
<1>. QED BY <1>4, <1>7, <1>8, <1>9, OneSession

(* What an uncancelled session at a point before its end may append.       *)
LEMMA Uncancelled ==
  ASSUME SessionsInv, NEW s \in Session, run[s].cancel = 0,
         run[s].pc \notin {"cancelled", "lost"}
  PROVE  ~Contains(log[s], "run.cancelled") /\ Closes(log[s])
BY DEF SessionsInv, ChainInv, Knows, NothingAfterCancel, Closes

(* A session that is not cancelled appends some event types and goes on to *)
(* a row that is backed by its chain.                                      *)
LEMMA Appends ==
  ASSUME SessionsInv, SessionTypes', NEW s \in Session, NEW row \in RunRow,
         NEW types \in Seq(EventTypes),
         run[s].cancel = 0, run[s].pc \notin {"cancelled", "lost"},
         run' = [run EXCEPT ![s] = row], log' = [log EXCEPT ![s] = log[s] \o types],
         row.cancel = 0, row.pc \notin {"idle", "cancelled", "lost"}, row.proc \in Process,
         row.summary \/ row.pc \in {"evolveLock", "evolving"} =>
           Contains(log[s], "run.completed") \/ Contains(types, "run.completed"),
         row.pc = "failed" => Contains(types, "run.failed"),
         ~Contains(types, "run.cancelled")
  PROVE  SessionsInv'
<1>1. run \in [Session -> RunRow] /\ log \in [Session -> Seq(EventTypes)]
  BY DEF SessionsInv, SessionTypes
<1>2. run'[s] = row /\ log'[s] = log[s] \o types
      /\ \A x \in Session \ {s} : run'[x] = run[x] /\ log'[x] = log[x]
  BY <1>1
<1>3. ~Contains(log[s], "run.cancelled") /\ Closes(log[s])
  BY Uncancelled
<1>4. ASSUME NEW e PROVE Contains(log'[s], e) <=> Contains(log[s], e) \/ Contains(types, e)
  BY <1>1, <1>2, ContainsAppended
<1>5. Knows(s)'
  <2>1. ~Contains(log'[s], "run.cancelled")
    BY <1>3, <1>4
  <2>2. row.summary \/ row.pc \in {"evolveLock", "evolving"} => Contains(log'[s], "run.completed")
    BY <1>4
  <2>3. row.pc = "failed" => Contains(log'[s], "run.failed")
    BY <1>4
  <2>4. row.cancel = 0 /\ ~(row.cancel > 0)
    OBVIOUS
  <2>. QED BY <1>2, <2>1, <2>2, <2>3, <2>4 DEF Knows
<1>6. Closes(types)
  <2>1. \A i \in DOMAIN types : types[i] # "run.cancelled"
    BY DEF Contains
  <2>. QED BY <2>1 DEF Closes
<1>7. Closes(log'[s])
  BY <1>1, <1>2, <1>3, <1>6, ClosesAppended
<1>. QED BY <1>2, <1>5, <1>7, OneSession

(* A session that is not cancelled goes on without an event.               *)
LEMMA Moves ==
  ASSUME SessionsInv, SessionTypes', NEW s \in Session, NEW row \in RunRow,
         run[s].cancel = 0, run[s].pc \notin {"cancelled", "lost"},
         run' = [run EXCEPT ![s] = row], log' = log,
         row.cancel = 0, row.pc \notin {"idle", "cancelled", "lost", "failed"},
         row.proc \in Process,
         row.summary \/ row.pc \in {"evolveLock", "evolving"} =>
           Contains(log[s], "run.completed")
  PROVE  SessionsInv'
<1>1. run \in [Session -> RunRow] /\ log \in [Session -> Seq(EventTypes)]
  BY DEF SessionsInv, SessionTypes
<1>2. run'[s] = row /\ log'[s] = log[s]
      /\ \A x \in Session \ {s} : run'[x] = run[x] /\ log'[x] = log[x]
  BY <1>1
<1>3. ~Contains(log[s], "run.cancelled") /\ Closes(log[s])
  BY Uncancelled
<1>4. Knows(s)'
  BY <1>2, <1>3 DEF Knows
<1>. QED BY <1>2, <1>3, <1>4, OneSession

----------------------------------------------------------------------------
LEMMA BeginStep ==
  ASSUME SessionsInv, NEW s \in Session, Begin(s)
  PROVE  SessionsInv'
<1>1. SessionTypes
  BY DEF SessionsInv
<1>2. /\ run[s] \in RunRow /\ log[s] \in Seq(EventTypes) /\ run[s].pc = "created"
      /\ run[s].cancel = 0 /\ run[s].proc \in Process /\ Knows(s)
  BY <1>1, RowFields DEF Begin, At, SessionsInv, ChainInv, Knows
<1>. DEFINE row == [run[s] EXCEPT !.pc = "sleeping", !.pin = file, !.left = MaxSteps]
<1>3. row \in RunRow /\ row.pc = "sleeping" /\ row.cancel = 0
      /\ row.summary = run[s].summary /\ row.proc = run[s].proc
  BY <1>1, <1>2, Constants DEF RunRow, SessionTypes
<1>4. run' = [run EXCEPT ![s] = row]
  BY <1>1 DEF Begin, SessionTypes
<1>. HIDE DEF row
<1>5. log' = [log EXCEPT ![s] = log[s] \o <<"run.started">>]
  BY DEF Begin, Emit
<1>8. <<"run.started">> \in Seq(EventTypes)
  BY OneTyped DEF EventTypes
<1>6. log' \in [Session -> Seq(EventTypes)]
  BY <1>1, <1>2, <1>5, <1>8 DEF SessionTypes
<1>7. SessionTypes'
  BY <1>1, <1>2, <1>3, <1>4, <1>6 DEF SessionTypes, Begin
<1>10. ~Contains(<<"run.started">>, "run.cancelled")
  BY OneContains
<1>9. row.summary => Contains(log[s], "run.completed")
  BY <1>2, <1>3 DEF Knows
<1>. QED BY <1>2, <1>3, <1>4, <1>5, <1>7, <1>8, <1>9, <1>10, Appends

LEMMA DecisionStepStep ==
  ASSUME SessionsInv, NEW s \in Session, DecisionStep(s)
  PROVE  SessionsInv'
<1>1. SessionTypes
  BY DEF SessionsInv
<1>2. /\ run[s] \in RunRow /\ run[s].pc = "sleeping" /\ run[s].left > 0
      /\ run[s].cancel = 0 /\ run[s].proc \in Process /\ Knows(s)
  BY <1>1, RowFields DEF DecisionStep, At, SessionsInv, ChainInv, Knows
<1>3. RolloutGenome(s).id \in Nat /\ run[s].pin.id \in Nat /\ run[s].used \in SUBSET Nat
  BY <1>1, <1>2, RowFields DEF RolloutGenome, SessionTypes, Genome
<1>. DEFINE used == run[s].used \cup {run[s].pin.id, RolloutGenome(s).id}
            row == [run[s] EXCEPT !.left = run[s].left - 1, !.used = used]
<1>4. used \in SUBSET Nat
  BY <1>3
<1>5. run' = [run EXCEPT ![s] = row]
  BY <1>1 DEF DecisionStep, SessionTypes
<1>. HIDE DEF used
<1>9. run[s].left - 1 \in Nat
  BY <1>2 DEF RunRow
<1>6. row \in RunRow /\ row.pc = "sleeping" /\ row.cancel = 0
      /\ row.summary = run[s].summary /\ row.proc = run[s].proc
  <2>1. row.pc = run[s].pc /\ row.cancel = run[s].cancel
        /\ row.summary = run[s].summary /\ row.proc = run[s].proc
    BY <1>2 DEF RunRow
  <2>2. row \in RunRow
    BY <1>2, <1>4, <1>9 DEF RunRow
  <2>. QED BY <1>2, <2>1, <2>2
<1>. HIDE DEF row
<1>7. SessionTypes'
  BY <1>1, <1>5, <1>6 DEF SessionTypes, DecisionStep
<1>8. row.summary => Contains(log[s], "run.completed")
  BY <1>2, <1>6 DEF Knows
<1>. QED BY <1>2, <1>5, <1>6, <1>7, <1>8, Moves DEF DecisionStep

LEMMA AwaitPolicyLockStep ==
  ASSUME SessionsInv, NEW s \in Session, AwaitPolicyLock(s)
  PROVE  SessionsInv'
<1>1. SessionTypes
  BY DEF SessionsInv
<1>2. /\ run[s] \in RunRow /\ run[s].pc = "sleeping"
      /\ run[s].cancel = 0 /\ run[s].proc \in Process /\ Knows(s)
  BY <1>1, RowFields DEF AwaitPolicyLock, At, SessionsInv, ChainInv, Knows
<1>. DEFINE row == [run[s] EXCEPT !.pc = "policyLock"]
<1>3. row \in RunRow /\ row.pc = "policyLock" /\ row.cancel = 0
      /\ row.summary = run[s].summary /\ row.proc = run[s].proc
  BY <1>2 DEF RunRow
<1>4. run' = [run EXCEPT ![s] = row]
  BY <1>1 DEF AwaitPolicyLock, Goes, SessionTypes
<1>. HIDE DEF row
<1>5. SessionTypes'
  BY <1>1, <1>3, <1>4 DEF SessionTypes, AwaitPolicyLock
<1>6. row.summary => Contains(log[s], "run.completed")
  BY <1>2, <1>3 DEF Knows
<1>. QED BY <1>2, <1>3, <1>4, <1>5, <1>6, Moves DEF AwaitPolicyLock

LEMMA CommitPolicyStep ==
  ASSUME SessionsInv, NEW s \in Session, CommitPolicy(s)
  PROVE  SessionsInv'
<1>1. SessionTypes
  BY DEF SessionsInv
<1>2. /\ run[s] \in RunRow /\ log[s] \in Seq(EventTypes) /\ run[s].pc = "policyLock"
      /\ run[s].cancel = 0 /\ run[s].proc \in Process
      /\ UNCHANGED <<file, active, minted, thread>>
  BY <1>1, RowFields DEF CommitPolicy, At, SessionsInv, ChainInv, Knows
<1>3. CASE /\ Emit(s, <<"run.completed">>)
           /\ run' = [run EXCEPT ![s].pc = "completed", ![s].summary = TRUE]
  <2>. DEFINE row == [run[s] EXCEPT !.pc = "completed", !.summary = TRUE]
  <2>1. row \in RunRow /\ row.pc = "completed" /\ row.cancel = 0 /\ row.proc = run[s].proc
    BY <1>2 DEF RunRow
  <2>2. run' = [run EXCEPT ![s] = row]
    BY <1>1, <1>3 DEF SessionTypes
  <2>. HIDE DEF row
  <2>3. log' = [log EXCEPT ![s] = log[s] \o <<"run.completed">>]
    BY <1>3 DEF Emit
  <2>7. <<"run.completed">> \in Seq(EventTypes)
    BY OneTyped DEF EventTypes
  <2>4. log' \in [Session -> Seq(EventTypes)]
    BY <1>1, <1>2, <2>3, <2>7 DEF SessionTypes
  <2>5. SessionTypes'
    BY <1>1, <1>2, <2>1, <2>2, <2>4 DEF SessionTypes
  <2>6. /\ Contains(<<"run.completed">>, "run.completed")
        /\ ~Contains(<<"run.completed">>, "run.cancelled")
    BY OneContains
  <2>. QED BY <1>2, <2>1, <2>2, <2>3, <2>5, <2>6, <2>7, Appends
<1>4. CASE /\ Emit(s, <<"run.completed", "harness.evolution.started">>)
           /\ Goes(s, "evolveLock")
  <2>. DEFINE row == [run[s] EXCEPT !.pc = "evolveLock"]
              types == <<"run.completed", "harness.evolution.started">>
  <2>1. row \in RunRow /\ row.pc = "evolveLock" /\ row.cancel = 0 /\ row.proc = run[s].proc
    BY <1>2 DEF RunRow
  <2>2. run' = [run EXCEPT ![s] = row]
    BY <1>1, <1>4 DEF SessionTypes, Goes
  <2>. HIDE DEF row
  <2>3. log' = [log EXCEPT ![s] = log[s] \o types]
    BY <1>4 DEF Emit
  <2>4. types \in Seq(EventTypes)
    BY TwoTyped DEF EventTypes
  <2>5. Contains(types, "run.completed") /\ ~Contains(types, "run.cancelled")
    BY TwoContain
  <2>. HIDE DEF types
  <2>6. log' \in [Session -> Seq(EventTypes)]
    BY <1>1, <1>2, <2>3, <2>4 DEF SessionTypes
  <2>7. SessionTypes'
    BY <1>1, <1>2, <2>1, <2>2, <2>6 DEF SessionTypes
  <2>. QED BY <1>2, <2>1, <2>2, <2>3, <2>4, <2>5, <2>7, Appends
<1>. QED BY <1>3, <1>4 DEF CommitPolicy

LEMMA EvolveStep ==
  ASSUME SessionsInv, NEW s \in Session, Evolve(s)
  PROVE  SessionsInv'
<1>1. SessionTypes
  BY DEF SessionsInv
<1>2. /\ run[s] \in RunRow /\ run[s].pc = "evolveLock" /\ run[s].pin \in Genome
      /\ run[s].cancel = 0 /\ run[s].proc \in Process /\ Knows(s)
  BY <1>1, RowFields DEF Evolve, At, SessionsInv, ChainInv, Knows
<1>. DEFINE row == [run[s] EXCEPT !.pc = "evolving"]
            searching == [NoThread EXCEPT !.state = "search", !.baseline = run[s].pin]
<1>3. row \in RunRow /\ row.pc = "evolving" /\ row.cancel = 0 /\ row.proc = run[s].proc
  BY <1>2 DEF RunRow
<1>4. searching \in ThreadRow
  BY <1>2, Constants DEF ThreadRow
<1>5. run' = [run EXCEPT ![s] = row] /\ thread' = [thread EXCEPT ![s] = searching]
  BY <1>1 DEF Evolve, Goes, SessionTypes
<1>. HIDE DEF row, searching
<1>6. SessionTypes'
  BY <1>1, <1>3, <1>4, <1>5 DEF SessionTypes, Evolve
<1>7. Contains(log[s], "run.completed")
  BY <1>2 DEF Knows
<1>. QED BY <1>2, <1>3, <1>5, <1>6, <1>7, Moves DEF Evolve

LEMMA SearchEndsStep ==
  ASSUME SessionsInv, NEW s \in Session, SearchEnds(s)
  PROVE  /\ SessionsInv'
         /\ file' # file => file'.against = file.id /\ file'.gen > file.gen
<1>1. SessionTypes
  BY DEF SessionsInv
<1>2. /\ thread[s] \in ThreadRow /\ thread[s].baseline \in Genome
      /\ thread[s].baseline.id \in Nat /\ thread[s].baseline.gen \in Nat
      /\ run' = run /\ log' = log
  BY <1>1, RowFields DEF SearchEnds
<1>3. CASE /\ thread' = [thread EXCEPT ![s].state = "rejected"]
           /\ UNCHANGED <<file, active, minted>>
  <2>1. [thread[s] EXCEPT !.state = "rejected"] \in ThreadRow
    BY <1>2 DEF ThreadRow
  <2>2. thread' \in [Session -> ThreadRow]
    BY <1>1, <1>3, <2>1 DEF SessionTypes
  <2>3. SessionTypes'
    BY <1>1, <1>2, <1>3, <2>2 DEF SessionTypes
  <2>. QED BY <1>2, <1>3, <2>3, NoSession
<1>4. ASSUME minted' = minted + 1, NEW ahead \in 1..2,
             LET genome == [id |-> minted + 1, gen |-> thread[s].baseline.gen + ahead,
                            against |-> thread[s].baseline.id]
                 wins == Promotable(genome, thread[s].baseline)
             IN /\ file' = IF wins THEN genome ELSE file
                /\ active' = [active EXCEPT ![run[s].proc] = IF wins THEN genome ELSE file]
                /\ thread' = [thread EXCEPT ![s].state = "gated", ![s].promoted = wins]
      PROVE  /\ SessionsInv'
             /\ file' # file => file'.against = file.id /\ file'.gen > file.gen
  <2>. DEFINE genome == [id |-> minted + 1, gen |-> thread[s].baseline.gen + ahead,
                         against |-> thread[s].baseline.id]
              wins == Promotable(genome, thread[s].baseline)
              gated == [thread[s] EXCEPT !.state = "gated", !.promoted = wins]
  <2>1. genome \in Genome /\ file \in Genome /\ file.gen \in Nat /\ minted' \in Nat
    BY <1>1, <1>2, <1>4 DEF Genome, SessionTypes
  <2>2. /\ genome.against = thread[s].baseline.id
        /\ genome.gen = thread[s].baseline.gen + ahead
    OBVIOUS
  <2>3. wins \in BOOLEAN /\ (wins => file.id = thread[s].baseline.id
                                     /\ file.gen = thread[s].baseline.gen)
    BY DEF Promotable
  <2>4. gated \in ThreadRow
    BY <1>2, <2>3 DEF ThreadRow
  <2>5. thread' = [thread EXCEPT ![s] = gated]
    BY <1>1, <1>4 DEF SessionTypes
  <2>6. /\ file' = IF wins THEN genome ELSE file
        /\ active' = [active EXCEPT ![run[s].proc] = IF wins THEN genome ELSE file]
    BY <1>4
  <2>. HIDE DEF genome, wins, gated
  <2>7. file' \in Genome /\ active' \in [Process -> Genome] /\ thread' \in [Session -> ThreadRow]
    BY <1>1, <2>1, <2>4, <2>5, <2>6 DEF SessionTypes
  <2>8. SessionTypes'
    BY <1>1, <1>2, <2>1, <2>7 DEF SessionTypes
  <2>9. SessionsInv'
    BY <1>2, <2>8, NoSession
  <2>10. ASSUME file' # file PROVE file'.against = file.id /\ file'.gen > file.gen
    <3>1. wins /\ file' = genome
      BY <2>6, <2>10
    <3>. QED BY <1>2, <2>1, <2>2, <2>3, <3>1
  <2>. QED BY <2>9, <2>10
<1>. QED BY <1>3, <1>4 DEF SearchEnds

LEMMA SearchFailsStep ==
  ASSUME SessionsInv, NEW s \in Session, SearchFails(s)
  PROVE  SessionsInv'
<1>1. SessionTypes /\ thread[s] \in ThreadRow
  BY RowFields DEF SessionsInv
<1>2. [thread[s] EXCEPT !.state = "error"] \in ThreadRow
  BY <1>1 DEF ThreadRow
<1>3. thread' \in [Session -> ThreadRow]
  BY <1>1, <1>2 DEF SessionTypes, SearchFails
<1>4. SessionTypes' /\ run' = run /\ log' = log
  BY <1>1, <1>3 DEF SessionTypes, SearchFails
<1>. QED BY <1>4, NoSession

LEMMA ResumeStep ==
  ASSUME SessionsInv, NEW s \in Session, Resume(s)
  PROVE  SessionsInv'
<1>1. SessionTypes
  BY DEF SessionsInv
<1>2. /\ run[s] \in RunRow /\ log[s] \in Seq(EventTypes) /\ run[s].pc = "evolving"
      /\ run[s].cancel = 0 /\ run[s].proc \in Process /\ Knows(s)
  BY <1>1, RowFields DEF Resume, At, SessionsInv, ChainInv, Knows
<1>. DEFINE row == [run[s] EXCEPT !.pc = "completed", !.summary = TRUE]
<1>3. row \in RunRow /\ row.pc = "completed" /\ row.cancel = 0 /\ row.proc = run[s].proc
  BY <1>2 DEF RunRow
<1>4. run' = [run EXCEPT ![s] = row]
  BY <1>1 DEF Resume, SessionTypes
<1>. HIDE DEF row
<1>5. PICK types \in {<<"harness.evolution">>, <<"harness.evolution", "harness.promoted">>,
                      <<"harness.evolution", "harness.promotion.stale">>} : Emit(s, types)
  BY DEF Resume
<1>6. types \in Seq(EventTypes)
  BY OneTyped, TwoTyped DEF EventTypes
<1>7. ~Contains(types, "run.cancelled")
  <2>1. CASE types = <<"harness.evolution">>
    BY <2>1, OneContains
  <2>2. CASE types # <<"harness.evolution">>
    BY <2>2, TwoContain
  <2>. QED BY <2>1, <2>2
<1>8. log' = [log EXCEPT ![s] = log[s] \o types] /\ Contains(log[s], "run.completed")
  BY <1>2, <1>5 DEF Emit, Knows
<1>9. active' \in [Process -> Genome]
  BY <1>1 DEF Resume, SessionTypes
<1>10. log' \in [Session -> Seq(EventTypes)]
  BY <1>1, <1>2, <1>6, <1>8 DEF SessionTypes
<1>11. SessionTypes'
  <2>1. thread' \in [Session -> ThreadRow]
    BY <1>1, Constants DEF SessionTypes, Resume
  <2>2. run' \in [Session -> RunRow]
    BY <1>1, <1>3, <1>4 DEF SessionTypes
  <2>. QED BY <1>1, <1>9, <1>10, <2>1, <2>2 DEF SessionTypes, Resume
<1>. QED BY <1>2, <1>3, <1>4, <1>6, <1>7, <1>8, <1>11, Appends

LEMMA FailStep ==
  ASSUME SessionsInv, NEW s \in Session, Fail(s)
  PROVE  SessionsInv'
<1>1. SessionTypes
  BY DEF SessionsInv
<1>2. /\ run[s] \in RunRow /\ log[s] \in Seq(EventTypes)
      /\ run[s].pc \in {"created", "sleeping", "policyLock", "evolving"}
      /\ run[s].cancel = 0 /\ run[s].proc \in Process /\ Knows(s)
  BY <1>1, RowFields DEF Fail, SessionsInv, ChainInv, Knows
<1>. DEFINE row == [run[s] EXCEPT !.pc = "failed"]
<1>3. row \in RunRow /\ row.pc = "failed" /\ row.cancel = 0
      /\ row.summary = run[s].summary /\ row.proc = run[s].proc
  BY <1>2 DEF RunRow
<1>4. run' = [run EXCEPT ![s] = row]
  BY <1>1 DEF Fail, Goes, SessionTypes
<1>. HIDE DEF row
<1>5. log' = [log EXCEPT ![s] = log[s] \o <<"run.failed">>]
  BY DEF Fail, Emit
<1>6. <<"run.failed">> \in Seq(EventTypes)
  BY OneTyped DEF EventTypes
<1>7. Contains(<<"run.failed">>, "run.failed") /\ ~Contains(<<"run.failed">>, "run.cancelled")
  BY OneContains
<1>8. log' \in [Session -> Seq(EventTypes)]
  BY <1>1, <1>2, <1>5, <1>6 DEF SessionTypes
<1>9. SessionTypes'
  BY <1>1, <1>3, <1>4, <1>8, Constants DEF SessionTypes, Fail
<1>10. row.summary => Contains(log[s], "run.completed")
  BY <1>2, <1>3 DEF Knows
<1>. QED BY <1>2, <1>3, <1>4, <1>5, <1>6, <1>7, <1>9, <1>10, Appends

LEMMA CancelRunStep ==
  ASSUME SessionsInv, NEW s \in Session, CancelRun(s)
  PROVE  SessionsInv'
<1>1. SessionTypes
  BY DEF SessionsInv
<1>2. /\ run[s] \in RunRow /\ log[s] \in Seq(EventTypes) /\ run[s].pc \in Suspended
      /\ run[s].cancel \in Nat /\ Knows(s) /\ Closes(log[s])
  BY <1>1, RowFields DEF CancelRun, SessionsInv, ChainInv, NothingAfterCancel, Closes
<1>. DEFINE row == [run[s] EXCEPT !.cancel = run[s].cancel + 1]
            types == <<"run.cancelled">>
<1>3. /\ row \in RunRow /\ row.pc = run[s].pc /\ row.cancel > 0
      /\ row.summary = run[s].summary /\ row.proc = run[s].proc
  BY <1>2 DEF RunRow
<1>4. run' = [run EXCEPT ![s] = row] /\ log' = [log EXCEPT ![s] = log[s] \o types]
  BY <1>1 DEF CancelRun, Emit, SessionTypes
<1>. HIDE DEF row
<1>5. types \in Seq(EventTypes)
  BY OneTyped DEF EventTypes
<1>6. /\ run'[s] = row /\ log'[s] = log[s] \o types
      /\ \A x \in Session \ {s} : run'[x] = run[x] /\ log'[x] = log[x]
  BY <1>1, <1>4 DEF SessionTypes
<1>7. Closes(types) /\ \A j \in DOMAIN types : types[j] = "run.cancelled"
  BY DEF Closes
<1>8. \A e : Contains(types, e) <=> e = "run.cancelled"
  BY OneContains
<1>. HIDE DEF types
<1>9. Closes(log'[s])
  BY <1>2, <1>5, <1>6, <1>7, ClosesAppended
<1>10. Knows(s)'
  <2>1. ASSUME NEW e PROVE Contains(log'[s], e) <=> Contains(log[s], e) \/ Contains(types, e)
    BY <1>2, <1>5, <1>6, ContainsAppended
  <2>2. Contains(log'[s], "run.cancelled")
    BY <1>8, <2>1
  <2>3. Contains(log[s], "run.completed") => Contains(log'[s], "run.completed")
    BY <2>1
  <2>. QED BY <1>2, <1>3, <1>6, <2>2, <2>3 DEF Knows, Suspended
<1>11. SessionTypes'
  <2>1. log' \in [Session -> Seq(EventTypes)] /\ run' \in [Session -> RunRow]
    BY <1>1, <1>2, <1>3, <1>4, <1>5 DEF SessionTypes
  <2>. QED BY <1>1, <2>1 DEF SessionTypes, CancelRun
<1>. QED BY <1>6, <1>9, <1>10, <1>11, OneSession

LEMMA UnwindStep ==
  ASSUME SessionsInv, NEW s \in Session, Unwind(s)
  PROVE  SessionsInv'
<1>1. SessionTypes
  BY DEF SessionsInv
<1>2. /\ run[s] \in RunRow /\ log[s] \in Seq(EventTypes) /\ run[s].pc \in Suspended
      /\ run[s].cancel > 0 /\ Knows(s) /\ Closes(log[s])
  BY <1>1, RowFields DEF Unwind, SessionsInv, ChainInv, NothingAfterCancel, Closes
<1>. DEFINE row == [run[s] EXCEPT !.pc = "cancelled"]
<1>3. /\ row \in RunRow /\ row.pc = "cancelled" /\ row.cancel = run[s].cancel
      /\ row.summary = run[s].summary /\ row.proc = run[s].proc
  BY <1>2 DEF RunRow
<1>4. run' = [run EXCEPT ![s] = row]
  BY <1>1 DEF Unwind, Goes, SessionTypes
<1>. HIDE DEF row
<1>5. log' = log
  <2>1. log' = [log EXCEPT ![s] = log[s] \o <<>>]
    BY DEF Unwind, Emit, OnCancel
  <2>2. log[s] \o <<>> = log[s]
    BY <1>2
  <2>. QED BY <1>1, <2>1, <2>2 DEF SessionTypes
<1>6. /\ run'[s] = row
      /\ \A x \in Session \ {s} : run'[x] = run[x] /\ log'[x] = log[x]
  BY <1>1, <1>4, <1>5 DEF SessionTypes
<1>7. Knows(s)'
  BY <1>2, <1>3, <1>5, <1>6 DEF Knows, Suspended
<1>8. SessionTypes'
  BY <1>1, <1>3, <1>4, <1>5 DEF SessionTypes, Unwind
<1>. QED BY <1>2, <1>5, <1>6, <1>7, <1>8, OneSession

LEMMA RestartStep ==
  ASSUME SessionsInv, NEW p \in Process, Restart(p)
  PROVE  SessionsInv'
<1>1. SessionTypes
  BY DEF SessionsInv
<1>2. ASSUME NEW s \in Session
      PROVE  run'[s] \in RunRow /\ thread'[s] \in ThreadRow /\ Knows(s)'
  <2>1. run[s] \in RunRow /\ thread[s] \in ThreadRow /\ Knows(s) /\ log'[s] = log[s]
    BY <1>1, RowFields DEF SessionsInv, ChainInv, Restart
  <2>2. CASE run[s].proc # p
    <3>1. run'[s] = run[s] /\ thread'[s] = thread[s]
      BY <2>2 DEF Restart
    <3>. QED BY <2>1, <3>1 DEF Knows
  <2>3. CASE run[s].proc = p
    <3>1. run'[s] = [run[s] EXCEPT !.pc = "lost", !.summary = FALSE, !.cancel = 0]
          /\ thread'[s] = NoThread
      BY <2>3 DEF Restart
    <3>. DEFINE row == [run[s] EXCEPT !.pc = "lost", !.summary = FALSE, !.cancel = 0]
    <3>2. row \in RunRow
      BY ONLY <2>1 DEF RunRow
    <3>3. row.pc = "lost" /\ row.cancel = 0 /\ ~row.summary
      BY ONLY <2>1 DEF RunRow
    <3>. QED BY <2>1, <3>1, <3>2, <3>3, Constants DEF Knows
  <2>. QED BY <2>2, <2>3
<1>3. run' \in [Session -> RunRow] /\ thread' \in [Session -> ThreadRow]
  BY <1>2 DEF Restart
<1>4. SessionTypes'
  BY <1>1, <1>3 DEF SessionTypes, Restart
<1>5. NothingAfterCancel'
  BY DEF SessionsInv, ChainInv, NothingAfterCancel, Restart
<1>. QED BY <1>2, <1>4, <1>5 DEF SessionsInv, ChainInv

----------------------------------------------------------------------------
LEMMA NextHolds ==
  ASSUME SessionsInv, [SessionsNext]_sessionVars
  PROVE  /\ SessionsInv'
         /\ file' # file => file'.against = file.id /\ file'.gen > file.gen
<1>1. CASE UNCHANGED sessionVars
  BY <1>1 DEF sessionVars, SessionsInv, SessionTypes, ChainInv, Knows, NothingAfterCancel
<1>2. ASSUME NEW s \in Session, SearchEnds(s)
      PROVE  /\ SessionsInv'
             /\ file' # file => file'.against = file.id /\ file'.gen > file.gen
  BY <1>2, SearchEndsStep
<1>3. ASSUME NEW s \in Session,
             \/ \E p \in Process : StartRun(s, p)
             \/ Begin(s) \/ DecisionStep(s) \/ AwaitPolicyLock(s) \/ CommitPolicy(s)
             \/ Evolve(s) \/ SearchFails(s) \/ Resume(s) \/ Fail(s) \/ CancelRun(s) \/ Unwind(s)
      PROVE  SessionsInv' /\ file' = file
  <2>1. file' = file
    BY <1>3 DEF StartRun, Begin, DecisionStep, AwaitPolicyLock, CommitPolicy, Evolve,
                SearchFails, Resume, Fail, CancelRun, Unwind
  <2>. QED BY <1>3, <2>1, StartRunStep, BeginStep, DecisionStepStep, AwaitPolicyLockStep,
              CommitPolicyStep, EvolveStep, SearchFailsStep, ResumeStep, FailStep,
              CancelRunStep, UnwindStep
<1>4. ASSUME NEW p \in Process, Restart(p) PROVE SessionsInv' /\ file' = file
  BY <1>4, RestartStep DEF Restart
<1>. QED BY <1>1, <1>2, <1>3, <1>4 DEF SessionsNext

(* What the engines, the threads and the manager know of every run, with   *)
(* the types, is an inductive invariant (manager.py, self_evolving_engine, *)
(* harness_genome.py).                                                     *)
THEOREM SessionsInductive == SessionsSpec => []SessionsInv
<1>1. SessionsInit => SessionsInv
  BY InitHolds
<1>2. SessionsInv /\ [SessionsNext]_sessionVars => SessionsInv'
  BY NextHolds
<1>. QED BY <1>1, <1>2, PTL DEF SessionsSpec

(* status() tells what the durable chain says, and nothing but another     *)
(* cancellation follows run.cancelled (manager.py:62-108), however many    *)
(* sessions, processes and restarts interleave.                            *)
THEOREM RecordsAgree == SessionsSpec => []RunRecords
<1>1. SessionsInv => RunRecords
  BY DEF SessionsInv, ChainInv, Knows, RunRecords, StatusIsRecorded, Status, Suspended
<1>. QED BY <1>1, SessionsInductive, PTL

(* The durable genome is only ever replaced by a candidate that was        *)
(* evaluated against it, and its generation grows (harness_genome.py       *)
(* promote), whichever processes and searches race.                        *)
THEOREM PromotionIsCAS == SessionsSpec => PromotesItsBaseline
<1>1. SessionsInv /\ [SessionsNext]_sessionVars
        => [file' # file => file'.against = file.id /\ file'.gen > file.gen]_file
  BY NextHolds
<1>. QED BY <1>1, SessionsInductive, PTL DEF SessionsSpec, PromotesItsBaseline
=============================================================================
