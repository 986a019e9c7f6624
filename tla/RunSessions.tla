---------------------------- MODULE RunSessions ----------------------------
(* Runs as the run manager, the self-evolving engine and the genome store     *)
(* see them (worldforge/api/manager.py, runtime/self_evolving_engine.py,      *)
(* runtime/harness_genome.py, the end of runtime/engine.py run): sessions are *)
(* coroutines of a process, so everything between two awaits is one step;     *)
(* evolution runs in a thread that outlives the coroutine that awaits it; the *)
(* active genome is one file that several processes promote by compare and    *)
(* swap under a file lock.                                                    *)
EXTENDS Integers, Sequences, SequencesExt, FiniteSets

CONSTANTS Session, Process,
          MaxGenomes,  \* genomes the searches may mint (a bound)
          MaxPolicy,   \* policy generations (a bound)
          MaxSteps,    \* decision steps of a run (a bound)
          MaxRestarts  \* process restarts (a bound)

ASSUME SessionsAssumption ==
  {MaxGenomes, MaxPolicy, MaxSteps, MaxRestarts} \subseteq Nat

VARIABLES file,     \* the durable genome: [id, gen, against], against the id of
                    \* the baseline it was evaluated against
          active,   \* HarnessGenomeStore._active of each process
          minted,   \* genomes made so far
          policy, policyFile, \* policy generation of a process, and on disk
          run,      \* session -> what its coroutine holds
          lock,     \* process -> the session that holds _evolution_lock
          thread,   \* session -> its evolve() call
          log,      \* session -> event types, in the order of their seq
          restarts

sessionVars == <<file, active, minted, policy, policyFile, run, lock, thread, log, restarts>>

Nobody == "nobody"
Bootstrap == [id |-> 0, gen |-> 1, against |-> 0]
NoThread == [state |-> "none", baseline |-> Bootstrap, promoted |-> FALSE]
NoRun == [pc |-> "idle", proc |-> Nobody, pin |-> Bootstrap, used |-> {}, left |-> 0,
          cancel |-> 0, summary |-> FALSE]

Suspended == {"created", "sleeping", "policyLock", "evolveLock", "evolving"}
Ended == {"completed", "failed", "cancelled", "lost"}

SessionsInit ==
  /\ file = Bootstrap
  /\ active = [p \in Process |-> Bootstrap]
  /\ minted = 0
  /\ policy = [p \in Process |-> 1] /\ policyFile = 1
  /\ run = [s \in Session |-> NoRun]
  /\ lock = [p \in Process |-> Nobody]
  /\ thread = [s \in Session |-> NoThread]
  /\ log = [s \in Session |-> <<>>]
  /\ restarts = 0

At(s, pc) == run[s].pc = pc /\ run[s].cancel = 0
Emit(s, types) == log' = [log EXCEPT ![s] = @ \o types]
Goes(s, pc) == run' = [run EXCEPT ![s].pc = pc]

\* RunManager.start: the task exists, its first step has not run.
StartRun(s, p) ==
  /\ run[s].pc = "idle"
  /\ run' = [run EXCEPT ![s] = [NoRun EXCEPT !.pc = "created", !.proc = p]]
  /\ UNCHANGED <<file, active, minted, policy, policyFile, lock, thread, log, restarts>>

\* The first step: refresh the process's genome from the file, pin it, create
\* the session and run to the first sleep.
Begin(s) ==
  /\ At(s, "created")
  /\ active' = [active EXCEPT ![run[s].proc] = file]
  /\ run' = [run EXCEPT ![s].pc = "sleeping", ![s].pin = file, ![s].left = MaxSteps]
  /\ Emit(s, <<"run.started">>)
  /\ UNCHANGED <<file, minted, policy, policyFile, lock, thread, restarts>>

\* variant: the rollouts inherit the context of the run.
PinnedGenome(s) == run[s].pin
\* CounterfactualBrancher.evaluate: the rollouts run in threads of a pool, which
\* do not inherit the ContextVar that pins the genome, and read the active one.
RolloutGenome(s) == active[run[s].proc]

\* One decision step, up to the sleep that ends it.
DecisionStep(s) ==
  /\ At(s, "sleeping") /\ run[s].left > 0
  /\ run' = [run EXCEPT ![s].left = @ - 1,
                        ![s].used = @ \cup {run[s].pin.id, RolloutGenome(s).id}]
  /\ UNCHANGED <<file, active, minted, policy, policyFile, lock, thread, log, restarts>>

\* The run asks for the evolution lock, or takes it and goes on at once.
AwaitPolicyLock(s) ==
  /\ At(s, "sleeping")
  /\ Goes(s, "policyLock")
  /\ UNCHANGED <<file, active, minted, policy, policyFile, lock, thread, log, restarts>>

\* Under the lock, without an await: the policy gate and its save, then
\* run.completed; a run without evidence to evolve from is over.
CommitPolicy(s) ==
  LET p == run[s].proc IN
  /\ At(s, "policyLock") /\ lock[p] = Nobody
  /\ \/ UNCHANGED <<policy, policyFile>>
     \/ /\ policy[p] < MaxPolicy
        /\ policy' = [policy EXCEPT ![p] = @ + 1]
        /\ policyFile' = policy[p] + 1
  /\ \/ /\ Emit(s, <<"run.completed">>)
        /\ run' = [run EXCEPT ![s].pc = "completed", ![s].summary = TRUE]
     \/ /\ Emit(s, <<"run.completed", "harness.evolution.started">>)
        /\ Goes(s, "evolveLock")
  /\ UNCHANGED <<file, active, minted, lock, thread, restarts>>

\* evolve() starts in a thread, with the pinned genome as its baseline.
Evolve(s) ==
  LET p == run[s].proc IN
  /\ At(s, "evolveLock") /\ lock[p] = Nobody
  /\ lock' = [lock EXCEPT ![p] = s]
  /\ Goes(s, "evolving")
  /\ thread' = [thread EXCEPT ![s] = [NoThread EXCEPT !.state = "search", !.baseline = run[s].pin]]
  /\ UNCHANGED <<file, active, minted, policy, policyFile, log, restarts>>

\* variant: only the generation numbers are compared.
GenerationOnly(genome, baseline) == genome.gen > file.gen
\* HarnessGenomeStore.promote, under the file lock: the durable genome is still
\* the baseline the candidate was evaluated against.
Promotable(genome, baseline) == file.id = baseline.id /\ file.gen = baseline.gen

\* The thread ends: no candidate passed, or the champion is promoted or stale.
\* Refined candidates are several generations ahead of the baseline.
SearchEnds(s) ==
  /\ thread[s].state = "search"
  /\ \/ /\ thread' = [thread EXCEPT ![s].state = "rejected"]
        /\ UNCHANGED <<file, active, minted>>
     \/ /\ minted < MaxGenomes
        /\ minted' = minted + 1
        /\ \E ahead \in 1..2 :
             LET genome == [id |-> minted + 1, gen |-> thread[s].baseline.gen + ahead,
                            against |-> thread[s].baseline.id]
                 wins == Promotable(genome, thread[s].baseline)
             IN /\ file' = IF wins THEN genome ELSE file
                /\ active' = [active EXCEPT ![run[s].proc] = IF wins THEN genome ELSE file]
                /\ thread' = [thread EXCEPT ![s].state = "gated", ![s].promoted = wins]
  /\ UNCHANGED <<policy, policyFile, run, lock, log, restarts>>

\* The search raised (storage error): the coroutine gets the exception.
SearchFails(s) ==
  /\ thread[s].state = "search"
  /\ thread' = [thread EXCEPT ![s].state = "error"]
  /\ UNCHANGED <<file, active, minted, policy, policyFile, run, lock, log, restarts>>

\* The coroutine resumes with the result: evolution events, then the summary.
Resume(s) ==
  LET p == run[s].proc IN
  /\ At(s, "evolving") /\ thread[s].state \in {"rejected", "gated"}
  /\ lock' = [lock EXCEPT ![p] = Nobody]
  /\ run' = [run EXCEPT ![s].pc = "completed", ![s].summary = TRUE]
  /\ \/ thread[s].state = "rejected" /\ Emit(s, <<"harness.evolution">>) /\ UNCHANGED active
     \/ /\ thread[s].state = "gated"
        /\ Emit(s, <<"harness.evolution",
                     IF thread[s].promoted THEN "harness.promoted" ELSE "harness.promotion.stale">>)
        /\ active' = [active EXCEPT ![p] = file]
  /\ thread' = [thread EXCEPT ![s] = NoThread]
  /\ UNCHANGED <<file, minted, policy, policyFile, restarts>>

Unlocked(s) == [p \in Process |-> IF lock[p] = s THEN Nobody ELSE lock[p]]

\* execute(): any exception is recorded and sent to the subscribers.
Fail(s) ==
  /\ run[s].cancel = 0
  /\ \/ run[s].pc \in {"created", "sleeping"}
     \/ run[s].pc = "policyLock" /\ lock[run[s].proc] = Nobody  \* the save raised
     \/ run[s].pc = "evolving" /\ thread[s].state = "error"
  /\ Emit(s, <<"run.failed">>)
  /\ lock' = Unlocked(s)
  /\ thread' = [thread EXCEPT ![s] = NoThread]
  /\ Goes(s, "failed")
  /\ UNCHANGED <<file, active, minted, policy, policyFile, restarts>>

\* RunManager.cancel: request, and record, before the task has seen it.
CancelRun(s) ==
  /\ run[s].pc \in Suspended /\ run[s].cancel < 2
  /\ run' = [run EXCEPT ![s].cancel = @ + 1]
  /\ Emit(s, <<"run.cancelled">>)
  /\ UNCHANGED <<file, active, minted, policy, policyFile, lock, thread, restarts>>

\* variant: the handler of failures also catches the cancellation.
CaughtCancel(s) == <<"run.failed">>
\* CancelledError is not an Exception: execute() records nothing more.
OnCancel(s) == <<>>

\* variant: the lock is released at the end of the section, not on the way out.
KeptLock(s) == lock
AsyncWithExit(s) == Unlocked(s)

\* The task resumes with the cancellation and leaves every block it was in.
\* A search thread is not interrupted and may still promote.
Unwind(s) ==
  /\ run[s].pc \in Suspended /\ run[s].cancel > 0
  /\ Goes(s, "cancelled")
  /\ Emit(s, OnCancel(s))
  /\ lock' = AsyncWithExit(s)
  /\ UNCHANGED <<file, active, minted, policy, policyFile, thread, restarts>>

\* The process ends and comes back: its tasks, threads, locks and caches are
\* gone, the genome, the policy and the events are read from disk.
Restart(p) ==
  /\ restarts < MaxRestarts /\ restarts' = restarts + 1
  /\ run' = [s \in Session |-> IF run[s].proc # p THEN run[s]
             ELSE [run[s] EXCEPT !.pc = "lost", !.summary = FALSE, !.cancel = 0]]
  /\ thread' = [s \in Session |-> IF run[s].proc = p THEN NoThread ELSE thread[s]]
  /\ lock' = [lock EXCEPT ![p] = Nobody]
  /\ active' = [active EXCEPT ![p] = file]
  /\ policy' = [policy EXCEPT ![p] = policyFile]
  /\ UNCHANGED <<file, minted, policyFile, log>>

SessionStep(s) == Begin(s) \/ AwaitPolicyLock(s) \/ CommitPolicy(s)
                  \/ Evolve(s) \/ SearchEnds(s) \/ Resume(s) \/ Unwind(s)

SessionsNext ==
  \/ \E s \in Session : \/ \E p \in Process : StartRun(s, p)
                        \/ Begin(s) \/ DecisionStep(s) \/ AwaitPolicyLock(s)
                        \/ CommitPolicy(s) \/ Evolve(s) \/ SearchEnds(s)
                        \/ SearchFails(s) \/ Resume(s) \/ Fail(s)
                        \/ CancelRun(s) \/ Unwind(s)
  \/ \E p \in Process : Restart(p)

\* The event loop resumes every ready task, a thread ends its search, and a
\* released lock reaches the waiters in turn.
SessionsFairness ==
  \A s \in Session : /\ WF_sessionVars(Begin(s) \/ AwaitPolicyLock(s) \/ SearchEnds(s)
                                       \/ Resume(s) \/ Unwind(s)
                                       \/ (Fail(s) /\ run[s].pc = "evolving"))
                     /\ SF_sessionVars(CommitPolicy(s) \/ Evolve(s))

SessionsSpec == SessionsInit /\ [][SessionsNext]_sessionVars /\ SessionsFairness
-----------------------------------------------------------------------------
\* RunManager.status.
Status(s) ==
  CASE run[s].summary -> "completed"
    [] run[s].pc = "cancelled" -> "cancelled"
    [] run[s].pc = "failed" -> "failed"
    [] run[s].pc \in Suspended -> "running"
    [] run[s].pc \notin Suspended /\ Contains(log[s], "run.completed") -> "completed"
    [] log[s] # <<>> -> "stored"
    [] OTHER -> "unknown"

\* A cancelled run is over: once run.cancelled is in the chain nothing but
\* another cancellation follows it (manager.py:93-108).
NothingAfterCancel ==
  \A s \in Session : \A i, j \in DOMAIN log[s] :
    i < j /\ log[s][i] = "run.cancelled" => log[s][j] = "run.cancelled"

\* What status() tells agrees with the durable chain (manager.py:62-91).
StatusIsRecorded ==
  \A s \in Session :
    /\ Status(s) = "completed" => Contains(log[s], "run.completed")
    /\ Status(s) = "cancelled" => Contains(log[s], "run.cancelled")
    /\ Status(s) = "failed" => Contains(log[s], "run.failed")

RunRecords == NothingAfterCancel /\ StatusIsRecorded

\* Every promotion replaces the very genome its candidate was evaluated against
\* and advances the generation, whatever the processes interleave
\* (harness_genome.py:324-360).
PromotesItsBaseline == [][file' # file => file'.against = file.id /\ file'.gen > file.gen]_file

\* A run that was started ends, whoever holds the evolution lock and whichever
\* of its neighbours is cancelled (engine.py:470, self_evolving_engine.py:132).
RunsEnd == \A s \in Session : run[s].pc = "created" ~> run[s].pc \in Ended

\* A run is decided by the one generation it pinned (self_evolving_engine.py:74).
OneGeneration == \A s \in Session : run[s].used \subseteq {run[s].pin.id}
=============================================================================
