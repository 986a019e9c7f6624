--------------------------- MODULE ContextCompile ---------------------------
(* What a job knows of its conversation (context/history_snapshot.py, the     *)
(* compiler chain of context/*compiler.py and the budget brokers): the log    *)
(* and the boundary a job freezes, the task state and the token index every   *)
(* worker process keeps incrementally, the selected messages and the pack.    *)
(* An utterance has a role, a topic to search for, a cost in characters and   *)
(* at most one statement [kind, slot, value].  The compiler never awaits: the *)
(* two steps of a run are the read of the log and the compilation.            *)
EXTENDS Arrange, SequencesExt

CONSTANTS Worker,
          Turn,           \* the analysis jobs, one for each turn of the user
          Utterances,     \* sets of [role, topic, cost, says]
          Topics,         \* topics of the queries, and NoTopic
          StateItems,     \* state_items_per_kind
          Recent, Retrieved, MessageCost, HistoryBudget,  \* of compile
          MaxHistory,     \* messages the provider adapter reads
          PackBudget,     \* characters left beside the kernel
          TokenRooms,     \* conversation rows a token profile has room for
          MaxMessages     \* bound on the log

Nothing == [kind |-> "nothing", slot |-> "", value |-> 0]
NoTopic == "no-topic"

Buckets == {"constraints", "verified_facts", "open_questions"}
BucketOf == [constraint |-> "constraints", verified |-> "verified_facts",
             premise |-> "verified_facts", question |-> "open_questions"]
EmptyState == [goal |-> 0, rows |-> [b \in Buckets |-> <<>>]]

ASSUME ContextAssumption ==
  /\ \A u \in Utterances :
       /\ u.role \in {"user", "assistant"} /\ u.cost \in 1..MessageCost
       /\ u.says = Nothing \/ u.says.kind \in DOMAIN BucketOf
  /\ MessageCost \in Nat /\ HistoryBudget \in Nat /\ 2 * MessageCost <= HistoryBudget
  /\ {Recent, StateItems, MaxHistory} \subseteq Nat \ 0..1
  /\ {PackBudget, Retrieved, MaxMessages} \subseteq Nat
  /\ TokenRooms \subseteq Nat \ {0}

VARIABLES messages, \* the log as list_messages returns it
          task,     \* job -> what it froze, its run and the compiled context
          states,   \* worker -> first message -> cached task state
          indexes   \* worker -> first message -> cached postings

contextVars == <<messages, task, states, indexes>>

Message == 1..MaxMessages  \* ids, in the order of their commits
NoEntry == [upto |-> 0, last |-> 0, data |-> <<>>]
Caches == [Message -> {NoEntry}]
NoContext == [active |-> <<>>, candidates |-> {}, shown |-> <<>>]

ContextInit ==
  /\ messages = <<>>
  /\ task = [j \in Turn |-> [status |-> "new", frozen |-> <<>>, rows |-> <<>>,
                            at |-> "nowhere", topic |-> NoTopic, result |-> NoContext]]
  /\ states = [w \in Worker |-> [m \in Message |-> NoEntry]]
  /\ indexes = states

\* add_message takes created_at before its commit, and the log is ordered by
\* it: a message may land before the one that committed last.
Say ==
  /\ Len(messages) < MaxMessages
  /\ \E u \in Utterances, behind \in 0..1 :
       /\ behind <= Len(messages)
       /\ messages' = InsertAt(messages, Len(messages) + 1 - behind,
                               [id |-> Len(messages) + 1, role |-> u.role,
                                topic |-> u.topic, cost |-> u.cost, says |-> u.says])
  /\ UNCHANGED <<task, states, indexes>>

\* build_history_snapshot; count, last id and digest stand for the rows.
Enqueue(j) ==
  /\ task[j].status = "new"
  /\ \E topic \in Topics :
       task' = [task EXCEPT ![j].status = "queued", ![j].frozen = messages, ![j].topic = topic]
  /\ UNCHANGED <<messages, states, indexes>>

\* variant: as many messages as were frozen, without a look at the boundary.
AnyPrefix(now, frozen) == SubSeq(now, 1, Len(frozen))
\* materialize_history_snapshot: the frozen prefix, or no history.
Materialized(now, frozen) == IF IsPrefix(frozen, now) THEN frozen ELSE <<>>

Materialize(w, j) ==
  /\ task[j].status = "queued"
  /\ task' = [task EXCEPT ![j].status = "running", ![j].at = w,
                          ![j].rows = Materialized(messages, task[j].frozen)]
  /\ UNCHANGED <<messages, states, indexes>>

(* The incremental caches. *)

\* variant: only the length of the history is compared.
LongEnough(entry, rows) == entry.upto \in 1..Len(rows)
\* _prefix_valid
PrefixValid(entry, rows) ==
  entry.upto \in 1..Len(rows) /\ rows[entry.upto].id = entry.last

\* _append_unique; what has been seen outlives the rows that were dropped.
AppendUnique(acc, b, m) ==
  IF m.says \in acc.seen[b] THEN acc
  ELSE LET all == Append(acc.state.rows[b], [says |-> m.says, source |-> m.id])
       IN [state |-> [acc.state EXCEPT !.rows[b] =
                        IF Len(all) > StateItems THEN Tail(all) ELSE all],
           seen |-> [acc.seen EXCEPT ![b] = @ \cup {m.says}]]

\* One message of _task_state: only the user governs it.
Govern(acc, m) ==
  LET aimed == IF acc.state.goal = 0 THEN [acc EXCEPT !.state.goal = m.id] ELSE acc
  IN IF m.role # "user" THEN acc
     ELSE IF m.says = Nothing THEN aimed
     ELSE AppendUnique(aimed, BucketOf[m.says.kind], m)

\* seen restarts from the rows that are left.
Continue(state, rows) ==
  FoldLeft(Govern, [state |-> state,
                    seen |-> [b \in Buckets |-> {r.says : r \in ToSet(state.rows[b])}]],
           rows).state

StateAt(w, rows) ==
  LET entry == states[w][rows[1].id]
  IN IF PrefixValid(entry, rows)
     THEN Continue(entry.data, SubSeq(rows, entry.upto + 1, Len(rows)))
     ELSE Continue(EmptyState, rows)

\* The postings: the topic found at each position.
PostingsAt(w, rows) ==
  LET entry == indexes[w][rows[1].id]
      done == IF PrefixValid(entry, rows) THEN entry.upto ELSE 0
  IN SubSeq(entry.data, 1, done) \o [i \in 1..(Len(rows) - done) |-> rows[done + i].topic]

Entry(rows, data) == [upto |-> Len(rows), last |-> Last(rows).id, data |-> data]

(* The active view of the task state. *)

\* _latest_by_exact_slot: of the rows of a slot, the one that came last.
LatestBySlot(rows) ==
  LET latest == {i \in DOMAIN rows :
                   \A k \in (i + 1)..Len(rows) : rows[k].says.slot # rows[i].says.slot}
  IN Kept(rows, latest)

\* A conditional premise is no fact, and a fact closes the questions of its slot.
Active(state) ==
  LET facts == LatestBySlot(SelectSeq(state.rows["verified_facts"],
                                      LAMBDA r : r.says.kind # "premise"))
      settled == {r.says.slot : r \in ToSet(facts)}
  IN [goal |-> state.goal, constraints |-> LatestBySlot(state.rows["constraints"]),
      verified_facts |-> facts,
      open_questions |-> SelectSeq(LatestBySlot(state.rows["open_questions"]),
                                   LAMBDA r : r.says.slot \notin settled)]

(* Selection and pack, over positions of the frozen rows. *)

FirstUser(rows) == SelectInSeq(rows, LAMBDA m : m.role = "user")
RecentOf(rows) == {i \in DOMAIN rows : i > Len(rows) - Recent}
Mandatory(rows) == RecentOf(rows) \cup ({FirstUser(rows)} \ {0})

\* The candidates that score best; the scores give any order.
Found(candidates) ==
  UNION {SetToSeqs(best) : best \in {c \in SUBSET candidates : Cardinality(c) <= Retrieved}}

\* Keep what fits, best first; the first one always stays.
Fill(order, rows, budget) ==
  FoldLeft(LAMBDA acc, i :
             IF acc.kept # {} /\ acc.used + rows[i].cost > budget THEN acc
             ELSE [kept |-> acc.kept \cup {i}, used |-> acc.used + rows[i].cost],
           [kept |-> {}, used |-> 0], order).kept

Oldest(positions) == Listed(positions, Ascending(positions))
Newest(positions) == Reverse(Oldest(positions))

\* compile: the first goal, the recent turns from the newest, then what was found.
Chosen(rows, found) ==
  Fill((IF FirstUser(rows) = 0 THEN <<>> ELSE <<FirstUser(rows)>>)
         \o Newest(RecentOf(rows) \ {FirstUser(rows)}) \o found,
       rows, HistoryBudget)

\* variant: the pack keeps the first rows.
FirstRows(chosen, slots) == SubSeq(chosen, 1, slots)
LastRows(chosen, slots) == SubSeq(chosen, Len(chosen) - slots + 1, Len(chosen))

\* ContextBudgetBroker.pack; the kernel takes one slot, a history has one.
CharPack(chosen, rows) ==
  LET slots == MaxHistory - 1
      kept == IF Len(chosen) <= slots THEN chosen ELSE LastRows(chosen, slots)
  IN Oldest(Fill(Reverse(kept), rows, PackBudget))

\* _fit_conversation_messages: under pressure the oldest row and the newest.
TokenFit(packed, room) ==
  IF Len(packed) <= room THEN packed
  ELSE IF room = 1 THEN <<Last(packed)>>
  ELSE <<packed[1]>> \o LastRows(packed, room - 1)

CompileJob(w, j) ==
  /\ task[j].status = "running" /\ task[j].at = w
  /\ LET rows == task[j].rows IN
     \/ /\ rows = <<>>
        /\ task' = [task EXCEPT ![j].status = "done",
                                ![j].result = [NoContext EXCEPT !.active = Active(EmptyState)]]
        /\ UNCHANGED <<states, indexes>>
     \/ /\ rows # <<>>
        /\ LET state == StateAt(w, rows)
               postings == PostingsAt(w, rows)
               asked == task[j].topic # NoTopic
               candidates == {i \in DOMAIN postings : asked /\ postings[i] = task[j].topic}
           IN \E found \in Found(candidates \ Mandatory(rows)), room \in TokenRooms :
                LET packed == CharPack(Oldest(Chosen(rows, found)), rows)
                    shown == TokenFit(packed, room)
                IN /\ task' = [task EXCEPT ![j].status = "done", ![j].result =
                                 [active |-> Active(state), candidates |-> candidates,
                                  shown |-> [n \in DOMAIN shown |-> rows[shown[n]].id]]]
                   /\ states' = [states EXCEPT ![w][rows[1].id] = Entry(rows, state)]
                   /\ indexes' = IF asked
                                 THEN [indexes EXCEPT ![w][rows[1].id] = Entry(rows, postings)]
                                 ELSE indexes
  /\ UNCHANGED messages

\* The run is retried with the payload of the job, on any worker.
Requeue(j) ==
  /\ task[j].status = "running"
  /\ task' = [task EXCEPT ![j].status = "queued", ![j].rows = <<>>, ![j].at = "nowhere"]
  /\ UNCHANGED <<messages, states, indexes>>

\* A full cache drops its oldest entry; a restarted process has empty ones.
Evict(w) ==
  /\ \/ states' = [states EXCEPT ![w] = [m \in Message |-> NoEntry]] /\ UNCHANGED indexes
     \/ indexes' = [indexes EXCEPT ![w] = [m \in Message |-> NoEntry]] /\ UNCHANGED states
  /\ UNCHANGED <<messages, task>>

ContextNext ==
  \/ Say
  \/ \E j \in Turn : Enqueue(j) \/ Requeue(j)
  \/ \E w \in Worker, j \in Turn : Materialize(w, j) \/ CompileJob(w, j)
  \/ \E w \in Worker : Evict(w)

ContextSpec == ContextInit /\ [][ContextNext]_contextVars
-----------------------------------------------------------------------------
Done == {j \in Turn : task[j].status = "done"}

\* More distinct statements of a kind than the task state holds.
Said(rows, b) ==
  {m.says : m \in {r \in ToSet(rows) :
                    r.role = "user" /\ r.says # Nothing /\ BucketOf[r.says.kind] = b}}
Overflows(rows) == \E b \in Buckets : Cardinality(Said(rows, b)) > StateItems

\* A job is compiled from the history it froze, or from none: turns that came
\* later never leak in, and whatever its process compiled before, the cached
\* task state and index answer as a scan from scratch would (compiler.py:141,
\* "rebuildable derived caches").  Past the limit of a kind they may differ.
CompiledFromFrozenHistory ==
  \A j \in Done : LET rows == task[j].rows IN
    /\ rows \in {task[j].frozen, <<>>}
    /\ ~Overflows(rows) => task[j].result.active = Active(Continue(EmptyState, rows))
    /\ task[j].result.candidates =
         {i \in DOMAIN rows : task[j].topic # NoTopic /\ rows[i].topic = task[j].topic}

\* Whatever the budgets drop, a provider is shown the newest message, in the
\* order of the log, and no more than its adapter reads (budget.py:126).
NewestIsShown ==
  \A j \in Done :
    LET shown == task[j].result.shown
        ids == [i \in DOMAIN task[j].rows |-> task[j].rows[i].id]
    IN /\ task[j].rows # <<>> => shown # <<>> /\ Last(shown) = Last(ids)
       /\ Len(shown) + 1 <= MaxHistory
       /\ \E at \in [DOMAIN shown -> DOMAIN ids] :
            /\ \A n \in DOMAIN shown : shown[n] = ids[at[n]]
            /\ \A n, k \in DOMAIN shown : n < k => at[n] < at[k]

\* The active constraint of a slot is what the user said last about it
\* (active_compiler.py:92).
LastWordWins ==
  \A j \in Done : \A r \in ToSet(task[j].result.active.constraints) :
    LET rows == task[j].rows
        about == {i \in DOMAIN rows : /\ rows[i].role = "user"
                                      /\ rows[i].says.kind = "constraint"
                                      /\ rows[i].says.slot = r.says.slot}
    IN \E i \in about : rows[i].says = r.says /\ \A k \in about : k <= i
=============================================================================
