---------------------------- MODULE EventFanout ----------------------------
(***************************************************************************)
(* How the events of a task reach the clients that watch it: the rows of   *)
(* task_events, the hub of one API process (product/fanout.py), the        *)
(* WebSocket handler conversation_ws (api/app.py) and the browser that     *)
(* reconnects with the greatest event id it has (frontend/app.js).         *)
(*                                                                         *)
(* An event takes its id at INSERT and is seen by others at COMMIT.  The   *)
(* hub fetches a batch in a thread and may await the memory ingestion      *)
(* before it dispatches the batch in one go.  The handler awaits every     *)
(* send.  Batches, queues and replays hold ids in increasing order, so     *)
(* each is a set of ids: its least element is the next to be taken, its    *)
(* greatest the last to be added.  A message that is on the wire when the  *)
(* socket breaks counts as not sent.                                       *)
(***************************************************************************)
EXTENDS Integers, FiniteSets

CONSTANTS
  Task,       \* conversations
  Client,     \* browser windows
  Watch,      \* the task each window shows
  Serial,     \* the database has one writer at a time (SQLite)
  BatchSize,  \* batch_size of the hub, 1000
  QueueSize,  \* queue_size of the hub, 512
  MaxEvents,  \* bound: events inserted in a behaviour
  MaxFaults   \* bound: sockets that break and processes that restart

ASSUME FanoutAssumption ==
  /\ Watch \in [Client -> Task]
  /\ Serial \in BOOLEAN
  /\ BatchSize \in Nat \ {0} /\ QueueSize \in Nat \ {0}
  /\ MaxEvents \in Nat /\ MaxFaults \in Nat

VARIABLES
  event,    \* task_events rows: where each id stands and whose it is
  cursor,   \* the hub's _cursor
  batch,    \* events fetched and not yet dispatched
  sock,     \* what the handler of each socket is doing
  queue,    \* the hub's queue for each socket
  replay,   \* rows of the replay that are still to be sent
  last,     \* last_event_id of each handler
  got,      \* how often each event was sent to each client
  faults

rowVars    == <<event>>
hubVars    == <<cursor, batch>>
socketVars == <<sock, queue, replay, last, got>>
vars == <<rowVars, hubVars, socketVars, faults>>

EventId == 1..MaxEvents
EventRow == [at : {"free", "open", "visible", "lost"}, task : Task]

Visible(e) == event[e].at = "visible"
Mine(u, e) == event[e].task = Watch[u]
Owed(u) == {e \in EventId : Visible(e) /\ Mine(u, e)}

Least(S, e) == e \in S /\ \A f \in S : e <= f
Greatest(S, e) == e \in S /\ \A f \in S : f <= e

\* the n smallest and the n greatest elements
FirstOf(S, n) == {e \in S : Cardinality({f \in S : f < e}) < n}
LastOf(S, n)  == {e \in S : Cardinality({f \in S : f > e}) < n}

TypeOK ==
  /\ event \in [EventId -> EventRow]
  /\ cursor \in 0..MaxEvents
  /\ batch \subseteq EventId
  /\ sock \in [Client -> {"closed", "open", "sending", "live"}]
  /\ queue \in [Client -> SUBSET EventId]
  /\ replay \in [Client -> SUBSET EventId]
  /\ last \in [Client -> 0..MaxEvents]
  /\ got \in [Client -> [EventId -> Nat]]
  /\ faults \in 0..MaxFaults

Init ==
  /\ \E c \in Task : event = [e \in EventId |-> [at |-> "free", task |-> c]]
  /\ cursor = 0
  /\ batch = {}
  /\ sock = [u \in Client |-> "closed"]
  /\ queue = [u \in Client |-> {}]
  /\ replay = [u \in Client |-> {}]
  /\ last = [u \in Client |-> 0]
  /\ got = [u \in Client |-> [e \in EventId |-> 0]]
  /\ faults = 0

----------------------------------------------------------------------------
(* Transactions that write an event.                                       *)

CanInsert == Serial => \A e \in EventId : event[e].at # "open"

Insert(e, c) ==
  /\ event[e].at = "free"
  /\ \A f \in 1..(e - 1) : event[f].at # "free"
  /\ CanInsert
  /\ event' = [event EXCEPT ![e] = [at |-> "open", task |-> c]]
  /\ UNCHANGED <<hubVars, socketVars, faults>>

(* The transaction commits, or is rolled back and leaves a hole.           *)
Finish(e) ==
  /\ event[e].at = "open"
  /\ \E at \in {"visible", "lost"} : event' = [event EXCEPT ![e].at = at]
  /\ UNCHANGED <<hubVars, socketVars, faults>>

----------------------------------------------------------------------------
(* The hub.                                                                *)

Unfetched == {e \in EventId : Visible(e) /\ e > cursor}

Fetch ==
  /\ batch = {}
  /\ Unfetched # {}
  /\ batch' = FirstOf(Unfetched, BatchSize)
  /\ UNCHANGED <<rowVars, cursor, socketVars, faults>>

\* variant: the socket is subscribed only once its replay has been sent
SubscribedLate(u) == sock[u] = "live"
Subscribed(u) == sock[u] # "closed"

Offer(u) == LastOf(queue[u] \cup {e \in batch : Mine(u, e)}, QueueSize)

\* variant: the cursor moves one past the batch
DispatchPast ==
  /\ batch # {}
  /\ \E e \in EventId : Greatest(batch, e) /\ cursor' = e + 1
  /\ queue' = [u \in Client |-> IF Subscribed(u) THEN Offer(u) ELSE queue[u]]
  /\ batch' = {}
  /\ UNCHANGED <<rowVars, sock, replay, last, got, faults>>
Dispatch ==
  /\ batch # {}
  /\ \E e \in EventId : Greatest(batch, e) /\ cursor' = e
  /\ queue' = [u \in Client |-> IF Subscribed(u) THEN Offer(u) ELSE queue[u]]
  /\ batch' = {}
  /\ UNCHANGED <<rowVars, sock, replay, last, got, faults>>

----------------------------------------------------------------------------
(* A socket: it subscribes, replays from the database, then serves its     *)
(* queue.                                                                  *)

Received(u) == {e \in EventId : got[u][e] > 0}
Newest(u, e) == \/ Received(u) = {} /\ e = 0
                \/ Greatest(Received(u), e)

Connect(u) ==
  /\ sock[u] = "closed"
  /\ sock' = [sock EXCEPT ![u] = "open"]
  /\ \E e \in 0..MaxEvents :
       Newest(u, e) /\ last' = [last EXCEPT ![u] = e]
  /\ queue' = [queue EXCEPT ![u] = {}]
  /\ UNCHANGED <<rowVars, hubVars, replay, got, faults>>

ReadReplay(u) ==
  /\ sock[u] = "open"
  /\ sock' = [sock EXCEPT ![u] = "sending"]
  /\ replay' = [replay EXCEPT ![u] = {e \in Owed(u) : e > last[u]}]
  /\ UNCHANGED <<rowVars, hubVars, queue, last, got, faults>>

\* variant: what has been sent before is sent again
StaleNever(u, e) == FALSE
Stale(u, e) == e <= last[u]

(* An event that is not newer than the last one sent is skipped.           *)
Send(u, e) ==
  IF Stale(u, e) THEN UNCHANGED <<got, last>>
  ELSE /\ got' = [got EXCEPT ![u][e] = @ + 1]
       /\ last' = [last EXCEPT ![u] = e]

SendReplay(u) ==
  /\ sock[u] = "sending"
  /\ \E e \in EventId :
       /\ Least(replay[u], e)
       /\ Send(u, e)
       /\ replay' = [replay EXCEPT ![u] = @ \ {e}]
  /\ UNCHANGED <<rowVars, hubVars, sock, queue, faults>>

GoLive(u) ==
  /\ sock[u] = "sending" /\ replay[u] = {}
  /\ sock' = [sock EXCEPT ![u] = "live"]
  /\ UNCHANGED <<rowVars, hubVars, queue, replay, last, got, faults>>

SendQueued(u) ==
  /\ sock[u] = "live"
  /\ \E e \in EventId :
       /\ Least(queue[u], e)
       /\ Send(u, e)
       /\ queue' = [queue EXCEPT ![u] = @ \ {e}]
  /\ UNCHANGED <<rowVars, hubVars, sock, replay, faults>>

----------------------------------------------------------------------------
(* Faults.                                                                 *)

Disconnect(u) ==
  /\ sock[u] # "closed"
  /\ faults < MaxFaults
  /\ faults' = faults + 1
  /\ sock' = [sock EXCEPT ![u] = "closed"]
  /\ queue' = [queue EXCEPT ![u] = {}]
  /\ replay' = [replay EXCEPT ![u] = {}]
  /\ UNCHANGED <<rowVars, hubVars, last, got>>

(* The process restarts: the cursor starts at the latest id, and no client *)
(* is served before it does.                                               *)
LatestId(e) ==
  LET seen == {f \in EventId : Visible(f)}
  IN \/ seen = {} /\ e = 0
     \/ Greatest(seen, e)

Restart ==
  /\ faults < MaxFaults
  /\ faults' = faults + 1
  /\ \E e \in 0..MaxEvents : LatestId(e) /\ cursor' = e
  /\ batch' = {}
  /\ sock' = [u \in Client |-> "closed"]
  /\ queue' = [u \in Client |-> {}]
  /\ replay' = [u \in Client |-> {}]
  /\ UNCHANGED <<rowVars, last, got>>

----------------------------------------------------------------------------
Hub == Fetch \/ Dispatch

Socket(u) ==
  \/ Connect(u)
  \/ ReadReplay(u)
  \/ SendReplay(u)
  \/ GoLive(u)
  \/ SendQueued(u)

Next ==
  \/ \E e \in EventId, c \in Task : Insert(e, c)
  \/ \E e \in EventId : Finish(e)
  \/ Hub
  \/ \E u \in Client : Socket(u)
  \/ \E u \in Client : Disconnect(u)
  \/ Restart

Spec == Init /\ [][Next]_vars

(* The hub polls for ever, a handler goes on sending, the browser          *)
(* reconnects 900 ms after a socket closed, and a transaction ends.        *)
Fairness ==
  /\ WF_vars(Hub)
  /\ \A u \in Client : WF_vars(Socket(u))
  /\ \A e \in EventId : WF_vars(Finish(e))

FairSpec == Spec /\ Fairness

----------------------------------------------------------------------------
(* Subscribe before replay, deduplicate by event id, resume by after_id    *)
(* (docs/ARCHITECTURE.md:293): an event reached by replay and by the       *)
(* queue, or again after a reconnect, is sent once, and in order.          *)
OnceInOrder ==
  [][\A u \in Client, e \in EventId :
       got'[u][e] > got[u][e] => \A f \in Received(u) : f < e]_vars

(* "WebSocket progress is recoverable from persisted task_events"          *)
(* (docs/RUNBOOK.md:74): a client that has an event has all earlier events *)
(* of its task.  The client asks for what is newer than the newest it has, *)
(* so what it skips it never gets.  True when the database has one writer  *)
(* and no queue overflows.                                                 *)
NothingSkipped ==
  \A u \in Client : \A e \in Owed(u), f \in Received(u) :
    e < f => e \in Received(u)

(* Every event of its task reaches the client, through broken sockets and  *)
(* restarts of the process.                                                *)
EveryEventArrives ==
  \A u \in Client, e \in EventId : e \in Owed(u) ~> e \in Received(u)
=============================================================================
