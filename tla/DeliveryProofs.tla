--------------------------- MODULE DeliveryProofs ---------------------------
(***************************************************************************)
(* Theorems of the two ways out of a transaction: EventFanout, to the open *)
(* sockets, for every set of tasks and clients and every bound, and        *)
(* MemoryIngestion, to the external memory, for every set of messages and  *)
(* processes, every mix of messages and every number of crashes, purges    *)
(* and revocations.                                                        *)
(***************************************************************************)
EXTENDS EventFanout, MemoryIngestion, FiniteSetTheorems, TLAPS

(* The fanout.                                                             *)
(* last_event_id of an open socket is the newest event its client has.     *)
LastIsNewest ==
  \A u \in Client : sock[u] # "closed" =>
    /\ \A e \in Received(u) : e <= last[u]
    /\ last[u] # 0 => last[u] \in Received(u)

OrderInv == TypeOK /\ LastIsNewest

(* Ids are given out in order; with one writer the event that is being     *)
(* written is the newest of all.                                           *)
OneWriter ==
  /\ \A e, f \in EventId : e < f /\ event[e].at = "free" => event[f].at = "free"
  /\ \A e, f \in EventId : event[e].at = "open" /\ event[f].at # "free" => f <= e

(* The hub hands on visible events, and its batch leaves out nothing that  *)
(* comes before what it holds.                                             *)
HubInv ==
  /\ cursor # 0 => cursor \in EventId /\ Visible(cursor)
  /\ \A e \in batch : Visible(e) /\ e > cursor
  /\ \A e \in Unfetched, f \in batch : e < f => e \in batch

(* What a socket has sent or is to send is visible, and has passed the hub *)
(* when it is in the queue.                                                *)
InPlace(u) ==
  /\ \A e \in Received(u) \cup replay[u] \cup queue[u] : Visible(e)
  /\ \A e \in queue[u] : e <= cursor
  /\ replay[u] # {} => sock[u] = "sending"

(* A replay leaves out nothing that comes before what it holds.            *)
ReplayWhole(u) ==
  \A e \in Owed(u), f \in replay[u] :
    last[u] < e /\ e < f => e \in replay[u]

(* What a client still lacks is in its replay, in its queue, or ahead of   *)
(* the hub.                                                                *)
Covered(u) ==
  sock[u] \in {"sending", "live"} =>
    \A e \in Owed(u) :
      e > last[u] => e \in replay[u] \/ e \in queue[u] \/ e > cursor

(* NothingSkipped of one client.                                           *)
SkipsNothing(u) ==
  \A e \in Owed(u), f \in Received(u) : e < f => e \in Received(u)

Stream(u) == InPlace(u) /\ ReplayWhole(u) /\ Covered(u) /\ SkipsNothing(u)

StreamInv == OrderInv /\ OneWriter /\ HubInv /\ \A u \in Client : Stream(u)

----------------------------------------------------------------------------
(* Type correctness and the order of what is sent, without assumptions on  *)
(* the database or the queues.                                             *)

LEMMA Numbers ==
  ASSUME TypeOK, NEW u \in Client
  PROVE  /\ last[u] \in Nat
         /\ \A e \in EventId : e \in Nat /\ got[u][e] \in Nat
         /\ Received(u) \subseteq EventId
<1>1. last[u] \in 0..MaxEvents
  BY DEF TypeOK
<1>2. got[u] \in [EventId -> Nat]
  BY DEF TypeOK
<1>3. EventId \subseteq Nat
  BY DEF EventId
<1>. QED BY <1>1, <1>2, <1>3 DEF Received

LEMMA SentTypes ==
  ASSUME TypeOK, NEW u \in Client, NEW e \in EventId, Send(u, e)
  PROVE  /\ got' \in [Client -> [EventId -> Nat]]
         /\ last' \in [Client -> 0..MaxEvents]
         /\ \A v \in Client : v # u => got'[v] = got[v] /\ last'[v] = last[v]
<1>1. CASE Stale(u, e)
  BY <1>1 DEF Send, TypeOK
<1>2. CASE ~Stale(u, e)
  <2>1. got[u] \in [EventId -> Nat] /\ e \in 0..MaxEvents
    BY FanoutAssumption DEF TypeOK, EventId
  <2>2. [got[u] EXCEPT ![e] = got[u][e] + 1] \in [EventId -> Nat]
    BY <2>1
  <2>3. /\ got' = [got EXCEPT ![u] = [got[u] EXCEPT ![e] = got[u][e] + 1]]
        /\ last' = [last EXCEPT ![u] = e]
    BY <1>2 DEF Send
  <2>4. got' \in [Client -> [EventId -> Nat]]
    BY <2>2, <2>3 DEF TypeOK
  <2>5. last' \in [Client -> 0..MaxEvents]
    BY <2>1, <2>3 DEF TypeOK
  <2>. QED BY <2>3, <2>4, <2>5 DEF TypeOK
<1>. QED BY <1>1, <1>2

(* What Send does to its own client.                                       *)
LEMMA SentOne ==
  ASSUME TypeOK, NEW u \in Client, NEW e \in EventId, Send(u, e)
  PROVE  \/ e <= last[u] /\ UNCHANGED <<got, last>>
         \/ /\ e > last[u] /\ last'[u] = e
            /\ got'[u][e] = got[u][e] + 1
            /\ \A f \in EventId : f # e => got'[u][f] = got[u][f]
<1>1. CASE Stale(u, e)
  BY <1>1 DEF Send, Stale
<1>2. CASE ~Stale(u, e)
  <2>1. /\ got[u] \in [EventId -> Nat] /\ e \in Nat
        /\ last[u] \in Nat
    BY DEF TypeOK, EventId
  <2>2. /\ got' = [got EXCEPT ![u] = [got[u] EXCEPT ![e] = got[u][e] + 1]]
        /\ last' = [last EXCEPT ![u] = e]
    BY <1>2 DEF Send
  <2>3. got'[u] = [got[u] EXCEPT ![e] = got[u][e] + 1] /\ last'[u] = e
    BY <2>2 DEF TypeOK
  <2>4. /\ got'[u][e] = got[u][e] + 1
        /\ \A f \in EventId : f # e => got'[u][f] = got[u][f]
    BY <2>1, <2>3
  <2>. QED BY <1>2, <2>1, <2>3, <2>4 DEF Stale
<1>. QED BY <1>1, <1>2

LEMMA SentReceived ==
  ASSUME TypeOK, NEW u \in Client, NEW e \in EventId, Send(u, e)
  PROVE  \/ e <= last[u] /\ UNCHANGED <<got, last>>
         \/ e > last[u] /\ last'[u] = e /\ Received(u)' = Received(u) \cup {e}
<1>1. ASSUME got'[u][e] = got[u][e] + 1,
             \A f \in EventId : f # e => got'[u][f] = got[u][f]
      PROVE  Received(u)' = Received(u) \cup {e}
  <2>1. \A f \in EventId : got'[u][f] > 0 <=> got[u][f] > 0 \/ f = e
    BY <1>1, Numbers
  <2>. QED BY <2>1 DEF Received
<1>. QED BY <1>1, SentOne

LEMMA TypeInit == Init => TypeOK
BY FanoutAssumption DEF Init, TypeOK, EventRow

LEMMA TypeNext == TypeOK /\ [Next]_vars => TypeOK'
<1>. SUFFICES ASSUME TypeOK, [Next]_vars PROVE TypeOK'
  OBVIOUS
<1>. USE DEF rowVars, hubVars, socketVars
<1>1. ASSUME NEW e \in EventId, NEW c \in Task, Insert(e, c) PROVE TypeOK'
  BY <1>1 DEF Insert, TypeOK, EventRow
<1>2. ASSUME NEW e \in EventId, Finish(e) PROVE TypeOK'
  <2>1. PICK at \in {"visible", "lost"} :
          event' = [event EXCEPT ![e] = [event[e] EXCEPT !.at = at]]
    BY <1>2 DEF Finish, TypeOK
  <2>0. event[e] \in EventRow
    BY DEF TypeOK
  <2>2. [event[e] EXCEPT !.at = at] \in EventRow
    BY <2>0 DEF EventRow
  <2>3. event' \in [EventId -> EventRow]
    BY <2>1, <2>2 DEF TypeOK
  <2>. QED BY <1>2, <2>3 DEF Finish, TypeOK
<1>3. CASE Fetch
  BY <1>3 DEF Fetch, FirstOf, Unfetched, TypeOK
<1>4. CASE Dispatch
  <2>1. \A u \in Client : Offer(u) \in SUBSET EventId
    BY DEF Offer, LastOf, TypeOK
  <2>2. cursor' \in 0..MaxEvents
    BY <1>4, FanoutAssumption DEF Dispatch, EventId
  <2>3. queue' \in [Client -> SUBSET EventId]
    <3>1. queue' = [u \in Client |-> IF Subscribed(u) THEN Offer(u) ELSE queue[u]]
      BY <1>4 DEF Dispatch
    <3>2. \A u \in Client : queue[u] \in SUBSET EventId
      BY DEF TypeOK
    <3>. QED BY <2>1, <3>1, <3>2
  <2>. QED BY <1>4, <2>2, <2>3 DEF Dispatch, TypeOK
<1>5. ASSUME NEW u \in Client, Connect(u) PROVE TypeOK'
  BY <1>5 DEF Connect, TypeOK
<1>6. ASSUME NEW u \in Client, ReadReplay(u) PROVE TypeOK'
  BY <1>6 DEF ReadReplay, Owed, TypeOK
<1>7. ASSUME NEW u \in Client, SendReplay(u) PROVE TypeOK'
  BY <1>7, SentTypes DEF SendReplay, TypeOK
<1>8. ASSUME NEW u \in Client, GoLive(u) PROVE TypeOK'
  BY <1>8 DEF GoLive, TypeOK
<1>9. ASSUME NEW u \in Client, SendQueued(u) PROVE TypeOK'
  BY <1>9, SentTypes DEF SendQueued, TypeOK
<1>10. ASSUME NEW u \in Client, Disconnect(u) PROVE TypeOK'
  BY <1>10, FanoutAssumption DEF Disconnect, TypeOK
<1>11. CASE Restart
  BY <1>11, FanoutAssumption DEF Restart, TypeOK
<1>12. CASE UNCHANGED vars
  BY <1>12 DEF vars, TypeOK
<1>. QED
  BY <1>1, <1>2, <1>3, <1>4, <1>5, <1>6, <1>7, <1>8, <1>9, <1>10, <1>11, <1>12
     DEF Next, Hub, Socket

LEMMA LastNext == OrderInv /\ [Next]_vars => LastIsNewest'
<1>. SUFFICES ASSUME OrderInv, [Next]_vars, NEW v \in Client, sock'[v] # "closed"
              PROVE  /\ \A e \in Received(v)' : e <= last'[v]
                     /\ last'[v] # 0 => last'[v] \in Received(v)'
  BY DEF LastIsNewest
<1>. USE DEF OrderInv, rowVars, hubVars, socketVars
<1>0. ASSUME got'[v] = got[v], last'[v] = last[v], sock[v] # "closed"
      PROVE  /\ \A e \in Received(v)' : e <= last'[v]
             /\ last'[v] # 0 => last'[v] \in Received(v)'
  BY <1>0 DEF LastIsNewest, Received
<1>1. ASSUME NEW u \in Client, NEW e \in EventId, Send(u, e), UNCHANGED sock
      PROVE  /\ \A f \in Received(v)' : f <= last'[v]
             /\ last'[v] # 0 => last'[v] \in Received(v)'
  <2>0. sock[v] # "closed"
    BY <1>1
  <2>1. CASE v # u
    <3>1. got'[v] = got[v] /\ last'[v] = last[v]
      BY <1>1, <2>1, SentTypes
    <3>. QED BY <1>0, <2>0, <3>1
  <2>2. CASE v = u /\ UNCHANGED <<got, last>>
    BY <1>0, <2>0, <2>2
  <2>3. CASE /\ v = u /\ e > last[u] /\ last'[u] = e
             /\ Received(u)' = Received(u) \cup {e}
    <3>1. /\ e \in Nat /\ last[v] \in Nat
          /\ \A f \in Received(v) : f \in Nat
      BY Numbers
    <3>2. \A f \in Received(v) : f <= last[v]
      BY <2>0 DEF LastIsNewest
    <3>. QED BY <2>3, <3>1, <3>2
  <2>. QED BY <1>1, <2>1, <2>2, <2>3, SentReceived
<1>2. ASSUME NEW u \in Client, SendReplay(u) \/ SendQueued(u)
      PROVE  /\ \A e \in Received(v)' : e <= last'[v]
             /\ last'[v] # 0 => last'[v] \in Received(v)'
  BY <1>1, <1>2 DEF SendReplay, SendQueued
<1>3. ASSUME NEW u \in Client, Connect(u)
      PROVE  /\ \A e \in Received(v)' : e <= last'[v]
             /\ last'[v] # 0 => last'[v] \in Received(v)'
  <2>1. CASE v # u
    BY <1>0, <1>3, <2>1 DEF Connect, TypeOK
  <2>2. CASE v = u
    BY <1>3, <2>2 DEF Connect, Newest, Greatest, Received, TypeOK
  <2>. QED BY <2>1, <2>2
<1>4. ASSUME NEW u \in Client, ReadReplay(u) \/ GoLive(u) \/ Disconnect(u)
      PROVE  /\ \A e \in Received(v)' : e <= last'[v]
             /\ last'[v] # 0 => last'[v] \in Received(v)'
  BY <1>0, <1>4 DEF ReadReplay, GoLive, Disconnect, TypeOK
<1>5. CASE Fetch \/ Dispatch
  BY <1>0, <1>5 DEF Fetch, Dispatch
<1>6. ~Restart
  BY DEF Restart, TypeOK
<1>7. ASSUME NEW e \in EventId, (\E c \in Task : Insert(e, c)) \/ Finish(e)
      PROVE  /\ \A f \in Received(v)' : f <= last'[v]
             /\ last'[v] # 0 => last'[v] \in Received(v)'
  BY <1>0, <1>7 DEF Insert, Finish
<1>8. CASE UNCHANGED vars
  BY <1>0, <1>8 DEF vars
<1>. QED
  BY <1>2, <1>3, <1>4, <1>5, <1>6, <1>7, <1>8 DEF Next, Hub, Socket

THEOREM Ordered == Spec => []OrderInv
<1>1. Init => OrderInv
  BY TypeInit DEF Init, OrderInv, LastIsNewest
<1>2. OrderInv /\ [Next]_vars => OrderInv'
  BY TypeNext, LastNext DEF OrderInv
<1>. QED BY <1>1, <1>2, PTL DEF Spec

(* Every variable keeps its type.                                          *)
THEOREM TypeCorrect == Spec => []TypeOK
<1>1. OrderInv => TypeOK
  BY DEF OrderInv
<1>. QED BY <1>1, Ordered, PTL

(* Whatever the database, the queues and the faults: no event is sent to a *)
(* client twice, and none after a newer one (subscribe before replay,      *)
(* skipping by last_event_id, after_id).                                   *)
THEOREM SentOnceInOrder == Spec => OnceInOrder
<1>. DEFINE Grows(u, e) == got'[u][e] > got[u][e]
            InOrder == \A u \in Client, e \in EventId :
                         Grows(u, e) => \A f \in Received(u) : f < e
<1>1. OrderInv /\ [Next]_vars => [InOrder]_vars
  <2>. SUFFICES ASSUME OrderInv, Next,
                       NEW u \in Client, NEW e \in EventId, Grows(u, e),
                       NEW f \in Received(u)
                PROVE  f < e
    BY DEF InOrder
  <2>. USE DEF OrderInv, rowVars, hubVars, socketVars
  <2>0. got[u][e] \in Nat /\ e \in Nat /\ f \in Nat /\ last[u] \in Nat
    BY Numbers
  <2>1. got' # got
    BY <2>0 DEF Grows
  <2>2. PICK v \in Client, g \in EventId : sock[v] # "closed" /\ Send(v, g)
    BY <2>1 DEF Next, Hub, Socket, Insert, Finish, Fetch, Dispatch, Connect,
       ReadReplay, SendReplay, GoLive, SendQueued, Disconnect, Restart
  <2>3. v = u
    <3>1. v # u => got'[u] = got[u]
      BY <2>2, SentTypes
    <3>. QED BY <2>0, <3>1 DEF Grows
  <2>4. /\ g > last[u]
        /\ \A h \in EventId : h # g => got'[u][h] = got[u][h]
    BY <2>1, <2>2, <2>3, SentOne
  <2>5. g = e
    BY <2>0, <2>4 DEF Grows
  <2>6. f <= last[u]
    BY <2>2, <2>3 DEF LastIsNewest
  <2>. QED BY <2>0, <2>4, <2>5, <2>6
<1>. QED BY <1>1, Ordered, PTL DEF Spec, OnceInOrder, InOrder, Grows

----------------------------------------------------------------------------
(* With one writer and queues that cannot overflow, no client is left with *)
(* a hole.                                                                 *)

LEMMA SubsetOrder ==
  ASSUME TypeOK, NEW u \in Client
  PROVE  /\ cursor \in Nat /\ last[u] \in Nat
         /\ batch \subseteq EventId /\ queue[u] \subseteq EventId
         /\ replay[u] \subseteq EventId /\ Received(u) \subseteq EventId
         /\ Owed(u) \subseteq EventId /\ Unfetched \subseteq EventId
         /\ \A e \in EventId : e \in Nat
<1>1. cursor \in 0..MaxEvents
  BY DEF TypeOK
<1>2. cursor \in Nat
  BY <1>1
<1>. QED BY <1>2, Numbers DEF TypeOK, Owed, Unfetched

(* A step of the rows: what is seen stays, and what appears is newer than  *)
(* everything that was seen.                                               *)
LEMMA RowsStep ==
  ASSUME TypeOK, OneWriter, Serial, NEW e \in EventId, NEW c \in Task,
         Insert(e, c) \/ Finish(e)
  PROVE  /\ OneWriter'
         /\ \A f \in EventId : Visible(f) => /\ Visible(f)'
                                            /\ event'[f].task = event[f].task
         /\ \A f, g \in EventId : Visible(f)' /\ ~Visible(f) /\ Visible(g) => g < f
<1>. USE DEF OneWriter
<1>0. /\ \A f \in EventId : event[f] \in EventRow /\ f \in Nat
      /\ event \in [EventId -> EventRow]
  <2>1. event \in [EventId -> EventRow]
    BY DEF TypeOK
  <2>2. EventId \subseteq Nat
    BY DEF EventId
  <2>. QED BY <2>1, <2>2
<1>1. CASE Insert(e, c)
  <2>1. /\ event[e].at = "free" /\ event'[e].at = "open"
        /\ \A f \in EventId : f # e => event'[f] = event[f]
    BY <1>0, <1>1 DEF Insert
  <2>2. /\ \A f \in EventId : f < e => event[f].at # "free"
        /\ \A f \in EventId : event[f].at # "open"
    BY <1>0, <1>1 DEF Insert, CanInsert, EventId
  <2>3. \A f \in EventId : event[f].at # "free" => f <= e
    BY <1>0, <2>1
  <2>. QED BY <1>0, <2>1, <2>2, <2>3 DEF Visible
<1>2. CASE Finish(e)
  <2>1. PICK at \in {"visible", "lost"} :
          event' = [event EXCEPT ![e] = [event[e] EXCEPT !.at = at]]
    BY <1>2 DEF Finish
  <2>2. /\ event[e].at = "open" /\ event'[e].at \in {"visible", "lost"}
        /\ \A f \in EventId : f # e => event'[f] = event[f]
    BY <1>0, <1>2, <2>1 DEF Finish, EventRow
  <2>. QED BY <1>0, <2>2 DEF Visible
<1>. QED BY <1>1, <1>2

LEMMA RowsKeep ==
  ASSUME StreamInv, Serial, NEW e \in EventId, NEW c \in Task,
         Insert(e, c) \/ Finish(e)
  PROVE  OneWriter' /\ HubInv' /\ \A u \in Client : Stream(u)'
<1>. USE DEF StreamInv, OrderInv
<1>1. UNCHANGED <<hubVars, socketVars>>
  BY DEF Insert, Finish
<1>2. /\ OneWriter'
      /\ \A f \in EventId : Visible(f) => Visible(f)' /\ event'[f].task = event[f].task
      /\ \A f, g \in EventId : Visible(f)' /\ ~Visible(f) /\ Visible(g) => g < f
  BY RowsStep
<1>3. HubInv'
  <2>. USE DEF hubVars
  <2>1. \A f \in Unfetched', g \in batch : f \in Unfetched \/ g < f
    BY <1>1, <1>2 DEF HubInv, Unfetched, TypeOK
  <2>2. \A f \in Unfetched', g \in batch : f \in EventId /\ f \in Nat /\ g \in Nat
    BY DEF Unfetched, TypeOK, EventId
  <2>3. \A f \in Unfetched', g \in batch : f < g => f \in batch
    BY <2>1, <2>2 DEF HubInv
  <2>4. batch \subseteq EventId
    BY DEF TypeOK
  <2>. QED BY <1>1, <1>2, <2>3, <2>4 DEF HubInv
<1>4. ASSUME NEW u \in Client PROVE Stream(u)'
  <2>0. /\ sock' = sock /\ queue' = queue /\ replay' = replay
        /\ last' = last /\ got' = got /\ cursor' = cursor
        /\ Received(u)' = Received(u)
    BY <1>1 DEF hubVars, socketVars, Received
  <2>1. \A f \in Owed(u)' : f \in EventId /\ (f \in Owed(u) \/ ~Visible(f))
    BY <1>2 DEF Owed, Mine
  <2>2. \A f \in Owed(u)' : f \notin Owed(u) =>
          \A g \in EventId : Visible(g) => g < f
    BY <1>2, <2>1 DEF Owed
  <2>3. Stream(u)
    OBVIOUS
  <2>. USE DEF Stream
  <2>4. InPlace(u)'
    BY <1>2, <2>0, <2>3, SubsetOrder DEF InPlace
  <2>5. ReplayWhole(u)'
    <3>. SUFFICES ASSUME NEW f \in Owed(u)', NEW g \in replay[u], last[u] < f, f < g
                  PROVE  f \in replay[u]
      BY <2>0 DEF ReplayWhole
    <3>1. Visible(g) /\ g \in EventId /\ f \in Nat /\ g \in Nat
      BY <2>1, <2>3, SubsetOrder DEF InPlace
    <3>2. f \in Owed(u)
      BY <2>2, <3>1
    <3>. QED BY <2>3, <3>2 DEF ReplayWhole
  <2>6. Covered(u)'
    <3>. SUFFICES ASSUME sock[u] \in {"sending", "live"}, NEW f \in Owed(u)', f > last[u]
                  PROVE  f \in replay[u] \/ f \in queue[u] \/ f > cursor
      BY <2>0 DEF Covered
    <3>1. CASE f \in Owed(u)
      BY <2>3, <3>1 DEF Covered
    <3>2. CASE f \notin Owed(u)
      BY <2>1, <2>2, <3>2, SubsetOrder DEF HubInv
    <3>. QED BY <3>1, <3>2
  <2>7. SkipsNothing(u)'
    <3>. SUFFICES ASSUME NEW f \in Owed(u)', NEW g \in Received(u), f < g
                  PROVE  f \in Received(u)
      BY <2>0 DEF SkipsNothing
    <3>1. Visible(g) /\ g \in EventId /\ f \in Nat /\ g \in Nat
      BY <2>1, <2>3, SubsetOrder DEF InPlace
    <3>2. f \in Owed(u)
      BY <2>2, <3>1
    <3>. QED BY <2>3, <3>2 DEF SkipsNothing
  <2>. QED BY <2>4, <2>5, <2>6, <2>7
<1>. QED BY <1>2, <1>3, <1>4

(* A client nothing happens to.                                            *)
LEMMA Bystander ==
  ASSUME NEW u \in Client, Stream(u), event' = event, cursor' = cursor,
         sock'[u] = sock[u], queue'[u] = queue[u], replay'[u] = replay[u],
         last'[u] = last[u], got'[u] = got[u]
  PROVE  Stream(u)'
<1>1. Received(u)' = Received(u) /\ Owed(u)' = Owed(u)
  BY DEF Received, Owed, Visible, Mine
<1>2. \A e : Visible(e)' <=> Visible(e)
  BY DEF Visible
<1>. QED
  BY <1>1, <1>2 DEF Stream, InPlace, ReplayWhole, Covered, SkipsNothing

LEMMA FetchKeeps ==
  ASSUME StreamInv, Fetch
  PROVE  HubInv' /\ \A u \in Client : Stream(u)'
<1>. USE DEF StreamInv, OrderInv, Fetch, rowVars, socketVars
<1>1. \A u \in Client : Stream(u)'
  BY Bystander
<1>2. /\ \A e : Visible(e)' <=> Visible(e)
      /\ Unfetched' = Unfetched
  BY DEF Visible, Unfetched
<1>3. \A e \in batch' : Visible(e) /\ e > cursor
  BY DEF FirstOf, Unfetched
<1>4. ASSUME NEW e \in Unfetched, NEW f \in batch', e < f
      PROVE  e \in batch'
  <2>. DEFINE Below(g) == {h \in Unfetched : h < g}
  <2>1. f \in Unfetched /\ Cardinality(Below(f)) < BatchSize
    BY DEF FirstOf
  <2>2. IsFiniteSet(Below(f))
    <3>1. IsFiniteSet(1..MaxEvents)
      BY FanoutAssumption, FS_Interval
    <3>2. Below(f) \subseteq 1..MaxEvents
      BY DEF Unfetched, EventId
    <3>. QED BY <3>1, <3>2, FS_Subset
  <2>3. Below(e) \subseteq Below(f)
    BY <1>4, <2>1 DEF Unfetched, EventId
  <2>4. /\ Cardinality(Below(e)) <= Cardinality(Below(f))
        /\ Cardinality(Below(e)) \in Nat /\ Cardinality(Below(f)) \in Nat
    BY <2>2, <2>3, FS_Subset, FS_CardinalityType
  <2>5. Cardinality(Below(e)) < BatchSize
    BY <2>1, <2>4, FanoutAssumption
  <2>. QED BY <2>5 DEF FirstOf
<1>. QED BY <1>1, <1>2, <1>3, <1>4 DEF HubInv

(* A queue that has room for every event drops nothing.                    *)
LEMMA OfferAll ==
  ASSUME TypeOK, QueueSize >= MaxEvents, NEW u \in Client
  PROVE  Offer(u) = queue[u] \cup {e \in batch : Mine(u, e)}
<1>. DEFINE All == queue[u] \cup {e \in batch : Mine(u, e)}
            Above(e) == {f \in All : f > e}
<1>1. All \subseteq 1..MaxEvents
  BY DEF TypeOK, EventId
<1>2. IsFiniteSet(1..MaxEvents) /\ Cardinality(1..MaxEvents) = MaxEvents
  BY FanoutAssumption, FS_Interval
<1>3. ASSUME NEW e \in All PROVE Cardinality(Above(e)) < QueueSize
  <2>1. Above(e) \subseteq (1..MaxEvents) \ {e}
    BY <1>1
  <2>2. /\ IsFiniteSet((1..MaxEvents) \ {e})
        /\ Cardinality((1..MaxEvents) \ {e}) = MaxEvents - 1
    BY <1>1, <1>2, FS_RemoveElement
  <2>3. /\ Cardinality(Above(e)) \in Nat
        /\ Cardinality(Above(e)) <= MaxEvents - 1
    <3>1. IsFiniteSet(Above(e)) /\ Cardinality(Above(e)) <= Cardinality((1..MaxEvents) \ {e})
      BY <2>1, <2>2, FS_Subset
    <3>. QED BY <2>2, <3>1, FS_CardinalityType
  <2>. QED BY <2>3, FanoutAssumption
<1>. QED BY <1>3 DEF Offer, LastOf

LEMMA DispatchKeeps ==
  ASSUME StreamInv, Dispatch, QueueSize >= MaxEvents
  PROVE  HubInv' /\ \A u \in Client : Stream(u)'
<1>. USE DEF StreamInv, OrderInv, rowVars
<1>1. PICK top \in EventId : Greatest(batch, top) /\ cursor' = top
  BY DEF Dispatch
<1>2. /\ top \in batch /\ Visible(top) /\ cursor < top
      /\ \A e \in batch : e <= top
  BY <1>1, SubsetOrder DEF Greatest, HubInv, Dispatch
<1>3. /\ \A e : Visible(e)' <=> Visible(e)
      /\ \A u : Owed(u)' = Owed(u) /\ Received(u)' = Received(u)
      /\ UNCHANGED <<sock, replay, last>> /\ batch' = {}
  BY DEF Visible, Owed, Mine, Received, Dispatch
<1>4. HubInv'
  BY <1>1, <1>2, <1>3 DEF HubInv
<1>5. ASSUME NEW u \in Client PROVE Stream(u)'
  <2>0. /\ queue[u] \subseteq EventId /\ batch \subseteq EventId
        /\ cursor \in Nat /\ \A e \in EventId : e \in Nat
        /\ Owed(u) \subseteq EventId
    BY SubsetOrder
  <2>1. queue'[u] = IF Subscribed(u) THEN Offer(u) ELSE queue[u]
    BY DEF Dispatch
  <2>2. /\ queue[u] \subseteq queue'[u]
        /\ queue'[u] \subseteq queue[u] \cup batch
        /\ sock[u] # "closed" => \A e \in batch : Mine(u, e) => e \in queue'[u]
    <3>1. CASE Subscribed(u)
      BY <2>1, <3>1, OfferAll
    <3>2. CASE ~Subscribed(u)
      BY <2>1, <3>2 DEF Subscribed
    <3>. QED BY <3>1, <3>2
  <2>. USE DEF Stream
  <2>3. InPlace(u)'
    <3>1. \A e \in queue'[u] : Visible(e)
      BY <2>2 DEF InPlace, HubInv
    <3>2. \A e \in queue'[u] : e <= cursor'
      BY <1>1, <1>2, <2>0, <2>2 DEF InPlace
    <3>. QED BY <1>3, <3>1, <3>2 DEF InPlace
  <2>4. ReplayWhole(u)' /\ SkipsNothing(u)'
    BY <1>3 DEF ReplayWhole, SkipsNothing
  <2>5. Covered(u)'
    <3>. SUFFICES ASSUME sock[u] \in {"sending", "live"}, NEW e \in Owed(u),
                         e > last[u], ~(e > top), e \notin replay[u]
                  PROVE  e \in queue'[u]
      BY <1>1, <1>3 DEF Covered
    <3>1. CASE e \in queue[u]
      BY <2>2, <3>1
    <3>2. CASE e > cursor
      <4>1. e \in Unfetched /\ Mine(u, e)
        BY <3>2 DEF Unfetched, Owed
      <4>2. e \in batch
        <5>1. e = top \/ e < top
          BY <2>0
        <5>. QED BY <1>2, <4>1, <5>1 DEF HubInv
      <4>. QED BY <2>2, <4>1, <4>2
    <3>. QED BY <3>1, <3>2 DEF Covered
  <2>. QED BY <2>3, <2>4, <2>5
<1>. QED BY <1>4, <1>5

(* A socket that opens, reads its replay, goes live or breaks.             *)
LEMMA HandlerKeeps ==
  ASSUME StreamInv, NEW u \in Client,
         Connect(u) \/ ReadReplay(u) \/ GoLive(u) \/ Disconnect(u)
  PROVE  HubInv' /\ \A v \in Client : Stream(v)'
<1>. USE DEF StreamInv, OrderInv, rowVars, hubVars
<1>0. UNCHANGED <<event, cursor, batch, got>>
  BY DEF Connect, ReadReplay, GoLive, Disconnect
<1>1. HubInv'
  BY <1>0 DEF HubInv, Unfetched, Visible
<1>2. ASSUME NEW v \in Client, v # u PROVE Stream(v)'
  <2>1. /\ sock'[v] = sock[v] /\ queue'[v] = queue[v]
        /\ replay'[v] = replay[v] /\ last'[v] = last[v]
    BY <1>2 DEF Connect, ReadReplay, GoLive, Disconnect, TypeOK
  <2>. QED BY <1>0, <2>1, Bystander
<1>3. Stream(u)'
  <2>1. /\ Received(u)' = Received(u) /\ Owed(u)' = Owed(u)
        /\ \A e : Visible(e)' <=> Visible(e)
    BY <1>0 DEF Received, Owed, Visible, Mine
  <2>. USE DEF Stream
  <2>2. SkipsNothing(u)'
    BY <2>1 DEF SkipsNothing
  <2>3. CASE Connect(u)
    <3>1. replay[u] = {}
      BY <2>3 DEF Connect, InPlace
    <3>2. sock'[u] = "open" /\ queue'[u] = {} /\ replay'[u] = {}
      BY <2>3, <3>1 DEF Connect, TypeOK
    <3>. QED
      BY <1>0, <2>1, <2>2, <3>2 DEF InPlace, ReplayWhole, Covered
  <2>4. CASE ReadReplay(u)
    <3>1. /\ sock'[u] = "sending" /\ queue'[u] = queue[u] /\ last'[u] = last[u]
          /\ replay'[u] = {e \in Owed(u) : e > last[u]}
      BY <2>4 DEF ReadReplay, TypeOK
    <3>2. \A e \in Owed(u) : Visible(e) /\ e \in Nat
      BY SubsetOrder DEF Owed
    <3>. QED
      BY <1>0, <2>1, <2>2, <3>1, <3>2, SubsetOrder DEF InPlace, ReplayWhole, Covered
  <2>5. CASE GoLive(u)
    <3>1. /\ sock'[u] = "live" /\ queue'[u] = queue[u] /\ last'[u] = last[u]
          /\ replay'[u] = {} /\ replay[u] = {} /\ sock[u] = "sending"
      BY <2>5 DEF GoLive, TypeOK
    <3>. QED
      BY <1>0, <2>1, <2>2, <3>1 DEF InPlace, ReplayWhole, Covered
  <2>6. CASE Disconnect(u)
    <3>1. sock'[u] = "closed" /\ queue'[u] = {} /\ replay'[u] = {}
      BY <2>6 DEF Disconnect, TypeOK
    <3>. QED
      BY <1>0, <2>1, <2>2, <3>1 DEF InPlace, ReplayWhole, Covered
  <2>. QED BY <2>3, <2>4, <2>5, <2>6
<1>. QED BY <1>1, <1>2, <1>3

LEMMA RestartKeeps ==
  ASSUME StreamInv, Restart
  PROVE  HubInv' /\ \A u \in Client : Stream(u)'
<1>. USE DEF StreamInv, OrderInv, Restart, rowVars
<1>1. /\ \A e : Visible(e)' <=> Visible(e)
      /\ \A u : Received(u)' = Received(u) /\ Owed(u)' = Owed(u)
  BY DEF Received, Owed, Visible, Mine
<1>2. HubInv'
  <2>1. PICK e \in 0..MaxEvents : LatestId(e) /\ cursor' = e
    OBVIOUS
  <2>2. e # 0 => e \in EventId /\ Visible(e)
    BY <2>1 DEF LatestId, Greatest
  <2>. QED BY <1>1, <2>1, <2>2 DEF HubInv
<1>3. ASSUME NEW u \in Client PROVE Stream(u)'
  <2>1. sock'[u] = "closed" /\ queue'[u] = {} /\ replay'[u] = {}
    OBVIOUS
  <2>. QED
    BY <1>1, <2>1 DEF Stream, InPlace, ReplayWhole, Covered, SkipsNothing
<1>. QED BY <1>2, <1>3

(* A send.  What lies between the last event sent and the least of the     *)
(* replay, or of the queue once the replay is done, is nothing.            *)
LEMMA SendKeeps ==
  ASSUME StreamInv, NEW u \in Client, SendReplay(u) \/ SendQueued(u)
  PROVE  HubInv' /\ \A v \in Client : Stream(v)'
<1>. USE DEF StreamInv, OrderInv, rowVars, hubVars
<1>0. UNCHANGED <<event, cursor, batch, sock>>
  BY DEF SendReplay, SendQueued
<1>1. HubInv'
  BY <1>0 DEF HubInv, Unfetched, Visible
<1>2. PICK e \in EventId :
        /\ Send(u, e)
        /\ \/ /\ sock[u] = "sending" /\ Least(replay[u], e)
              /\ replay' = [replay EXCEPT ![u] = replay[u] \ {e}]
              /\ queue' = queue
           \/ /\ sock[u] = "live" /\ Least(queue[u], e)
              /\ queue' = [queue EXCEPT ![u] = queue[u] \ {e}]
              /\ replay' = replay
  BY DEF SendReplay, SendQueued
<1>3. ASSUME NEW v \in Client, v # u PROVE Stream(v)'
  <2>1. got'[v] = got[v] /\ last'[v] = last[v]
    BY <1>2, <1>3, SentTypes
  <2>2. queue'[v] = queue[v] /\ replay'[v] = replay[v]
    BY <1>2, <1>3 DEF TypeOK
  <2>. QED BY <1>0, <2>1, <2>2, Bystander
<1>4. Stream(u)'
  <2>. USE DEF Stream
  <2>0. /\ cursor \in Nat /\ last[u] \in Nat /\ e \in Nat
        /\ \A f \in Owed(u) : f \in Nat /\ f # 0
    <3>1. \A f \in EventId : f # 0
      BY DEF EventId
    <3>. QED BY <3>1, SubsetOrder
  <2>1. /\ \A f : Visible(f)' <=> Visible(f)
        /\ Owed(u)' = Owed(u) /\ sock'[u] = sock[u]
    BY <1>0 DEF Visible, Owed, Mine
  <2>2. /\ e \in replay[u] \cup queue[u]
        /\ replay[u] \ {e} \subseteq replay'[u] /\ replay'[u] \subseteq replay[u]
        /\ queue[u] \ {e} \subseteq queue'[u] /\ queue'[u] \subseteq queue[u]
    BY <1>2 DEF Least, TypeOK
  <2>3. \/ e <= last[u] /\ last'[u] = last[u] /\ Received(u)' = Received(u)
        \/ /\ e > last[u] /\ last'[u] = e
           /\ Received(u)' = Received(u) \cup {e}
    BY <1>2, SentReceived DEF Received
  <2>4. last'[u] \in Nat /\ last[u] <= last'[u] /\ e <= last'[u]
    BY <2>0, <2>3
  <2>5. InPlace(u)'
    BY <1>0, <2>1, <2>2, <2>3 DEF InPlace
  <2>6. ReplayWhole(u)'
    <3>. SUFFICES ASSUME NEW f \in Owed(u), NEW g \in replay'[u],
                         last'[u] < f, f < g
                  PROVE  f \in replay'[u]
      BY <2>1 DEF ReplayWhole
    <3>1. last[u] < f /\ f # e
      BY <2>0, <2>4
    <3>2. f \in replay[u]
      BY <2>2, <3>1 DEF ReplayWhole
    <3>. QED BY <2>2, <3>1, <3>2
  <2>7. Covered(u)'
    <3>. SUFFICES ASSUME sock[u] \in {"sending", "live"}, NEW f \in Owed(u),
                         f > last'[u]
                  PROVE  f \in replay'[u] \/ f \in queue'[u] \/ f > cursor
      BY <1>0, <2>1 DEF Covered
    <3>1. f > last[u] /\ f # e
      BY <2>0, <2>4
    <3>. QED BY <2>2, <3>1 DEF Covered
  <2>8. SkipsNothing(u)'
    <3>1. ASSUME NEW f \in Owed(u), e > last[u], f < e, f > last[u] PROVE FALSE
      <4>1. CASE sock[u] = "sending" /\ Least(replay[u], e)
        <5>1. f \in replay[u]
          BY <3>1, <4>1 DEF ReplayWhole, Least
        <5>. QED BY <2>0, <3>1, <4>1, <5>1 DEF Least
      <4>2. CASE sock[u] = "live" /\ Least(queue[u], e)
        <5>1. replay[u] = {} /\ e <= cursor
          BY <4>2 DEF InPlace, Least
        <5>2. f \in queue[u]
          BY <2>0, <3>1, <4>2, <5>1 DEF Covered
        <5>. QED BY <2>0, <3>1, <4>2, <5>2 DEF Least
      <4>. QED BY <1>2, <4>1, <4>2
    <3>2. ASSUME NEW f \in Owed(u), f <= last[u] PROVE f \in Received(u)
      <4>1. last[u] # 0 /\ last[u] \in Received(u)
        <5>1. last[u] # 0
          BY <2>0, <3>2
        <5>. QED BY <1>2, <5>1 DEF LastIsNewest
      <4>2. f = last[u] \/ f < last[u]
        BY <2>0, <3>2
      <4>. QED BY <4>1, <4>2 DEF SkipsNothing
    <3>3. ASSUME NEW f \in Owed(u), e > last[u], f < e PROVE f \in Received(u)
      BY <2>0, <3>1, <3>2, <3>3
    <3>. QED BY <2>1, <2>3, <3>3 DEF SkipsNothing
  <2>. QED BY <2>5, <2>6, <2>7, <2>8
<1>. QED BY <1>1, <1>3, <1>4

LEMMA StreamInit == Init => StreamInv
<1>. SUFFICES ASSUME Init PROVE StreamInv
  OBVIOUS
<1>1. OrderInv
  BY TypeInit DEF Init, OrderInv, LastIsNewest
<1>2. /\ \A e \in EventId : event[e].at = "free" /\ ~Visible(e)
      /\ \A u \in Client : Received(u) = {} /\ Owed(u) = {}
  BY DEF Init, Visible, Received, Owed
<1>3. OneWriter /\ HubInv
  BY <1>2 DEF Init, OneWriter, HubInv
<1>4. ASSUME NEW u \in Client PROVE Stream(u)
  BY <1>2 DEF Init, Stream, InPlace, ReplayWhole, Covered, SkipsNothing
<1>. QED BY <1>1, <1>3, <1>4 DEF StreamInv

LEMMA StreamNext ==
  ASSUME Serial, QueueSize >= MaxEvents
  PROVE  StreamInv /\ [Next]_vars => StreamInv'
<1>. SUFFICES ASSUME StreamInv, [Next]_vars PROVE StreamInv'
  OBVIOUS
<1>1. OrderInv'
  BY TypeNext, LastNext DEF StreamInv, OrderInv
<1>2. CASE \E e \in EventId, c \in Task : Insert(e, c) \/ Finish(e)
  BY <1>1, <1>2, RowsKeep DEF StreamInv
<1>3. CASE event' = event /\ HubInv' /\ \A u \in Client : Stream(u)'
  BY <1>1, <1>3 DEF StreamInv, OneWriter
<1>. USE DEF rowVars
<1>4. CASE Hub
  BY <1>3, <1>4, FetchKeeps, DispatchKeeps DEF Hub, Fetch, Dispatch
<1>5. ASSUME NEW u \in Client, Connect(u) \/ ReadReplay(u) \/ GoLive(u) \/ Disconnect(u)
      PROVE  StreamInv'
  BY <1>3, <1>5, HandlerKeeps DEF Connect, ReadReplay, GoLive, Disconnect
<1>6. ASSUME NEW u \in Client, SendReplay(u) \/ SendQueued(u) PROVE StreamInv'
  BY <1>3, <1>6, SendKeeps DEF SendReplay, SendQueued
<1>7. CASE Restart
  BY <1>3, <1>7, RestartKeeps DEF Restart
<1>8. CASE UNCHANGED vars
  <2>1. \A u \in Client : Stream(u)'
    BY <1>8, Bystander DEF vars, hubVars, socketVars, StreamInv
  <2>2. HubInv'
    BY <1>8 DEF vars, hubVars, StreamInv, HubInv, Unfetched, Visible
  <2>. QED BY <1>3, <1>8, <2>1, <2>2 DEF vars
<1>9. ASSUME NEW e \in EventId, Finish(e) PROVE \E c \in Task : Finish(e)
  <2>1. event[e] \in EventRow
    BY DEF StreamInv, OrderInv, TypeOK
  <2>. QED BY <1>9, <2>1 DEF EventRow
<1>. QED
  BY <1>2, <1>4, <1>5, <1>6, <1>7, <1>8, <1>9 DEF Next, Socket

(* A client that has an event has every earlier event of its task, through *)
(* broken sockets and restarts, when one writer at a time numbers the      *)
(* events and no queue is shorter than what may be waiting.                *)
THEOREM StreamHasNoHoles ==
  ASSUME Serial, QueueSize >= MaxEvents
  PROVE  Spec => []NothingSkipped
<1>1. StreamInv => NothingSkipped
  BY DEF StreamInv, Stream, SkipsNothing, NothingSkipped
<1>. QED BY <1>1, StreamInit, StreamNext, PTL DEF Spec

-----------------------------------------------------------------------------
(* The ingestion.                                                          *)
Places == {"idle", "claim", "source", "authorize", "insert", "list", "finish"}
ProcRow == [at : Places, todo : SUBSET Event, tries : Int, seen : Nat,
            out : Outcomes]

TypeInv ==
  /\ mail \in [Event -> [text : Texts, locator : Locators]]
  /\ source \in [Event -> BOOLEAN]
  /\ receipt \in [Event -> Statuses]
  /\ due \in [Event -> BOOLEAN]
  /\ staged \in [Event -> Nat]
  /\ proc \in [Process -> ProcRow]

(* What a process believes about the message it works on: a positive count *)
(* it saw is still there, and behind the insert the proposals are staged.  *)
Believes(p, e) ==
  Current(p, e) =>
    /\ proc[p].at = "insert" /\ proc[p].seen > 0 => staged[e] > 0
    /\ proc[p].at = "list" => staged[e] > 0
    /\ proc[p].at = "finish" /\ proc[p].out = "completed" =>
         mail[e].text = "chatter" \/ staged[e] > 0

ProcView == \A p \in Process, e \in Event : Believes(p, e)

IngestionInv == TypeInv /\ ProcView /\ StagedOnce /\ CompletedIsStaged

----------------------------------------------------------------------------
(* A process works on one message at a time.                               *)
LEMMA OneCurrent ==
  ASSUME TypeInv, NEW p \in Process, NEW e \in Event, NEW f \in Event,
         Current(p, e), Current(p, f)
  PROVE  e = f
<1>1. e \in Nat /\ f \in Nat
  BY IngestionAssumption
<1>2. e <= f /\ f <= e
  BY DEF Current
<1>. QED BY <1>1, <1>2

LEMMA InitHolds == IngestionInit => IngestionInv
<1> SUFFICES ASSUME IngestionInit PROVE IngestionInv
  OBVIOUS
<1>1. Asleep \in ProcRow
  BY DEF Asleep, ProcRow, Places, Outcomes
<1>2. TypeInv
  BY <1>1, IngestionAssumption DEF IngestionInit, TypeInv, Statuses
<1>3. ProcView
  BY DEF IngestionInit, ProcView, Believes, Asleep
<1>4. StagedOnce /\ CompletedIsStaged
  BY DEF IngestionInit, StagedOnce, CompletedIsStaged
<1>. QED BY <1>2, <1>3, <1>4 DEF IngestionInv

(* Every step changes at most one row of proc, into a row of its type.     *)
LEMMA SkipType ==
  ASSUME TypeInv, NEW p \in Process, NEW e \in Event, Skip(p, e)
  PROVE  /\ proc' \in [Process -> ProcRow]
         /\ proc'[p].at \in {"idle", "claim"}
         /\ \A q \in Process : q # p => proc'[q] = proc[q]
<1> DEFINE left == proc[p].todo \ {e}
           row == [Asleep EXCEPT !.at = IF left = {} THEN "idle" ELSE "claim",
                                 !.todo = left]
<1>1. proc[p] \in ProcRow
  BY DEF TypeInv
<1>2. left \subseteq Event
  BY <1>1 DEF ProcRow
<1>a. Asleep \in ProcRow
  BY DEF Asleep, ProcRow, Places, Outcomes
<1>b. [Asleep EXCEPT !.at = "idle", !.todo = left] \in ProcRow
  BY <1>2, <1>a DEF ProcRow, Places
<1>c. [Asleep EXCEPT !.at = "claim", !.todo = left] \in ProcRow
  BY <1>2, <1>a DEF ProcRow, Places
<1>3. row \in ProcRow /\ row.at \in {"idle", "claim"}
  BY <1>a, <1>b, <1>c DEF ProcRow
<1>4. proc' = [proc EXCEPT ![p] = row]
  BY DEF Skip
<1>. QED BY <1>3, <1>4 DEF TypeInv

LEMMA TypeStep == TypeInv /\ [IngestionNext]_ingestionVars => TypeInv'
<1> SUFFICES ASSUME TypeInv, [IngestionNext]_ingestionVars PROVE TypeInv'
  OBVIOUS
<1> USE DEF TypeInv
<1>1. ASSUME NEW p \in Process, Drain(p) PROVE TypeInv'
  <2>1. Pending \subseteq Event
    BY DEF Pending
  <2>2. [proc[p] EXCEPT !.at = "claim", !.todo = Pending] \in ProcRow
    BY <2>1 DEF ProcRow, Places
  <2>. QED BY <1>1, <2>2 DEF Drain
<1>2. ASSUME NEW p \in Process, NEW e \in Event, Claim(p, e) PROVE TypeInv'
  <2>1. [proc[p] EXCEPT !.at = "source"] \in ProcRow
    BY DEF ProcRow, Places
  <2>. QED BY <1>2, <2>1 DEF Claim, Go, Statuses
<1>3. ASSUME NEW p \in Process, NEW e \in Event, Leased(p, e) PROVE TypeInv'
  BY <1>3, SkipType DEF Leased
<1>4. ASSUME NEW p \in Process, NEW e \in Event, Source(p, e) PROVE TypeInv'
  <2>1. \A out \in Outcomes : [proc[p] EXCEPT !.at = "finish", !.out = out] \in ProcRow
    BY DEF ProcRow, Places
  <2>2. [proc[p] EXCEPT !.at = "authorize"] \in ProcRow
    BY DEF ProcRow, Places
  <2>. QED BY <1>4, <2>1, <2>2 DEF Source, Settle, Go, Outcomes
<1>5. ASSUME NEW p \in Process, NEW e \in Event, Authorize(p, e) PROVE TypeInv'
  <2>1. [proc[p] EXCEPT !.at = "finish", !.out = "failed"] \in ProcRow
    BY DEF ProcRow, Places, Outcomes
  <2>a. proc[p] \in ProcRow /\ staged[e] \in Nat
    OBVIOUS
  <2>2. [proc[p] EXCEPT !.at = "insert", !.seen = staged[e]] \in ProcRow
    BY ONLY <2>a DEF ProcRow, Places
  <2>3. proc' = [proc EXCEPT ![p] = [proc[p] EXCEPT !.at = "finish", !.out = "failed"]]
        \/ proc' = [proc EXCEPT ![p] = [proc[p] EXCEPT !.at = "insert", !.seen = staged[e]]]
    BY <1>5 DEF Authorize, Settle
  <2>. QED BY <1>5, <2>1, <2>2, <2>3 DEF Authorize
<1>6. ASSUME NEW p \in Process, NEW e \in Event, InsertProposals(p, e) PROVE TypeInv'
  <2>1. [proc[p] EXCEPT !.at = "list"] \in ProcRow
    BY DEF ProcRow, Places
  <2>. QED BY <1>6, <2>1 DEF InsertProposals, Go
<1>7. ASSUME NEW p \in Process, NEW e \in Event, InsertFails(p, e) PROVE TypeInv'
  <2>a. proc[p] \in ProcRow
    OBVIOUS
  <2>b. proc[p].tries + 1 \in Int
    BY <2>a DEF ProcRow
  <2>1. \A n \in Int, at \in {"finish", "authorize"} :
          [proc[p] EXCEPT !.tries = n, !.out = "failed", !.at = at] \in ProcRow
    BY ONLY <2>a DEF ProcRow, Places, Outcomes
  <2>. QED BY <1>7, <2>b, <2>1 DEF InsertFails
<1>8. ASSUME NEW p \in Process, NEW e \in Event, ListProposals(p, e) PROVE TypeInv'
  <2>1. \A out \in Outcomes : [proc[p] EXCEPT !.at = "finish", !.out = out] \in ProcRow
    BY DEF ProcRow, Places
  <2>. QED BY <1>8, <2>1 DEF ListProposals, Settle, Outcomes
<1>9. ASSUME NEW p \in Process, NEW e \in Event, FinishReceipt(p, e) PROVE TypeInv'
  <2>1. proc[p].out \in Statuses
    BY DEF ProcRow, Outcomes, Statuses
  <2>. QED BY <1>9, <2>1, SkipType DEF FinishReceipt
<1>10. ASSUME NEW p \in Process, Crash(p) PROVE TypeInv'
  <2>1. Asleep \in ProcRow
    BY DEF Asleep, ProcRow, Places, Outcomes
  <2>. QED BY <1>10, <2>1 DEF Crash
<1>11. ASSUME NEW e \in Event, Elapse(e) \/ Purge(e) PROVE TypeInv'
  BY <1>11 DEF Elapse, Purge
<1>12. CASE Revoke \/ Rejoin \/ UNCHANGED ingestionVars
  BY <1>12 DEF Revoke, Rejoin, ingestionVars
<1>. QED BY <1>1, <1>2, <1>3, <1>4, <1>5, <1>6, <1>7, <1>8, <1>9, <1>10, <1>11, <1>12
         DEF IngestionNext, Work

----------------------------------------------------------------------------
(* What the other processes believe survives a step of p.                  *)
LEMMA OthersBelieve ==
  ASSUME TypeInv, TypeInv', ProcView, mail' = mail,
         \A f \in Event : staged'[f] >= staged[f],
         NEW q \in Process, proc'[q] = proc[q], NEW f \in Event
  PROVE  Believes(q, f)'
<1>1. Current(q, f)' <=> Current(q, f)
  BY DEF Current
<1>2. staged[f] \in Nat /\ staged'[f] \in Nat /\ staged'[f] >= staged[f]
  BY DEF TypeInv
<1>3. Believes(q, f)
  BY DEF ProcView
<1>. QED BY <1>1, <1>2, <1>3 DEF Believes

(* A process that works on e stays with it, or has put it down.            *)
LEMMA KeepsCurrent ==
  ASSUME TypeInv, NEW p \in Process, NEW e \in Event, Current(p, e),
         proc'[p].todo = proc[p].todo, NEW f \in Event, Current(p, f)'
  PROVE  f = e
<1>1. Current(p, f)
  BY DEF Current
<1>. QED BY <1>1, OneCurrent

LEMMA BeliefsHold ==
  IngestionInv /\ TypeInv' /\ [IngestionNext]_ingestionVars => ProcView'
<1> SUFFICES ASSUME IngestionInv, TypeInv', [IngestionNext]_ingestionVars,
                    NEW q \in Process, NEW f \in Event
             PROVE  Believes(q, f)'
  BY DEF ProcView
<1> USE DEF IngestionInv
<1>a. \A p \in Process : proc[p] \in ProcRow
  BY DEF TypeInv
<1>b. \A g \in Event : staged[g] \in Nat
  BY DEF TypeInv
<1>c. ASSUME mail' = mail, staged' = staged, proc'[q] = proc[q] PROVE Believes(q, f)'
  BY <1>b, <1>c, OthersBelieve
<1>d. ASSUME proc'[q].at \in {"idle", "claim", "source", "authorize"} PROVE Believes(q, f)'
  BY <1>d DEF Believes
<1>1. ASSUME NEW p \in Process, Drain(p) PROVE Believes(q, f)'
  <2>1. CASE q = p
    <3>1. proc'[q].at = "claim"
      BY <1>1, <2>1, <1>a DEF Drain, TypeInv, ProcRow
    <3>. QED BY <3>1, <1>d
  <2>2. CASE q # p
    BY <1>1, <2>2, <1>c DEF Drain, TypeInv
  <2>. QED BY <2>1, <2>2
<1>2. ASSUME NEW p \in Process, NEW e \in Event, Claim(p, e) PROVE Believes(q, f)'
  <2>1. CASE q = p
    <3>1. proc'[q].at = "source"
      BY <1>2, <2>1, <1>a DEF Claim, Go, TypeInv, ProcRow
    <3>. QED BY <3>1, <1>d
  <2>2. CASE q # p
    BY <1>2, <2>2, <1>c DEF Claim, Go, TypeInv
  <2>. QED BY <2>1, <2>2
<1>3. ASSUME NEW p \in Process, NEW e \in Event, Leased(p, e) PROVE Believes(q, f)'
  <2>1. proc'[p].at \in {"idle", "claim"} /\ (q # p => proc'[q] = proc[q])
    BY <1>3, SkipType DEF Leased
  <2>. QED BY <1>3, <2>1, <1>c, <1>d DEF Leased
<1>4. ASSUME NEW p \in Process, NEW e \in Event, Source(p, e) PROVE Believes(q, f)'
  <2>1. CASE q = p
    <3>1. \/ proc'[p].at = "authorize"
          \/ /\ proc'[p].at = "finish" /\ proc'[p].todo = proc[p].todo
             /\ proc'[p].out = "completed" => mail[e].text = "chatter"
      BY <1>4, <1>a DEF Source, Settle, Go, TypeInv, ProcRow
    <3>2. CASE proc'[p].at = "authorize"
      BY <2>1, <3>2, <1>d
    <3>3. CASE proc'[p].at = "finish" /\ proc'[p].todo = proc[p].todo
                 /\ (proc'[p].out = "completed" => mail[e].text = "chatter")
      <4>1. Current(p, e)
        BY <1>4 DEF Source
      <4>2. Current(p, f)' => f = e
        BY <4>1, <3>3, KeepsCurrent
      <4>. QED BY <1>4, <2>1, <3>3, <4>2 DEF Source, Believes
    <3>. QED BY <3>1, <3>2, <3>3
  <2>2. CASE q # p
    BY <1>4, <2>2, <1>c DEF Source, Settle, Go, TypeInv
  <2>. QED BY <2>1, <2>2
<1>5. ASSUME NEW p \in Process, NEW e \in Event, Authorize(p, e) PROVE Believes(q, f)'
  <2>1. CASE q = p
    <3>1. \/ /\ proc'[p].at = "insert" /\ proc'[p].todo = proc[p].todo
             /\ proc'[p].seen = staged[e]
          \/ proc'[p].at = "finish" /\ proc'[p].out = "failed"
      BY <1>5, <1>a DEF Authorize, Settle, TypeInv, ProcRow
    <3>2. CASE proc'[p].at = "insert" /\ proc'[p].todo = proc[p].todo
                 /\ proc'[p].seen = staged[e]
      <4>1. Current(p, e) /\ staged' = staged
        BY <1>5 DEF Authorize
      <4>2. Current(p, f)' => f = e
        BY <4>1, <3>2, KeepsCurrent
      <4>. QED BY <2>1, <3>2, <4>1, <4>2 DEF Believes
    <3>3. CASE proc'[p].at = "finish" /\ proc'[p].out = "failed"
      BY <2>1, <3>3 DEF Believes
    <3>. QED BY <3>1, <3>2, <3>3
  <2>2. CASE q # p
    BY <1>5, <2>2, <1>c DEF Authorize, Settle, TypeInv
  <2>. QED BY <2>1, <2>2
<1>6. ASSUME NEW p \in Process, NEW e \in Event, InsertProposals(p, e) PROVE Believes(q, f)'
  <2>1. staged' = [staged EXCEPT ![e] = IF proc[p].seen = 0 THEN @ + 1 ELSE @]
    BY <1>6 DEF InsertProposals
  <2>2. \A g \in Event : staged'[g] >= staged[g]
    BY <2>1, <1>b DEF TypeInv
  <2>3. CASE q = p
    <3>1. proc'[p].at = "list" /\ proc'[p].todo = proc[p].todo
      BY <1>6, <1>a DEF InsertProposals, Go, TypeInv, ProcRow
    <3>2. Current(p, e) /\ proc[p].at = "insert" /\ ~ViolatesUnique(p, e)
      BY <1>6 DEF InsertProposals
    <3>3. Current(p, f)' => f = e
      BY <3>1, <3>2, KeepsCurrent
    <3>4. staged'[e] > 0
      <4>1. Believes(p, e)
        BY DEF ProcView
      <4>2. CASE proc[p].seen = 0
        BY <4>2, <2>1, <1>b DEF TypeInv
      <4>3. CASE proc[p].seen > 0
        BY <4>1, <4>3, <3>2, <2>2, <1>b DEF Believes, TypeInv
      <4>. QED BY <4>2, <4>3, <1>a DEF ProcRow
    <3>. QED BY <2>3, <3>1, <3>3, <3>4 DEF Believes
  <2>4. CASE q # p
    <3>1. proc'[q] = proc[q] /\ mail' = mail
      BY <1>6, <2>4 DEF InsertProposals, Go, TypeInv
    <3>. QED BY <3>1, <2>2, OthersBelieve
  <2>. QED BY <2>3, <2>4
<1>7. ASSUME NEW p \in Process, NEW e \in Event, InsertFails(p, e) PROVE Believes(q, f)'
  <2>1. CASE q = p
    <3>1. proc'[p].at \in {"finish", "authorize"} /\ proc'[p].out = "failed"
      BY <1>7, <1>a DEF InsertFails, TypeInv, ProcRow
    <3>. QED BY <2>1, <3>1 DEF Believes
  <2>2. CASE q # p
    BY <1>7, <2>2, <1>c DEF InsertFails, TypeInv
  <2>. QED BY <2>1, <2>2
<1>8. ASSUME NEW p \in Process, NEW e \in Event, ListProposals(p, e) PROVE Believes(q, f)'
  <2>1. CASE q = p
    <3>1. proc'[p].at = "finish" /\ proc'[p].todo = proc[p].todo
      BY <1>8, <1>a DEF ListProposals, Settle, TypeInv, ProcRow
    <3>2. Current(p, e) /\ proc[p].at = "list" /\ staged' = staged
      BY <1>8 DEF ListProposals
    <3>3. Current(p, f)' => f = e
      BY <3>1, <3>2, KeepsCurrent
    <3>4. staged[e] > 0
      BY <3>2 DEF ProcView, Believes
    <3>. QED BY <2>1, <3>1, <3>2, <3>3, <3>4 DEF Believes
  <2>2. CASE q # p
    BY <1>8, <2>2, <1>c DEF ListProposals, Settle, TypeInv
  <2>. QED BY <2>1, <2>2
<1>9. ASSUME NEW p \in Process, NEW e \in Event, FinishReceipt(p, e) PROVE Believes(q, f)'
  <2>1. proc'[p].at \in {"idle", "claim"} /\ (q # p => proc'[q] = proc[q])
    BY <1>9, SkipType DEF FinishReceipt
  <2>. QED BY <1>9, <2>1, <1>c, <1>d DEF FinishReceipt
<1>10. ASSUME NEW p \in Process, Crash(p) PROVE Believes(q, f)'
  <2>1. CASE q = p
    <3>1. proc'[q].at = "idle"
      BY <1>10, <2>1 DEF Crash, Asleep, TypeInv
    <3>. QED BY <3>1, <1>d
  <2>2. CASE q # p
    BY <1>10, <2>2, <1>c DEF Crash, TypeInv
  <2>. QED BY <2>1, <2>2
<1>11. ASSUME NEW e \in Event, Elapse(e) \/ Purge(e) PROVE Believes(q, f)'
  BY <1>11, <1>c DEF Elapse, Purge
<1>12. CASE Revoke \/ Rejoin \/ UNCHANGED ingestionVars
  BY <1>12, <1>c DEF Revoke, Rejoin, ingestionVars
<1>. QED BY <1>1, <1>2, <1>3, <1>4, <1>5, <1>6, <1>7, <1>8, <1>9, <1>10, <1>11, <1>12
         DEF IngestionNext, Work

----------------------------------------------------------------------------
(* Only the insert and the finish touch the proposals and the receipts.    *)
LEMMA ReceiptsHold ==
  IngestionInv /\ TypeInv' /\ [IngestionNext]_ingestionVars => (StagedOnce /\ CompletedIsStaged)'
<1> SUFFICES ASSUME IngestionInv, TypeInv', [IngestionNext]_ingestionVars
             PROVE  (StagedOnce /\ CompletedIsStaged)'
  OBVIOUS
<1> USE DEF IngestionInv
<1>b. \A g \in Event : staged[g] \in Nat
  BY DEF TypeInv
<1>c. ASSUME UNCHANGED <<mail, receipt, staged>> PROVE (StagedOnce /\ CompletedIsStaged)'
  BY <1>c DEF StagedOnce, CompletedIsStaged
<1>1. ASSUME NEW p \in Process, NEW e \in Event, Claim(p, e)
      PROVE  (StagedOnce /\ CompletedIsStaged)'
  BY <1>1 DEF Claim, StagedOnce, CompletedIsStaged, TypeInv
<1>2. ASSUME NEW p \in Process, NEW e \in Event, InsertProposals(p, e)
      PROVE  (StagedOnce /\ CompletedIsStaged)'
  <2>1. staged' = [staged EXCEPT ![e] = IF proc[p].seen = 0 THEN @ + 1 ELSE @]
    BY <1>2 DEF InsertProposals
  <2>2. proc[p].seen = 0 => ~(staged[e] > 0)
    BY <1>2 DEF InsertProposals, ViolatesUnique
  <2>3. \A g \in Event : staged'[g] >= staged[g] /\ staged'[g] <= 1
    BY <2>1, <2>2, <1>b DEF TypeInv, StagedOnce
  <2>4. mail' = mail /\ receipt' = receipt
    BY <1>2 DEF InsertProposals
  <2>5. \A g \in Event : staged'[g] \in Nat
    BY DEF TypeInv
  <2>. QED BY <2>3, <2>4, <2>5, <1>b DEF StagedOnce, CompletedIsStaged
<1>3. ASSUME NEW p \in Process, NEW e \in Event, FinishReceipt(p, e)
      PROVE  (StagedOnce /\ CompletedIsStaged)'
  <2>1. Believes(p, e) /\ Current(p, e) /\ proc[p].at = "finish"
    BY <1>3 DEF FinishReceipt, ProcView
  <2>2. proc[p].out = "completed" => mail[e].text = "chatter" \/ staged[e] > 0
    BY <2>1 DEF Believes
  <2>3. receipt' = [receipt EXCEPT ![e] = proc[p].out] /\ mail' = mail /\ staged' = staged
    BY <1>3 DEF FinishReceipt
  <2>. QED BY <2>2, <2>3 DEF StagedOnce, CompletedIsStaged, TypeInv
<1>4. ASSUME NEW p \in Process, Drain(p) \/ Crash(p)
      PROVE  (StagedOnce /\ CompletedIsStaged)'
  BY <1>4, <1>c DEF Drain, Crash
<1>5. ASSUME NEW p \in Process, NEW e \in Event,
             Leased(p, e) \/ Source(p, e) \/ Authorize(p, e) \/ InsertFails(p, e)
               \/ ListProposals(p, e)
      PROVE  (StagedOnce /\ CompletedIsStaged)'
  BY <1>5, <1>c DEF Leased, Source, Authorize, InsertFails, ListProposals
<1>6. ASSUME NEW e \in Event, Elapse(e) \/ Purge(e)
      PROVE  (StagedOnce /\ CompletedIsStaged)'
  BY <1>6, <1>c DEF Elapse, Purge
<1>7. CASE Revoke \/ Rejoin \/ UNCHANGED ingestionVars
  BY <1>7, <1>c DEF Revoke, Rejoin, ingestionVars
<1>. QED BY <1>1, <1>2, <1>3, <1>4, <1>5, <1>6, <1>7 DEF IngestionNext, Work

(* The inductive invariant: types, what the processes believe, and the two *)
(* invariants (memory_ingestion.py:407, process_event).                    *)
THEOREM IngestionInductive == IngestionSpec => []IngestionInv
<1>1. IngestionInv /\ [IngestionNext]_ingestionVars => IngestionInv'
  BY TypeStep, BeliefsHold, ReceiptsHold DEF IngestionInv
<1>. QED BY InitHolds, <1>1, PTL DEF IngestionSpec

(* However often a message is delivered and whoever dies, its rule is      *)
(* proposed at most once (memory_consolidator.py:219).                     *)
THEOREM ProposedOnce == IngestionSpec => []StagedOnce
  BY IngestionInductive, PTL DEF IngestionInv

(* A receipt that says completed stands for staged proposals, whoever      *)
(* wrote it (memory_ingestion.py:251).                                     *)
THEOREM CompletedStands == IngestionSpec => []CompletedIsStaged
  BY IngestionInductive, PTL DEF IngestionInv

----------------------------------------------------------------------------
(* The refinement of Outbox: a step settles the fate of one message or of  *)
(* none.                                                                   *)

LEMMA SameFates ==
  ASSUME receipt' = receipt, staged' = staged,
         \A e \in Event : InFlight(e)' <=> InFlight(e)
  PROVE  \A e \in Event : Fate(e)' = Fate(e)
  BY DEF Fate, Settled

LEMMA OneFate ==
  ASSUME NEW e \in Event, Fate(e) = "pending", Fate(e)' \in {"staged", "closed"},
         \A f \in Event : f # e => Fate(f)' = Fate(f)
  PROVE  Ledger!Next
<1> DEFINE fate == [g \in Event |-> Fate(g)]
<1>1. fate[e] = "pending"
  OBVIOUS
<1>2. fate' = [fate EXCEPT ![e] = Fate(e)']
  OBVIOUS
<1>3. Ledger!Stage(e) \/ Ledger!Close(e)
  BY <1>1, <1>2 DEF Ledger!Stage, Ledger!Close
<1>. QED BY <1>3 DEF Ledger!Next

Flying(p) == proc[p].at \notin {"idle", "claim"}
OnlyMoves(p) == \A q \in Process : q # p => proc'[q] = proc[q]

(* A process that stays in flight, or on the ground, stays with its work.  *)
LEMMA SameFlights ==
  ASSUME NEW p \in Process, OnlyMoves(p),
         \/ ~Flying(p) /\ ~Flying(p)'
         \/ Flying(p) /\ Flying(p)' /\ proc'[p].todo = proc[p].todo
  PROVE  \A e \in Event : InFlight(e)' <=> InFlight(e)
<1> SUFFICES ASSUME NEW e \in Event PROVE InFlight(e)' <=> InFlight(e)
  OBVIOUS
<1>1. \A q \in Process :
        (Flying(q) /\ Current(q, e))' <=> (Flying(q) /\ Current(q, e))
  BY DEF OnlyMoves, Flying, Current
<1>. QED BY <1>1 DEF InFlight, Flying

(* A process puts down its message: only the fate of that one may change.  *)
LEMMA Landing ==
  ASSUME TypeInv, NEW p \in Process, NEW e \in Event, Current(p, e), Flying(p),
         ~Flying(p)', OnlyMoves(p), staged' = staged,
         \A f \in Event : f # e => receipt'[f] = receipt[f]
  PROVE  Ledger!Next \/ \A f \in Event : Fate(f)' = Fate(f)
<1>1. ASSUME NEW f \in Event, f # e PROVE Fate(f)' = Fate(f)
  <2>1. ~Current(p, f)
    BY <1>1, OneCurrent
  <2>2. \A q \in Process :
          (Flying(q) /\ Current(q, f))' <=> (Flying(q) /\ Current(q, f))
    BY <2>1 DEF OnlyMoves, Flying, Current
  <2>3. InFlight(f)' <=> InFlight(f)
    BY <2>2 DEF InFlight, Flying
  <2>4. receipt'[f] = receipt[f]
    BY <1>1
  <2>. QED BY <2>3, <2>4 DEF Fate, Settled
<1>2. InFlight(e)
  BY DEF InFlight, Flying
<1>3. Fate(e) = "pending" \/ (Fate(e) = "staged" /\ Fate(e)' = "staged")
  BY <1>2 DEF Fate
<1>4. Fate(e)' \in {"pending", "staged", "closed"}
  BY DEF Fate
<1>. QED BY <1>1, <1>3, <1>4, OneFate

LEMMA OutboxStep ==
  TypeInv /\ TypeInv' /\ [IngestionNext]_ingestionVars
    => Ledger!Next \/ \A e \in Event : Fate(e)' = Fate(e)
<1> DEFINE Goal == Ledger!Next \/ \A e \in Event : Fate(e)' = Fate(e)
<1> SUFFICES ASSUME TypeInv, TypeInv', [IngestionNext]_ingestionVars PROVE Goal
  OBVIOUS
<1>a. \A p \in Process : proc[p] \in ProcRow
  BY DEF TypeInv
<1>b. \A g \in Event : staged[g] \in Nat
  BY DEF TypeInv
<1>1. ASSUME NEW p \in Process, Drain(p) PROVE Goal
  <2>1. OnlyMoves(p) /\ ~Flying(p) /\ ~Flying(p)'
    BY <1>1, <1>a DEF Drain, TypeInv, ProcRow, OnlyMoves, Flying
  <2>. QED BY <1>1, <2>1, SameFlights, SameFates DEF Drain
<1>2. ASSUME NEW p \in Process, NEW e \in Event, Claim(p, e) PROVE Goal
  <2>1. OnlyMoves(p) /\ ~Flying(p) /\ proc'[p].todo = proc[p].todo
    BY <1>2, <1>a DEF Claim, Go, TypeInv, ProcRow, OnlyMoves, Flying
  <2>2. receipt[e] \notin {"completed", "ignored"} /\ Current(p, e)
    BY <1>2 DEF Claim, Retryable
  <2>3. receipt' = [receipt EXCEPT ![e] = "processing"] /\ staged' = staged
    BY <1>2 DEF Claim
  <2>4. Fate(e)' = Fate(e)
    BY <2>2, <2>3 DEF Fate, Settled, TypeInv
  <2>5. ASSUME NEW f \in Event, f # e PROVE Fate(f)' = Fate(f)
    <3>1. ~Current(p, f) /\ ~Current(p, f)'
      BY <2>1, <2>2, <2>5, OneCurrent DEF Current
    <3>2. \A q \in Process :
            (Flying(q) /\ Current(q, f))' <=> (Flying(q) /\ Current(q, f))
      BY <2>1, <3>1 DEF OnlyMoves, Flying, Current
    <3>3. InFlight(f)' <=> InFlight(f)
      BY <3>2 DEF InFlight, Flying
    <3>4. receipt'[f] = receipt[f]
      BY <2>3, <2>5 DEF TypeInv
    <3>. QED BY <2>3, <3>3, <3>4 DEF Fate, Settled
  <2>. QED BY <2>4, <2>5
<1>3. ASSUME NEW p \in Process, NEW e \in Event, Leased(p, e) PROVE Goal
  <2>1. OnlyMoves(p) /\ ~Flying(p) /\ ~Flying(p)'
    BY <1>3, SkipType DEF Leased, OnlyMoves, Flying
  <2>. QED BY <1>3, <2>1, SameFlights, SameFates DEF Leased
<1>4. ASSUME NEW p \in Process, NEW e \in Event,
             Source(p, e) \/ Authorize(p, e) \/ InsertFails(p, e) \/ ListProposals(p, e)
      PROVE  Goal
  <2>1. OnlyMoves(p)
    BY <1>4 DEF Source, Authorize, InsertFails, ListProposals, Settle, Go, TypeInv, OnlyMoves
  <2>2. Flying(p)
    BY <1>4 DEF Source, Authorize, InsertFails, ListProposals, Flying
  <2>3. Flying(p)' /\ proc'[p].todo = proc[p].todo
    <3>1. CASE Source(p, e)
      BY <3>1, <1>a DEF Source, Settle, Go, TypeInv, ProcRow, Flying
    <3>2. CASE Authorize(p, e)
      BY <3>2, <1>a DEF Authorize, Settle, TypeInv, ProcRow, Flying
    <3>3. CASE InsertFails(p, e)
      BY <3>3, <1>a DEF InsertFails, TypeInv, ProcRow, Flying
    <3>4. CASE ListProposals(p, e)
      BY <3>4, <1>a DEF ListProposals, Settle, TypeInv, ProcRow, Flying
    <3>. QED BY <1>4, <3>1, <3>2, <3>3, <3>4
  <2>4. receipt' = receipt /\ staged' = staged
    BY <1>4 DEF Source, Authorize, InsertFails, ListProposals
  <2>. QED BY <2>1, <2>2, <2>3, <2>4, SameFlights, SameFates
<1>5. ASSUME NEW p \in Process, NEW e \in Event, InsertProposals(p, e) PROVE Goal
  <2>1. OnlyMoves(p) /\ Flying(p) /\ Flying(p)' /\ proc'[p].todo = proc[p].todo
    BY <1>5, <1>a DEF InsertProposals, Go, TypeInv, ProcRow, OnlyMoves, Flying
  <2>2. \A f \in Event : InFlight(f)' <=> InFlight(f)
    BY <2>1, SameFlights
  <2>3. InFlight(e) /\ receipt' = receipt
    BY <1>5, <2>1 DEF InsertProposals, InFlight, Flying
  <2>4. staged' = [staged EXCEPT ![e] = IF proc[p].seen = 0 THEN @ + 1 ELSE @]
    BY <1>5 DEF InsertProposals
  <2>5. ASSUME NEW f \in Event, f # e PROVE Fate(f)' = Fate(f)
    <3>1. staged'[f] = staged[f]
      BY <2>4, <2>5 DEF TypeInv
    <3>. QED BY <2>2, <2>3, <3>1 DEF Fate, Settled
  <2>6. CASE proc[p].seen = 0
    <3>1. ~(staged[e] > 0) /\ staged'[e] > 0
      BY <1>5, <1>b, <2>4, <2>6 DEF InsertProposals, ViolatesUnique, TypeInv
    <3>2. Fate(e) = "pending" /\ Fate(e)' = "staged"
      BY <2>3, <3>1 DEF Fate
    <3>. QED BY <2>5, <3>2, OneFate
  <2>7. CASE proc[p].seen # 0
    <3>1. staged'[e] = staged[e]
      BY <2>4, <2>7 DEF TypeInv
    <3>2. Fate(e)' = Fate(e)
      BY <2>2, <2>3, <3>1 DEF Fate, Settled
    <3>. QED BY <2>5, <3>2
  <2>. QED BY <2>6, <2>7
<1>6. ASSUME NEW p \in Process, NEW e \in Event, FinishReceipt(p, e) PROVE Goal
  <2>1. OnlyMoves(p) /\ Flying(p) /\ ~Flying(p)' /\ Current(p, e)
    BY <1>6, SkipType DEF FinishReceipt, OnlyMoves, Flying
  <2>2. staged' = staged /\ \A f \in Event : f # e => receipt'[f] = receipt[f]
    BY <1>6 DEF FinishReceipt, TypeInv
  <2>. QED BY <2>1, <2>2, Landing
<1>7. ASSUME NEW p \in Process, Crash(p) PROVE Goal
  <2>1. OnlyMoves(p) /\ ~Flying(p)' /\ receipt' = receipt /\ staged' = staged
    BY <1>7 DEF Crash, Asleep, TypeInv, OnlyMoves, Flying
  <2>2. CASE ~Flying(p)
    BY <2>1, <2>2, SameFlights, SameFates
  <2>3. ASSUME Flying(p), NEW e \in Event, Current(p, e) PROVE Goal
    BY <2>1, <2>3, Landing
  <2>4. CASE \A e \in Event : ~Current(p, e)
    <3>1. \A e \in Event, q \in Process :
            (Flying(q) /\ Current(q, e))' <=> (Flying(q) /\ Current(q, e))
      BY <2>1, <2>4 DEF OnlyMoves, Flying, Current
    <3>2. \A e \in Event : InFlight(e)' <=> InFlight(e)
      BY <3>1 DEF InFlight, Flying
    <3>. QED BY <2>1, <3>2, SameFates
  <2>. QED BY <2>2, <2>3, <2>4
<1>8. ASSUME UNCHANGED <<receipt, staged, proc>> PROVE Goal
  BY <1>8 DEF Fate, Settled, InFlight, Current
<1>9. ASSUME NEW e \in Event, Elapse(e) \/ Purge(e) PROVE Goal
  BY <1>8, <1>9 DEF Elapse, Purge
<1>10. CASE Revoke \/ Rejoin \/ UNCHANGED ingestionVars
  BY <1>8, <1>10 DEF Revoke, Rejoin, ingestionVars
<1>. QED BY <1>1, <1>2, <1>3, <1>4, <1>5, <1>6, <1>7, <1>9, <1>10 DEF IngestionNext, Work

(* The receipts and the proposals implement the outbox: what is staged or  *)
(* closed is so for good (memory_ingestion.py:156).                        *)
THEOREM IngestionIsOutbox == IngestionSpec => OutboxImplemented
<1>1. IngestionInit => Ledger!Init
  BY DEF IngestionInit, Ledger!Init, Fate, Settled
<1>2. IngestionInv /\ IngestionInv' /\ [IngestionNext]_ingestionVars
        => [Ledger!Next]_([e \in Event |-> Fate(e)])
  BY OutboxStep DEF IngestionInv
<1>. QED BY <1>1, <1>2, IngestionInductive, PTL
         DEF IngestionSpec, OutboxImplemented, Ledger!Spec
=============================================================================
