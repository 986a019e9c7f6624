--------------------------- MODULE AdapterTickets ---------------------------
(* The gateway between the frozen kernel and external game engines            *)
(* (worldforge/integrations/game_adapter.py): short-lived one-use tickets,    *)
(* their verification, the replay store that consumes them before the         *)
(* dispatch, and the ambiguous outcomes of the call.  A ticket stands for its *)
(* id and its nonce, which are drawn together.                                *)
EXTENDS Integers, FiniteSets

CONSTANTS Ticket, Call, Gateway,
          MaxTime,    \* the clock stops there (a bound)
          TicketLife  \* ttl_seconds, in ticks of the clock

ASSUME TicketsAssumption == {MaxTime, TicketLife} \subseteq Nat

VARIABLES clock,
          durable,  \* the configuration: a shared SQL replay store and secret,
                    \* or an in-memory store and a random secret per gateway
          ticket,   \* issued tickets
          epoch,    \* restarts of a gateway: a random secret dies with it
          replays,  \* store -> ticket -> expires_at of the consumed row, or Gone
          call,     \* execute() calls
          spent     \* ghost: the instants a ticket was consumed at

ticketVars == <<clock, durable, ticket, epoch, replays, call, spent>>

Gone == -1
Shared == "shared"
ASSUME StoreAssumption == Shared \notin Gateway

Store(g) == IF durable THEN Shared ELSE g
Unissued == [issued |-> FALSE, expires |-> 0, by |-> Shared, epoch |-> 0]
Idle == [pc |-> "idle", ticket |-> Shared, by |-> Shared, now |-> 0, fit |-> FALSE]
Closed(pc) == [Idle EXCEPT !.pc = pc]

TicketsInit ==
  /\ clock = 0
  /\ durable \in BOOLEAN
  /\ ticket = [t \in Ticket |-> Unissued]
  /\ epoch = [g \in Gateway |-> 0]
  /\ replays = [s \in Gateway \cup {Shared} |-> [t \in Ticket |-> Gone]]
  /\ call = [c \in Call |-> Idle]
  /\ spent = [t \in Ticket |-> {}]

Tick == /\ clock < MaxTime /\ clock' = clock + 1
        /\ UNCHANGED <<durable, ticket, epoch, replays, call, spent>>

\* issue_ticket: bound to the adapter, the exact request and its scope.
IssueTicket(t, g) ==
  /\ ~ticket[t].issued
  /\ ticket' = [ticket EXCEPT ![t] = [issued |-> TRUE, expires |-> clock + TicketLife,
                                      by |-> g, epoch |-> epoch[g]]]
  /\ UNCHANGED <<clock, durable, epoch, replays, call, spent>>

\* execute: the adapter's capabilities are awaited first (the HTTP adapter
\* caches them); they may fail.  "fit": the call presents the very request the
\* ticket binds, and the adapter declares the dry run or the mutation it asks.
AwaitCapabilities(c, t, g) ==
  /\ call[c].pc = "idle" /\ ticket[t].issued
  /\ \/ call' = [call EXCEPT ![c] = Closed("refused")]
     \/ \E fit \in BOOLEAN :
          call' = [call EXCEPT ![c] = [Idle EXCEPT !.pc = "ready", !.ticket = t,
                                                   !.by = g, !.fit = fit]]
  /\ UNCHANGED <<clock, durable, ticket, epoch, replays, spent>>

Signed(t, g) == durable \/ (ticket[t].by = g /\ ticket[t].epoch = epoch[g])

\* _verify_ticket and the capability checks at the instant now.
Verified(c, now) ==
  LET t == call[c].ticket IN
  /\ call[c].fit
  /\ ticket[t].expires >= now
  /\ Signed(t, call[c].by)

\* variant: a row is dropped in the very instant its ticket is still accepted.
StaleAtExpiry(expires, now) == expires <= now
Stale(expires, now) == expires < now

Purged(rows, now) == [t \in Ticket |-> IF rows[t] # Gone /\ Stale(rows[t], now) THEN Gone ELSE rows[t]]

\* consume: drop the rows expired at the caller's instant, insert this one;
\* its key and its nonce are unique.  A refused SQL insert rolls the purge back.
Consume(c, now) ==
  LET t == call[c].ticket
      s == Store(call[c].by)
      rows == Purged(replays[s], now)
      fresh == rows[t] = Gone
  IN /\ replays' = [replays EXCEPT ![s] = IF fresh THEN [rows EXCEPT ![t] = ticket[t].expires]
                                          ELSE IF durable THEN @ ELSE rows]
     /\ call' = [call EXCEPT ![c] = IF fresh THEN [@ EXCEPT !.pc = "dispatch", !.now = 0]
                                     ELSE Closed("refused")]
     /\ spent' = IF fresh THEN [spent EXCEPT ![t] = @ \cup {<<clock, c>>}] ELSE spent

\* The clock is read once.  The in-memory store answers without an await; the
\* SQL store runs in a thread, any time later, with the instant already read.
VerifyInMemory(c) ==
  /\ call[c].pc = "ready" /\ ~durable /\ Verified(c, clock)
  /\ Consume(c, clock)
  /\ UNCHANGED <<clock, durable, ticket, epoch>>

VerifyForThread(c) ==
  /\ call[c].pc = "ready" /\ durable /\ Verified(c, clock)
  /\ call' = [call EXCEPT ![c].pc = "consume", ![c].now = clock]
  /\ UNCHANGED <<clock, durable, ticket, epoch, replays, spent>>

Refuse(c) ==
  /\ call[c].pc = "ready" /\ ~Verified(c, clock)
  /\ call' = [call EXCEPT ![c] = Closed("refused")]
  /\ UNCHANGED <<clock, durable, ticket, epoch, replays, spent>>

ConsumeInThread(c) ==
  /\ call[c].pc = "consume"
  /\ Consume(c, call[c].now)
  /\ UNCHANGED <<clock, durable, ticket, epoch>>

\* variant: without the store the call goes out all the same.
SentAnyway(c) == [call[c] EXCEPT !.pc = "dispatch"]
OnStoreError(c) == Closed("refused")

\* The database is not available: the call is refused, nothing is recorded.
StoreFails(c) ==
  /\ call[c].pc = "consume"
  /\ call' = [call EXCEPT ![c] = OnStoreError(c)]
  /\ UNCHANGED <<clock, durable, ticket, epoch, replays, spent>>

\* adapter.execute: the engine may have acted even when the answer is lost,
\* late, malformed or does not match the ticket; only a well-formed answer is
\* an observation, and an observation is never canonical.
Dispatch(c) ==
  /\ call[c].pc = "dispatch"
  /\ \E outcome \in {"observed", "ambiguous"} : call' = [call EXCEPT ![c].pc = outcome]
  /\ UNCHANGED <<clock, durable, ticket, epoch, replays, spent>>

\* A gateway process restarts: calls, an in-memory store and a random secret
\* are gone.
RestartGateway(g) ==
  /\ epoch[g] = 0
  /\ epoch' = [epoch EXCEPT ![g] = 1]
  /\ replays' = [replays EXCEPT ![g] = [t \in Ticket |-> Gone]]
  /\ call' = [c \in Call |-> IF call[c].by = g /\ call[c].pc \in {"ready", "consume", "dispatch"}
                             THEN Closed("lost") ELSE call[c]]
  /\ UNCHANGED <<clock, durable, ticket, spent>>

TicketsNext ==
  \/ Tick
  \/ \E g \in Gateway : RestartGateway(g) \/ \E t \in Ticket : IssueTicket(t, g)
  \/ \E c \in Call :
       \/ \E t \in Ticket, g \in Gateway : AwaitCapabilities(c, t, g)
       \/ VerifyInMemory(c) \/ VerifyForThread(c) \/ Refuse(c)
       \/ ConsumeInThread(c) \/ StoreFails(c) \/ Dispatch(c)

TicketsSpec == TicketsInit /\ [][TicketsNext]_ticketVars
-----------------------------------------------------------------------------
Sent(t) == {c \in Call : call[c].ticket = t /\ call[c].pc \in {"dispatch", "observed", "ambiguous"}}
SpentInTime(t) == {e \in spent[t] : e[1] <= ticket[t].expires}

\* Until it expires a ticket is consumed once, whichever gateways present it
\* and whatever became of the first dispatch (game_adapter.py:196-222,
\* "Consume before dispatch").  A consumer that verified in time and reaches
\* the store after the expiry is not covered: its row may be purged already.
ConsumedOnce == \A t \in Ticket : Cardinality(SpentInTime(t)) <= 1

\* No call reaches an engine without a consumption of its own, even when the
\* store fails or the gateway restarts (game_adapter.py:172, "fail-closed").
SentWasConsumed == \A t \in Ticket : \A c \in Sent(t) : \E e \in spent[t] : e[2] = c

TicketsAreOneShot == ConsumedOnce /\ SentWasConsumed

\* Without the exception above: a ticket is consumed once for ever.
ConsumedOnceForEver == \A t \in Ticket : Cardinality(spent[t]) <= 1
=============================================================================
