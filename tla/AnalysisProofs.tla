--------------------------- MODULE AnalysisProofs ---------------------------
(***************************************************************************)
(* Theorems of what an analysis is given: ProjectMemory, EvidencePipeline  *)
(* and ContextCompile, for every set of clients, jobs, workers, materials  *)
(* and utterances, and every budget their assumptions admit.               *)
(***************************************************************************)
EXTENDS ProjectMemory, EvidencePipeline, ContextCompile, ArrangeProofs

(***************************************************************************)
(* Project memory: revisions, proposals and the snapshots of jobs.         *)
(***************************************************************************)

ItemTypes ==
  /\ item \in Seq(Row)
  /\ head \in [Slot -> 0..Len(item)]
  /\ moves \in [Slot -> Nat]

RestTypes ==
  /\ req \in [Client -> Request]
  /\ proposal \in [Proposal -> [status : {"pending", "approved", "rejected"}, id : Nat]]
  /\ job \in [Job -> [at : {"none", "queued", "done"}, refs : SUBSET Nat, used : SUBSET Nat]]
  /\ locked \in SUBSET Slot /\ deleting \in BOOLEAN /\ member \in BOOLEAN
  /\ deletes \in 0..MaxDeletes

(* A head points to a revision of its slot, and leads those still kept.    *)
HeadsPoint == \A s \in Slot : head[s] # 0 => item[head[s]].slot = s
HeadLeads ==
  \A i \in Id : item[i].kept =>
    LET h == head[item[i].slot] IN h # 0 /\ item[h].kept /\ item[i].rev <= item[h].rev

(* Every revision follows the one before it in its slot.                   *)
Linked ==
  \A i \in Id :
    LET r == item[i] IN
    /\ r.rev >= 1
    /\ IF r.rev = 1 THEN r.prev = 0
       ELSE r.prev \in 1..(i - 1) /\ item[r.prev].slot = r.slot
                                  /\ item[r.prev].rev = r.rev - 1

Unforked ==
  \A i \in Id : item[i].kept =>
    /\ \A k \in Id \ {i} :
         item[k].kept /\ item[k].slot = item[i].slot => item[k].rev # item[i].rev
    /\ head[item[i].slot] = i \/ \E k \in Id : item[k].kept /\ item[k].prev = i

ChainInv == ItemTypes /\ HeadsPoint /\ HeadLeads /\ Linked /\ Unforked

(* The revisions a proposal became, and the moves a request has to blame.  *)
Origins ==
  \A p \in Proposal :
    /\ proposal[p].status = "approved" => proposal[p].id \in Id
    /\ \A i \in Id : item[i].from = p <=> proposal[p].status = "approved" /\ proposal[p].id = i

Charge(c) ==
  /\ req[c].at # "idle" => req[c].tries + req[c].since <= moves[req[c].slot]
  /\ req[c].at = "write" =>
       \/ req[c].base = head[req[c].slot]
       \/ req[c].tries + req[c].since < moves[req[c].slot]

JobsFound == \A j \in Job : job[j].refs \subseteq Id

MemoryInv ==
  /\ ChainInv /\ RestTypes /\ Origins /\ JobsFound
  /\ \A c \in Client : Charge(c)

----------------------------------------------------------------------------
LEMMA InitHolds == MemoryInit => MemoryInv
<1> SUFFICES ASSUME MemoryInit PROVE MemoryInv
  OBVIOUS
<1>1. item = << >> /\ Len(item) = 0 /\ Id = {}
  BY DEF MemoryInit, Id
<1>2. ItemTypes
  BY <1>1 DEF MemoryInit, ItemTypes
<1>3. Idle \in Request
  <2>1. (CHOOSE s \in Slot : TRUE) \in Slot
    BY MemoryAssumption
  <2>2. 0 \in 0..(Retries - 1)
    BY MemoryAssumption
  <2>. QED BY <2>1, <2>2 DEF Idle, Request, States
<1>4. RestTypes
  <2>1. [status |-> "pending", id |-> 0] \in [status : {"pending", "approved", "rejected"}, id : Nat]
    OBVIOUS
  <2>2. [at |-> "none", refs |-> {}, used |-> {}]
          \in [at : {"none", "queued", "done"}, refs : SUBSET Nat, used : SUBSET Nat]
    OBVIOUS
  <2>3. 0 \in 0..MaxDeletes
    BY MemoryAssumption
  <2>. QED BY <1>3, <2>1, <2>2, <2>3 DEF MemoryInit, RestTypes
<1>5. HeadsPoint /\ HeadLeads /\ Linked /\ Unforked /\ Origins /\ JobsFound
  BY <1>1 DEF MemoryInit, HeadsPoint, HeadLeads, Linked, Unforked, Origins, JobsFound
<1>6. \A c \in Client : Charge(c)
  BY DEF MemoryInit, Charge, Idle
<1>. QED BY <1>2, <1>4, <1>5, <1>6 DEF MemoryInv, ChainInv

(* A revision that is put behind the head of its slot.                     *)
LEMMA AdvanceKeepsChain ==
  ASSUME ChainInv, NEW s \in Slot, NEW state \in States, NEW text \in Nat,
         NEW from \in Proposal \cup {"client"}, Advance(s, head[s], state, text, from)
  PROVE  /\ ChainInv'
         /\ Len(item') = Len(item) + 1 /\ Id' = Id \cup {Len(item) + 1}
         /\ \A i \in Id : item'[i] = item[i]
         /\ item'[Len(item) + 1].from = from
         /\ head' = [head EXCEPT ![s] = Len(item) + 1]
         /\ moves' = [moves EXCEPT ![s] = moves[s] + 1]
<1>. DEFINE n == Len(item)
            new == Revision(s, head[s], state, IF text = 0 THEN n + 1 ELSE text, from)
<1>1. /\ item \in Seq(Row) /\ n \in Nat /\ head \in [Slot -> 0..n] /\ head[s] \in 0..n
      /\ moves \in [Slot -> Nat]
  BY DEF ChainInv, ItemTypes
<1>2. /\ item' = Append(item, new) /\ head' = [head EXCEPT ![s] = n + 1]
      /\ moves' = [moves EXCEPT ![s] = moves[s] + 1]
  BY DEF Advance
<1>3. ASSUME NEW i \in Id PROVE item[i] \in Row /\ item[i].rev \in Nat /\ item[i].slot \in Slot
  <2>1. item[i] \in Row
    BY <1>1 DEF Id
  <2>. QED BY <2>1 DEF Row
<1>4. /\ new.slot = s /\ new.kept /\ new.prev = head[s] /\ new.from = from
      /\ new.rev = IF head[s] = 0 THEN 1 ELSE item[head[s]].rev + 1
  BY DEF Revision
<1>5. new \in Row
  <2>1. head[s] # 0 => item[head[s]].rev \in Nat
    BY <1>1, <1>3 DEF Id
  <2>2. new.rev \in Nat
    BY <1>4, <2>1
  <2>. QED BY <1>1, <2>2 DEF Revision, Row
<1>. HIDE DEF new
<1>6. /\ Len(item') = n + 1 /\ item'[n + 1] = new /\ item' \in Seq(Row)
      /\ \A i \in 1..n : item'[i] = item[i]
  BY <1>1, <1>2, <1>5
<1>7. Id' = 1..(n + 1) /\ Id = 1..n
  BY <1>6 DEF Id
<1>. HIDE DEF n
<1>8. head'[s] = n + 1 /\ \A u \in Slot : u # s => head'[u] = head[u]
  BY <1>1, <1>2
<1>9. ItemTypes'
  BY <1>1, <1>2, <1>6 DEF ItemTypes
<1>10. HeadsPoint'
  <2> SUFFICES ASSUME NEW u \in Slot, head'[u] # 0 PROVE item'[head'[u]].slot = u
    BY DEF HeadsPoint
  <2>1. CASE u = s
    BY <1>4, <1>6, <1>8, <2>1
  <2>2. CASE u # s
    BY <1>1, <1>6, <1>8, <2>2 DEF ChainInv, HeadsPoint
  <2>. QED BY <2>1, <2>2
(* The revisions still kept in the slot are behind its old head.           *)
<1>11. \A i \in 1..n : item[i].kept /\ item[i].slot = s =>
         head[s] # 0 /\ item[head[s]].kept /\ item[i].rev < new.rev
  <2> SUFFICES ASSUME NEW i \in 1..n, item[i].kept, item[i].slot = s
               PROVE  head[s] # 0 /\ item[head[s]].kept /\ item[i].rev < new.rev
    OBVIOUS
  <2>1. head[s] # 0 /\ item[head[s]].kept /\ item[i].rev <= item[head[s]].rev
    BY <1>7 DEF ChainInv, HeadLeads
  <2>2. item[i].rev \in Nat /\ item[head[s]].rev \in Nat
    BY <1>1, <1>3, <1>7, <2>1
  <2>. QED BY <1>4, <2>1, <2>2
<1>12. HeadLeads'
  <2> SUFFICES ASSUME NEW i \in 1..(n + 1), item'[i].kept
               PROVE  LET h == head'[item'[i].slot]
                      IN h # 0 /\ item'[h].kept /\ item'[i].rev <= item'[h].rev
    BY <1>7 DEF HeadLeads
  <2>1. CASE i = n + 1
    <3>1. item'[i] = new /\ head'[new.slot] = i /\ i # 0
      BY <1>1, <1>4, <1>6, <1>8, <2>1
    <3>2. new.rev <= new.rev
      <4>1. new.rev \in Nat
        BY <1>5 DEF Row
      <4>. QED BY <4>1
    <3>. QED BY <1>4, <3>1, <3>2
  <2>2. CASE i # n + 1 /\ item[i].slot = s
    <3>1. i \in 1..n /\ item'[i] = item[i]
      BY <1>1, <1>6, <2>2
    <3>2. item[i].rev < new.rev /\ item[i].rev \in Nat /\ new.rev \in Nat
      BY <1>3, <1>5, <1>7, <1>11, <2>2, <3>1 DEF Row
    <3>3. head'[item'[i].slot] = n + 1
      BY <1>8, <2>2, <3>1
    <3>4. n + 1 # 0 /\ item'[n + 1] = new
      BY <1>1, <1>6
    <3>5. item'[i].rev <= new.rev
      BY <3>1, <3>2
    <3>. QED BY <1>4, <3>3, <3>4, <3>5
  <2>3. CASE i # n + 1 /\ item[i].slot # s
    <3>1. i \in 1..n /\ item'[i] = item[i] /\ item[i].slot \in Slot
      BY <1>1, <1>3, <1>6, <1>7, <2>3
    <3>2. /\ head'[item[i].slot] = head[item[i].slot]
          /\ head[item[i].slot] \in 0..n
      BY <1>1, <1>8, <2>3, <3>1
    <3>3. LET h == head[item[i].slot]
          IN h # 0 /\ item[h].kept /\ item[i].rev <= item[h].rev
      BY <1>7, <3>1 DEF ChainInv, HeadLeads
    <3>4. head'[item'[i].slot] = head[item[i].slot]
      BY <3>1, <3>2
    <3>5. item'[head[item[i].slot]] = item[head[item[i].slot]]
      BY <1>6, <3>2, <3>3
    <3>. QED BY <3>1, <3>3, <3>4, <3>5
  <2>. QED BY <2>1, <2>2, <2>3
<1>13. Linked'
  <2> SUFFICES ASSUME NEW i \in 1..(n + 1)
               PROVE  /\ item'[i].rev >= 1
                      /\ IF item'[i].rev = 1 THEN item'[i].prev = 0
                         ELSE /\ item'[i].prev \in 1..(i - 1)
                              /\ item'[item'[i].prev].slot = item'[i].slot
                              /\ item'[item'[i].prev].rev = item'[i].rev - 1
    BY <1>7 DEF Linked
  <2>1. CASE i = n + 1 /\ head[s] = 0
    BY <1>4, <1>6, <2>1
  <2>2. CASE i = n + 1 /\ head[s] # 0
    <3>1. head[s] \in 1..n /\ item[head[s]].slot = s
      BY <1>1, <2>2 DEF ChainInv, HeadsPoint
    <3>2. item[head[s]].rev \in Nat /\ item[head[s]].rev >= 1
      BY <1>3, <1>7, <3>1 DEF ChainInv, Linked
    <3>3. item'[i] = new /\ item'[head[s]] = item[head[s]] /\ head[s] \in 1..(i - 1)
      BY <1>1, <1>6, <2>2, <3>1
    <3>. QED BY <1>4, <2>2, <3>1, <3>2, <3>3
  <2>3. CASE i # n + 1
    <3>1. i \in 1..n /\ item'[i] = item[i]
      BY <1>1, <1>6, <2>3
    <3>2. /\ item[i].rev >= 1
          /\ IF item[i].rev = 1 THEN item[i].prev = 0
             ELSE /\ item[i].prev \in 1..(i - 1)
                  /\ item[item[i].prev].slot = item[i].slot
                  /\ item[item[i].prev].rev = item[i].rev - 1
      BY <1>7, <3>1 DEF ChainInv, Linked
    <3>. QED BY <1>1, <1>6, <3>1, <3>2
  <2>. QED BY <2>1, <2>2, <2>3
<1>14. Unforked'
  <2> SUFFICES ASSUME NEW i \in 1..(n + 1), item'[i].kept
               PROVE  /\ \A k \in 1..(n + 1) \ {i} :
                           item'[k].kept /\ item'[k].slot = item'[i].slot
                             => item'[k].rev # item'[i].rev
                      /\ \/ head'[item'[i].slot] = i
                         \/ \E k \in 1..(n + 1) : item'[k].kept /\ item'[k].prev = i
    BY <1>7 DEF Unforked
  <2>1. ASSUME NEW k \in 1..n, item[k].kept, item[k].slot = s PROVE item[k].rev # new.rev
    BY <1>3, <1>5, <1>7, <1>11, <2>1 DEF Row
  <2>2. CASE i = n + 1
    <3>1. item'[i] = new /\ head'[item'[i].slot] = i
      BY <1>4, <1>6, <1>8, <2>2
    <3>2. ASSUME NEW k \in 1..(n + 1) \ {i} PROVE k \in 1..n /\ item'[k] = item[k]
      BY <1>1, <1>6, <2>2
    <3>3. ASSUME NEW k \in 1..(n + 1) \ {i}, item'[k].kept, item'[k].slot = item'[i].slot
          PROVE  item'[k].rev # item'[i].rev
      <4>1. k \in 1..n /\ item[k].kept /\ item[k].slot = s
        BY <1>4, <3>1, <3>2, <3>3
      <4>. QED BY <2>1, <3>1, <3>2, <4>1
    <3>. QED BY <3>1, <3>3
  <2>3. CASE i # n + 1
    <3>0. i \in 1..n
      BY <1>1, <2>3
    <3>1. i \in 1..n /\ item'[i] = item[i] /\ item[i].kept /\ item[i].slot \in Slot
      BY <1>3, <1>6, <1>7, <3>0
    <3>2. /\ \A k \in 1..n \ {i} : item[k].kept /\ item[k].slot = item[i].slot
                                     => item[k].rev # item[i].rev
          /\ \/ head[item[i].slot] = i
             \/ \E k \in 1..n : item[k].kept /\ item[k].prev = i
      BY <1>7, <3>1 DEF ChainInv, Unforked
    <3>3. \A k \in 1..(n + 1) \ {i} : item'[k].kept /\ item'[k].slot = item'[i].slot
                                       => item'[k].rev # item'[i].rev
      <4>1. \A k \in 1..n \ {i} : item'[k] = item[k]
        BY <1>6
      <4>2. item[i].slot = s => item[i].rev # new.rev
        BY <2>1, <3>1
      <4>3. ASSUME NEW k \in 1..(n + 1) \ {i}
            PROVE  (k \in 1..n \ {i} /\ item'[k] = item[k]) \/ item'[k] = new
        BY <1>1, <1>6, <4>1
      <4>. QED BY <1>4, <3>1, <3>2, <4>2, <4>3
    <3>4. CASE head[item[i].slot] = i /\ item[i].slot = s
      BY <1>1, <1>4, <1>6, <3>3, <3>4
    <3>5. CASE head[item[i].slot] = i /\ item[i].slot # s
      BY <1>8, <3>1, <3>3, <3>5
    <3>6. CASE \E k \in 1..n : item[k].kept /\ item[k].prev = i
      BY <1>1, <1>6, <3>3, <3>6
    <3>. QED BY <3>2, <3>4, <3>5, <3>6
  <2>. QED BY <2>2, <2>3
<1>15. ChainInv'
  BY <1>9, <1>10, <1>12, <1>13, <1>14 DEF ChainInv
<1>16. Id' = Id \cup {n + 1}
  BY <1>1, <1>7
<1>. QED BY <1>2, <1>4, <1>6, <1>7, <1>15, <1>16 DEF n

(* Whatever moves a head is charged to those who read it before.           *)
LEMMA ChargeStands ==
  ASSUME MemoryInv, NEW c \in Client, req'[c] = req[c],
         \A u \in Slot : \/ head'[u] = head[u] /\ moves'[u] = moves[u]
                         \/ moves'[u] = moves[u] + 1
  PROVE  Charge(c)'
<1>1. /\ req[c].slot \in Slot /\ req[c].tries \in Nat /\ req[c].since \in Nat /\ Charge(c)
      /\ moves[req[c].slot] \in Nat
  <2>1. req[c] \in Request /\ Charge(c) /\ moves \in [Slot -> Nat]
    BY DEF MemoryInv, RestTypes, ChainInv, ItemTypes
  <2>. QED BY <2>1 DEF Request
<1>. QED BY <1>1 DEF Charge

(* Steps that write no revision and move no head.                          *)
LEMMA ItemsUnchanged ==
  ASSUME MemoryInv, UNCHANGED <<item, head, moves>>
  PROVE  ChainInv' /\ Id' = Id
BY DEF MemoryInv, ChainInv, ItemTypes, HeadsPoint, HeadLeads, Linked, Unforked, Id

LEMMA RequestStep ==
  ASSUME MemoryInv, NEW c \in Client, NEW r \in Request,
         req' = [req EXCEPT ![c] = r],
         UNCHANGED <<item, head, proposal, job, locked, deleting, member, deletes, moves>>,
         r.at # "idle" => r.tries + r.since <= moves[r.slot],
         r.at = "write" => r.base = head[r.slot] \/ r.tries + r.since < moves[r.slot]
  PROVE  MemoryInv'
<1>1. ChainInv' /\ Id' = Id
  BY ItemsUnchanged
<1>2. req \in [Client -> Request]
  BY DEF MemoryInv, RestTypes
<1>3. RestTypes'
  BY <1>2 DEF MemoryInv, RestTypes
<1>4. Origins' /\ JobsFound'
  BY <1>1 DEF MemoryInv, Origins, JobsFound
<1>5. ASSUME NEW d \in Client PROVE Charge(d)'
  <2>1. CASE d = c
    BY <1>2, <2>1 DEF Charge
  <2>2. CASE d # c
    BY <1>2, <2>2, ChargeStands
  <2>. QED BY <2>1, <2>2
<1>. QED BY <1>1, <1>3, <1>4, <1>5 DEF MemoryInv

LEMMA RequestFields ==
  ASSUME MemoryInv, NEW c \in Client
  PROVE  /\ req[c] \in Request /\ req[c].slot \in Slot /\ req[c].tries \in 0..(Retries - 1)
         /\ req[c].since \in Nat /\ req[c].text \in Nat /\ req[c].state \in States
         /\ head[req[c].slot] \in Nat /\ moves[req[c].slot] \in Nat /\ Charge(c)
<1>1. req[c] \in Request /\ Charge(c) /\ head \in [Slot -> 0..Len(item)] /\ moves \in [Slot -> Nat]
      /\ Len(item) \in Nat
  BY DEF MemoryInv, RestTypes, ChainInv, ItemTypes
<1>2. /\ req[c].slot \in Slot /\ req[c].tries \in 0..(Retries - 1)
      /\ req[c].since \in Nat /\ req[c].text \in Nat /\ req[c].state \in States
  BY <1>1 DEF Request
<1>. QED BY <1>1, <1>2

LEMMA IdleRequest == Idle \in Request /\ Idle.at = "idle"
<1>1. (CHOOSE s \in Slot : TRUE) \in Slot
  BY MemoryAssumption
<1>2. 0 \in 0..(Retries - 1)
  BY MemoryAssumption
<1>. QED BY <1>1, <1>2 DEF Idle, Request, States

LEMMA BeginStep ==
  ASSUME MemoryInv, NEW c \in Client, NEW s \in Slot, NEW state \in States, NEW text \in Nat,
         Begin(c, s, state, text)
  PROVE  MemoryInv'
<1>. DEFINE r == [Idle EXCEPT !.at = "read", !.slot = s, !.state = state, !.text = text,
                              !.since = moves[s]]
<1>1. moves[s] \in Nat
  BY DEF MemoryInv, ChainInv, ItemTypes
<1>2. 0 \in 0..(Retries - 1)
  BY MemoryAssumption
<1>3. /\ r \in Request /\ r.at = "read" /\ r.slot = s /\ r.since = moves[s] /\ r.tries = 0
  BY <1>1, <1>2 DEF Idle, Request
<1>4. req' = [req EXCEPT ![c] = r]
      /\ UNCHANGED <<item, head, proposal, job, locked, deleting, member, deletes, moves>>
  BY DEF Begin
<1>. HIDE DEF r
<1>5. r.tries + r.since <= moves[r.slot] /\ r.at # "write"
  BY <1>1, <1>3
<1>. QED BY <1>3, <1>4, <1>5, RequestStep

LEMMA PutMemoryStep ==
  ASSUME MemoryInv, NEW c \in Client, NEW s \in Slot, PutMemory(c, s)
  PROVE  MemoryInv'
BY BeginStep DEF PutMemory, States

LEMMA SetMemoryStateStep ==
  ASSUME MemoryInv, NEW c \in Client, NEW s \in Slot, SetMemoryState(c, s)
  PROVE  MemoryInv'
<1>1. PICK state \in {"active", "retracted"} : Begin(c, s, state, item[head[s]].text)
  BY DEF SetMemoryState
<1>2. head[s] \in 1..Len(item) /\ item \in Seq(Row)
  BY DEF SetMemoryState, Present, MemoryInv, ChainInv, ItemTypes
<1>3. item[head[s]] \in Row
  BY <1>2
<1>4. item[head[s]].text \in Nat
  BY <1>3 DEF Row
<1>. QED BY <1>1, <1>4, BeginStep DEF States

LEMMA ReadHeadStep ==
  ASSUME MemoryInv, NEW c \in Client, ReadHead(c)
  PROVE  MemoryInv'
<1>. DEFINE r == [req[c] EXCEPT !.at = "write", !.base = head[req[c].slot]]
<1>1. /\ r \in Request /\ r.at = "write" /\ r.base = head[r.slot] /\ r.slot = req[c].slot
      /\ r.tries = req[c].tries /\ r.since = req[c].since
  BY RequestFields DEF Request
<1>2. req' = [req EXCEPT ![c] = r]
      /\ UNCHANGED <<item, head, proposal, job, locked, deleting, member, deletes, moves>>
  BY DEF ReadHead, MemoryInv, RestTypes
<1>. HIDE DEF r
<1>3. r.tries + r.since <= moves[r.slot]
  BY <1>1, RequestFields DEF ReadHead, Charge
<1>. QED BY <1>1, <1>2, <1>3, RequestStep

LEMMA WriteFailsStep ==
  ASSUME MemoryInv, NEW c \in Client, WriteFails(c)
  PROVE  MemoryInv'
<1>. DEFINE again == [req[c] EXCEPT !.at = "read", !.base = 0, !.tries = req[c].tries + 1]
<1>1. UNCHANGED <<item, head, proposal, job, locked, deleting, member, deletes, moves>>
  BY DEF WriteFails
<1>2. CASE req[c].tries + 1 = Retries
  <2>1. req' = [req EXCEPT ![c] = Idle]
    BY <1>2 DEF WriteFails
  <2>. QED BY <1>1, <2>1, IdleRequest, RequestStep
<1>3. CASE req[c].tries + 1 # Retries
  <2>1. req[c].tries + 1 \in 0..(Retries - 1)
    BY <1>3, RequestFields, MemoryAssumption
  <2>2. /\ again \in Request /\ again.at = "read" /\ again.slot = req[c].slot
        /\ again.tries = req[c].tries + 1 /\ again.since = req[c].since
    BY <2>1, RequestFields DEF Request
  <2>3. req' = [req EXCEPT ![c] = again]
    BY <1>3 DEF WriteFails
  <2>. HIDE DEF again
  <2>4. again.tries + again.since <= moves[again.slot]
    BY <2>2, RequestFields DEF WriteFails, Wins, Charge
  <2>. QED BY <1>1, <2>2, <2>3, <2>4, RequestStep
<1>. QED BY <1>2, <1>3

(* A revision from a request or from a proposal.                           *)
LEMMA WriteOnceStep ==
  ASSUME MemoryInv, NEW c \in Client, WriteOnce(c)
  PROVE  MemoryInv'
<1>. DEFINE s == req[c].slot
            n == Len(item)
<1>1. /\ s \in Slot /\ req[c].base = head[s]
      /\ Advance(s, head[s], req[c].state, req[c].text, "client")
      /\ req' = [req EXCEPT ![c] = Idle]
      /\ UNCHANGED <<proposal, job, locked, deleting, member, deletes>>
  BY RequestFields DEF WriteOnce, Wins
<1>2. /\ ChainInv' /\ Id' = Id \cup {n + 1}
      /\ \A i \in Id : item'[i] = item[i]
      /\ item'[n + 1].from = "client"
      /\ head' = [head EXCEPT ![s] = n + 1] /\ moves' = [moves EXCEPT ![s] = moves[s] + 1]
  <2>1. /\ req[c].state \in States /\ req[c].text \in Nat /\ ChainInv
        /\ "client" \in Proposal \cup {"client"}
    BY RequestFields DEF MemoryInv
  <2>2. ChainInv'
    BY <1>1, <2>1, AdvanceKeepsChain
  <2>3. Id' = Id \cup {n + 1} /\ \A i \in Id : item'[i] = item[i]
    BY <1>1, <2>1, AdvanceKeepsChain
  <2>4. item'[n + 1].from = "client"
    <3>1. item \in Seq(Row)
      BY <2>1 DEF ChainInv, ItemTypes
    <3>2. PICK new : item' = Append(item, new) /\ new.from = "client"
      BY <1>1 DEF Advance, Revision
    <3>. QED BY <3>1, <3>2
  <2>5. head' = [head EXCEPT ![s] = n + 1] /\ moves' = [moves EXCEPT ![s] = moves[s] + 1]
    BY <1>1, <2>1, AdvanceKeepsChain
  <2>. QED BY <2>2, <2>3, <2>4, <2>5
<1>3. /\ req \in [Client -> Request] /\ head \in [Slot -> 0..n] /\ moves \in [Slot -> Nat]
      /\ n \in Nat /\ n + 1 \notin Id
  BY DEF MemoryInv, RestTypes, ChainInv, ItemTypes, Id
<1>4. RestTypes'
  BY <1>1, <1>3, IdleRequest DEF MemoryInv, RestTypes
<1>5. Origins'
  BY <1>1, <1>2, MemoryAssumption DEF MemoryInv, Origins
<1>6. JobsFound'
  BY <1>1, <1>2 DEF MemoryInv, JobsFound
<1>7. ASSUME NEW d \in Client PROVE Charge(d)'
  <2>1. CASE d = c
    BY <1>1, <1>3, <2>1, IdleRequest DEF Charge
  <2>2. CASE d # c
    <3>1. req'[d] = req[d]
      BY <1>1, <1>3, <2>2
    <3>2. \A u \in Slot : \/ head'[u] = head[u] /\ moves'[u] = moves[u]
                          \/ moves'[u] = moves[u] + 1
      BY <1>2, <1>3
    <3>. QED BY <3>1, <3>2, ChargeStands
  <2>. QED BY <2>1, <2>2
<1>. QED BY <1>2, <1>4, <1>5, <1>6, <1>7 DEF MemoryInv

LEMMA ApproveProposalStep ==
  ASSUME MemoryInv, NEW p \in Proposal, ApproveProposal(p)
  PROVE  MemoryInv'
<1>. DEFINE s == SlotOf[p]
            n == Len(item)
            row == [status |-> "approved", id |-> n + 1]
<1>1. /\ s \in Slot /\ Advance(s, head[s], "active", 0, p)
      /\ proposal' = [proposal EXCEPT ![p] = row] /\ proposal[p].status = "pending"
      /\ UNCHANGED <<req, job, locked, deleting, member, deletes>>
  BY MemoryAssumption DEF ApproveProposal, Reviewable
<1>2. /\ ChainInv' /\ Id' = Id \cup {n + 1}
      /\ \A i \in Id : item'[i] = item[i]
      /\ item'[n + 1].from = p
      /\ head' = [head EXCEPT ![s] = n + 1] /\ moves' = [moves EXCEPT ![s] = moves[s] + 1]
  <2>1. "active" \in States /\ 0 \in Nat /\ p \in Proposal \cup {"client"} /\ ChainInv
    BY DEF States, MemoryInv
  <2>2. ChainInv'
    BY <1>1, <2>1, AdvanceKeepsChain
  <2>3. Id' = Id \cup {n + 1} /\ \A i \in Id : item'[i] = item[i]
    BY <1>1, <2>1, AdvanceKeepsChain
  <2>4. item'[n + 1].from = p
    BY <1>1, <2>1, AdvanceKeepsChain
  <2>5. head' = [head EXCEPT ![s] = n + 1] /\ moves' = [moves EXCEPT ![s] = moves[s] + 1]
    BY <1>1, <2>1, AdvanceKeepsChain
  <2>. QED BY <2>2, <2>3, <2>4, <2>5
<1>3. /\ proposal \in [Proposal -> [status : {"pending", "approved", "rejected"}, id : Nat]]
      /\ head \in [Slot -> 0..n] /\ moves \in [Slot -> Nat]
      /\ n \in Nat /\ n + 1 \notin Id
  BY DEF MemoryInv, RestTypes, ChainInv, ItemTypes, Id
<1>4. row \in [status : {"pending", "approved", "rejected"}, id : Nat]
  BY <1>3
<1>5. RestTypes'
  BY <1>1, <1>3, <1>4 DEF MemoryInv, RestTypes
<1>6. Origins'
  <2> SUFFICES ASSUME NEW q \in Proposal
               PROVE  /\ proposal'[q].status = "approved" => proposal'[q].id \in Id'
                      /\ \A i \in Id' : item'[i].from = q <=>
                           proposal'[q].status = "approved" /\ proposal'[q].id = i
    BY DEF Origins
  <2>1. /\ proposal[q].status = "approved" => proposal[q].id \in Id
        /\ \A i \in Id : item[i].from = q <=> proposal[q].status = "approved" /\ proposal[q].id = i
    BY DEF MemoryInv, Origins
  <2>2. CASE q = p
    <3>1. proposal'[q].status = "approved" /\ proposal'[q].id = n + 1
      BY <1>1, <1>3, <2>2
    <3>2. \A i \in Id : item'[i].from # q
      BY <1>1, <1>2, <2>1, <2>2
    <3>. QED BY <1>2, <1>3, <2>2, <3>1, <3>2
  <2>3. CASE q # p
    <3>1. proposal'[q] = proposal[q]
      BY <1>1, <1>3, <2>3
    <3>. QED BY <1>2, <1>3, <2>1, <2>3, <3>1
  <2>. QED BY <2>2, <2>3
<1>7. JobsFound'
  BY <1>1, <1>2 DEF MemoryInv, JobsFound
<1>8. ASSUME NEW d \in Client PROVE Charge(d)'
  <2>1. \A u \in Slot : \/ head'[u] = head[u] /\ moves'[u] = moves[u]
                        \/ moves'[u] = moves[u] + 1
    BY <1>2, <1>3
  <2>. QED BY <1>1, <2>1, ChargeStands
<1>. QED BY <1>2, <1>5, <1>6, <1>7, <1>8 DEF MemoryInv

LEMMA RejectProposalStep ==
  ASSUME MemoryInv, NEW p \in Proposal, RejectProposal(p)
  PROVE  MemoryInv'
<1>1. /\ proposal[p].status = "pending" /\ proposal' = [proposal EXCEPT ![p].status = "rejected"]
      /\ UNCHANGED <<item, head, req, job, locked, deleting, member, deletes, moves>>
  BY DEF RejectProposal, Reviewable
<1>2. ChainInv' /\ Id' = Id
  BY <1>1, ItemsUnchanged
<1>3. /\ proposal \in [Proposal -> [status : {"pending", "approved", "rejected"}, id : Nat]]
  BY DEF MemoryInv, RestTypes
<1>4. RestTypes'
  <2>1. proposal' \in [Proposal -> [status : {"pending", "approved", "rejected"}, id : Nat]]
    BY <1>1, <1>3
  <2>. QED BY <1>1, <2>1 DEF MemoryInv, RestTypes
<1>5. Origins'
  BY <1>1, <1>2, <1>3 DEF MemoryInv, Origins
<1>6. JobsFound'
  BY <1>1, <1>2 DEF MemoryInv, JobsFound
<1>7. ASSUME NEW d \in Client PROVE Charge(d)'
  BY <1>1, ChargeStands
<1>. QED BY <1>2, <1>4, <1>5, <1>6, <1>7 DEF MemoryInv

LEMMA DeleteHeadsStep ==
  ASSUME MemoryInv, DeleteHeads
  PROVE  MemoryInv'
<1>1. UNCHANGED <<item, head, req, proposal, job, member, moves>>
  BY DEF DeleteHeads
<1>2. ChainInv' /\ Id' = Id
  BY <1>1, ItemsUnchanged
<1>3. RestTypes'
  <2>1. deletes' \in 0..MaxDeletes /\ deleting' \in BOOLEAN /\ locked' \in SUBSET Slot
    BY MemoryAssumption DEF MemoryInv, RestTypes, DeleteHeads
  <2>. QED BY <1>1, <2>1 DEF MemoryInv, RestTypes
<1>4. Origins' /\ JobsFound'
  BY <1>1, <1>2 DEF MemoryInv, Origins, JobsFound
<1>5. ASSUME NEW d \in Client PROVE Charge(d)'
  BY <1>1, ChargeStands
<1>. QED BY <1>2, <1>3, <1>4, <1>5 DEF MemoryInv

(* After the deletion nothing is kept; the revisions remain as ghosts.     *)
LEMMA DeleteItemsStep ==
  ASSUME MemoryInv, DeleteItems
  PROVE  MemoryInv'
<1>1. /\ item' = Emptied
      /\ head' = [s \in Slot |-> IF s \in locked THEN 0 ELSE head[s]]
      /\ moves' = [s \in Slot |-> IF s \in locked THEN moves[s] + 1 ELSE moves[s]]
      /\ locked' = {} /\ deleting' = FALSE
      /\ UNCHANGED <<req, proposal, job, member, deletes>>
  BY DEF DeleteItems
<1>2. /\ item \in Seq(Row) /\ Len(item) \in Nat /\ head \in [Slot -> 0..Len(item)]
      /\ moves \in [Slot -> Nat]
  BY DEF MemoryInv, ChainInv, ItemTypes
<1>3. ASSUME NEW i \in Id
      PROVE  /\ item'[i] \in Row /\ item'[i].slot = item[i].slot /\ item'[i].rev = item[i].rev
             /\ item'[i].prev = item[i].prev /\ item'[i].from = item[i].from
             /\ item'[i].kept = FALSE
  <2>1. item[i] \in Row
    BY <1>2 DEF Id
  <2>2. item'[i] = [item[i] EXCEPT !.kept = FALSE]
    BY <1>1 DEF Emptied
  <2>. QED BY <2>1, <2>2 DEF Row
<1>4. item' \in Seq(Row) /\ Len(item') = Len(item)
  <2>1. item' = [i \in 1..Len(item) |-> item'[i]] /\ \A i \in 1..Len(item) : item'[i] \in Row
    BY <1>1, <1>3 DEF Emptied, Id
  <2>. QED BY <1>2, <2>1
<1>5. Id' = Id
  BY <1>4 DEF Id
<1>6. ItemTypes'
  BY <1>1, <1>2, <1>4 DEF ItemTypes
<1>7. HeadsPoint'
  <2> SUFFICES ASSUME NEW s \in Slot, head'[s] # 0 PROVE item'[head'[s]].slot = s
    BY DEF HeadsPoint
  <2>1. head'[s] = head[s] /\ head[s] \in Id
    BY <1>1, <1>2 DEF Id
  <2>. QED BY <1>3, <2>1 DEF MemoryInv, ChainInv, HeadsPoint
<1>8. HeadLeads' /\ Unforked'
  BY <1>3, <1>5 DEF HeadLeads, Unforked
<1>9. Linked'
  <2> SUFFICES ASSUME NEW i \in Id
               PROVE  /\ item'[i].rev >= 1
                      /\ IF item'[i].rev = 1 THEN item'[i].prev = 0
                         ELSE /\ item'[i].prev \in 1..(i - 1)
                              /\ item'[item'[i].prev].slot = item'[i].slot
                              /\ item'[item'[i].prev].rev = item'[i].rev - 1
    BY <1>5 DEF Linked
  <2>1. /\ item[i].rev >= 1
        /\ IF item[i].rev = 1 THEN item[i].prev = 0
           ELSE /\ item[i].prev \in 1..(i - 1)
                /\ item[item[i].prev].slot = item[i].slot
                /\ item[item[i].prev].rev = item[i].rev - 1
    BY DEF MemoryInv, ChainInv, Linked
  <2>2. \A k \in 1..(i - 1) : k \in Id
    BY <1>2 DEF Id
  <2>. QED BY <1>3, <2>1, <2>2
<1>10. RestTypes'
  BY <1>1 DEF MemoryInv, RestTypes
<1>11. Origins' /\ JobsFound'
  <2>1. \A i \in Id : item'[i].from = item[i].from
    BY <1>3
  <2>2. Origins'
    BY <1>1, <1>5, <2>1 DEF MemoryInv, Origins
  <2>3. JobsFound'
    BY <1>1, <1>5 DEF MemoryInv, JobsFound
  <2>. QED BY <2>2, <2>3
<1>12. ASSUME NEW d \in Client PROVE Charge(d)'
  BY <1>1, ChargeStands
<1>. QED BY <1>6, <1>7, <1>8, <1>9, <1>10, <1>11, <1>12 DEF MemoryInv, ChainInv

LEMMA SearchFindsItems ==
  ASSUME MemoryInv, NEW scope
  PROVE  Search(scope) \subseteq Id
<1>1. \A s \in Slot : Present(s) => head[s] \in Id
  BY DEF MemoryInv, ChainInv, ItemTypes, Present, Id
<1>. QED BY <1>1 DEF Search

LEMMA JobStep ==
  ASSUME MemoryInv, NEW j \in Job, EnqueueJob(j) \/ RunJob(j)
  PROVE  MemoryInv'
<1>1. UNCHANGED <<item, head, req, proposal, locked, deleting, member, deletes, moves>>
  BY DEF EnqueueJob, RunJob
<1>2. ChainInv' /\ Id' = Id /\ Id \subseteq Nat
  BY <1>1, ItemsUnchanged DEF Id
<1>. DEFINE JobRow == [at : {"none", "queued", "done"}, refs : SUBSET Nat, used : SUBSET Nat]
<1>3. job \in [Job -> JobRow] /\ \A k \in Job : job[k] \in JobRow /\ job[k].refs \subseteq Id
  BY DEF MemoryInv, RestTypes, JobsFound
<1>4. PICK row \in JobRow : row.refs \subseteq Id /\ job' = [job EXCEPT ![j] = row]
  <2>1. CASE EnqueueJob(j)
    <3>. DEFINE row == [job[j] EXCEPT !.at = "queued", !.refs = Search(JobScope[j])]
    <3>1. row \in JobRow /\ row.refs \subseteq Id
      BY <1>2, <1>3, SearchFindsItems
    <3>2. job' = [job EXCEPT ![j] = row]
      BY <1>3, <2>1 DEF EnqueueJob
    <3>. QED BY <3>1, <3>2
  <2>2. CASE RunJob(j)
    <3>. DEFINE used == {i \in job[j].refs : StillCurrent(i)}
                row == [job[j] EXCEPT !.at = "done", !.used = used]
    <3>1. used \in SUBSET Nat
      BY <1>2, <1>3
    <3>2. job' = [job EXCEPT ![j] = row]
      BY <1>3, <2>2 DEF RunJob
    <3>. HIDE DEF used
    <3>3. row \in JobRow /\ row.refs \subseteq Id
      BY <1>3, <3>1
    <3>. QED BY <3>2, <3>3
  <2>. QED BY <2>1, <2>2
<1>5. RestTypes'
  BY <1>1, <1>3, <1>4 DEF MemoryInv, RestTypes
<1>6. Origins' /\ JobsFound'
  BY <1>1, <1>2, <1>3, <1>4 DEF MemoryInv, Origins, JobsFound
<1>7. ASSUME NEW d \in Client PROVE Charge(d)'
  BY <1>1, ChargeStands
<1>. QED BY <1>2, <1>5, <1>6, <1>7 DEF MemoryInv

LEMMA RemoveMemberStep == MemoryInv /\ RemoveMember => MemoryInv'
<1> SUFFICES ASSUME MemoryInv, RemoveMember PROVE MemoryInv'
  OBVIOUS
<1>1. UNCHANGED <<item, head, req, proposal, job, locked, deleting, deletes, moves>>
      /\ member' \in BOOLEAN
  BY DEF RemoveMember
<1>2. ChainInv' /\ Id' = Id
  BY <1>1, ItemsUnchanged
<1>3. RestTypes' /\ Origins' /\ JobsFound'
  BY <1>1, <1>2 DEF MemoryInv, RestTypes, Origins, JobsFound
<1>4. ASSUME NEW d \in Client PROVE Charge(d)'
  BY <1>1, ChargeStands
<1>. QED BY <1>2, <1>3, <1>4 DEF MemoryInv

----------------------------------------------------------------------------
LEMMA NextHolds == MemoryInv /\ [MemoryNext]_memoryVars => MemoryInv'
<1> SUFFICES ASSUME MemoryInv, [MemoryNext]_memoryVars PROVE MemoryInv'
  OBVIOUS
<1>1. CASE UNCHANGED memoryVars
  <2>1. UNCHANGED <<item, head, req, proposal, job, locked, deleting, member, deletes, moves>>
    BY <1>1 DEF memoryVars
  <2>2. ChainInv' /\ Id' = Id
    BY <2>1, ItemsUnchanged
  <2>. QED BY <2>1, <2>2 DEF MemoryInv, RestTypes, Origins, JobsFound, Charge
<1>2. ASSUME NEW c \in Client, Refused(c) PROVE MemoryInv'
  BY <1>2, IdleRequest, RequestStep DEF Refused
<1>. QED BY <1>1, <1>2, PutMemoryStep, SetMemoryStateStep, ReadHeadStep, WriteOnceStep,
            WriteFailsStep, ApproveProposalStep, RejectProposalStep, DeleteHeadsStep,
            DeleteItemsStep, JobStep, RemoveMemberStep DEF MemoryNext

(* The revisions, the heads, what the requests have read and what the      *)
(* proposals became are an inductive invariant of the project's memory.    *)
THEOREM MemoryInductive == MemorySpec => []MemoryInv
BY InitHolds, NextHolds, PTL DEF MemorySpec

(* Each revision of a slot is written once and follows the one before it,  *)
(* and none is lost between the oldest kept and the head                   *)
(* (project_memory.py:512).                                                *)
THEOREM RevisionsChain == MemorySpec => []RevisionChain
<1>1. MemoryInv => RevisionChain
  BY DEF MemoryInv, ChainInv, Linked, Unforked, RevisionChain
<1>. QED BY <1>1, MemoryInductive, PTL

(* A proposal becomes memory once if it was approved and never if it was   *)
(* not (memory_consolidator.py:521).                                       *)
THEOREM ApprovalsOnce == MemorySpec => []ApprovedOnce
<1>1. MemoryInv => ApprovedOnce
  <2> SUFFICES ASSUME MemoryInv, NEW p \in Proposal
               PROVE  {i \in Id : item[i].from = p} =
                        IF proposal[p].status = "approved" THEN {proposal[p].id} ELSE {}
    BY DEF ApprovedOnce
  <2>1. /\ proposal[p].status = "approved" => proposal[p].id \in Id
        /\ \A i \in Id : item[i].from = p <=> proposal[p].status = "approved" /\ proposal[p].id = i
    BY DEF MemoryInv, Origins
  <2>. QED BY <2>1
<1>. QED BY <1>1, MemoryInductive, PTL

(* A write is refused as a conflict only when others have moved the same   *)
(* head at least as often as it tried (project_memory.py:629).             *)
THEOREM ConflictsAreCharged == MemorySpec => []FailureIsCharged
<1>1. MemoryInv => FailureIsCharged
  BY DEF MemoryInv, Charge, FailureIsCharged
<1>. QED BY <1>1, MemoryInductive, PTL

(* A run of a job uses only references frozen when it was enqueued, and    *)
(* nothing superseded, retracted or deleted since (project_job.py:150).    *)
THEOREM JobsCurrent == MemorySpec => JobsUseCurrent
<1>. DEFINE Uses == \A j \in Job : job'[j].used # job[j].used =>
                      \A i \in job'[j].used :
                        /\ i \in job[j].refs /\ item[i].kept
                        /\ \A k \in Id : item[k].slot = item[i].slot /\ item[k].kept
                                           => item[k].rev <= item[i].rev
<1>1. MemoryInv /\ [MemoryNext]_memoryVars => [Uses]_memoryVars
  <2> SUFFICES ASSUME MemoryInv, MemoryNext, NEW j \in Job, job'[j].used # job[j].used,
                      NEW i \in job'[j].used
               PROVE  /\ i \in job[j].refs /\ item[i].kept
                      /\ \A k \in Id : item[k].slot = item[i].slot /\ item[k].kept
                                         => item[k].rev <= item[i].rev
    OBVIOUS
  <2>1. job \in [Job -> [at : {"none", "queued", "done"}, refs : SUBSET Nat, used : SUBSET Nat]]
    BY DEF MemoryInv, RestTypes
  <2>2. job' # job
    OBVIOUS
  <2>3. PICK o \in Job : EnqueueJob(o) \/ RunJob(o)
    BY <2>2 DEF MemoryNext, PutMemory, SetMemoryState, Begin, ReadHead, WriteOnce, WriteFails,
                Refused, ApproveProposal, RejectProposal, DeleteHeads, DeleteItems, RemoveMember
  <2>4. RunJob(o) /\ o = j
    BY <2>1, <2>3 DEF EnqueueJob, RunJob
  <2>5. i \in job[j].refs /\ StillCurrent(i)
    BY <2>1, <2>4 DEF RunJob
  <2>6. \A k \in Id : item[k].slot = item[i].slot /\ item[k].kept => item[k].rev <= item[i].rev
    BY <2>5 DEF StillCurrent, MemoryInv, ChainInv, HeadLeads
  <2>. QED BY <2>5, <2>6 DEF StillCurrent
<1>. QED BY <1>1, MemoryInductive, PTL DEF MemorySpec, JobsUseCurrent

(***************************************************************************)
(* The evidence of an analysis.                                            *)
(***************************************************************************)

(* The ranks name each material selected, no two alike, and stand until a *)
(* promotion; what is sent, hit and paid for is eligible.                 *)
Stages == {"compile", "plan", "ranking", "promote", "payload", "conclude", "done"}

EvidenceInv ==
  /\ analysis.assets \in Catalogs
  /\ stage \in Stages
  /\ rank \in [Asset -> Nat] /\ baseline \in [Asset -> Nat]
  /\ sent \subseteq Eligible /\ hits \in Seq(sent) /\ payload.from \subseteq Eligible
  /\ Selected \subseteq Eligible
  /\ \A a, b \in Selected : rank[a] = rank[b] => a = b
  /\ stage \in {"compile", "plan", "ranking", "promote"} => rank = baseline
  /\ BaselineStands /\ MomentsAreShown /\ CausesStayHypotheses

(* The materials are finitely many.                                        *)
LEMMA Assets ==
  ASSUME analysis.assets \in Catalogs
  PROVE  /\ Len(analysis.assets) \in Nat /\ Asset = 1..Len(analysis.assets)
         /\ IsFiniteSet(Asset) /\ \A T \in SUBSET Asset : IsFiniteSet(T) /\ Cardinality(T) \in Nat
<1> DEFINE N == Len(analysis.assets)
<1>1. N \in Nat /\ Asset = 1..N
  BY EvidenceAssumption DEF Asset
<1> HIDE DEF N
<1>2. IsFiniteSet(Asset)
  BY <1>1, FS_Interval
<1>3. \A T \in SUBSET Asset : IsFiniteSet(T) /\ Cardinality(T) \in Nat
  BY <1>2, FS_Subset, FS_CardinalityType
<1> QED BY <1>1, <1>2, <1>3 DEF N

(* The position of an element, 0 when there is none.                       *)
LEMMA PositionOf ==
  ASSUME NEW S, NEW seq \in Seq(S), NEW a
  PROVE  /\ Position(seq, a) \in Nat /\ Position(seq, a) <= Len(seq)
         /\ Contains(seq, a) => Position(seq, a) > 0 /\ seq[Position(seq, a)] = a /\ a \in S
         /\ ~Contains(seq, a) => Position(seq, a) = 0
<1>1. Len(seq) \in Nat /\ DOMAIN seq = 1..Len(seq)
  OBVIOUS
<1>2. CASE Contains(seq, a)
  <2>1. \E i \in DOMAIN seq : seq[i] = a
    BY <1>1, <1>2 DEF Contains
  <2> DEFINE p == CHOOSE i \in DOMAIN seq : seq[i] = a
  <2>2. p \in DOMAIN seq /\ seq[p] = a
    BY <2>1
  <2>3. Position(seq, a) = p
    BY <1>2 DEF Position
  <2> HIDE DEF p
  <2>4. seq[p] \in S
    BY <1>1, <2>2
  <2> QED BY <1>1, <1>2, <2>2, <2>3, <2>4
<1>3. CASE ~Contains(seq, a)
  BY <1>1, <1>3 DEF Position
<1> QED BY <1>2, <1>3

(* The budgets are numbers.                                                *)
LEMMA Budgets ==
  /\ MaxPromotions \in Nat
  /\ FrameBudget \in {0, 3, 4, 6}
<1>1. MaxPromotions \in Nat
  BY EvidenceAssumption DEF MaxPromotions
<1>2. FrameBudget \in {0, 3, 4, 6}
  BY DEF FrameBudget
<1> QED BY <1>1, <1>2

(* Nothing that an analysis was given changes under it.                    *)
LEMMA SameAnalysis ==
  ASSUME analysis' = analysis
  PROVE  /\ Asset' = Asset /\ Eligible' = Eligible /\ MaxPromotions' = MaxPromotions
         /\ \A a : Contradicts(a)' = Contradicts(a)
BY DEF Asset, Eligible, Contradicts, MaxPromotions, Deep, Semantic, Asks, Content, Visual,
       NeedsVisual, Hearable, TimestampDirect, InScope, Of

(* The initial state, and every step but those of the payload.             *)
LEMMA InitEvidence == ASSUME EvidenceInit PROVE EvidenceInv
<1>1. /\ analysis.assets \in Catalogs /\ stage = "compile"
      /\ rank = [a \in Asset |-> 0] /\ baseline = rank /\ sent = {} /\ hits = <<>>
      /\ payload = NoPayload
  BY DEF EvidenceInit, Asset
<1>2. hits \in Seq(sent) /\ payload.from = {} /\ Selected = {}
  BY <1>1 DEF NoPayload, Selected
<1>3. BaselineStands
  <2>1. {a \in Asset : rank[a] # baseline[a]} = {}
    BY <1>1
  <2> QED BY <2>1, Budgets, FS_EmptySet DEF BaselineStands
<1>4. MomentsAreShown /\ CausesStayHypotheses
  BY <1>1 DEF MomentsAreShown, CausesStayHypotheses, NoPayload, MaxImages
<1>5. rank \in [Asset -> Nat] /\ baseline \in [Asset -> Nat]
  BY <1>1
<1> QED BY <1>1, <1>2, <1>3, <1>4, <1>5 DEF EvidenceInv, Stages

LEMMA CompileHolds == ASSUME EvidenceInv, Compile PROVE EvidenceInv'
<1>1. PICK order \in SetToSeqs(Eligible) : \E chosen \in {Selection(order)} :
        \E ranked \in {Kept(order, {i \in DOMAIN order : order[i] \in chosen})} :
          rank' = [a \in Asset |-> Position(ranked, a)]
  BY Zenon DEF Compile
<1>2. PICK chosen : \E ranked \in {Kept(order, {i \in DOMAIN order : order[i] \in chosen})} :
        rank' = [a \in Asset |-> Position(ranked, a)]
  BY Zenon, <1>1
<1> DEFINE T == {i \in DOMAIN order : order[i] \in chosen}
           ranked == Kept(order, T)
<1>3. rank' = [a \in Asset |-> Position(ranked, a)]
  BY Zenon, <1>2
<1>4. order \in Seq(Eligible)
  <2>1. Eligible \in SUBSET Asset
    BY DEF Eligible
  <2>2. Cardinality(Eligible) \in Nat
    BY <2>1, Assets DEF EvidenceInv
  <2>3. order \in [1..Cardinality(Eligible) -> Eligible]
    BY DEF SetToSeqs
  <2> QED BY <2>2, <2>3
<1>5. ranked \in Seq(Eligible)
  <2>1. T \in SUBSET (1..Len(order))
    BY <1>4
  <2> HIDE DEF T
  <2> QED BY <1>4, <2>1, KeptElements
<1> HIDE DEF ranked
<1>6. /\ analysis' = analysis /\ baseline' = rank' /\ stage' = "plan" /\ sent' = sent
      /\ hits' = hits /\ payload' = payload /\ claim' = claim
  BY DEF Compile
<1>7. Asset' = Asset /\ Eligible' = Eligible /\ MaxPromotions' = MaxPromotions
  BY <1>6 DEF Asset, Eligible, Contradicts, MaxPromotions, Deep, Semantic, Asks, Content, Visual,
     NeedsVisual, Hearable, TimestampDirect, InScope, Of
<1>8. rank' \in [Asset -> Nat] /\ \A a \in Asset : rank'[a] = Position(ranked, a)
  BY <1>3, <1>5, PositionOf
<1>9. Selected' \subseteq Eligible /\ \A a, b \in Selected' : rank'[a] = rank'[b] => a = b
  <2>1. \A a \in Selected' : a \in Asset /\ Position(ranked, a) > 0
    BY <1>7, <1>8 DEF Selected
  <2>2. \A a \in Selected' : ranked[Position(ranked, a)] = a /\ a \in Eligible
    BY <1>5, <2>1, PositionOf
  <2> QED BY <1>8, <2>1, <2>2
<1>10. BaselineStands'
  <2>1. {a \in Asset : rank[a] # baseline[a]}' = {}
    BY <1>6
  <2>2. Cardinality({}) <= MaxPromotions
    BY Budgets, FS_EmptySet
  <2> QED BY <1>7, <2>1, <2>2 DEF BaselineStands
<1>11. MomentsAreShown' /\ CausesStayHypotheses'
  BY <1>6 DEF EvidenceInv, MomentsAreShown, CausesStayHypotheses, Asks
<1> QED BY <1>6, <1>7, <1>8, <1>9, <1>10, <1>11 DEF EvidenceInv, Stages

(* A step that leaves the ranks alone.                                     *)
LEMMA SameRanks ==
  ASSUME EvidenceInv, UNCHANGED <<analysis, rank, baseline>>
  PROVE  /\ Asset' = Asset /\ Eligible' = Eligible /\ Selected' = Selected
         /\ BaselineStands'
BY SameAnalysis DEF EvidenceInv, Selected, BaselineStands

LEMMA SkipRetrievalHolds == ASSUME EvidenceInv, SkipRetrieval PROVE EvidenceInv'
<1>1. MomentsAreShown' /\ CausesStayHypotheses'
  BY DEF EvidenceInv, SkipRetrieval, MomentsAreShown, CausesStayHypotheses, Asks
<1> QED BY <1>1, SameRanks DEF EvidenceInv, SkipRetrieval, Stages

LEMMA AskHolds == ASSUME EvidenceInv, Ask PROVE EvidenceInv'
<1>1. MomentsAreShown' /\ CausesStayHypotheses'
  BY DEF EvidenceInv, Ask, MomentsAreShown, CausesStayHypotheses, Asks
<1>2. sent' = Eligible
  BY DEF Ask, ScopeEligible, Eligible
<1>3. sent \subseteq sent' /\ hits' = hits
  BY <1>2 DEF EvidenceInv, Ask
<1>4. hits' \in Seq(sent')
  BY <1>3 DEF EvidenceInv
<1> QED BY <1>1, <1>2, <1>4, SameRanks DEF EvidenceInv, Ask, Stages

LEMMA RankHolds == ASSUME EvidenceInv, Rank PROVE EvidenceInv'
<1>1. PICK scored \in SUBSET Scorable, named \in {{}, sent}, stray \in Asset :
        \E raw \in RankAnswers(scored, named) : hits' = Accepted(<<stray>> \o raw)
  BY DEF Rank
<1>2. PICK raw \in RankAnswers(scored, named) : hits' = Accepted(<<stray>> \o raw)
  BY <1>1
<1> DEFINE all == <<stray>> \o raw
           T == {i \in DOMAIN all : all[i] \in sent /\ \A k \in 1..(i - 1) : all[k] # all[i]}
<1>3. all \in Seq(Asset)
  <2>1. scored \cup named \in SUBSET Asset
    BY DEF Scorable, EvidenceInv, Eligible
  <2>2. Cardinality(scored \cup named) \in Nat
    BY <2>1, Assets DEF EvidenceInv
  <2>3. raw \in Seq(scored \cup named)
    <3> DEFINE S == scored \cup named
    <3>1. raw \in [1..Cardinality(S) -> S]
      BY DEF RankAnswers, SetToSeqs
    <3>2. Cardinality(S) \in Nat
      BY <2>2
    <3> HIDE DEF S
    <3>3. raw \in Seq(S)
      BY <3>1, <3>2
    <3> QED BY <3>3 DEF S
  <2>4. raw \in Seq(Asset)
    BY <2>1, <2>3
  <2> QED BY <2>4
<1>4. hits' = Kept(all, T)
  BY <1>2 DEF Accepted
<1>5. T \in SUBSET (1..Len(all)) /\ \A i \in T : all[i] \in sent
  BY <1>3
<1> HIDE DEF all, T
<1>6. /\ Kept(all, T) \in Seq(Asset)
      /\ \A n \in 1..Len(Kept(all, T)) : \E i \in T : Kept(all, T)[n] = all[i]
  BY <1>3, <1>5, KeptElements
<1>7. \A n \in 1..Len(Kept(all, T)) : Kept(all, T)[n] \in sent
  BY <1>5, <1>6
<1> DEFINE kept == Kept(all, T)
<1>8. kept \in Seq(Asset) /\ \A n \in 1..Len(kept) : kept[n] \in sent
  BY <1>6, <1>7
<1> HIDE DEF kept
<1>9. kept \in Seq(sent)
  BY <1>8
<1>10. hits' \in Seq(sent')
  BY <1>4, <1>9 DEF kept, Rank
<1>11. MomentsAreShown' /\ CausesStayHypotheses'
  BY DEF EvidenceInv, Rank, MomentsAreShown, CausesStayHypotheses, Asks
<1> QED BY <1>10, <1>11, SameRanks DEF EvidenceInv, Rank, Stages

LEMMA RankFailsHolds == ASSUME EvidenceInv, RankFails PROVE EvidenceInv'
<1>1. MomentsAreShown' /\ CausesStayHypotheses'
  BY DEF EvidenceInv, RankFails, MomentsAreShown, CausesStayHypotheses, Asks
<1> QED BY <1>1, SameRanks DEF EvidenceInv, RankFails, Stages

(* The last rank is one that a material has, and none has a higher one.    *)
LEMMA LastRank ==
  ASSUME EvidenceInv, Asset # {}
  PROVE  LET last == Max({rank[a] : a \in Asset})
         IN  last \in Nat /\ \A a \in Asset : rank[a] <= last
<1> DEFINE N == Len(analysis.assets)
<1>1. N \in Nat /\ Asset = 1..N /\ rank \in [1..N -> Nat] /\ 1 \in 1..N
  BY Assets DEF EvidenceInv
<1> HIDE DEF N
<1>2. PICK top \in 1..N : \A a \in 1..N : rank[top] >= rank[a]
  <2>1. N >= 1 /\ rank \in [1..N -> Int]
    BY <1>1
  <2> QED BY <1>1, <2>1, HighestExists
<1> DEFINE R == {rank[a] : a \in Asset}
<1>3. \E m \in R : \A r \in R : m >= r
  BY <1>1, <1>2
<1>4. Max(R) \in R /\ \A r \in R : Max(R) >= r
  BY <1>3 DEF Max
<1>5. R \subseteq Nat
  BY <1>1
<1>6. \A a \in Asset : rank[a] \in R
  OBVIOUS
<1> HIDE DEF R
<1>7. Max(R) \in Nat /\ \A a \in Asset : rank[a] <= Max(R)
  BY <1>4, <1>5, <1>6
<1> QED BY <1>7 DEF R

(* What a sequence contains are at most as many as its length.             *)
LEMMA ContainedFew ==
  ASSUME NEW S, NEW seq \in Seq(S), NEW T, \A a \in T : Contains(seq, a)
  PROVE  Cardinality(T) <= Len(seq)
<1> DEFINE f == [a \in T |-> Position(seq, a)]
           N == Len(seq)
<1>1. N \in Nat
  OBVIOUS
<1>2. \A a \in T : Position(seq, a) \in 1..N /\ seq[Position(seq, a)] = a
  BY <1>1, PositionOf
<1>3. f \in [T -> 1..N] /\ \A a, b \in T : f[a] = f[b] => a = b
  BY <1>2
<1> HIDE DEF f, N
<1>4. f \in Injection(T, 1..N)
  BY <1>3, Fun_IsInj
<1>5. IsFiniteSet(1..N) /\ Cardinality(1..N) = N
  BY <1>1, FS_Interval
<1>6. Cardinality(T) <= N
  BY <1>4, <1>5, FS_Injection
<1> QED BY <1>6 DEF N

LEMMA PromoteHolds == ASSUME EvidenceInv, Promote PROVE EvidenceInv'
<1> DEFINE T == {i \in DOMAIN hits : Promotable(hits[i])}
           fresh == Kept(hits, T)
           taken == SubSeq(fresh, 1, Min({Len(fresh), MaxPromotions}))
           last == Max({rank[a] : a \in Asset})
<1>1. rank' = [a \in Asset |-> IF Contains(taken, a) THEN last + Position(taken, a) ELSE rank[a]]
  <2>1. PICK f \in {fresh} : \E t \in {SubSeq(f, 1, Min({Len(f), MaxPromotions}))} :
          rank' = [a \in Asset |-> IF Contains(t, a) THEN last + Position(t, a) ELSE rank[a]]
    BY Zenon DEF Promote
  <2>2. f = fresh
    BY <2>1
  <2> HIDE DEF fresh
  <2>3. PICK t \in {taken} :
          rank' = [a \in Asset |-> IF Contains(t, a) THEN last + Position(t, a) ELSE rank[a]]
    BY Zenon, <2>1, <2>2
  <2> HIDE DEF taken, last
  <2> QED BY Zenon, <2>3
<1>2. /\ fresh \in Seq(sent)
      /\ \A n \in 1..Len(fresh) : Promotable(fresh[n])
  <2>1. T \in SUBSET (1..Len(hits)) /\ \A i \in T : Promotable(hits[i])
    BY DEF EvidenceInv
  <2> HIDE DEF T
  <2>2. hits \in Seq(sent)
    BY DEF EvidenceInv
  <2> QED BY <2>1, <2>2, KeptElements
<1> HIDE DEF fresh
<1>m. MaxPromotions \in Nat
  BY Budgets
<1>3. /\ taken \in Seq(sent) /\ Len(taken) \in Nat /\ Len(taken) <= MaxPromotions
      /\ \A n \in 1..Len(taken) : Promotable(taken[n])
  <2> DEFINE k == MaxPromotions
  <2> HIDE DEF k
  <2>1. LET p == SubSeq(fresh, 1, Min({Len(fresh), k}))
        IN  /\ p \in Seq(sent) /\ Len(p) \in Nat /\ Len(p) <= k
            /\ \A n \in 1..Len(p) : n \in 1..Len(fresh) /\ p[n] = fresh[n]
    BY <1>2, <1>m, Prefix DEF k
  <2> HIDE DEF taken
  <2>2. /\ taken \in Seq(sent) /\ Len(taken) \in Nat /\ Len(taken) <= k
        /\ \A n \in 1..Len(taken) : n \in 1..Len(fresh) /\ taken[n] = fresh[n]
    BY <2>1 DEF taken, k
  <2> QED BY <1>2, <2>2 DEF k
<1> HIDE DEF taken, last
<1>4. \A a : /\ Position(taken, a) \in Nat
             /\ Contains(taken, a) => /\ Position(taken, a) > 0 /\ taken[Position(taken, a)] = a
                                      /\ Position(taken, a) <= Len(taken) /\ a \in sent
  BY <1>3, PositionOf
<1>5. \A a : Contains(taken, a) => rank[a] = 0 /\ a \in Eligible /\ a \in Asset
  <2> SUFFICES ASSUME NEW a, Contains(taken, a)
               PROVE  rank[a] = 0 /\ a \in Eligible /\ a \in Asset
    OBVIOUS
  <2>1. Promotable(a)
    BY <1>3, <1>4
  <2>2. a \in Eligible
    BY <1>4 DEF EvidenceInv
  <2> QED BY <2>1, <2>2 DEF Promotable, Eligible
<1>6. \A a : Contains(taken, a) => last \in Nat /\ \A b \in Asset : rank[b] <= last
  BY <1>5, LastRank DEF last
<1>7. /\ analysis' = analysis /\ baseline' = baseline /\ stage' = "payload" /\ sent' = sent
      /\ hits' = hits /\ payload' = payload /\ claim' = claim /\ baseline = rank
  BY DEF Promote, EvidenceInv
<1>8. Asset' = Asset /\ Eligible' = Eligible /\ MaxPromotions' = MaxPromotions
  BY <1>7, SameAnalysis
<1>9. \A a \in Asset : rank[a] \in Nat
  BY DEF EvidenceInv
<1>10. \A a \in Asset : /\ Contains(taken, a) => rank'[a] = last + Position(taken, a)
                        /\ ~Contains(taken, a) => rank'[a] = rank[a]
  BY <1>1
<1>11. rank' \in [Asset -> Nat]
  <2>1. \A a \in Asset : rank'[a] \in Nat
    BY <1>4, <1>6, <1>9, <1>10
  <2> QED BY <1>1, <2>1
<1>12. \A a, b \in Asset : Contains(taken, a) /\ a # b => rank'[a] # rank'[b]
  <2> SUFFICES ASSUME NEW a \in Asset, NEW b \in Asset, Contains(taken, a), a # b
               PROVE  rank'[a] # rank'[b]
    OBVIOUS
  <2>1. CASE Contains(taken, b)
    <3>1. Position(taken, a) # Position(taken, b)
      BY <1>4, <2>1
    <3> QED BY <1>4, <1>6, <1>10, <2>1, <3>1
  <2>2. CASE ~Contains(taken, b)
    BY <1>4, <1>6, <1>9, <1>10, <2>2
  <2> QED BY <2>1, <2>2
<1>13. \A a \in Selected' : a \in Asset /\ (Contains(taken, a) \/ a \in Selected)
  BY <1>8, <1>10 DEF Selected
<1>14. Selected' \subseteq Eligible
  BY <1>5, <1>13 DEF EvidenceInv
<1>15. \A a, b \in Selected' : rank'[a] = rank'[b] => a = b
  BY <1>10, <1>12, <1>13 DEF EvidenceInv
<1>16. BaselineStands'
  <2> DEFINE added == {a \in Asset : rank'[a] # rank[a]}
  <2>1. \A a \in added : Contains(taken, a)
    BY <1>10
  <2>2. Cardinality(added) <= Len(taken)
    <3> HIDE DEF added
    <3> QED BY <1>3, <2>1, ContainedFew
  <2>3. IsFiniteSet(added) /\ Cardinality(added) \in Nat
    BY Assets DEF EvidenceInv
  <2>4. Cardinality(added) <= MaxPromotions
    BY <1>3, <1>m, <2>2, <2>3
  <2>5. ASSUME NEW a \in added, NEW b \in Selected' \ {a}
        PROVE  rank'[b] # rank'[a] /\ (rank[b] > 0 => rank'[b] < rank'[a])
    <3>1. Contains(taken, a) /\ a \in Asset /\ b \in Asset /\ a # b
      BY <1>13, <2>1
    <3>2. rank[b] > 0 => ~Contains(taken, b)
      BY <1>5
    <3>3. rank[b] > 0 => rank'[b] < rank'[a]
      BY <1>4, <1>6, <1>9, <1>10, <3>1, <3>2
    <3> QED BY <1>12, <3>1, <3>3
  <2>6. \A a \in added : rank[a] = 0
    BY <1>5, <2>1
  <2>7. {a \in Asset : rank[a] # baseline[a]}' = added
    BY <1>7, <1>8
  <2> HIDE DEF added
  <2> QED BY <1>7, <1>8, <2>4, <2>5, <2>6, <2>7 DEF BaselineStands
<1>17. MomentsAreShown' /\ CausesStayHypotheses'
  BY <1>7 DEF EvidenceInv, MomentsAreShown, CausesStayHypotheses, Asks
<1> QED BY <1>7, <1>8, <1>11, <1>14, <1>15, <1>16, <1>17 DEF EvidenceInv, Stages

LEMMA ThreeMin ==
  ASSUME NEW a \in Int, NEW b \in Int, NEW c \in Int
  PROVE  Min({a, b, c}) \in {a, b, c} /\ Min({a, b, c}) <= a /\ Min({a, b, c}) <= b
         /\ Min({a, b, c}) <= c
<1>1. \E x \in {a, b, c} : \A y \in {a, b, c} : x <= y
  OBVIOUS
<1> QED BY <1>1 DEF Min

(* What is derived of the materials shown, within its budgets.             *)
LEMMA DerivedFew ==
  ASSUME EvidenceInv, NEW shown \in SUBSET Asset
  PROVE  /\ Derived(shown).exact \in 0..4 /\ Derived(shown).exact <= FrameBudget
         /\ Derived(shown).scene \in {0, FrameBudget} /\ KeyFrames(shown) \in Nat
<1> DEFINE videos == shown \cap Of("video")
           card == Cardinality(Moments(videos))
<1>1. card \in Nat
  <2>1. IsFiniteSet(videos)
    BY Assets DEF EvidenceInv
  <2>2. IsFiniteSet({"query", "hit"})
    <3>1. IsFiniteSet({"query"}) /\ IsFiniteSet({"hit"})
      BY FS_Singleton
    <3>2. IsFiniteSet({"query"} \cup {"hit"})
      BY Zenon, <3>1, FS_Union
    <3>3. {"query", "hit"} = {"query"} \cup {"hit"}
      OBVIOUS
    <3> QED BY <3>2, <3>3
  <2> HIDE DEF videos
  <2>3. IsFiniteSet(videos \X {"query", "hit"})
    BY <2>1, <2>2, FS_Product
  <2>4. Moments(videos) \subseteq videos \X {"query", "hit"}
    BY DEF Moments
  <2> QED BY <2>3, <2>4, FS_Subset, FS_CardinalityType
<1>2. /\ Derived(shown).exact = Min({ExactFrames, FrameBudget, card})
      /\ Derived(shown).scene \in {0, FrameBudget}
  BY DEF Derived
<1> DEFINE frames == FrameBudget
<1>3. frames \in {0, 3, 4, 6}
  BY Budgets
<1> HIDE DEF card, frames
<1>4. /\ Min({4, frames, card}) \in {4, frames, card} /\ Min({4, frames, card}) <= 4
      /\ Min({4, frames, card}) <= frames
  <2>1. 4 \in Int /\ frames \in Int /\ card \in Int
    BY <1>1, <1>3
  <2> QED BY <2>1, ThreeMin
<1>5. Derived(shown).exact = Min({4, frames, card})
  BY <1>2 DEF frames, ExactFrames
<1>6. Derived(shown).exact \in 0..4 /\ Derived(shown).exact <= frames
  BY <1>1, <1>3, <1>4, <1>5
<1>7. KeyFrames(shown) \in Nat
  <2> DEFINE c == Cardinality(shown \cap Of("image"))
             v == Cardinality(shown \cap Of("video"))
  <2>1. c \in Nat /\ v \in Nat
    BY Assets DEF EvidenceInv
  <2>2. KeyFrames(shown) = Min({9, c + 3 * v})
    BY DEF KeyFrames, ImageBudget, FramesPerVideo
  <2> HIDE DEF c, v
  <2>3. c + 3 * v \in Nat
    BY <2>1
  <2>4. Min({9, c + 3 * v}) \in {9, c + 3 * v}
    <3>1. c + 3 * v \in Int /\ 9 \in Int
      BY <2>3
    <3> QED BY <3>1, TwoMin
  <2> QED BY <2>2, <2>3, <2>4
<1> QED BY <1>2, <1>6, <1>7 DEF frames

(* Every moment that was asked for is in the payload, within its places.   *)
LEMMA PayloadFits ==
  ASSUME EvidenceInv, NEW ffmpeg \in BOOLEAN
  PROVE  LET p == Payload(ffmpeg)
         IN  p.from \subseteq Selected /\ p.temporal = p.asked /\ p.images <= MaxImages
<1> DEFINE p == Payload(ffmpeg)
           shown == p.from
           frames == FrameBudget
           made == Derived(shown)
           asked == p.asked
           rest == KeyFrames(shown) + (IF ffmpeg THEN made.scene ELSE 0)
<1>1. shown \subseteq Selected /\ shown \in SUBSET Asset
  BY DEF Payload, Selected
<1>2. asked \in {0, made.exact, made.exact + frames}
  <2> DEFINE S == {a \in Selected :
               \/ analysis.assets[a].kind \in {"image", "video"} /\ NeedsVisual
               \/ analysis.assets[a].kind = "audio" /\ NeedsAudio}
  <2>1. shown = S
    BY DEF Payload
  <2>2. \E ranges \in BOOLEAN :
          asked = IF ffmpeg THEN Derived(S).exact + (IF ranges THEN frames ELSE 0) ELSE 0
    BY DEF Payload
  <2>3. asked = 0 \/ asked = Derived(S).exact + frames \/ asked = Derived(S).exact + 0
    <3> HIDE DEF asked, S, frames
    <3> QED BY <2>2
  <2>4. Derived(S).exact \in Nat
    BY DerivedFew DEF Selected
  <2> HIDE DEF p, asked, S, frames
  <2> QED BY <2>1, <2>3, <2>4
<1>3. /\ p.temporal = FirstInLine(asked, rest)
      /\ p.images = p.temporal + Min({rest, MaxImages - p.temporal})
  BY DEF Payload
<1>4. frames \in {0, 3, 4, 6}
  BY Budgets
<1> HIDE DEF p, frames, asked
<1>5. /\ made.exact \in 0..4 /\ made.exact <= frames /\ made.scene \in {0, frames}
      /\ KeyFrames(shown) \in Nat
  BY <1>1, DerivedFew DEF frames
<1> HIDE DEF made
<1>6. asked \in 0..10 /\ rest \in Nat
  BY <1>2, <1>4, <1>5
<1> HIDE DEF rest
<1>7. FirstInLine(asked, rest) = asked
  <2>1. FirstInLine(asked, rest) = Min({asked, 10})
    BY DEF FirstInLine, MaxImages
  <2>2. Min({asked, 10}) \in {asked, 10} /\ Min({asked, 10}) <= asked
    BY <1>6, TwoMin
  <2> QED BY <1>6, <2>1, <2>2
<1>8. p.temporal = asked /\ p.temporal \in 0..10
  BY <1>3, <1>6, <1>7
<1>9. p.images <= 10
  <2> DEFINE t == p.temporal  m == Min({rest, 10 - t})
  <2>1. t \in 0..10 /\ 10 - t \in Int /\ rest \in Int
    BY <1>6, <1>8
  <2>2. p.images = t + m
    BY <1>3 DEF MaxImages
  <2> HIDE DEF t
  <2>3. m \in {rest, 10 - t} /\ m <= 10 - t
    BY <2>1, TwoMin
  <2> HIDE DEF m
  <2> QED BY <2>1, <2>2, <2>3
<1> QED BY <1>1, <1>8, <1>9 DEF p, asked, MaxImages

LEMMA DispatchHolds == ASSUME EvidenceInv, Dispatch PROVE EvidenceInv'
<1>1. PICK ffmpeg \in BOOLEAN :
        payload' \in {Payload(ffmpeg), Silent(Payload(ffmpeg)), NoPayload}
  BY DEF Dispatch
<1> DEFINE p == Payload(ffmpeg)
<1>2. p.from \subseteq Selected /\ p.temporal = p.asked /\ p.images <= MaxImages
  BY PayloadFits
<1>3. Silent(p).from \subseteq p.from /\ Silent(p).temporal = p.temporal
      /\ Silent(p).asked = p.asked /\ Silent(p).images = p.images
  BY DEF Silent, Payload
<1> HIDE DEF p
<1>4. payload'.from \subseteq Selected /\ payload'.temporal = payload'.asked
      /\ payload'.images <= MaxImages
  <2>1. NoPayload.from \subseteq Selected /\ NoPayload.temporal = NoPayload.asked
        /\ NoPayload.images <= MaxImages
    BY DEF NoPayload, MaxImages
  <2> QED BY <1>1, <1>2, <1>3, <2>1 DEF p
<1>5. MomentsAreShown' /\ CausesStayHypotheses'
  BY <1>4 DEF Dispatch, MomentsAreShown, CausesStayHypotheses, MaxImages
<1> QED BY <1>4, <1>5, SameRanks DEF EvidenceInv, Dispatch, Stages

LEMMA ConcludeHolds == ASSUME EvidenceInv, Conclude PROVE EvidenceInv'
<1>1. MomentsAreShown'
  BY DEF EvidenceInv, Conclude, MomentsAreShown
<1>2. CausesStayHypotheses'
  <2> SUFFICES ASSUME Asks("causal") PROVE claim'.status = "hypothesis" /\ claim'.verified = FALSE
    BY DEF CausesStayHypotheses, Asks, Conclude
  <2> QED BY DEF Conclude, Verified
<1> QED BY <1>1, <1>2, SameRanks DEF EvidenceInv, Conclude, Stages

LEMMA NextEvidence == ASSUME EvidenceInv, [EvidenceNext]_evidenceVars PROVE EvidenceInv'
<1>1. CASE EvidenceNext
  BY <1>1, CompileHolds, SkipRetrievalHolds, AskHolds, RankHolds, RankFailsHolds, PromoteHolds,
     DispatchHolds, ConcludeHolds DEF EvidenceNext
<1>2. CASE UNCHANGED evidenceVars
  <2>1. MomentsAreShown' /\ CausesStayHypotheses'
    BY <1>2 DEF evidenceVars, EvidenceInv, MomentsAreShown, CausesStayHypotheses, Asks
  <2> QED BY <1>2, <2>1, SameRanks DEF evidenceVars, EvidenceInv
<1> QED BY <1>1, <1>2

LEMMA EvidenceInvSound == ASSUME EvidenceInv PROVE EvidenceSound
<1>1. ASSUME NEW a \in Asset, Contradicts(a)
      PROVE  rank[a] = 0 /\ a \notin sent /\ ~Contains(hits, a) /\ a \notin payload.from
  <2>1. a \notin Eligible
    BY <1>1 DEF Eligible
  <2>2. rank[a] = 0
    BY <2>1 DEF EvidenceInv, Selected
  <2>3. ~Contains(hits, a)
    BY <2>1, PositionOf DEF EvidenceInv
  <2> QED BY <2>1, <2>2, <2>3 DEF EvidenceInv
<1> QED BY <1>1 DEF EvidenceInv, EvidenceSound, ScopeIsHard

(* No material outside the builds of the question is ranked, sent, hit or   *)
(* paid for; what is promoted displaces nothing; the moments in question    *)
(* are shown; causes stay hypotheses.                                       *)
THEOREM EvidenceIsSound == EvidenceSpec => []EvidenceSound
<1>1. EvidenceInit => EvidenceInv
  BY InitEvidence
<1>2. EvidenceInv /\ [EvidenceNext]_evidenceVars => EvidenceInv'
  BY NextEvidence
<1>3. EvidenceInv => EvidenceSound
  BY EvidenceInvSound
<1> QED BY <1>1, <1>2, <1>3, PTL DEF EvidenceSpec

(***************************************************************************)
(* The context compiler.                                                   *)
(***************************************************************************)

(* Folds.  FoldLeft is a recursive function on sets of positions; what is  *)
(* used of it are its values on the first positions.                       *)
Round(it, base, rows) ==
  [s \in SUBSET (DOMAIN rows) |-> IF s = {} THEN base ELSE Govern(it[s \ {Max(s)}], rows[Max(s)])]
Iter(base, rows) == CHOOSE it : it = Round(it, base, rows)
Folded(base, rows) == FoldLeft(Govern, base, rows)

Trail(f, base, rows) ==
  /\ f[0] = base /\ f[Len(rows)] = Folded(base, rows)
  /\ \A k \in 0..(Len(rows) - 1) : f[k + 1] = Govern(f[k], rows[k + 1])

LEMMA MaxOfFirst ==
  ASSUME NEW n \in Nat, NEW s \in SUBSET (1..n + 1), n + 1 \in s PROVE Max(s) = n + 1
<1>1. \A y \in s : y <= n + 1 /\ y \in Int
  OBVIOUS
<1>2. \E x \in s : \A y \in s : x >= y
  BY <1>1
<1>3. Max(s) \in s /\ \A y \in s : Max(s) >= y
  BY <1>2 DEF Max
<1>4. Max(s) <= n + 1 /\ Max(s) \in Int
  BY <1>1, <1>3
<1>5. Max(s) >= n + 1
  BY <1>3
<1> HIDE DEF Max
<1> QED BY <1>4, <1>5

LEMMA GovernIter ==
  ASSUME NEW S, NEW rows \in Seq(S), NEW base
  PROVE  Iter(base, rows) = Round(Iter(base, rows), base, rows)
<1> DEFINE Through(it, n) ==
             [s \in SUBSET (1..n) |-> IF s = {} THEN base ELSE Govern(it[s \ {Max(s)}], rows[Max(s)])]
           A == {n \in Nat : \E it : it = Through(it, n)}
<1>1. 0 \in A
  <2> DEFINE it == [s \in SUBSET (1..0) |-> base]
  <2>1. it = Through(it, 0)
    OBVIOUS
  <2> QED BY <2>1
<1>2. \A n \in Nat : n \in A => n + 1 \in A
  <2> TAKE n \in Nat
  <2> HAVE n \in A
  <2>0. \E it : it = Through(it, n)
    BY Zenon
  <2> PICK it : it = Through(it, n)
    BY Zenon, <2>0
  <2> DEFINE new == [s \in SUBSET (1..n + 1) |->
                       IF n + 1 \in s THEN Govern(it[s \ {n + 1}], rows[n + 1]) ELSE it[s]]
  <2>1. ASSUME NEW s \in SUBSET (1..n + 1)
        PROVE  new[s] = IF s = {} THEN base ELSE Govern(new[s \ {Max(s)}], rows[Max(s)])
    <3>1. CASE n + 1 \in s
      <4>1. Max(s) = n + 1
        BY <3>1, MaxOfFirst
      <4>2. s \ {n + 1} \in SUBSET (1..n + 1) /\ n + 1 \notin s \ {n + 1}
        OBVIOUS
      <4>3. new[s \ {n + 1}] = it[s \ {n + 1}]
        BY <4>2
      <4> QED BY <3>1, <4>1, <4>3
    <3>2. CASE n + 1 \notin s
      <4>0. \A y \in s : y \in 1..n
        <5> TAKE y \in s
        <5>1. y \in 1..n + 1 /\ y # n + 1
          BY <3>2
        <5> QED BY <5>1
      <4>1. s \in SUBSET (1..n) /\ \A x : s \ {x} \in SUBSET (1..n + 1) /\ n + 1 \notin s \ {x}
        BY <3>2, <4>0
      <4>2. new[s] = it[s] /\ \A x : new[s \ {x}] = it[s \ {x}]
        BY <3>2, <4>1
      <4>3. it[s] = IF s = {} THEN base ELSE Govern(it[s \ {Max(s)}], rows[Max(s)])
        BY <4>1
      <4> QED BY <4>2, <4>3
    <3> QED BY <3>1, <3>2
  <2>2. new = Through(new, n + 1)
    BY <2>1
  <2>3. n + 1 \in Nat
    OBVIOUS
  <2>4. \E x : x = Through(x, n + 1)
    BY Zenon, <2>2
  <2> QED BY Zenon, <2>3, <2>4
<1>3. Nat \subseteq A
  <2> HIDE DEF A
  <2> QED BY <1>1, <1>2, NatSet
<1>4. \E it : it = Through(it, Len(rows))
  <2>1. Len(rows) \in A
    <3>1. Len(rows) \in Nat
      OBVIOUS
    <3> HIDE DEF A
    <3> QED BY <1>3, <3>1
  <2> QED BY Zenon, <2>1
<1>5. DOMAIN rows = 1..Len(rows)
  OBVIOUS
<1>6. \E it : it = Round(it, base, rows)
  BY <1>4, <1>5 DEF Round
<1> QED BY <1>6 DEF Iter

LEMMA GovernTrail ==
  ASSUME NEW S, NEW rows \in Seq(S), NEW base
  PROVE  \E f : Trail(f, base, rows)
<1> DEFINE it == Iter(base, rows)
           f == [k \in 0..Len(rows) |-> it[1..k]]
<1>1. DOMAIN rows = 1..Len(rows) /\ Len(rows) \in Nat
  OBVIOUS
<1>2. \A s \in SUBSET (1..Len(rows)) :
        it[s] = IF s = {} THEN base ELSE Govern(it[s \ {Max(s)}], rows[Max(s)])
  <2>1. it = Round(it, base, rows)
    BY GovernIter
  <2> HIDE DEF it
  <2> QED BY <2>1, <1>1 DEF Round
<1>3. Folded(base, rows) = it[1..Len(rows)]
  BY <1>1 DEF Folded, FoldLeft, MapThenFoldSet, Iter, Round
<1> HIDE DEF it
<1>4. f[0] = base
  <2>1. f[0] = it[1..0] /\ 1..0 = {} /\ {} \in SUBSET (1..Len(rows))
    BY <1>1
  <2> QED BY <2>1, <1>2
<1>5. \A k \in 0..(Len(rows) - 1) : f[k + 1] = Govern(f[k], rows[k + 1])
  <2> TAKE k \in 0..(Len(rows) - 1)
  <2>1. k + 1 \in 1..(k + 1) /\ 1..(k + 1) \in SUBSET (1..k + 1) /\ k \in Nat
    BY <1>1
  <2>2. Max(1..(k + 1)) = k + 1
    BY <2>1, MaxOfFirst
  <2>3. (1..(k + 1)) \ {k + 1} = 1..k /\ 1..(k + 1) # {} /\ 1..(k + 1) \in SUBSET (1..Len(rows))
    <3>1. k \in Int /\ 0 <= k /\ k + 1 <= Len(rows)
      BY <1>1
    <3>2. \A x : x \in (1..(k + 1)) \ {k + 1} <=> x \in 1..k
      BY <3>1
    <3>3. \A x \in 1..(k + 1) : x \in 1..Len(rows)
      BY <3>1, <1>1
    <3> QED BY <3>2, <3>3, <2>1
  <2>4. it[1..(k + 1)] = Govern(it[1..k], rows[k + 1])
    BY <1>2, <2>2, <2>3
  <2> QED BY <2>4, <1>1
<1>6. f[Len(rows)] = Folded(base, rows)
  BY <1>1, <1>3
<1> HIDE DEF f
<1> QED BY <1>4, <1>5, <1>6 DEF Trail

Empty == [kept |-> {}, used |-> 0]
FillStep(acc, i, rows, budget) ==
  IF acc.kept # {} /\ acc.used + rows[i].cost > budget THEN acc
  ELSE [kept |-> acc.kept \cup {i}, used |-> acc.used + rows[i].cost]
Draw(it, order, rows, budget) ==
  [s \in SUBSET (DOMAIN order) |->
     IF s = {} THEN Empty ELSE FillStep(it[s \ {Max(s)}], order[Max(s)], rows, budget)]
Draws(order, rows, budget) == CHOOSE it : it = Draw(it, order, rows, budget)
Filled(order, rows, budget) ==
  FoldLeft(LAMBDA acc, i : FillStep(acc, i, rows, budget), Empty, order)

Filling(f, order, rows, budget) ==
  /\ f[0] = Empty /\ f[Len(order)] = Filled(order, rows, budget)
  /\ \A k \in 0..(Len(order) - 1) : f[k + 1] = FillStep(f[k], order[k + 1], rows, budget)

LEMMA FillIsFilled ==
  ASSUME NEW order, NEW rows, NEW budget
  PROVE  Fill(order, rows, budget) = Filled(order, rows, budget).kept
BY DEF Fill, Filled, FillStep, Empty

LEMMA FillIter ==
  ASSUME NEW S, NEW order \in Seq(S), NEW rows, NEW budget
  PROVE  Draws(order, rows, budget) = Draw(Draws(order, rows, budget), order, rows, budget)
<1> DEFINE Through(it, n) ==
             [s \in SUBSET (1..n) |-> IF s = {} THEN Empty ELSE FillStep(it[s \ {Max(s)}], order[Max(s)], rows, budget)]
           A == {n \in Nat : \E it : it = Through(it, n)}
<1>1. 0 \in A
  <2> DEFINE it == [s \in SUBSET (1..0) |-> Empty]
  <2>1. it = Through(it, 0)
    OBVIOUS
  <2> QED BY <2>1
<1>2. \A n \in Nat : n \in A => n + 1 \in A
  <2> TAKE n \in Nat
  <2> HAVE n \in A
  <2>0. \E it : it = Through(it, n)
    BY Zenon
  <2> PICK it : it = Through(it, n)
    BY Zenon, <2>0
  <2> DEFINE new == [s \in SUBSET (1..n + 1) |->
                       IF n + 1 \in s THEN FillStep(it[s \ {n + 1}], order[n + 1], rows, budget) ELSE it[s]]
  <2>1. ASSUME NEW s \in SUBSET (1..n + 1)
        PROVE  new[s] = IF s = {} THEN Empty ELSE FillStep(new[s \ {Max(s)}], order[Max(s)], rows, budget)
    <3>1. CASE n + 1 \in s
      <4>1. Max(s) = n + 1
        BY <3>1, MaxOfFirst
      <4>2. s \ {n + 1} \in SUBSET (1..n + 1) /\ n + 1 \notin s \ {n + 1}
        OBVIOUS
      <4>3. new[s \ {n + 1}] = it[s \ {n + 1}]
        BY <4>2
      <4> QED BY <3>1, <4>1, <4>3
    <3>2. CASE n + 1 \notin s
      <4>0. \A y \in s : y \in 1..n
        <5> TAKE y \in s
        <5>1. y \in 1..n + 1 /\ y # n + 1
          BY <3>2
        <5> QED BY <5>1
      <4>1. s \in SUBSET (1..n) /\ \A x : s \ {x} \in SUBSET (1..n + 1) /\ n + 1 \notin s \ {x}
        BY <3>2, <4>0
      <4>2. new[s] = it[s] /\ \A x : new[s \ {x}] = it[s \ {x}]
        BY <3>2, <4>1
      <4>3. it[s] = IF s = {} THEN Empty ELSE FillStep(it[s \ {Max(s)}], order[Max(s)], rows, budget)
        BY <4>1
      <4> QED BY <4>2, <4>3
    <3> QED BY <3>1, <3>2
  <2>2. new = Through(new, n + 1)
    BY <2>1
  <2>3. n + 1 \in Nat
    OBVIOUS
  <2>4. \E x : x = Through(x, n + 1)
    BY Zenon, <2>2
  <2> QED BY Zenon, <2>3, <2>4
<1>3. Nat \subseteq A
  <2> HIDE DEF A
  <2> QED BY <1>1, <1>2, NatSet
<1>4. \E it : it = Through(it, Len(order))
  <2>1. Len(order) \in A
    <3>1. Len(order) \in Nat
      OBVIOUS
    <3> HIDE DEF A
    <3> QED BY <1>3, <3>1
  <2> QED BY Zenon, <2>1
<1>5. DOMAIN order = 1..Len(order)
  OBVIOUS
<1>6. \E it : it = Draw(it, order, rows, budget)
  BY <1>4, <1>5 DEF Draw
<1> QED BY <1>6 DEF Draws

LEMMA FillTrail ==
  ASSUME NEW S, NEW order \in Seq(S), NEW rows, NEW budget
  PROVE  \E f : Filling(f, order, rows, budget)
<1> DEFINE it == Draws(order, rows, budget)
           f == [k \in 0..Len(order) |-> it[1..k]]
<1>1. DOMAIN order = 1..Len(order) /\ Len(order) \in Nat
  OBVIOUS
<1>2. \A s \in SUBSET (1..Len(order)) :
        it[s] = IF s = {} THEN Empty ELSE FillStep(it[s \ {Max(s)}], order[Max(s)], rows, budget)
  <2>1. it = Draw(it, order, rows, budget)
    BY FillIter
  <2> HIDE DEF it
  <2> QED BY <2>1, <1>1 DEF Draw
<1>3. Filled(order, rows, budget) = it[1..Len(order)]
  BY <1>1 DEF Filled, FoldLeft, MapThenFoldSet, Draws, Draw, FillStep, Empty
<1> HIDE DEF it
<1>4. f[0] = Empty
  <2>1. f[0] = it[1..0] /\ 1..0 = {} /\ {} \in SUBSET (1..Len(order))
    BY <1>1
  <2> QED BY <2>1, <1>2
<1>5. \A k \in 0..(Len(order) - 1) : f[k + 1] = FillStep(f[k], order[k + 1], rows, budget)
  <2> TAKE k \in 0..(Len(order) - 1)
  <2>1. k + 1 \in 1..(k + 1) /\ 1..(k + 1) \in SUBSET (1..k + 1) /\ k \in Nat
    BY <1>1
  <2>2. Max(1..(k + 1)) = k + 1
    BY <2>1, MaxOfFirst
  <2>3. (1..(k + 1)) \ {k + 1} = 1..k /\ 1..(k + 1) # {} /\ 1..(k + 1) \in SUBSET (1..Len(order))
    <3>1. k \in Int /\ 0 <= k /\ k + 1 <= Len(order)
      BY <1>1
    <3>2. \A x : x \in (1..(k + 1)) \ {k + 1} <=> x \in 1..k
      BY <3>1
    <3>3. \A x \in 1..(k + 1) : x \in 1..Len(order)
      BY <3>1, <1>1
    <3> QED BY <3>2, <3>3, <2>1
  <2>4. it[1..(k + 1)] = FillStep(it[1..k], order[k + 1], rows, budget)
    BY <1>2, <2>2, <2>3
  <2> QED BY <2>4, <1>1
<1>6. f[Len(order)] = Filled(order, rows, budget)
  BY <1>1, <1>3
<1> HIDE DEF f
<1> QED BY <1>4, <1>5, <1>6 DEF Filling
(* The messages of the log, and the statements of a history.               *)
LogRow == {[id |-> n, role |-> u.role, topic |-> u.topic, cost |-> u.cost, says |-> u.says] :
             n \in Nat \ {0}, u \in Utterances}
Statement == {u.says : u \in Utterances}

LEMMA LogRowFacts ==
  ASSUME NEW m \in LogRow
  PROVE  /\ m.id \in Nat \ {0} /\ m.role \in {"user", "assistant"} /\ m.cost \in 1..MessageCost
         /\ m.says \in Statement /\ (m.says = Nothing \/ m.says.kind \in DOMAIN BucketOf)
         /\ m = [id |-> m.id, role |-> m.role, topic |-> m.topic, cost |-> m.cost, says |-> m.says]
<1>1. PICK n \in Nat \ {0}, u \in Utterances :
        m = [id |-> n, role |-> u.role, topic |-> u.topic, cost |-> u.cost, says |-> u.says]
  BY DEF LogRow
<1>2. /\ u.role \in {"user", "assistant"} /\ u.cost \in 1..MessageCost
      /\ u.says \in Statement /\ (u.says = Nothing \/ u.says.kind \in DOMAIN BucketOf)
  BY ContextAssumption DEF Statement
<1> QED BY <1>1, <1>2

LEMMA Bucketed ==
  ASSUME NEW m \in LogRow, m.says # Nothing
  PROVE  BucketOf[m.says.kind] \in Buckets
<1>1. m.says.kind \in DOMAIN BucketOf
  BY LogRowFacts
<1>2. m.says.kind \in {"constraint", "verified", "premise", "question"}
  BY <1>1 DEF BucketOf
<1> QED BY <1>2 DEF BucketOf, Buckets

LEMMA SaidIsFinite ==
  ASSUME NEW P \in Seq(LogRow), NEW b
  PROVE  IsFiniteSet(Said(P, b)) /\ Cardinality(Said(P, b)) \in Nat
<1> DEFINE all == {P[i].says : i \in 1..Len(P)}
           f == [i \in 1..Len(P) |-> P[i].says]
<1>1. f \in Surjection(1..Len(P), all)
  BY DEF Surjection
<1>2. IsFiniteSet(1..Len(P))
  BY FS_Interval
<1>3. IsFiniteSet(all)
  <2> HIDE DEF f, all
  <2> QED BY <1>1, <1>2, FS_Surjection
<1>4. Said(P, b) \subseteq all
  BY DEF Said, ToSet
<1> HIDE DEF all
<1> QED BY <1>3, <1>4, FS_Subset, FS_CardinalityType

Governing(m, b) == m.role = "user" /\ m.says # Nothing /\ BucketOf[m.says.kind] = b

LEMMA SaidGrows ==
  ASSUME NEW P \in Seq(LogRow), NEW n \in 0..Len(P), NEW b
  PROVE  /\ SubSeq(P, 1, n) \in Seq(LogRow)
         /\ Said(SubSeq(P, 1, n), b) \subseteq Said(P, b)
         /\ n < Len(P) /\ Governing(P[n + 1], b) =>
              Said(SubSeq(P, 1, n + 1), b) = Said(SubSeq(P, 1, n), b) \cup {P[n + 1].says}
         /\ n < Len(P) /\ ~Governing(P[n + 1], b) =>
              Said(SubSeq(P, 1, n + 1), b) = Said(SubSeq(P, 1, n), b)
<1> DEFINE Governs(m) == Governing(m, b)
<1>1. ASSUME NEW k \in 0..Len(P)
      PROVE  SubSeq(P, 1, k) \in Seq(LogRow) /\
             Said(SubSeq(P, 1, k), b) = {P[i].says : i \in {x \in 1..k : Governs(P[x])}}
  <2>1. SubSeq(P, 1, k) \in Seq(LogRow) /\ ToSet(SubSeq(P, 1, k)) = {P[i] : i \in 1..k}
    <3>1. /\ SubSeq(P, 1, k) \in Seq(LogRow) /\ Len(SubSeq(P, 1, k)) = k
          /\ \A i \in 1..k : SubSeq(P, 1, k)[i] = P[i]
      OBVIOUS
    <3> DEFINE p == SubSeq(P, 1, k)
    <3>2. DOMAIN p = 1..k
      OBVIOUS
    <3> HIDE DEF p
    <3>3. ToSet(p) = {P[i] : i \in 1..k}
      BY <3>1, <3>2 DEF ToSet, p
    <3> QED BY <3>1, <3>3 DEF p
  <2> QED BY <2>1 DEF Said, Governing
<1>2. Said(P, b) = {P[i].says : i \in {x \in 1..Len(P) : Governs(P[x])}}
  BY DEF Said, ToSet, Governing
<1>3. ASSUME n < Len(P)
      PROVE  {P[i].says : i \in {x \in 1..(n + 1) : Governs(P[x])}} =
             {P[i].says : i \in {x \in 1..n : Governs(P[x])}} \cup
               (IF Governs(P[n + 1]) THEN {P[n + 1].says} ELSE {})
  <2> HIDE DEF Governs
  <2>1. \A x : x \in 1..(n + 1) <=> x \in 1..n \/ x = n + 1
    BY <1>3
  <2> QED BY <2>1
<1>4. n < Len(P) => n + 1 \in 0..Len(P)
  OBVIOUS
<1>5. {P[i].says : i \in {x \in 1..n : Governs(P[x])}} \subseteq
      {P[i].says : i \in {x \in 1..Len(P) : Governs(P[x])}}
  <2> HIDE DEF Governs
  <2> QED OBVIOUS
<1> QED BY <1>1, <1>2, <1>3, <1>4, <1>5

(* Within the limits of the kinds nothing is dropped: what has been seen    *)
(* is what the rows of the task state hold, so a state can be continued.    *)
Base(state) ==
  [state |-> state, seen |-> [b \in Buckets |-> {r.says : r \in ToSet(state.rows[b])}]]

Item == [says : Statement, source : Nat \ {0}]
Complete(acc, history) ==
  /\ acc \in [state : [goal : Nat, rows : [Buckets -> Seq(Item)]],
              seen : [Buckets -> SUBSET Statement]]
  /\ \A b \in Buckets :
       /\ acc.seen[b] = Said(history, b)
       /\ acc.seen[b] = {r.says : r \in ToSet(acc.state.rows[b])}
       /\ Len(acc.state.rows[b]) = Cardinality(acc.seen[b])

LEMMA CompleteStarts == Complete(Base(EmptyState), <<>>)
<1>1. \A b \in Buckets : /\ EmptyState.rows[b] = <<>> /\ ToSet(EmptyState.rows[b]) = {}
                          /\ Base(EmptyState).seen[b] = {}
  BY DEF EmptyState, ToSet, Base
<1>2. \A b \in Buckets : Said(<<>>, b) = {}
  BY DEF Said, ToSet
<1>3. Cardinality({}) = 0 /\ <<>> \in Seq(Item) /\ Len(<<>>) = 0
  BY FS_EmptySet
<1>4. EmptyState \in [goal : Nat, rows : [Buckets -> Seq(Item)]]
  BY <1>3 DEF EmptyState
<1>5. Base(EmptyState).seen \in [Buckets -> SUBSET Statement]
  BY <1>1 DEF Base
<1>6. Base(EmptyState) = [state |-> EmptyState, seen |-> Base(EmptyState).seen]
  BY DEF Base
<1>7. Base(EmptyState) \in [state : [goal : Nat, rows : [Buckets -> Seq(Item)]],
                            seen : [Buckets -> SUBSET Statement]]
  BY <1>4, <1>5, <1>6
<1>8. \A b \in Buckets :
        /\ Base(EmptyState).seen[b] = Said(<<>>, b)
        /\ Base(EmptyState).seen[b] = {r.says : r \in ToSet(Base(EmptyState).state.rows[b])}
        /\ Len(Base(EmptyState).state.rows[b]) = Cardinality(Base(EmptyState).seen[b])
  <2> TAKE b \in Buckets
  <2>1. Base(EmptyState).state.rows[b] = <<>> /\ Base(EmptyState).seen[b] = {}
    BY <1>1, <1>6
  <2>2. ToSet(<<>>) = {}
    BY DEF ToSet
  <2> QED BY <2>1, <2>2, <1>2, <1>3
<1> QED BY <1>7, <1>8 DEF Complete

LEMMA CompleteIsBase ==
  ASSUME NEW acc, NEW history, Complete(acc, history)
  PROVE  acc = Base(acc.state)
<1>1. acc \in [state : [goal : Nat, rows : [Buckets -> Seq(Item)]],
               seen : [Buckets -> SUBSET Statement]]
  BY DEF Complete
<1>2. acc.seen = [b \in Buckets |-> {r.says : r \in ToSet(acc.state.rows[b])}]
  BY <1>1 DEF Complete
<1> QED BY <1>1, <1>2 DEF Base

(* One message: a statement that is new is kept beside the others.         *)
LEMMA CompleteStep ==
  ASSUME NEW acc, NEW P \in Seq(LogRow), ~Overflows(P), NEW n \in 0..(Len(P) - 1),
         Complete(acc, SubSeq(P, 1, n))
  PROVE  Complete(Govern(acc, P[n + 1]), SubSeq(P, 1, n + 1))
<1> DEFINE m == P[n + 1]
           past == SubSeq(P, 1, n)
           now == SubSeq(P, 1, n + 1)
           aimed == IF acc.state.goal = 0 THEN [acc EXCEPT !.state.goal = m.id] ELSE acc
           Acc == [state : [goal : Nat, rows : [Buckets -> Seq(Item)]],
                   seen : [Buckets -> SUBSET Statement]]
<1>1. m \in LogRow /\ past \in Seq(LogRow) /\ now \in Seq(LogRow) /\ n < Len(P)
      /\ n \in 0..Len(P) /\ n + 1 \in 0..Len(P)
  BY SaidGrows
<1>2. \A b : /\ Governing(m, b) => Said(now, b) = Said(past, b) \cup {m.says}
             /\ ~Governing(m, b) => Said(now, b) = Said(past, b)
  BY <1>1, SaidGrows
<1>3. \A b \in Buckets : /\ IsFiniteSet(Said(past, b)) /\ Cardinality(Said(past, b)) \in Nat
                          /\ Cardinality(Said(now, b)) <= StateItems
  <2> TAKE b \in Buckets
  <2>1. IsFiniteSet(Said(past, b)) /\ Cardinality(Said(past, b)) \in Nat
        /\ IsFiniteSet(Said(P, b)) /\ Cardinality(Said(P, b)) \in Nat
        /\ Cardinality(Said(now, b)) \in Nat
    BY <1>1, SaidIsFinite
  <2>2. Said(now, b) \subseteq Said(P, b)
    BY <1>1, SaidGrows
  <2>3. Cardinality(Said(now, b)) <= Cardinality(Said(P, b))
    BY <2>1, <2>2, FS_Subset
  <2>4. ~(Cardinality(Said(P, b)) > StateItems) /\ StateItems \in Nat
    BY ContextAssumption DEF Overflows
  <2> QED BY <2>1, <2>3, <2>4
<1>4. /\ m.id \in Nat \ {0} /\ m.says \in Statement
      /\ m.says # Nothing => BucketOf[m.says.kind] \in Buckets
  BY <1>1, LogRowFacts, Bucketed
<1>5. acc \in Acc /\ \A b \in Buckets :
        /\ acc.seen[b] = Said(past, b)
        /\ acc.seen[b] = {r.says : r \in ToSet(acc.state.rows[b])}
        /\ Len(acc.state.rows[b]) = Cardinality(acc.seen[b])
  BY DEF Complete
<1> SUFFICES Complete(Govern(acc, m), now)
  OBVIOUS
<1> HIDE DEF m, past, now
<1>6. /\ aimed \in Acc /\ aimed.seen = acc.seen /\ aimed.state.rows = acc.state.rows
  BY <1>4, <1>5
<1>7. Govern(acc, m) = IF m.role # "user" THEN acc ELSE IF m.says = Nothing THEN aimed
                       ELSE AppendUnique(aimed, BucketOf[m.says.kind], m)
  BY DEF Govern
<1> HIDE DEF aimed
<1>8. CASE m.role # "user" \/ m.says = Nothing
  <2>1. \A b : Said(now, b) = Said(past, b)
    BY <1>2, <1>8 DEF Governing
  <2>2. Govern(acc, m) \in {acc, aimed}
    BY <1>7, <1>8
  <2>3. Govern(acc, m) \in Acc /\ Govern(acc, m).seen = acc.seen
        /\ Govern(acc, m).state.rows = acc.state.rows
    BY <2>2, <1>5, <1>6
  <2> QED BY <2>1, <2>3, <1>5 DEF Complete
<1>9. CASE m.role = "user" /\ m.says # Nothing
  <2> DEFINE c == BucketOf[m.says.kind]
             rows == acc.state.rows[c]
             noted == [says |-> m.says, source |-> m.id]
             all == Append(rows, noted)
             new == AppendUnique(aimed, c, m)
  <2>1. Govern(acc, m) = new /\ c \in Buckets
    BY <1>7, <1>9, <1>4
  <2>2. Said(now, c) = acc.seen[c] \cup {m.says}
        /\ \A b \in Buckets : b # c => Said(now, b) = acc.seen[b]
    <3>1. \A b : /\ c = b => Said(now, b) = Said(past, b) \cup {m.says}
                 /\ c # b => Said(now, b) = Said(past, b)
      BY <1>2, <1>9 DEF Governing
    <3> HIDE DEF c
    <3> QED BY <3>1, <1>5, <2>1
  <2> HIDE DEF c
  <2>3. CASE m.says \in acc.seen[c]
    <3>1. new = aimed
      BY <1>6, <2>3 DEF AppendUnique
    <3>2. \A b \in Buckets : Said(now, b) = acc.seen[b]
      BY <2>2, <2>3
    <3> QED BY <2>1, <3>1, <3>2, <1>5, <1>6 DEF Complete
  <2>4. CASE m.says \notin acc.seen[c]
    <3>1. rows \in Seq(Item) /\ noted \in Item
      BY <1>4, <1>5, <2>1 DEF Item
    <3>2. all \in Seq(Item) /\ Len(all) = Len(rows) + 1
      BY <3>1
    <3>3. ToSet(all) = ToSet(rows) \cup {noted}
      <4> HIDE DEF rows, noted
      <4>1. /\ DOMAIN all = 1..(Len(rows) + 1) /\ DOMAIN rows = 1..Len(rows)
            /\ all[Len(rows) + 1] = noted
            /\ \A i \in 1..Len(rows) : all[i] = rows[i]
            /\ Len(rows) \in Nat
        BY <3>1
      <4> HIDE DEF all
      <4>2. \A i : i \in 1..(Len(rows) + 1) <=> i \in 1..Len(rows) \/ i = Len(rows) + 1
        BY <4>1
      <4> QED BY <4>1, <4>2 DEF ToSet
    <3>4. /\ IsFiniteSet(acc.seen[c]) /\ Len(rows) = Cardinality(acc.seen[c])
          /\ Cardinality(Said(now, c)) <= StateItems
      BY <1>3, <1>5, <2>1
    <3>5. Cardinality(Said(now, c)) = Cardinality(acc.seen[c]) + 1
      BY <3>4, <2>2, <2>4, FS_AddElement
    <3>6. Len(all) <= StateItems /\ Len(all) = Cardinality(Said(now, c))
      BY <3>2, <3>4, <3>5
    <3>7. ~(Len(all) > StateItems)
      BY <3>6, <3>2, ContextAssumption
    <3>8. new = [state |-> [aimed.state EXCEPT !.rows[c] = all],
                 seen |-> [aimed.seen EXCEPT ![c] = acc.seen[c] \cup {m.says}]]
      BY <3>7, <2>4, <1>6, <2>1 DEF AppendUnique
    <3>9. {r.says : r \in ToSet(all)} = acc.seen[c] \cup {m.says}
      <4>1. noted.says = m.says
        OBVIOUS
      <4>2. acc.seen[c] = {r.says : r \in ToSet(rows)}
        BY <1>5, <2>1
      <4> HIDE DEF all, rows, noted
      <4> QED BY <3>3, <4>1, <4>2
    <3> HIDE DEF all, rows, noted, new
    <3>10. /\ new.state \in [goal : Nat, rows : [Buckets -> Seq(Item)]]
           /\ new.state.rows[c] = all
           /\ \A b \in Buckets : b # c => new.state.rows[b] = acc.state.rows[b]
      <4> DEFINE held == aimed.state.rows
      <4>1. /\ held \in [Buckets -> Seq(Item)] /\ held = acc.state.rows
            /\ aimed.state = [goal |-> aimed.state.goal, rows |-> held] /\ aimed.state.goal \in Nat
        BY <1>6
      <4> HIDE DEF held
      <4>2. new.state = [goal |-> aimed.state.goal, rows |-> [held EXCEPT ![c] = all]]
        <5> DEFINE s == aimed.state
        <5>1. new.state = [s EXCEPT !.rows[c] = all]
          BY <3>8
        <5>2. s = [goal |-> s.goal, rows |-> held]
          BY <4>1
        <5> HIDE DEF s
        <5>3. [s EXCEPT !.rows[c] = all] = [goal |-> s.goal, rows |-> [held EXCEPT ![c] = all]]
          BY <5>2
        <5> QED BY <5>1, <5>3 DEF s
      <4>3. [held EXCEPT ![c] = all] \in [Buckets -> Seq(Item)]
        BY <4>1, <3>2, <2>1
      <4> QED BY <4>1, <4>2, <4>3, <2>1
    <3>11. /\ new.seen \in [Buckets -> SUBSET Statement]
           /\ new.seen[c] = acc.seen[c] \cup {m.says}
           /\ \A b \in Buckets : b # c => new.seen[b] = acc.seen[b]
      BY <3>8, <1>4, <1>6, <2>1
    <3>12. new \in Acc
      BY <3>8, <3>10, <3>11
    <3>13. ASSUME NEW b \in Buckets
           PROVE  /\ new.seen[b] = Said(now, b)
                  /\ new.seen[b] = {r.says : r \in ToSet(new.state.rows[b])}
                  /\ Len(new.state.rows[b]) = Cardinality(new.seen[b])
      <4>1. CASE b = c
        BY <4>1, <2>2, <3>6, <3>9, <3>10, <3>11
      <4>2. CASE b # c
        BY <4>2, <2>2, <3>10, <3>11, <1>5
      <4> QED BY <4>1, <4>2
    <3> QED BY <2>1, <3>12, <3>13 DEF Complete
  <2> QED BY <2>3, <2>4
<1> QED BY <1>8, <1>9
LEMMA ContinueIsFolded ==
  ASSUME NEW state, NEW rows PROVE Continue(state, rows) = Folded(Base(state), rows).state
BY DEF Continue, Folded, Base

(* Within the limits, a fold of the whole history is the state it returns,  *)
(* with what its rows say as seen.                                         *)
LEMMA FoldIsComplete ==
  ASSUME NEW P \in Seq(LogRow), ~Overflows(P)
  PROVE  Folded(Base(EmptyState), P) = Base(Continue(EmptyState, P))
<1>1. PICK f : Trail(f, Base(EmptyState), P)
  BY GovernTrail
<1> DEFINE A == {n \in Nat : n <= Len(P) => Complete(f[n], SubSeq(P, 1, n))}
<1>2. 0 \in A
  <2>1. SubSeq(P, 1, 0) = <<>> /\ f[0] = Base(EmptyState)
    BY <1>1 DEF Trail
  <2> QED BY <2>1, CompleteStarts
<1>3. \A n \in Nat : n \in A => n + 1 \in A
  <2> SUFFICES ASSUME NEW n \in Nat, n \in A, n + 1 <= Len(P)
               PROVE  Complete(f[n + 1], SubSeq(P, 1, n + 1))
    OBVIOUS
  <2>1. n \in 0..(Len(P) - 1) /\ n <= Len(P)
    OBVIOUS
  <2>2. Complete(f[n], SubSeq(P, 1, n))
    BY <2>1
  <2>3. Complete(Govern(f[n], P[n + 1]), SubSeq(P, 1, n + 1))
    BY <2>1, <2>2, CompleteStep
  <2>4. f[n + 1] = Govern(f[n], P[n + 1])
    BY <1>1, <2>1 DEF Trail
  <2> QED BY <2>3, <2>4
<1>4. Len(P) \in A
  <2>1. Len(P) \in Nat
    OBVIOUS
  <2> HIDE DEF A
  <2> QED BY <1>2, <1>3, <2>1, NatSet
<1>5. Complete(f[Len(P)], SubSeq(P, 1, Len(P))) /\ SubSeq(P, 1, Len(P)) = P
  BY <1>4
<1>6. f[Len(P)] = Folded(Base(EmptyState), P)
  BY <1>1 DEF Trail
<1>7. Complete(Folded(Base(EmptyState), P), P)
  BY <1>5, <1>6
<1> QED BY <1>7, CompleteIsBase, ContinueIsFolded

(* A fold of a history is a fold of its first part and then of the rest.   *)
LEMMA FoldComposes ==
  ASSUME NEW S, NEW P \in Seq(S), NEW k \in 0..Len(P), NEW base
  PROVE  Folded(Folded(base, SubSeq(P, 1, k)), SubSeq(P, k + 1, Len(P))) = Folded(base, P)
<1> DEFINE lead == SubSeq(P, 1, k)
           rest == SubSeq(P, k + 1, Len(P))
<1>1. /\ lead \in Seq(S) /\ Len(lead) = k /\ \A i \in 1..k : lead[i] = P[i]
      /\ rest \in Seq(S) /\ Len(rest) = Len(P) - k /\ \A i \in 1..(Len(P) - k) : rest[i] = P[k + i]
      /\ Len(P) \in Nat /\ k \in Nat /\ k <= Len(P)
  OBVIOUS
<1> HIDE DEF lead, rest
<1>2. PICK f : Trail(f, base, P)
  BY GovernTrail
<1>3. PICK g : Trail(g, base, lead)
  BY <1>1, GovernTrail
<1>4. PICK h : Trail(h, Folded(base, lead), rest)
  BY <1>1, GovernTrail
<1> DEFINE A == {n \in Nat : n <= k => g[n] = f[n]}
           B == {n \in Nat : n <= Len(P) - k => h[n] = f[k + n]}
<1>5. k \in A
  <2>1. 0 \in A
    BY <1>2, <1>3 DEF Trail
  <2>2. ASSUME NEW n \in Nat, n \in A PROVE n + 1 \in A
    <3> SUFFICES ASSUME n + 1 <= k PROVE g[n + 1] = f[n + 1]
      OBVIOUS
    <3>1. n \in 0..(Len(P) - 1) /\ n \in 0..(Len(lead) - 1) /\ n + 1 \in 1..k /\ n <= k
      BY <1>1
    <3>2. g[n + 1] = Govern(g[n], lead[n + 1]) /\ f[n + 1] = Govern(f[n], P[n + 1])
      BY <1>2, <1>3, <3>1 DEF Trail
    <3>3. g[n] = f[n] /\ lead[n + 1] = P[n + 1]
      BY <1>1, <2>2, <3>1
    <3> QED BY <3>2, <3>3
  <2> HIDE DEF A
  <2> QED BY <1>1, <2>1, <2>2, NatSet
<1>6. Folded(base, lead) = f[k]
  BY <1>1, <1>3, <1>5 DEF Trail
<1>7. Len(P) - k \in B
  <2>1. 0 \in B
    BY <1>1, <1>4, <1>6 DEF Trail
  <2>2. ASSUME NEW n \in Nat, n \in B PROVE n + 1 \in B
    <3> SUFFICES ASSUME n + 1 <= Len(P) - k PROVE h[n + 1] = f[k + (n + 1)]
      OBVIOUS
    <3>1. n \in 0..(Len(rest) - 1) /\ k + n \in 0..(Len(P) - 1) /\ n + 1 \in 1..(Len(P) - k)
          /\ n <= Len(P) - k /\ (k + n) + 1 = k + (n + 1)
      BY <1>1
    <3>2. h[n + 1] = Govern(h[n], rest[n + 1]) /\ f[(k + n) + 1] = Govern(f[k + n], P[(k + n) + 1])
      BY <1>2, <1>4, <3>1 DEF Trail
    <3>3. h[n] = f[k + n] /\ rest[n + 1] = P[k + (n + 1)]
      BY <1>1, <2>2, <3>1
    <3> QED BY <3>1, <3>2, <3>3
  <2>3. Len(P) - k \in Nat
    BY <1>1
  <2> HIDE DEF B
  <2> QED BY <2>1, <2>2, <2>3, NatSet
<1>8. h[Len(P) - k] = f[Len(P)]
  <2>1. k + (Len(P) - k) = Len(P)
    BY <1>1
  <2> QED BY <1>1, <1>7, <2>1
<1>9. Folded(Folded(base, lead), rest) = f[Len(P)]
  BY <1>1, <1>4, <1>8 DEF Trail
<1> QED BY <1>2, <1>9 DEF Trail, lead, rest

(* So a cached state of a first part answers as a scan of all of it.       *)
LEMMA ContinueFromCache ==
  ASSUME NEW P \in Seq(LogRow), ~Overflows(P), NEW k \in 0..Len(P)
  PROVE  /\ ~Overflows(SubSeq(P, 1, k))
         /\ Continue(Continue(EmptyState, SubSeq(P, 1, k)), SubSeq(P, k + 1, Len(P)))
              = Continue(EmptyState, P)
<1> DEFINE lead == SubSeq(P, 1, k)
           rest == SubSeq(P, k + 1, Len(P))
<1>1. lead \in Seq(LogRow) /\ \A b : Said(lead, b) \subseteq Said(P, b)
  BY SaidGrows
<1>2. ~Overflows(lead)
  <2> SUFFICES ASSUME NEW b \in Buckets PROVE ~(Cardinality(Said(lead, b)) > StateItems)
    BY DEF Overflows
  <2>1. IsFiniteSet(Said(P, b)) /\ Cardinality(Said(P, b)) \in Nat
        /\ Cardinality(Said(lead, b)) \in Nat
    BY <1>1, SaidIsFinite
  <2>2. Cardinality(Said(lead, b)) <= Cardinality(Said(P, b))
    BY <1>1, <2>1, FS_Subset
  <2>3. ~(Cardinality(Said(P, b)) > StateItems) /\ StateItems \in Nat
    BY ContextAssumption DEF Overflows
  <2> QED BY <2>1, <2>2, <2>3
<1> HIDE DEF lead
<1>3. Folded(Base(EmptyState), lead) = Base(Continue(EmptyState, lead))
  BY <1>1, <1>2, FoldIsComplete
<1>4. Continue(Continue(EmptyState, lead), rest) = Folded(Base(Continue(EmptyState, lead)), rest).state
  BY ContinueIsFolded
<1>5. Folded(Folded(Base(EmptyState), lead), rest) = Folded(Base(EmptyState), P)
  BY FoldComposes DEF lead
<1>6. Continue(EmptyState, P) = Folded(Base(EmptyState), P).state
  BY ContinueIsFolded
<1> QED BY <1>2, <1>3, <1>4, <1>5, <1>6 DEF lead
(***************************************************************************)
(* The log and what was frozen of it.                                      *)
(***************************************************************************)

LogInv ==
  /\ messages \in Seq(LogRow) /\ Len(messages) <= MaxMessages
  /\ \A i \in DOMAIN messages : messages[i].id <= Len(messages)
  /\ \A i, k \in DOMAIN messages : messages[i].id = messages[k].id => i = k

LEMMA JoinShape ==
  ASSUME NEW S, NEW s \in Seq(S), NEW r \in Seq(S)
  PROVE  /\ s \o r \in Seq(S) /\ Len(s \o r) = Len(s) + Len(r)
         /\ \A n \in 1..Len(s) : (s \o r)[n] = s[n]
         /\ \A n \in 1..Len(r) : (s \o r)[Len(s) + n] = r[n]
OBVIOUS

(* A message may land before the newest one, and nowhere else: of a log    *)
(* that was read, only the last row can have moved.                        *)
Cut(log, k, i) == Append(SubSeq(log, 1, k - 1), log[i])
Snapshots == {<<>>} \cup {Cut(messages, k, i) : k, i \in DOMAIN messages}

LEMMA LogShape ==
  ASSUME LogInv
  PROVE  /\ messages \in Seq(LogRow) /\ Len(messages) \in Nat
         /\ DOMAIN messages = 1..Len(messages)
         /\ \A i \in 1..Len(messages) : messages[i] \in LogRow
BY DEF LogInv

LEMMA CutShape ==
  ASSUME LogInv, NEW k \in DOMAIN messages, NEW i \in DOMAIN messages
  PROVE  /\ Cut(messages, k, i) \in Seq(LogRow) /\ Len(Cut(messages, k, i)) = k
         /\ \A n \in 1..(k - 1) : Cut(messages, k, i)[n] = messages[n]
         /\ Cut(messages, k, i)[k] = messages[i]
<1> DEFINE lead == SubSeq(messages, 1, k - 1)
<1>1. k \in 1..Len(messages) /\ messages[i] \in LogRow /\ Len(messages) \in Nat
  BY LogShape
<1>2. lead \in Seq(LogRow) /\ Len(lead) = k - 1 /\ \A n \in 1..(k - 1) : lead[n] = messages[n]
  BY <1>1, LogShape
<1> HIDE DEF lead
<1> QED BY <1>1, <1>2 DEF Cut, lead

LEMMA SnapshotShape ==
  ASSUME LogInv, NEW P \in Snapshots
  PROVE  /\ P \in Seq(LogRow) /\ Len(P) \in Nat /\ Len(P) <= Len(messages)
         /\ \A n \in 1..(Len(P) - 1) : P[n] = messages[n]
         /\ P # <<>> => /\ Len(P) >= 1
                        /\ \E i \in DOMAIN messages : P[Len(P)] = messages[i]
<1>1. CASE P = <<>>
  BY <1>1, LogShape
<1>2. CASE P # <<>>
  <2>1. PICK k \in DOMAIN messages, i \in DOMAIN messages : P = Cut(messages, k, i)
    BY <1>2 DEF Snapshots
  <2>2. k \in 1..Len(messages) /\ Len(messages) \in Nat
    BY LogShape
  <2>3. /\ Cut(messages, k, i) \in Seq(LogRow) /\ Len(Cut(messages, k, i)) = k
        /\ \A n \in 1..(k - 1) : Cut(messages, k, i)[n] = messages[n]
        /\ Cut(messages, k, i)[k] = messages[i]
    BY CutShape
  <2> QED BY <2>1, <2>2, <2>3
<1> QED BY <1>1, <1>2

(* Equal last ids at a position, equal rows up to it.                      *)
LEMMA SnapshotsAgree ==
  ASSUME LogInv, NEW P \in Snapshots, NEW Q \in Snapshots,
         NEW k \in 1..Len(P), k <= Len(Q), P[k].id = Q[k].id
  PROVE  SubSeq(P, 1, k) = SubSeq(Q, 1, k)
<1>1. /\ P \in Seq(LogRow) /\ Len(P) \in Nat /\ Len(P) <= Len(messages)
      /\ \A n \in 1..(Len(P) - 1) : P[n] = messages[n]
  BY SnapshotShape
<1>2. /\ Q \in Seq(LogRow) /\ Len(Q) \in Nat /\ Len(Q) <= Len(messages)
      /\ \A n \in 1..(Len(Q) - 1) : Q[n] = messages[n]
  BY SnapshotShape
<1>3. k \in 1..Len(P) /\ k \in 1..Len(Q) /\ P # <<>> /\ Q # <<>>
  BY <1>1, <1>2
<1>4. \E i \in DOMAIN messages : P[k] = messages[i]
  <2>1. CASE k = Len(P)
    BY <2>1, <1>3, SnapshotShape
  <2>2. CASE k # Len(P)
    <3>1. k \in 1..(Len(P) - 1) /\ k \in DOMAIN messages
      BY <2>2, <1>1, <1>3, LogShape
    <3> QED BY <3>1, <1>1
  <2> QED BY <2>1, <2>2
<1>5. \E i \in DOMAIN messages : Q[k] = messages[i]
  <2>1. CASE k = Len(Q)
    BY <2>1, <1>3, SnapshotShape
  <2>2. CASE k # Len(Q)
    <3>1. k \in 1..(Len(Q) - 1) /\ k \in DOMAIN messages
      BY <2>2, <1>2, <1>3, <1>1, LogShape
    <3> QED BY <3>1, <1>2
  <2> QED BY <2>1, <2>2
<1>6. P[k] = Q[k]
  BY <1>4, <1>5 DEF LogInv
<1>7. \A n \in 1..k : P[n] = Q[n]
  <2> TAKE n \in 1..k
  <2>1. CASE n = k
    BY <2>1, <1>6
  <2>2. CASE n # k
    <3>1. n \in 1..(Len(P) - 1) /\ n \in 1..(Len(Q) - 1)
      BY <2>2, <1>1, <1>2, <1>3
    <3> QED BY <3>1, <1>1, <1>2
  <2> QED BY <2>1, <2>2
<1> QED BY <1>1, <1>2, <1>3, <1>7

LEMMA FrozenIsSnapshot == ASSUME LogInv PROVE messages \in Snapshots
<1>1. CASE messages = <<>>
  BY <1>1 DEF Snapshots
<1>2. CASE messages # <<>>
  <2> DEFINE L == Len(messages)
  <2>1. L \in DOMAIN messages /\ L \in Nat /\ L >= 1 /\ DOMAIN messages = 1..L
    BY <1>2, LogShape
  <2>2. /\ Cut(messages, L, L) \in Seq(LogRow) /\ Len(Cut(messages, L, L)) = L
        /\ \A n \in 1..(L - 1) : Cut(messages, L, L)[n] = messages[n]
        /\ Cut(messages, L, L)[L] = messages[L]
    BY <2>1, CutShape
  <2>3. \A n \in 1..L : Cut(messages, L, L)[n] = messages[n]
    <3> HIDE DEF L
    <3> TAKE n \in 1..L
    <3>1. n = L \/ n \in 1..(L - 1)
      BY <2>1
    <3> QED BY <3>1, <2>2
  <2>4. Cut(messages, L, L) = messages
    BY <2>2, <2>3, LogShape
  <2> QED BY <2>1, <2>4 DEF Snapshots
<1> QED BY <1>1, <1>2

LEMMA PrefixIsItself ==
  ASSUME NEW S, NEW P \in Seq(S), NEW Q \in Seq(S), IsPrefix(P, Q)
  PROVE  SubSeq(Q, 1, Len(P)) = P
BY DEF IsPrefix

(* A new message: where it lands, and what stays.                          *)
LEMMA SayInserts ==
  ASSUME LogInv, Say
  PROVE  /\ Len(messages') = Len(messages) + 1 /\ messages' \in Seq(LogRow)
         /\ Len(messages) < MaxMessages
         /\ \E at \in 1..(Len(messages) + 1) :
              /\ at >= Len(messages)
              /\ messages'[at].id = Len(messages) + 1
              /\ \A n \in 1..(at - 1) : messages'[n] = messages[n]
              /\ \A n \in at..Len(messages) : messages'[n + 1] = messages[n]
<1>1. PICK u \in Utterances, behind \in 0..1 :
        /\ behind <= Len(messages)
        /\ messages' = InsertAt(messages, Len(messages) + 1 - behind,
                                [id |-> Len(messages) + 1, role |-> u.role,
                                 topic |-> u.topic, cost |-> u.cost, says |-> u.says])
  BY DEF Say
<1> DEFINE L == Len(messages)
           at == L + 1 - behind
           m == [id |-> Len(messages) + 1, role |-> u.role,
                 topic |-> u.topic, cost |-> u.cost, says |-> u.says]
           lead == SubSeq(messages, 1, at - 1)
           rest == SubSeq(messages, at, L)
<1>2. L \in Nat /\ L < MaxMessages /\ messages \in Seq(LogRow)
  BY LogShape DEF Say
<1>3. at \in 1..(L + 1) /\ at >= L /\ behind <= L
  BY <1>1, <1>2
<1>4. m \in LogRow /\ m.id = L + 1
  <2>1. L + 1 \in Nat \ {0}
    BY <1>2
  <2> QED BY <2>1 DEF LogRow
<1>5. messages' = lead \o <<m>> \o rest
  BY <1>1 DEF InsertAt
<1> HIDE DEF m
<1>6. lead \in Seq(LogRow) /\ Len(lead) = at - 1 /\ \A n \in 1..(at - 1) : lead[n] = messages[n]
  <2> HIDE DEF L, at
  <2>1. at - 1 \in 0..L
    BY <1>2, <1>3
  <2> QED BY <1>2, <2>1 DEF L
<1>7. /\ rest \in Seq(LogRow) /\ Len(rest) = L + 1 - at
      /\ \A n \in 1..(L + 1 - at) : rest[n] = messages[at + n - 1]
  <2> HIDE DEF L, at
  <2> QED BY <1>2, <1>3 DEF L
<1> HIDE DEF L, at, lead, rest
<1>8. /\ messages' \in Seq(LogRow) /\ Len(messages') = L + 1
      /\ messages'[at] = m
      /\ \A n \in 1..(at - 1) : messages'[n] = messages[n]
      /\ \A n \in at..L : messages'[n + 1] = messages[n]
  <2>1. <<m>> \in Seq(LogRow) /\ Len(<<m>>) = 1 /\ <<m>>[1] = m
    BY <1>4
  <2> DEFINE front == lead \o <<m>>
  <2>2. /\ front \in Seq(LogRow) /\ Len(front) = at /\ front[at] = m
        /\ \A n \in 1..(at - 1) : front[n] = messages[n]
    BY <1>2, <1>3, <1>6, <2>1
  <2> HIDE DEF front
  <2>3. messages' = front \o rest
    BY <1>5 DEF front
  <2>4. /\ messages' \in Seq(LogRow) /\ Len(messages') = L + 1
        /\ \A n \in 1..at : messages'[n] = front[n]
        /\ \A n \in 1..(L + 1 - at) : messages'[at + n] = rest[n]
    <3>2. at \in Int /\ at + (L + 1 - at) = L + 1
      BY <1>2, <1>3
    <3>3. front \in Seq(LogRow) /\ rest \in Seq(LogRow) /\ Len(front) = at /\ Len(rest) = L + 1 - at
      BY <2>2, <1>7
    <3>4. /\ front \o rest \in Seq(LogRow) /\ Len(front \o rest) = Len(front) + Len(rest)
          /\ \A n \in 1..Len(front) : (front \o rest)[n] = front[n]
          /\ \A n \in 1..Len(rest) : (front \o rest)[Len(front) + n] = rest[n]
      BY <3>3, JoinShape
    <3> DEFINE s == front \o rest
    <3> HIDE DEF s
    <3>5. /\ s \in Seq(LogRow) /\ Len(s) = L + 1
          /\ \A n \in 1..at : s[n] = front[n]
          /\ \A n \in 1..(L + 1 - at) : s[at + n] = rest[n]
      BY <3>2, <3>3, <3>4 DEF s
    <3> QED BY <3>5, <2>3 DEF s
  <2>5. ASSUME NEW n \in at..L PROVE messages'[n + 1] = messages[n]
    <3>1. n - at + 1 \in 1..(L + 1 - at) /\ at + (n - at + 1) = n + 1 /\ at + (n - at + 1) - 1 = n
      BY <1>2, <1>3
    <3> QED BY <3>1, <2>4, <1>7
  <2> QED BY <2>2, <2>4, <2>5, <1>3
<1> QED BY <1>2, <1>3, <1>4, <1>8 DEF L

LEMMA LogStep == ASSUME LogInv, Say PROVE LogInv'
<1> DEFINE L == Len(messages)
<1>1. /\ Len(messages') = L + 1 /\ messages' \in Seq(LogRow) /\ L < MaxMessages
  BY SayInserts
<1>2. PICK at \in 1..(L + 1) :
        /\ at >= L /\ messages'[at].id = L + 1
        /\ \A n \in 1..(at - 1) : messages'[n] = messages[n]
        /\ \A n \in at..L : messages'[n + 1] = messages[n]
  BY SayInserts
<1>3. /\ L \in Nat /\ MaxMessages \in Nat
      /\ \A i \in 1..L : messages[i].id \in Nat /\ messages[i].id <= L
      /\ \A i, k \in 1..L : messages[i].id = messages[k].id => i = k
  BY LogShape, LogRowFacts, ContextAssumption DEF LogInv
<1> HIDE DEF L
<1>4. ASSUME NEW i \in 1..(L + 1), i # at
      PROVE  \E n \in 1..L : messages'[i] = messages[n] /\ i = (IF n < at THEN n ELSE n + 1)
  <2>1. CASE i < at
    BY <1>2, <1>3, <2>1
  <2>2. CASE i > at
    <3>1. i - 1 \in at..L /\ (i - 1) + 1 = i /\ i - 1 \in 1..L /\ ~(i - 1 < at)
      BY <1>2, <1>3, <2>2
    <3> QED BY <1>2, <3>1
  <2> QED BY <1>4, <2>1, <2>2, <1>2, <1>3
<1>5. \A i \in 1..(L + 1) : messages'[i].id <= L + 1
  BY <1>2, <1>3, <1>4
<1>6. ASSUME NEW i \in 1..(L + 1), NEW k \in 1..(L + 1), messages'[i].id = messages'[k].id
      PROVE  i = k
  BY <1>2, <1>3, <1>4, <1>6
<1>7. DOMAIN messages' = 1..(L + 1) /\ L + 1 <= MaxMessages
  BY <1>1, <1>3
<1> QED BY <1>1, <1>5, <1>6, <1>7 DEF LogInv

LEMMA SnapshotsStay == ASSUME LogInv, Say PROVE Snapshots \subseteq Snapshots'
<1> DEFINE L == Len(messages)
<1>1. LogInv'
  BY LogStep
<1>2. /\ Len(messages') = L + 1 /\ messages' \in Seq(LogRow) /\ L \in Nat
      /\ DOMAIN messages = 1..L /\ DOMAIN messages' = 1..(L + 1) /\ messages \in Seq(LogRow)
  BY SayInserts, LogShape
<1>3. PICK at \in 1..(L + 1) :
        /\ at >= L
        /\ \A n \in 1..(at - 1) : messages'[n] = messages[n]
        /\ \A n \in at..L : messages'[n + 1] = messages[n]
  BY SayInserts
<1> HIDE DEF L
<1>4. ASSUME NEW k \in 1..L, NEW i \in 1..L PROVE Cut(messages, k, i) \in Snapshots'
  <2> DEFINE j == IF i < at THEN i ELSE i + 1
  <2>1. j \in 1..(L + 1) /\ messages'[j] = messages[i] /\ k \in 1..(L + 1)
    BY <1>2, <1>3
  <2> HIDE DEF j
  <2>2. SubSeq(messages', 1, k - 1) = SubSeq(messages, 1, k - 1)
    <3>1. k - 1 \in 0..L /\ k - 1 <= at - 1
      BY <1>2, <1>3
    <3>2. \A n \in 1..(k - 1) : messages'[n] = messages[n]
      BY <1>2, <1>3, <3>1
    <3> QED BY <1>2, <3>1, <3>2
  <2>3. Cut(messages, k, i) = Append(SubSeq(messages', 1, k - 1), messages'[j])
    BY <2>1, <2>2 DEF Cut
  <2>4. Cut(messages, k, i) = Cut(messages', k, j)
    BY <2>3 DEF Cut
  <2>5. k \in DOMAIN messages' /\ j \in DOMAIN messages'
    BY <2>1, <1>2
  <2> QED BY <2>4, <2>5 DEF Snapshots
<1> QED BY <1>2, <1>4 DEF Snapshots
(***************************************************************************)
(* The caches and the jobs.                                                *)
(***************************************************************************)

(* An entry stands for a history that was read once: what it holds is what *)
(* a scan of that history returns, the limits of the kinds permitting.     *)
Stands(entry, P) == P # <<>> /\ entry.upto = Len(P) /\ entry.last = P[Len(P)].id
TopicsOf(P) == [i \in DOMAIN P |-> P[i].topic]

KnowsState(entry, histories) ==
  \/ entry.upto = 0
  \/ \E P \in histories : /\ Stands(entry, P)
                          /\ ~Overflows(P) => entry.data = Continue(EmptyState, P)
KnowsTopics(entry, histories) ==
  \/ entry.upto = 0 /\ entry.data = <<>>
  \/ \E P \in histories : Stands(entry, P) /\ entry.data = TopicsOf(P)

CacheInv ==
  /\ states = [w \in Worker |-> [m \in Message |-> states[w][m]]]
  /\ indexes = [w \in Worker |-> [m \in Message |-> indexes[w][m]]]
  /\ \A w \in Worker, m \in Message :
       KnowsState(states[w][m], Snapshots) /\ KnowsTopics(indexes[w][m], Snapshots)

JobsInv ==
  /\ task = [j \in Turn |-> [status |-> task[j].status, frozen |-> task[j].frozen,
                             rows |-> task[j].rows, at |-> task[j].at,
                             topic |-> task[j].topic, result |-> task[j].result]]
  /\ \A j \in Turn :
       /\ task[j].frozen \in Snapshots
       /\ task[j].rows \in {task[j].frozen, <<>>}
       /\ task[j].status \in {"new", "queued"} => task[j].rows = <<>>

(* A cache after one entry was written.                                    *)
Table(c) == c = [x \in Worker |-> [m \in Message |-> c[x][m]]]
Put(d, c, w, f, e) == d = [c EXCEPT ![w][f] = e]
Either(d, c, e) == \A x \in Worker, m \in Message : d[x][m] \in {c[x][m], e}

LEMMA CachePut ==
  ASSUME NEW c, Table(c), NEW w \in Worker, NEW f \in Message, NEW e,
         NEW d, Put(d, c, w, f, e)
  PROVE  Table(d) /\ Either(d, c, e)
<1>. USE DEF Table, Put, Either
<1>. DEFINE row(x) == [m \in Message |-> c[x][m]]
<1>1. DOMAIN c = Worker /\ \A x \in Worker : c[x] = row(x)
  OBVIOUS
<1>2. d = [x \in Worker |-> IF x = w THEN [c[w] EXCEPT ![f] = e] ELSE c[x]]
  BY <1>1
<1>3. d[w] = [m \in Message |-> IF m = f THEN e ELSE c[w][m]]
  BY <1>1, <1>2
<1>4. \A x \in Worker : x # w => d[x] = row(x)
  BY <1>1, <1>2
<1>5. \A x \in Worker, m \in Message : d[x][m] \in {c[x][m], e}
  BY <1>3, <1>4
<1>6. \A x \in Worker : d[x] = [m \in Message |-> d[x][m]]
  BY <1>3, <1>4
<1>. QED BY <1>2, <1>5, <1>6

LEMMA FirstOfSnapshot ==
  ASSUME LogInv, NEW rows \in Snapshots, rows # <<>>
  PROVE  rows[1].id \in Message /\ rows \in Seq(LogRow) /\ Len(rows) \in Nat \ {0}
         /\ rows \in Seq(LogRow) /\ \A i \in 1..Len(rows) : rows[i] \in LogRow
<1>1. /\ rows \in Seq(LogRow) /\ Len(rows) \in Nat /\ Len(rows) <= Len(messages)
      /\ \A n \in 1..(Len(rows) - 1) : rows[n] = messages[n]
      /\ Len(rows) >= 1 /\ \E i \in DOMAIN messages : rows[Len(rows)] = messages[i]
  BY SnapshotShape
<1>2. \E i \in DOMAIN messages : rows[1] = messages[i]
  <2>1. CASE Len(rows) = 1
    BY <2>1, <1>1
  <2>2. CASE Len(rows) # 1
    <3>0. Len(rows) >= 2 /\ Len(messages) >= 2 /\ Len(messages) \in Nat
      <4>1. Len(messages) \in Nat
        BY LogShape
      <4>2. Len(rows) \in Nat /\ Len(rows) <= Len(messages) /\ Len(rows) >= 1
        BY <1>1
      <4> DEFINE R == Len(rows)
                 L == Len(messages)
      <4>3. L \in Nat /\ R \in Nat /\ R <= L /\ R >= 1 /\ R # 1
        BY <2>2, <4>1, <4>2
      <4> HIDE DEF R, L
      <4>4. R >= 2 /\ L >= 2
        BY <4>3
      <4> QED BY <4>3, <4>4 DEF R, L
    <3>1. 1 \in 1..(Len(rows) - 1) /\ 1 \in DOMAIN messages
      BY <3>0, <1>1, LogShape
    <3> QED BY <3>1, <1>1
  <2> QED BY <2>1, <2>2
<1>3. PICK i \in DOMAIN messages : rows[1] = messages[i]
  BY <1>2
<1>4. messages[i] \in LogRow /\ messages[i].id <= Len(messages)
  BY LogShape DEF LogInv
<1>5. messages[i].id \in Nat \ {0} /\ Len(messages) <= MaxMessages /\ Len(messages) \in Nat
      /\ MaxMessages \in Nat
  BY <1>4, LogRowFacts, LogShape, ContextAssumption DEF LogInv
<1>6. rows[1].id \in Message
  BY <1>3, <1>4, <1>5 DEF Message
<1> QED BY <1>1, <1>6

LEMMA CachedPart ==
  ASSUME LogInv, NEW P \in Snapshots, NEW rows \in Snapshots, rows # <<>>,
         NEW entry, Stands(entry, P), PrefixValid(entry, rows)
  PROVE  entry.upto \in 1..Len(rows) /\ SubSeq(rows, 1, entry.upto) = P
<1> DEFINE k == Len(P)
<1>1. /\ P \in Seq(LogRow) /\ k \in 1..Len(P) /\ k \in 1..Len(rows)
      /\ P[k].id = rows[k].id /\ entry.upto = k
  BY SnapshotShape DEF Stands, PrefixValid
<1>2. k <= Len(rows)
  BY <1>1
<1>3. SubSeq(P, 1, k) = SubSeq(rows, 1, k)
  <2> HIDE DEF k
  <2> QED BY <1>1, <1>2, SnapshotsAgree
<1>4. SubSeq(P, 1, k) = P
  BY <1>1
<1> QED BY <1>1, <1>3, <1>4

LEMMA StateAnswers ==
  ASSUME LogInv, CacheInv, NEW w \in Worker, NEW rows \in Snapshots, rows # <<>>,
         ~Overflows(rows)
  PROVE  StateAt(w, rows) = Continue(EmptyState, rows)
<1> DEFINE entry == states[w][rows[1].id]
<1>1. rows \in Seq(LogRow) /\ KnowsState(entry, Snapshots)
  BY FirstOfSnapshot DEF CacheInv
<1>2. StateAt(w, rows) = IF PrefixValid(entry, rows)
                         THEN Continue(entry.data, SubSeq(rows, entry.upto + 1, Len(rows)))
                         ELSE Continue(EmptyState, rows)
  BY DEF StateAt
<1> HIDE DEF entry
<1>3. CASE ~PrefixValid(entry, rows)
  BY <1>2, <1>3
<1>4. CASE PrefixValid(entry, rows)
  <2>1. entry.upto # 0
    BY <1>4 DEF PrefixValid
  <2>2. PICK P \in Snapshots : Stands(entry, P) /\ (~Overflows(P) => entry.data = Continue(EmptyState, P))
    BY <1>1, <2>1 DEF KnowsState
  <2>3. entry.upto \in 1..Len(rows) /\ SubSeq(rows, 1, entry.upto) = P
    BY <1>4, <2>2, CachedPart
  <2>4. entry.upto \in 0..Len(rows)
    BY <2>3
  <2>5. ~Overflows(SubSeq(rows, 1, entry.upto)) /\
        Continue(Continue(EmptyState, SubSeq(rows, 1, entry.upto)),
                 SubSeq(rows, entry.upto + 1, Len(rows))) = Continue(EmptyState, rows)
    BY <1>1, <2>4, ContinueFromCache
  <2> QED BY <1>2, <1>4, <2>2, <2>3, <2>5
<1> QED BY <1>3, <1>4

LEMMA PostingsAnswer ==
  ASSUME LogInv, CacheInv, NEW w \in Worker, NEW rows \in Snapshots, rows # <<>>
  PROVE  PostingsAt(w, rows) = TopicsOf(rows)
<1> DEFINE entry == indexes[w][rows[1].id]
           done == IF PrefixValid(entry, rows) THEN entry.upto ELSE 0
           lead == SubSeq(entry.data, 1, done)
           rest == [i \in 1..(Len(rows) - done) |-> rows[done + i].topic]
           T == {rows[i].topic : i \in 1..Len(rows)}
<1>1. rows \in Seq(LogRow) /\ Len(rows) \in Nat /\ KnowsTopics(entry, Snapshots)
  BY FirstOfSnapshot DEF CacheInv
<1>2. PostingsAt(w, rows) = lead \o rest
  BY DEF PostingsAt
<1> HIDE DEF entry
<1>3. /\ done \in 0..Len(rows) /\ lead \in Seq(T) /\ Len(lead) = done
      /\ \A i \in 1..done : lead[i] = rows[i].topic
  <2>1. CASE ~PrefixValid(entry, rows)
    <3>1. done = 0 /\ lead = <<>>
      BY <2>1
    <3> QED BY <3>1, <1>1
  <2>2. CASE PrefixValid(entry, rows)
    <3>1. entry.upto # 0
      BY <2>2 DEF PrefixValid
    <3>2. PICK P \in Snapshots : Stands(entry, P) /\ entry.data = TopicsOf(P)
      BY <1>1, <3>1 DEF KnowsTopics
    <3>3. entry.upto \in 1..Len(rows) /\ SubSeq(rows, 1, entry.upto) = P
      BY <2>2, <3>2, CachedPart
    <3> DEFINE k == entry.upto
    <3>4. done = k /\ k \in 1..Len(rows)
      BY <2>2, <3>3
    <3> HIDE DEF k, done
    <3>5. P \in Seq(LogRow) /\ Len(P) = k /\ \A i \in 1..k : P[i] = rows[i]
      BY <1>1, <3>3, <3>4 DEF k
    <3>6. /\ entry.data = [i \in 1..k |-> P[i].topic] /\ k \in Nat
      BY <3>2, <3>5, <3>4, <1>1 DEF TopicsOf
    <3>7. entry.data \in Seq(T) /\ Len(entry.data) = k
          /\ \A i \in 1..k : entry.data[i] = rows[i].topic
      <4>1. \A i \in 1..k : P[i].topic \in T /\ P[i].topic = rows[i].topic
        BY <3>4, <3>5, <1>1
      <4> HIDE DEF T
      <4> QED BY <3>6, <4>1
    <3>8. SubSeq(entry.data, 1, k) = entry.data
      BY <3>6, <3>7
    <3> QED BY <3>4, <3>7, <3>8, <1>1
  <2> QED BY <2>1, <2>2
<1> HIDE DEF done, lead
<1>4. /\ rest \in Seq(T) /\ Len(rest) = Len(rows) - done
      /\ \A i \in 1..(Len(rows) - done) : rest[i] = rows[done + i].topic
  <2>1. \A i \in 1..(Len(rows) - done) : rows[done + i].topic \in T
    BY <1>1, <1>3
  <2> HIDE DEF T
  <2> QED BY <1>1, <1>3, <2>1
<1> HIDE DEF rest, T
<1> DEFINE all == lead \o rest
<1>5. /\ all \in Seq(T) /\ Len(all) = Len(lead) + Len(rest)
      /\ \A n \in 1..Len(lead) : all[n] = lead[n]
      /\ \A n \in 1..Len(rest) : all[Len(lead) + n] = rest[n]
  <2>1. lead \in Seq(T) /\ rest \in Seq(T)
    BY <1>3, <1>4
  <2> QED BY <2>1, JoinShape
<1> HIDE DEF all
<1>6. Len(all) = Len(rows) /\ \A i \in 1..Len(rows) : all[i] = rows[i].topic
  <2>1. Len(all) = Len(rows)
    BY <1>1, <1>3, <1>4, <1>5
  <2>2. ASSUME NEW i \in 1..Len(rows) PROVE all[i] = rows[i].topic
    <3>1. CASE i <= done
      <4>1. i \in 1..done
        BY <3>1, <1>3
      <4> QED BY <4>1, <1>3, <1>5
    <3>2. CASE i > done
      <4>1. i - done \in 1..(Len(rows) - done) /\ done + (i - done) = i
        BY <1>1, <1>3, <3>2
      <4>2. all[i] = rest[i - done]
        BY <1>3, <1>4, <1>5, <4>1
      <4> QED BY <1>4, <4>1, <4>2
    <3> QED BY <3>1, <3>2, <1>3
  <2> QED BY <2>1, <2>2
<1>7. all = TopicsOf(rows)
  <2>1. DOMAIN all = 1..Len(rows) /\ DOMAIN rows = 1..Len(rows)
        /\ all = [i \in 1..Len(rows) |-> all[i]]
    BY <1>1, <1>5, <1>6
  <2> QED BY <2>1, <1>6 DEF TopicsOf
<1> QED BY <1>2, <1>7 DEF all
(***************************************************************************)
(* What is selected, packed and shown.                                     *)
(***************************************************************************)

(* Positions in the order of the log that end with the newest one.         *)
Rises(s) == \A n, k \in 1..Len(s) : n < k => s[n] < s[k]
EndsNewest(s, N) == s \in Seq(1..N) /\ Rises(s) /\ Len(s) >= 1 /\ s[Len(s)] = N

LEMMA OldestShape ==
  ASSUME NEW N \in Nat, NEW T \in SUBSET (1..N)
  PROVE  /\ IsFiniteSet(T) /\ Cardinality(T) \in Nat
         /\ Oldest(T) \in Seq(1..N) /\ Len(Oldest(T)) = Cardinality(T) /\ Rises(Oldest(T))
         /\ N \in T => EndsNewest(Oldest(T), N)
<1> DEFINE s == Listed(T, Ascending(T))
<1>1. IsFiniteSet(T) /\ Orders(Ascending(T), T)
  <2>1. T \subseteq Int
    OBVIOUS
  <2> QED BY <2>1, IndicesAreFinite, AscendingOrders
<1>2. /\ Cardinality(T) \in Nat /\ s \in Seq(T) /\ Len(s) = Cardinality(T)
      /\ \A i \in T : \E n \in 1..Cardinality(T) : s[n] = i
      /\ \A n, k \in 1..Cardinality(T) : n < k <=> <<s[n], s[k]>> \in Ascending(T)
  BY <1>1, ListedIsBijective
<1>3. s = Oldest(T)
  BY DEF Oldest
<1> HIDE DEF s
<1>4. \A n, k \in 1..Len(s) : n < k => s[n] < s[k]
  BY <1>2 DEF Ascending
<1>5. s \in Seq(1..N)
  <2>0. s \in Seq(T)
    BY <1>2
  <2>1. \A n \in 1..Len(s) : s[n] \in 1..N
    <3>1. \A n \in 1..Len(s) : s[n] \in T
      BY <2>0
    <3>2. \A x \in T : x \in 1..N
      OBVIOUS
    <3> QED BY <3>1, <3>2
  <2>2. s = [n \in 1..Len(s) |-> s[n]] /\ Len(s) \in Nat
    BY <1>2
  <2> QED BY <2>1, <2>2
<1>6. ASSUME N \in T PROVE Len(s) >= 1 /\ s[Len(s)] = N
  <2>1. PICK n \in 1..Len(s) : s[n] = N
    BY <1>2, <1>6
  <2>2. Len(s) \in 1..Len(s) /\ Len(s) \in Nat
    BY <1>2, <2>1
  <2>3. CASE n = Len(s)
    BY <2>1, <2>2, <2>3
  <2>4. CASE n # Len(s)
    <3>1. N < s[Len(s)]
      BY <2>1, <2>2, <2>4, <1>4
    <3>2. s[Len(s)] \in 1..N
      BY <2>2, <1>5
    <3> QED BY <3>1, <3>2
  <2> QED BY <2>3, <2>4
<1> QED BY <1>1, <1>2, <1>3, <1>4, <1>5, <1>6 DEF Rises, EndsNewest

(* The first of an order stays, and the second when the two fit.           *)
LEMMA FillShape ==
  ASSUME NEW rows \in Seq(LogRow), NEW order \in Seq(1..Len(rows)), NEW budget \in Nat
  PROVE  /\ Fill(order, rows, budget) \in SUBSET (1..Len(rows))
         /\ Cardinality(Fill(order, rows, budget)) <= Len(order)
         /\ Len(order) >= 1 => order[1] \in Fill(order, rows, budget)
         /\ Len(order) >= 2 /\ rows[order[1]].cost + rows[order[2]].cost <= budget
              => order[2] \in Fill(order, rows, budget)
<1>1. PICK f : Filling(f, order, rows, budget)
  BY FillTrail
<1> DEFINE N == Len(rows)
           L == Len(order)
           fit == rows[order[1]].cost + rows[order[2]].cost <= budget
           Keeps(n) ==
             /\ f[n].kept \in SUBSET (1..N) /\ IsFiniteSet(f[n].kept)
             /\ Cardinality(f[n].kept) \in Nat /\ Cardinality(f[n].kept) <= n
             /\ n = 0 => f[n].kept = {} /\ f[n].used = 0
             /\ n = 1 => f[n].kept = {order[1]} /\ f[n].used = rows[order[1]].cost
             /\ n >= 1 => order[1] \in f[n].kept
             /\ n >= 2 /\ fit => order[2] \in f[n].kept
           A == {n \in Nat : n <= L => Keeps(n)}
<1>2. N \in Nat /\ L \in Nat /\ \A i \in 1..L : order[i] \in 1..N
  OBVIOUS
<1>3. \A i \in 1..N : rows[i].cost \in Int
  <2> TAKE i \in 1..N
  <2>1. rows[i] \in LogRow
    OBVIOUS
  <2>2. rows[i].cost \in 1..MessageCost /\ MessageCost \in Nat
    BY <2>1, LogRowFacts, ContextAssumption
  <2> QED BY <2>2
<1>4. /\ f[0] = Empty /\ f[L] = Filled(order, rows, budget)
      /\ \A k \in 0..(L - 1) : f[k + 1] = FillStep(f[k], order[k + 1], rows, budget)
  BY <1>1 DEF Filling
<1> HIDE DEF N, L, fit
<1>5. 0 \in A
  <2>1. f[0].kept = {} /\ f[0].used = 0
    BY <1>4 DEF Empty
  <2>2. IsFiniteSet({}) /\ Cardinality({}) = 0
    BY FS_EmptySet
  <2>3. Keeps(0)
    BY <2>1, <2>2
  <2> QED BY <2>3
<1>6. ASSUME NEW n \in Nat, n \in A PROVE n + 1 \in A
  <2> SUFFICES ASSUME n + 1 <= L PROVE Keeps(n + 1)
    OBVIOUS
  <2> DEFINE i == order[n + 1]
             a == f[n]
             b == f[n + 1]
  <2>1. n \in 0..(L - 1) /\ n <= L /\ n + 1 \in 1..L
    BY <1>2
  <2>2. Keeps(n)
    BY <1>6, <2>1
  <2>3. b = FillStep(a, i, rows, budget) /\ i \in 1..N /\ rows[i].cost \in Int
    BY <1>2, <1>3, <1>4, <2>1
  <2>4. CASE a.kept # {} /\ a.used + rows[i].cost > budget
    <3>1. b = a
      BY <2>3, <2>4 DEF FillStep
    <3>2. n # 0
      BY <2>2, <2>4
    <3>3. ASSUME n = 1, fit PROVE FALSE
      <4>1. a.used = rows[order[1]].cost /\ i = order[2]
        BY <2>2, <3>3
      <4>2. rows[order[1]].cost + rows[order[2]].cost <= budget
        BY <3>3 DEF fit
      <4>3. rows[order[1]].cost + rows[order[2]].cost \in Int
        <5>1. 1 \in 1..L
          BY <1>2, <2>1, <3>3
        <5>2. rows[order[1]].cost \in Int /\ rows[order[2]].cost \in Int
          BY <1>2, <1>3, <2>3, <4>1, <5>1
        <5> QED BY <5>2
      <4> QED BY <4>1, <4>2, <4>3, <2>4
    <3> HIDE DEF a, b, i
    <3>4. /\ b.kept \in SUBSET (1..N) /\ IsFiniteSet(b.kept) /\ Cardinality(b.kept) \in Nat
          /\ Cardinality(b.kept) <= n + 1
      BY <2>2, <3>1 DEF a
    <3>5. order[1] \in b.kept /\ (n + 1 >= 2 /\ fit => order[2] \in b.kept)
      BY <2>2, <3>1, <3>2, <3>3 DEF a
    <3> QED BY <3>2, <3>4, <3>5 DEF b
  <2>5. CASE ~(a.kept # {} /\ a.used + rows[i].cost > budget)
    <3>1. b.kept = a.kept \cup {i} /\ b.used = a.used + rows[i].cost
      BY <2>3, <2>5 DEF FillStep
    <3> HIDE DEF a, b
    <3>2. /\ IsFiniteSet(b.kept) /\ Cardinality(b.kept) \in Nat
          /\ Cardinality(b.kept) <= n + 1
      <4>1. IsFiniteSet(a.kept) /\ Cardinality(a.kept) \in Nat /\ Cardinality(a.kept) <= n
        BY <2>2 DEF a
      <4> HIDE DEF i
      <4>2. IsFiniteSet(b.kept) /\ Cardinality(b.kept) \in {Cardinality(a.kept), Cardinality(a.kept) + 1}
        <5> DEFINE K == a.kept
        <5>1. IsFiniteSet(K) /\ b.kept = K \cup {i}
          BY <3>1, <4>1
        <5> HIDE DEF K
        <5>2. IsFiniteSet(K \cup {i}) /\ Cardinality(K \cup {i}) =
                IF i \in K THEN Cardinality(K) ELSE Cardinality(K) + 1
          BY <5>1, FS_AddElement
        <5> QED BY <5>1, <5>2 DEF K
      <4> QED BY <4>1, <4>2
    <3>3. b.kept \in SUBSET (1..N)
      BY <2>2, <2>3, <3>1 DEF a
    <3>4. n + 1 = 1 => b.kept = {order[1]} /\ b.used = rows[order[1]].cost
      <4> SUFFICES ASSUME n = 0 PROVE b.kept = {order[1]} /\ b.used = rows[order[1]].cost
        OBVIOUS
      <4>1. a.kept = {} /\ a.used = 0 /\ i = order[1]
        BY <2>2 DEF a
      <4> QED BY <3>1, <4>1, <2>3
    <3>5. order[1] \in b.kept
      <4>1. CASE n = 0
        BY <4>1, <3>1
      <4>2. CASE n # 0
        BY <4>2, <2>2, <3>1 DEF a
      <4> QED BY <4>1, <4>2
    <3>6. n + 1 >= 2 /\ fit => order[2] \in b.kept
      <4>1. CASE n = 1
        BY <4>1, <3>1
      <4>2. CASE n # 1
        BY <4>2, <2>2, <3>1 DEF a
      <4> QED BY <4>1, <4>2
    <3> QED BY <3>2, <3>3, <3>4, <3>5, <3>6 DEF b
  <2> QED BY <2>4, <2>5
<1>7. L \in A
  <2> HIDE DEF A
  <2> QED BY <1>2, <1>5, <1>6, NatSet
<1>8. Keeps(L)
  BY <1>2, <1>7
<1>9. Fill(order, rows, budget) = f[L].kept
  BY <1>4, FillIsFilled
<1> QED BY <1>2, <1>8, <1>9 DEF N, L, fit
LEMMA ElementOf ==
  ASSUME NEW S, NEW s \in Seq(S), NEW i \in 1..Len(s) PROVE s[i] \in S
OBVIOUS

LEMMA FirstUserShape ==
  ASSUME NEW rows \in Seq(LogRow) PROVE FirstUser(rows) \in 0..Len(rows)
<1> DEFINE I == {i \in 1..Len(rows) : rows[i].role = "user"}
<1>1. FirstUser(rows) = IF I # {} THEN Min(I) ELSE 0
  BY DEF FirstUser, SelectInSeq
<1>2. ASSUME I # {} PROVE Min(I) \in I
  <2>1. I \subseteq Nat /\ I # {}
    BY <1>2
  <2> HIDE DEF I
  <2>2. \E x \in I : \A y \in I : x <= y
    <3> DEFINE R == OpToRel(<, Nat)
    <3>1. IsWellFoundedOn(R, Nat)
      BY NatLessThanWellFounded
    <3>2. \E x \in I : \A y \in I : <<y, x>> \notin R
      <4> HIDE DEF R
      <4> QED BY <2>1, <3>1, WFMin
    <3>3. PICK x \in I : \A y \in I : <<y, x>> \notin R
      BY <3>2
    <3>4. \A y \in I : ~(y < x)
      BY <2>1, <3>3 DEF OpToRel
    <3> QED BY <2>1, <3>4
  <2> QED BY <2>2 DEF Min
<1>3. Len(rows) \in Nat
  OBVIOUS
<1> HIDE DEF FirstUser
<1> QED BY <1>1, <1>2, <1>3

(* The newest message is chosen: it is the first or the second in line.    *)
LEMMA ChosenShape ==
  ASSUME NEW rows \in Seq(LogRow), Len(rows) >= 1, NEW found \in Seq(1..Len(rows))
  PROVE  Chosen(rows, found) \in SUBSET (1..Len(rows)) /\ Len(rows) \in Chosen(rows, found)
<1> DEFINE N == Len(rows)
           F == FirstUser(rows)
           first == IF F = 0 THEN <<>> ELSE <<F>>
           late == RecentOf(rows) \ {F}
           newest == Newest(late)
           order == first \o newest \o found
<1>1. N \in Nat /\ N >= 1 /\ F \in 0..N
  BY FirstUserShape
<1>2. late \in SUBSET (1..N) /\ (N # F => N \in late)
  <2>1. Recent \in Nat /\ Recent >= 2
    BY ContextAssumption
  <2>2. DOMAIN rows = 1..N
    OBVIOUS
  <2> QED BY <1>1, <2>1, <2>2 DEF RecentOf
<1>3. Chosen(rows, found) = Fill(order, rows, HistoryBudget)
  BY DEF Chosen
<1> HIDE DEF N, F, late
<1>4. newest \in Seq(1..N) /\ (N \in late => Len(newest) >= 1 /\ newest[1] = N)
  <2> DEFINE s == Oldest(late)
  <2>1. s \in Seq(1..N) /\ (N \in late => Len(s) >= 1 /\ s[Len(s)] = N)
    BY <1>1, <1>2, OldestShape DEF EndsNewest
  <2>2. newest = [i \in 1..Len(s) |-> s[(Len(s) - i) + 1]]
    BY DEF Newest, Reverse
  <2> HIDE DEF s, newest
  <2>3. Len(s) \in Nat /\ \A i \in 1..Len(s) : (Len(s) - i) + 1 \in 1..Len(s)
    BY <2>1
  <2>4. \A i \in 1..Len(s) : s[(Len(s) - i) + 1] \in 1..N
    BY <2>1, <2>3, ElementOf
  <2>5. newest \in Seq(1..N) /\ Len(newest) = Len(s)
    BY <2>2, <2>3, <2>4
  <2>6. ASSUME N \in late PROVE newest[1] = N
    <3>1. 1 \in 1..Len(s) /\ (Len(s) - 1) + 1 = Len(s)
      BY <2>1, <2>3, <2>6
    <3> QED BY <2>1, <2>2, <2>6, <3>1
  <2> QED BY <2>1, <2>5, <2>6
<1>5. first \in Seq(1..N) /\ Len(first) = (IF F = 0 THEN 0 ELSE 1) /\ (F # 0 => first[1] = F)
  <2>1. CASE F = 0
    BY <2>1
  <2>2. CASE F # 0
    <3>1. first = <<F>> /\ F \in 1..N
      BY <1>1, <2>2
    <3> QED BY <2>2, <3>1
  <2> QED BY <2>1, <2>2
<1> HIDE DEF first, newest
<1>6. /\ order \in Seq(1..N) /\ Len(order) >= Len(first) + Len(newest)
      /\ (Len(first) >= 1 => order[1] = first[1])
      /\ (Len(newest) >= 1 => order[Len(first) + 1] = newest[1])
      /\ Len(first) \in Nat /\ Len(newest) \in Nat
  <2> DEFINE front == first \o newest
  <2>1. first \in Seq(1..N) /\ newest \in Seq(1..N) /\ found \in Seq(1..N)
    BY <1>4, <1>5 DEF N
  <2>2. /\ front \in Seq(1..N) /\ Len(front) = Len(first) + Len(newest)
        /\ \A n \in 1..Len(first) : front[n] = first[n]
        /\ \A n \in 1..Len(newest) : front[Len(first) + n] = newest[n]
    BY <2>1, JoinShape
  <2> HIDE DEF front
  <2> DEFINE all == front \o found
  <2>3. /\ all \in Seq(1..N) /\ Len(all) = Len(front) + Len(found)
        /\ \A n \in 1..Len(front) : all[n] = front[n]
    <3>1. front \in Seq(1..N) /\ found \in Seq(1..N)
      BY <2>1, <2>2
    <3> QED BY <3>1, JoinShape
  <2>4. order = all
    BY DEF front
  <2>5. Len(first) \in Nat /\ Len(newest) \in Nat /\ Len(found) \in Nat
    BY <2>1
  <2> HIDE DEF all, order
  <2>6. Len(all) >= Len(first) + Len(newest)
    BY <2>2, <2>3, <2>5
  <2>7. ASSUME Len(first) >= 1 PROVE all[1] = first[1]
    <3>1. 1 \in 1..Len(first) /\ 1 \in 1..Len(front)
      BY <2>2, <2>5, <2>7
    <3> QED BY <2>2, <2>3, <3>1
  <2>8. ASSUME Len(newest) >= 1 PROVE all[Len(first) + 1] = newest[1]
    <3>1. 1 \in 1..Len(newest) /\ Len(first) + 1 \in 1..Len(front)
      BY <2>2, <2>5, <2>8
    <3> QED BY <2>2, <2>3, <3>1
  <2> QED BY <2>3, <2>4, <2>5, <2>6, <2>7, <2>8
<1> HIDE DEF order
<1> DEFINE kept == Fill(order, rows, HistoryBudget)
<1>7. /\ kept \in SUBSET (1..N)
      /\ Len(order) >= 1 => order[1] \in kept
      /\ Len(order) >= 2 /\ rows[order[1]].cost + rows[order[2]].cost <= HistoryBudget
           => order[2] \in kept
  <2>1. HistoryBudget \in Nat /\ order \in Seq(1..Len(rows))
    BY <1>6, ContextAssumption DEF N
  <2> QED BY <2>1, FillShape DEF N
<1> HIDE DEF kept
<1>8. CASE F = N
  <2>1. Len(first) = 1 /\ first[1] = N
    BY <1>1, <1>5, <1>8
  <2>2. Len(order) >= 1 /\ order[1] = N
    BY <1>6, <2>1
  <2> QED BY <1>3, <1>7, <2>2 DEF N, kept
<1>9. CASE F = 0
  <2>1. Len(first) = 0 /\ Len(newest) >= 1 /\ newest[1] = N
    BY <1>1, <1>2, <1>4, <1>5, <1>9
  <2>2. Len(order) >= 1 /\ order[1] = N
    BY <1>6, <2>1
  <2> QED BY <1>3, <1>7, <2>2 DEF N, kept
<1>10. CASE F # N /\ F # 0
  <2>1. Len(first) = 1 /\ Len(newest) >= 1 /\ newest[1] = N
    BY <1>1, <1>2, <1>4, <1>5, <1>10
  <2>2. Len(order) >= 2 /\ order[2] = N
    BY <1>6, <2>1
  <2>3. order[1] \in 1..N /\ order[2] \in 1..N
    <3>1. 1 \in 1..Len(order) /\ 2 \in 1..Len(order) /\ order \in Seq(1..N)
      BY <1>6, <2>2
    <3> QED BY <3>1, ElementOf
  <2>4. \A i \in 1..N : rows[i].cost \in 1..MessageCost
    BY LogRowFacts DEF N
  <2>5. rows[order[1]].cost + rows[order[2]].cost <= HistoryBudget
    <3> DEFINE a == rows[order[1]].cost
               b == rows[order[2]].cost
    <3>1. a \in 1..MessageCost /\ b \in 1..MessageCost
      BY <2>3, <2>4
    <3>2. MessageCost \in Nat /\ HistoryBudget \in Nat /\ 2 * MessageCost <= HistoryBudget
      BY ContextAssumption
    <3> HIDE DEF a, b
    <3>3. a + b <= HistoryBudget
      BY <3>1, <3>2
    <3> QED BY <3>3 DEF a, b
  <2> QED BY <1>3, <1>7, <2>2, <2>5 DEF N, kept
<1> QED BY <1>8, <1>9, <1>10

(* The rows that are left at the end of a sequence.                        *)
LEMMA LastRowsShape ==
  ASSUME NEW S, NEW s \in Seq(S), NEW k \in 1..Len(s)
  PROVE  /\ LastRows(s, k) \in Seq(S) /\ Len(LastRows(s, k)) = k
         /\ \A n \in 1..k : LastRows(s, k)[n] = s[Len(s) - k + n] /\ Len(s) - k + n \in 1..Len(s)
BY DEF LastRows

LEMMA CharPackShape ==
  ASSUME NEW rows \in Seq(LogRow), NEW chosen, EndsNewest(chosen, Len(rows))
  PROVE  EndsNewest(CharPack(chosen, rows), Len(rows))
         /\ Len(CharPack(chosen, rows)) + 1 <= MaxHistory
<1> DEFINE N == Len(rows)
           slots == MaxHistory - 1
           kept == IF Len(chosen) <= slots THEN chosen ELSE LastRows(chosen, slots)
           back == Reverse(kept)
           left == Fill(back, rows, PackBudget)
<1>1. /\ N \in Nat /\ chosen \in Seq(1..N) /\ Len(chosen) \in Nat
      /\ Len(chosen) >= 1 /\ chosen[Len(chosen)] = N
  BY DEF EndsNewest
<1>2. slots \in Nat /\ slots >= 1 /\ slots + 1 = MaxHistory /\ PackBudget \in Nat
  BY ContextAssumption
<1>3. CharPack(chosen, rows) = Oldest(left)
  BY DEF CharPack
<1> HIDE DEF N, slots
<1>4. kept \in Seq(1..N) /\ Len(kept) \in 1..slots /\ kept[Len(kept)] = N
  <2>1. CASE Len(chosen) <= slots
    BY <1>1, <1>2, <2>1
  <2>2. CASE ~(Len(chosen) <= slots)
    <3>1. slots \in 1..Len(chosen)
      BY <1>1, <1>2, <2>2
    <3>2. LastRows(chosen, slots) \in Seq(1..N) /\ Len(LastRows(chosen, slots)) = slots
          /\ LastRows(chosen, slots)[slots] = chosen[Len(chosen) - slots + slots]
      BY <1>1, <1>2, <3>1, LastRowsShape
    <3>3. Len(chosen) - slots + slots = Len(chosen)
      BY <1>1, <1>2
    <3> QED BY <1>1, <1>2, <2>2, <3>2, <3>3
  <2> QED BY <2>1, <2>2
<1> HIDE DEF kept
<1>5. back \in Seq(1..N) /\ Len(back) = Len(kept) /\ back[1] = N
  <2>1. back = [i \in 1..Len(kept) |-> kept[(Len(kept) - i) + 1]]
    BY DEF Reverse
  <2>2. Len(kept) \in Nat /\ Len(kept) >= 1 /\ (Len(kept) - 1) + 1 = Len(kept)
        /\ \A i \in 1..Len(kept) : (Len(kept) - i) + 1 \in 1..Len(kept)
    BY <1>2, <1>4
  <2>3. \A i \in 1..Len(kept) : kept[(Len(kept) - i) + 1] \in 1..N
    BY <1>4, <2>2, ElementOf
  <2> HIDE DEF back
  <2> QED BY <1>4, <2>1, <2>2, <2>3
<1> HIDE DEF back
<1>6. left \in SUBSET (1..N) /\ Cardinality(left) <= Len(kept) /\ N \in left
  <2>1. back \in Seq(1..Len(rows)) /\ PackBudget \in Nat /\ Len(back) >= 1
    BY <1>2, <1>4, <1>5 DEF N
  <2> QED BY <1>5, <2>1, FillShape DEF N
<1> HIDE DEF left
<1>7. Cardinality(left) \in Nat /\ Len(Oldest(left)) = Cardinality(left) /\ EndsNewest(Oldest(left), N)
  BY <1>1, <1>6, OldestShape
<1>8. Len(Oldest(left)) + 1 <= MaxHistory
  BY <1>2, <1>4, <1>6, <1>7
<1> QED BY <1>3, <1>7, <1>8 DEF N

LEMMA TokenFitShape ==
  ASSUME NEW N \in Nat, NEW packed, EndsNewest(packed, N), NEW room \in TokenRooms
  PROVE  EndsNewest(TokenFit(packed, room), N) /\ Len(TokenFit(packed, room)) <= Len(packed)
<1> DEFINE L == Len(packed)
<1>1. /\ packed \in Seq(1..N) /\ L \in Nat /\ L >= 1 /\ packed[L] = N
      /\ \A n, k \in 1..L : n < k => packed[n] < packed[k]
      /\ \A n \in 1..L : packed[n] \in 1..N
  BY DEF EndsNewest, Rises
<1>2. room \in Nat /\ room >= 1
  BY ContextAssumption
<1> HIDE DEF L
<1>3. CASE L <= room
  <2>1. TokenFit(packed, room) = packed
    BY <1>3 DEF TokenFit, L
  <2> QED BY <2>1, <1>1 DEF L
<1>4. CASE L > room /\ room = 1
  <2>1. TokenFit(packed, room) = <<packed[L]>>
    BY <1>1, <1>2, <1>4 DEF TokenFit, L, Last
  <2>2. <<packed[L]>> \in Seq(1..N) /\ Len(<<packed[L]>>) = 1 /\ <<packed[L]>>[1] = N
    BY <1>1
  <2> QED BY <1>1, <2>1, <2>2 DEF EndsNewest, Rises, L
<1>5. CASE L > room /\ room # 1
  <2> DEFINE k == room - 1
             tail == LastRows(packed, k)
             all == <<packed[1]>> \o tail
  <2>1. TokenFit(packed, room) = all
    BY <1>1, <1>2, <1>5 DEF TokenFit, L
  <2>2. k \in 1..L /\ k + 1 < L + 0 + 1 /\ k + 1 <= L - 0 /\ room = k + 1
    BY <1>1, <1>2, <1>5
  <2> HIDE DEF k
  <2>3. /\ tail \in Seq(1..N) /\ Len(tail) = k
        /\ \A n \in 1..k : tail[n] = packed[L - k + n] /\ L - k + n \in 1..L
    BY <1>1, <2>2, LastRowsShape DEF L
  <2>4. <<packed[1]>> \in Seq(1..N) /\ Len(<<packed[1]>>) = 1 /\ <<packed[1]>>[1] = packed[1]
        /\ 1 \in 1..L
    BY <1>1
  <2> HIDE DEF tail
  <2>5. /\ all \in Seq(1..N) /\ Len(all) = Len(<<packed[1]>>) + Len(tail)
        /\ \A n \in 1..Len(<<packed[1]>>) : all[n] = <<packed[1]>>[n]
        /\ \A n \in 1..Len(tail) : all[Len(<<packed[1]>>) + n] = tail[n]
    BY <2>3, <2>4, JoinShape
  <2> HIDE DEF all
  <2>6. Len(all) = k + 1 /\ all[1] = packed[1] /\ \A n \in 1..k : all[1 + n] = packed[L - k + n]
    BY <2>2, <2>3, <2>4, <2>5
  <2>7. ASSUME NEW n \in 1..(k + 1), NEW m \in 1..(k + 1), n < m PROVE all[n] < all[m]
    <3>1. m - 1 \in 1..k /\ 1 + (m - 1) = m /\ k \in Nat /\ L \in Nat
      BY <2>2, <2>7, <1>1
    <3>2. all[m] = packed[L - k + (m - 1)] /\ L - k + (m - 1) \in 1..L
      BY <2>3, <2>6, <3>1
    <3>3. CASE n = 1
      <4>1. 1 < L - k + (m - 1)
        BY <2>2, <3>1
      <4> QED BY <1>1, <2>4, <2>6, <3>2, <3>3, <4>1
    <3>4. CASE n # 1
      <4>1. n - 1 \in 1..k /\ 1 + (n - 1) = n /\ L - k + (n - 1) < L - k + (m - 1)
        BY <2>2, <2>7, <3>1, <3>4
      <4>2. all[n] = packed[L - k + (n - 1)] /\ L - k + (n - 1) \in 1..L
        BY <2>3, <2>6, <4>1
      <4> QED BY <1>1, <3>2, <4>1, <4>2
    <3> QED BY <3>3, <3>4
  <2>8. all[k + 1] = N
    <3>1. k \in 1..k /\ 1 + k = k + 1 /\ L - k + k = L
      BY <2>2, <1>1
    <3> QED BY <1>1, <2>6, <3>1
  <2>9. Len(all) >= 1 /\ Len(all) <= L
    BY <2>2, <2>6, <1>1
  <2> QED BY <2>1, <2>5, <2>6, <2>7, <2>8, <2>9 DEF EndsNewest, Rises, L
<1> QED BY <1>1, <1>2, <1>3, <1>4, <1>5
(***************************************************************************)
(* The invariant and its theorems.                                         *)
(***************************************************************************)

Compiled(t) ==
  /\ ~Overflows(t.rows) => t.result.active = Active(Continue(EmptyState, t.rows))
  /\ t.result.candidates =
       {i \in DOMAIN t.rows : t.topic # NoTopic /\ t.rows[i].topic = t.topic}
ShownAs(rows, shown, ids) ==
  /\ rows # <<>> => shown # <<>> /\ Last(shown) = Last(ids)
  /\ Len(shown) + 1 <= MaxHistory
  /\ \E at \in [DOMAIN shown -> DOMAIN ids] :
       /\ \A n \in DOMAIN shown : shown[n] = ids[at[n]]
       /\ \A n, k \in DOMAIN shown : n < k => at[n] < at[k]
ShownOf(t) == ShownAs(t.rows, t.result.shown, [i \in DOMAIN t.rows |-> t.rows[i].id])

ContextInv ==
  /\ LogInv /\ CacheInv /\ JobsInv
  /\ \A j \in Done : Compiled(task[j]) /\ ShownOf(task[j])

LEMMA FoundShape ==
  ASSUME NEW N \in Nat, NEW T \in SUBSET (1..N), NEW found \in Found(T)
  PROVE  found \in Seq(1..N)
<1>1. PICK best \in SUBSET T : found \in SetToSeqs(best)
  BY DEF Found
<1>2. best \in SUBSET (1..N)
  OBVIOUS
<1>3. Cardinality(best) \in Nat
  BY <1>2, IndicesAreFinite
<1>4. found \in [1..Cardinality(best) -> best]
  BY <1>1 DEF SetToSeqs
<1> DEFINE c == Cardinality(best)
<1>5. c \in Nat /\ found = [i \in 1..c |-> found[i]]
  BY <1>3, <1>4
<1>6. \A i \in 1..c : found[i] \in 1..N
  BY <1>2, <1>4
<1> HIDE DEF c
<1> QED BY <1>5, <1>6

LEMMA NothingToContinue == Continue(EmptyState, <<>>) = EmptyState
<1>1. <<>> \in Seq(LogRow) /\ Len(<<>>) = 0
  OBVIOUS
<1>2. PICK f : Trail(f, Base(EmptyState), <<>>)
  BY <1>1, GovernTrail
<1>3. Folded(Base(EmptyState), <<>>) = Base(EmptyState)
  BY <1>1, <1>2 DEF Trail
<1> QED BY <1>3, ContinueIsFolded DEF Base

(* What is shown of the positions that are left.                           *)
LEMMA ShownShape ==
  ASSUME NEW rows \in Seq(LogRow), rows # <<>>, NEW pos, EndsNewest(pos, Len(rows)),
         Len(pos) + 1 <= MaxHistory,
         NEW t, t.rows = rows, t.result.shown = [n \in DOMAIN pos |-> rows[pos[n]].id]
  PROVE  ShownOf(t)
<1> DEFINE shown == [n \in DOMAIN pos |-> rows[pos[n]].id]
           ids == [i \in DOMAIN rows |-> rows[i].id]
           N == Len(rows)
           L == Len(pos)
<1>1. /\ pos \in Seq(1..N) /\ L \in Nat /\ L >= 1 /\ pos[L] = N /\ N \in Nat
      /\ DOMAIN pos = 1..L /\ DOMAIN rows = 1..N /\ pos \in [1..L -> 1..N]
      /\ \A n, k \in 1..L : n < k => pos[n] < pos[k]
  BY DEF EndsNewest, Rises
<1> HIDE DEF N, L
<1>2. Len(shown) = L /\ DOMAIN shown = 1..L /\ DOMAIN ids = 1..N /\ Len(ids) = N
  BY <1>1
<1>3. \A n \in 1..L : pos[n] \in 1..N /\ shown[n] = ids[pos[n]]
  BY <1>1
<1>4. L \in 1..L /\ N \in 1..N /\ shown[L] = ids[N]
  BY <1>1, <1>3
<1> HIDE DEF shown, ids
<1>5. shown # <<>> /\ Last(shown) = Last(ids)
  BY <1>1, <1>2, <1>4 DEF Last
<1>6. L + 1 <= MaxHistory
  BY DEF L
<1>7. t.rows # <<>> => shown # <<>> /\ Last(shown) = Last(ids)
  BY <1>5
<1>8. Len(shown) + 1 <= MaxHistory
  BY <1>2, <1>6
<1>9. \E at \in [DOMAIN shown -> DOMAIN ids] :
        /\ \A n \in DOMAIN shown : shown[n] = ids[at[n]]
        /\ \A n, k \in DOMAIN shown : n < k => at[n] < at[k]
  <2>1. pos \in [DOMAIN shown -> DOMAIN ids]
    BY <1>1, <1>2
  <2> QED BY <1>1, <1>2, <1>3, <2>1
<1>10. t.result.shown = shown /\ [i \in DOMAIN t.rows |-> t.rows[i].id] = ids
  BY DEF shown, ids
<1>11. ShownAs(t.rows, shown, ids)
  BY <1>7, <1>8, <1>9 DEF ShownAs
<1> QED BY <1>10, <1>11 DEF ShownOf

LEMMA NothingIsShown ==
  ASSUME NEW t, t.rows = <<>>, t.result.shown = <<>> PROVE ShownOf(t)
<1>1. Len(<<>>) + 1 <= MaxHistory /\ DOMAIN <<>> = {}
  BY ContextAssumption
<1> DEFINE at == [n \in {} |-> 0]
<1>2. \A T : at \in [{} -> T]
  OBVIOUS
<1>3. DOMAIN [i \in DOMAIN t.rows |-> t.rows[i].id] = {}
  BY <1>1
<1> QED BY <1>1, <1>2, <1>3 DEF ShownOf, ShownAs

LEMMA CompileStep ==
  ASSUME ContextInv, NEW w \in Worker, NEW j \in Turn, CompileJob(w, j)
  PROVE  /\ task' = [task EXCEPT ![j].status = "done", ![j].result = task'[j].result]
         /\ Compiled(task'[j]) /\ ShownOf(task'[j]) /\ CacheInv' /\ messages' = messages
<1> DEFINE rows == task[j].rows
           t == task'[j]
<1>1. /\ task = [i \in Turn |-> [status |-> task[i].status, frozen |-> task[i].frozen,
                                 rows |-> task[i].rows, at |-> task[i].at,
                                 topic |-> task[i].topic, result |-> task[i].result]]
      /\ rows \in Snapshots /\ messages' = messages /\ LogInv /\ CacheInv
  <2>1. LogInv /\ CacheInv /\ JobsInv
    BY DEF ContextInv
  <2>2. messages' = messages
    BY DEF CompileJob
  <2>3. rows \in {task[j].frozen, <<>>} /\ task[j].frozen \in Snapshots
    BY <2>1 DEF JobsInv
  <2>4. <<>> \in Snapshots
    BY DEF Snapshots
  <2>5. rows \in Snapshots
    BY <2>3, <2>4
  <2>6. task = [i \in Turn |-> [status |-> task[i].status, frozen |-> task[i].frozen,
                                rows |-> task[i].rows, at |-> task[i].at,
                                topic |-> task[i].topic, result |-> task[i].result]]
    BY <2>1 DEF JobsInv
  <2> QED BY <2>1, <2>2, <2>5, <2>6
<1>2. ASSUME NEW result,
             task' = [task EXCEPT ![j].status = "done", ![j].result = result]
      PROVE  /\ t.result = result /\ t.rows = rows /\ t.topic = task[j].topic
             /\ task' = [task EXCEPT ![j].status = "done", ![j].result = task'[j].result]
  <2>1. DOMAIN task = Turn
    BY <1>1
  <2>2. task[j] = [status |-> task[j].status, frozen |-> task[j].frozen,
                   rows |-> task[j].rows, at |-> task[j].at,
                   topic |-> task[j].topic, result |-> task[j].result]
    BY <1>1
  <2>3. t = [status |-> "done", frozen |-> task[j].frozen, rows |-> task[j].rows,
             at |-> task[j].at, topic |-> task[j].topic, result |-> result]
    BY <1>2, <2>1, <2>2
  <2>4. t.result = result /\ t.rows = rows /\ t.topic = task[j].topic
    BY <2>3
  <2> QED BY <1>2, <2>4
<1>3. CASE rows = <<>>
  <2> DEFINE result == [NoContext EXCEPT !.active = Active(EmptyState)]
  <2>1. task' = [task EXCEPT ![j].status = "done", ![j].result = result]
        /\ states' = states /\ indexes' = indexes
    BY <1>3 DEF CompileJob
  <2>2. result.active = Active(EmptyState) /\ result.candidates = {} /\ result.shown = <<>>
    BY DEF NoContext
  <2> HIDE DEF result
  <2>3. /\ t.result = result /\ t.rows = <<>>
        /\ task' = [task EXCEPT ![j].status = "done", ![j].result = task'[j].result]
    BY <1>2, <1>3, <2>1
  <2>4. Compiled(t)
    BY <2>2, <2>3, NothingToContinue DEF Compiled
  <2>5. ShownOf(t)
    BY <2>2, <2>3, NothingIsShown
  <2>6. CacheInv'
    BY <1>1, <2>1 DEF CacheInv, KnowsState, KnowsTopics, Snapshots
  <2> QED BY <1>1, <2>3, <2>4, <2>5, <2>6
<1>4. CASE rows # <<>>
  <2> DEFINE state == StateAt(w, rows)
             postings == PostingsAt(w, rows)
             asked == task[j].topic # NoTopic
             candidates == {i \in DOMAIN postings : asked /\ postings[i] = task[j].topic}
             Packed(found) == CharPack(Oldest(Chosen(rows, found)), rows)
             f == rows[1].id
  <2>1. PICK found \in Found(candidates \ Mandatory(rows)), room \in TokenRooms :
          LET shown == TokenFit(Packed(found), room) IN
          /\ task' = [task EXCEPT ![j].status = "done", ![j].result =
                        [active |-> Active(state), candidates |-> candidates,
                         shown |-> [n \in DOMAIN shown |-> rows[shown[n]].id]]]
          /\ states' = [states EXCEPT ![w][f] = Entry(rows, state)]
          /\ indexes' = IF asked THEN [indexes EXCEPT ![w][f] = Entry(rows, postings)]
                        ELSE indexes
    BY <1>4 DEF CompileJob
  <2> DEFINE packed == Packed(found)
             shown == TokenFit(packed, room)
             result == [active |-> Active(state), candidates |-> candidates,
                        shown |-> [n \in DOMAIN shown |-> rows[shown[n]].id]]
  <2>2. /\ t.result = result /\ t.rows = rows /\ t.topic = task[j].topic
        /\ task' = [task EXCEPT ![j].status = "done", ![j].result = task'[j].result]
    <3>1. task' = [task EXCEPT ![j].status = "done", ![j].result = result]
      BY <2>1
    <3> HIDE DEF result
    <3> QED BY <3>1, <1>2
  <2>3. /\ f \in Message /\ rows \in Seq(LogRow) /\ Len(rows) \in Nat \ {0}
        /\ DOMAIN rows = 1..Len(rows)
    BY <1>1, <1>4, FirstOfSnapshot
  <2>4. postings = TopicsOf(rows)
    BY <1>1, <1>4, PostingsAnswer
  <2>5. ~Overflows(rows) => state = Continue(EmptyState, rows)
    BY <1>1, <1>4, StateAnswers
  <2> HIDE DEF state, postings
  <2>6. candidates = {i \in DOMAIN rows : task[j].topic # NoTopic /\ rows[i].topic = task[j].topic}
    <3>1. DOMAIN postings = DOMAIN rows /\ \A i \in DOMAIN rows : postings[i] = rows[i].topic
      BY <2>4 DEF TopicsOf
    <3> QED BY <3>1
  <2>7. Compiled(t)
    <3>1. result.active = Active(state) /\ result.candidates = candidates
      OBVIOUS
    <3> HIDE DEF result, candidates, t
    <3> QED BY <2>2, <2>5, <2>6, <3>1 DEF Compiled
  <2>8. found \in Seq(1..Len(rows))
    <3>1. candidates \ Mandatory(rows) \in SUBSET (1..Len(rows))
      BY <2>3, <2>6
    <3> HIDE DEF candidates
    <3> QED BY <2>3, <3>1, FoundShape
  <2>9. EndsNewest(shown, Len(rows)) /\ Len(shown) + 1 <= MaxHistory
    <3> DEFINE C == Chosen(rows, found)
    <3>1. C \in SUBSET (1..Len(rows)) /\ Len(rows) \in C
      BY <2>3, <2>8, ChosenShape
    <3>2. EndsNewest(Oldest(C), Len(rows))
      <4> HIDE DEF C
      <4> QED BY <2>3, <3>1, OldestShape
    <3>3. EndsNewest(packed, Len(rows)) /\ Len(packed) + 1 <= MaxHistory
      BY <2>3, <3>2, CharPackShape
    <3> HIDE DEF packed
    <3>4. EndsNewest(shown, Len(rows)) /\ Len(shown) <= Len(packed)
      BY <2>3, <3>3, TokenFitShape
    <3>5. Len(shown) \in Nat /\ Len(packed) \in Nat /\ MaxHistory \in Nat
      BY <3>3, <3>4, ContextAssumption DEF EndsNewest
    <3> HIDE DEF shown
    <3> QED BY <3>3, <3>4, <3>5
  <2>10. ShownOf(t)
    <3>1. t.result.shown = [n \in DOMAIN shown |-> rows[shown[n]].id] /\ t.rows = rows
      BY <2>2
    <3> HIDE DEF t, rows, shown
    <3> QED BY <1>4, <2>3, <2>9, <3>1, ShownShape
  <2>11. KnowsState(Entry(rows, state), Snapshots) /\ KnowsTopics(Entry(rows, postings), Snapshots)
    <3>1. /\ Stands(Entry(rows, state), rows) /\ Entry(rows, state).data = state
          /\ Stands(Entry(rows, postings), rows) /\ Entry(rows, postings).data = postings
      BY <1>4 DEF Stands, Entry, Last
    <3> HIDE DEF rows
    <3> QED BY <1>1, <2>4, <2>5, <3>1 DEF KnowsState, KnowsTopics
  <2>12. CacheInv'
    <3>1. Snapshots' = Snapshots
      BY <1>1 DEF Snapshots
    <3> DEFINE new == Entry(rows, state)
               ind == Entry(rows, postings)
    <3> HIDE DEF new, ind, f, candidates
    <3>2. /\ states' = [states EXCEPT ![w][f] = new]
          /\ indexes' \in {indexes, [indexes EXCEPT ![w][f] = ind]}
      BY <2>1 DEF new, ind
    <3>3. KnowsState(new, Snapshots) /\ KnowsTopics(ind, Snapshots)
      BY <2>11 DEF new, ind
    <3>d. w \in Worker /\ f \in Message
      BY <2>3 DEF f
    <3>c. /\ states = [x \in Worker |-> [m \in Message |-> states[x][m]]]
          /\ indexes = [x \in Worker |-> [m \in Message |-> indexes[x][m]]]
          /\ \A x \in Worker, m \in Message :
               KnowsState(states[x][m], Snapshots) /\ KnowsTopics(indexes[x][m], Snapshots)
      BY <1>1 DEF CacheInv
    <3>4. /\ states' = [x \in Worker |-> [m \in Message |-> states'[x][m]]]
          /\ \A x \in Worker, m \in Message : KnowsState(states'[x][m], Snapshots)
      <4>1. Table(states) /\ Put(states', states, w, f, new)
        BY <3>2, <3>c DEF Table, Put
      <4>2. Table(states') /\ Either(states', states, new)
        BY <3>d, <4>1, CachePut
      <4> QED BY <3>c, <3>3, <4>2 DEF Table, Either
    <3>5. /\ indexes' = [x \in Worker |-> [m \in Message |-> indexes'[x][m]]]
          /\ \A x \in Worker, m \in Message : KnowsTopics(indexes'[x][m], Snapshots)
      <4>1. CASE indexes' = indexes
        BY <3>c, <4>1
      <4>2. CASE indexes' = [indexes EXCEPT ![w][f] = ind]
        <5>1. Table(indexes) /\ Put(indexes', indexes, w, f, ind)
          BY <3>c, <4>2 DEF Table, Put
        <5>2. Table(indexes') /\ Either(indexes', indexes, ind)
          BY <3>d, <5>1, CachePut
        <5> QED BY <3>c, <3>3, <5>2 DEF Table, Either
      <4> QED BY <3>2, <4>1, <4>2
    <3> QED BY <3>1, <3>4, <3>5 DEF CacheInv
  <2> QED BY <1>1, <2>2, <2>7, <2>10, <2>12
<1> QED BY <1>3, <1>4
LEMMA ContextStarts == ASSUME ContextInit PROVE ContextInv
<1>1. /\ messages = <<>> /\ \A j \in Turn : task[j].status = "new"
      /\ task = [j \in Turn |-> [status |-> "new", frozen |-> <<>>, rows |-> <<>>,
                                 at |-> "nowhere", topic |-> NoTopic, result |-> NoContext]]
      /\ states = [w \in Worker |-> [m \in Message |-> NoEntry]] /\ indexes = states
  BY DEF ContextInit
<1>2. LogInv
  BY <1>1, ContextAssumption DEF LogInv
<1>3. NoEntry.upto = 0 /\ NoEntry.data = <<>>
  BY DEF NoEntry
<1>4. CacheInv
  <2>1. \A w \in Worker, m \in Message : states[w][m] = NoEntry /\ indexes[w][m] = NoEntry
    BY <1>1
  <2>2. /\ states = [w \in Worker |-> [m \in Message |-> states[w][m]]]
        /\ indexes = [w \in Worker |-> [m \in Message |-> indexes[w][m]]]
    BY <1>1
  <2> QED BY <2>1, <2>2, <1>3 DEF CacheInv, KnowsState, KnowsTopics
<1>5. JobsInv
  <2>1. <<>> \in Snapshots
    BY DEF Snapshots
  <2> QED BY <1>1, <2>1 DEF JobsInv
<1>6. Done = {}
  BY <1>1 DEF Done
<1> QED BY <1>2, <1>4, <1>5, <1>6 DEF ContextInv

(* What is known of the caches and the jobs outlives a new message.        *)
LEMMA SayStep == ASSUME ContextInv, Say PROVE ContextInv'
<1>1. LogInv /\ CacheInv /\ JobsInv /\ \A j \in Done : Compiled(task[j]) /\ ShownOf(task[j])
  BY DEF ContextInv
<1>2. task' = task /\ states' = states /\ indexes' = indexes
  BY DEF Say
<1>3. LogInv' /\ Snapshots \subseteq Snapshots'
  BY <1>1, LogStep, SnapshotsStay
<1>4. JobsInv'
  BY <1>1, <1>2, <1>3 DEF JobsInv
<1>5. \A e : /\ KnowsState(e, Snapshots) => KnowsState(e, Snapshots')
             /\ KnowsTopics(e, Snapshots) => KnowsTopics(e, Snapshots')
  <2> DEFINE S == Snapshots
             T == Snapshots'
  <2>1. S \subseteq T
    BY <1>3
  <2> HIDE DEF S, T
  <2>2. \A e : /\ KnowsState(e, S) => KnowsState(e, T)
               /\ KnowsTopics(e, S) => KnowsTopics(e, T)
    BY <2>1 DEF KnowsState, KnowsTopics
  <2> QED BY <2>2 DEF S, T
<1>7. CacheInv'
  BY <1>1, <1>2, <1>5 DEF CacheInv
<1>8. \A j \in Done' : Compiled(task'[j]) /\ ShownOf(task'[j])
  BY <1>1, <1>2 DEF Done
<1> QED BY <1>3, <1>4, <1>7, <1>8 DEF ContextInv

(* The steps of a job that leave the log and the caches alone.             *)
LEMMA TurnStep ==
  ASSUME ContextInv, NEW j \in Turn, UNCHANGED <<messages, states, indexes>>,
         NEW t, task' = [task EXCEPT ![j] = t],
         t = [status |-> t.status, frozen |-> t.frozen, rows |-> t.rows, at |-> t.at,
              topic |-> t.topic, result |-> t.result],
         t.frozen \in Snapshots, t.rows \in {t.frozen, <<>>}, t.status # "done",
         t.status \in {"new", "queued"} => t.rows = <<>>
  PROVE  ContextInv'
<1>1. LogInv /\ CacheInv /\ JobsInv /\ \A i \in Done : Compiled(task[i]) /\ ShownOf(task[i])
  BY DEF ContextInv
<1>2. Snapshots' = Snapshots
  BY DEF Snapshots
<1>3. DOMAIN task = Turn /\ task'[j] = t /\ \A i \in Turn : i # j => task'[i] = task[i]
  BY <1>1 DEF JobsInv
<1>4. LogInv'
  BY <1>1 DEF LogInv
<1>5. CacheInv'
  BY <1>1, <1>2 DEF CacheInv, KnowsState, KnowsTopics
<1>6. JobsInv'
  <2>1. \A i \in Turn :
          /\ task'[i] = [status |-> task'[i].status, frozen |-> task'[i].frozen,
                         rows |-> task'[i].rows, at |-> task'[i].at,
                         topic |-> task'[i].topic, result |-> task'[i].result]
          /\ task'[i].frozen \in Snapshots
          /\ task'[i].rows \in {task'[i].frozen, <<>>}
          /\ task'[i].status \in {"new", "queued"} => task'[i].rows = <<>>
    <3> TAKE i \in Turn
    <3>1. CASE i = j
      BY <1>3, <3>1
    <3>2. CASE i # j
      <4>1. task'[i] = task[i]
        BY <1>3, <3>2
      <4> QED BY <1>1, <4>1 DEF JobsInv
    <3> QED BY <3>1, <3>2
  <2>2. task' = [i \in Turn |-> task'[i]]
    BY <1>3
  <2> QED BY <2>1, <2>2, <1>2 DEF JobsInv
<1>7. \A i \in Done' : i \in Done /\ task'[i] = task[i]
  BY <1>3 DEF Done
<1> QED BY <1>1, <1>4, <1>5, <1>6, <1>7 DEF ContextInv

LEMMA TurnRecord ==
  ASSUME JobsInv, NEW j \in Turn
  PROVE  /\ DOMAIN task = Turn
         /\ task[j] = [status |-> task[j].status, frozen |-> task[j].frozen,
                       rows |-> task[j].rows, at |-> task[j].at,
                       topic |-> task[j].topic, result |-> task[j].result]
         /\ task[j].frozen \in Snapshots /\ <<>> \in Snapshots
         /\ task[j].rows \in {task[j].frozen, <<>>}
         /\ task[j].status \in {"new", "queued"} => task[j].rows = <<>>
BY DEF JobsInv, Snapshots

LEMMA EnqueueStep == ASSUME ContextInv, NEW j \in Turn, Enqueue(j) PROVE ContextInv'
<1>1. LogInv /\ JobsInv
  BY DEF ContextInv
<1>2. PICK topic \in Topics :
        task' = [task EXCEPT ![j].status = "queued", ![j].frozen = messages, ![j].topic = topic]
  BY DEF Enqueue
<1> DEFINE t == [status |-> "queued", frozen |-> messages, rows |-> task[j].rows,
                 at |-> task[j].at, topic |-> topic, result |-> task[j].result]
<1>3. task' = [task EXCEPT ![j] = t]
  <2>1. DOMAIN task = Turn /\ task[j] =
          [status |-> task[j].status, frozen |-> task[j].frozen, rows |-> task[j].rows,
           at |-> task[j].at, topic |-> task[j].topic, result |-> task[j].result]
    BY <1>1, TurnRecord
  <2>2. task'[j] = t
    BY <1>2, <2>1
  <2>3. task' = [task EXCEPT ![j] = task'[j]]
    BY <1>2
  <2> HIDE DEF t
  <2> QED BY <2>2, <2>3
<1>4. task[j].rows = <<>> /\ UNCHANGED <<messages, states, indexes>>
  BY <1>1, TurnRecord DEF Enqueue
<1>5. /\ t = [status |-> t.status, frozen |-> t.frozen, rows |-> t.rows, at |-> t.at,
              topic |-> t.topic, result |-> t.result]
      /\ t.frozen \in Snapshots /\ t.rows = <<>> /\ t.status = "queued"
  BY <1>1, <1>4, FrozenIsSnapshot
<1> HIDE DEF t
<1> QED BY <1>3, <1>4, <1>5, TurnStep

LEMMA RequeueStep == ASSUME ContextInv, NEW j \in Turn, Requeue(j) PROVE ContextInv'
<1>1. JobsInv
  BY DEF ContextInv
<1>2. task' = [task EXCEPT ![j].status = "queued", ![j].rows = <<>>, ![j].at = "nowhere"]
      /\ UNCHANGED <<messages, states, indexes>>
  BY DEF Requeue
<1> DEFINE t == [status |-> "queued", frozen |-> task[j].frozen, rows |-> <<>>,
                 at |-> "nowhere", topic |-> task[j].topic, result |-> task[j].result]
<1>3. task' = [task EXCEPT ![j] = t]
  <2>1. DOMAIN task = Turn /\ task[j] =
          [status |-> task[j].status, frozen |-> task[j].frozen, rows |-> task[j].rows,
           at |-> task[j].at, topic |-> task[j].topic, result |-> task[j].result]
    BY <1>1, TurnRecord
  <2>2. task'[j] = t
    BY <1>2, <2>1
  <2>3. task' = [task EXCEPT ![j] = task'[j]]
    BY <1>2
  <2> HIDE DEF t
  <2> QED BY <2>2, <2>3
<1>4. /\ t = [status |-> t.status, frozen |-> t.frozen, rows |-> t.rows, at |-> t.at,
              topic |-> t.topic, result |-> t.result]
      /\ t.frozen \in Snapshots /\ t.rows = <<>> /\ t.status = "queued"
  BY <1>1, TurnRecord
<1> HIDE DEF t
<1> QED BY <1>2, <1>3, <1>4, TurnStep

LEMMA MaterializeStep ==
  ASSUME ContextInv, NEW w \in Worker, NEW j \in Turn, Materialize(w, j) PROVE ContextInv'
<1>1. JobsInv
  BY DEF ContextInv
<1> DEFINE rows == Materialized(messages, task[j].frozen)
           t == [status |-> "running", frozen |-> task[j].frozen, rows |-> rows,
                 at |-> w, topic |-> task[j].topic, result |-> task[j].result]
<1>2. task' = [task EXCEPT ![j].status = "running", ![j].at = w, ![j].rows = rows]
      /\ UNCHANGED <<messages, states, indexes>>
  BY DEF Materialize
<1>3. rows \in {task[j].frozen, <<>>}
  BY DEF Materialized
<1> HIDE DEF rows
<1>4. task' = [task EXCEPT ![j] = t]
  <2>1. DOMAIN task = Turn /\ task[j] =
          [status |-> task[j].status, frozen |-> task[j].frozen, rows |-> task[j].rows,
           at |-> task[j].at, topic |-> task[j].topic, result |-> task[j].result]
    BY <1>1, TurnRecord
  <2>2. task'[j] = t
    BY <1>2, <2>1
  <2>3. task' = [task EXCEPT ![j] = task'[j]]
    BY <1>2
  <2> HIDE DEF t
  <2> QED BY <2>2, <2>3
<1>5. /\ t = [status |-> t.status, frozen |-> t.frozen, rows |-> t.rows, at |-> t.at,
              topic |-> t.topic, result |-> t.result]
      /\ t.frozen \in Snapshots /\ t.rows \in {t.frozen, <<>>} /\ t.status = "running"
  BY <1>1, <1>3, TurnRecord
<1> HIDE DEF t
<1> QED BY <1>2, <1>4, <1>5, TurnStep

LEMMA CompileJobStep ==
  ASSUME ContextInv, NEW w \in Worker, NEW j \in Turn, CompileJob(w, j) PROVE ContextInv'
<1>1. LogInv /\ CacheInv /\ JobsInv /\ \A i \in Done : Compiled(task[i]) /\ ShownOf(task[i])
  BY DEF ContextInv
<1> DEFINE result == task'[j].result
<1>2. /\ task' = [task EXCEPT ![j].status = "done", ![j].result = result]
      /\ Compiled(task'[j]) /\ ShownOf(task'[j]) /\ CacheInv' /\ messages' = messages
  BY CompileStep
<1> HIDE DEF result
<1>3. Snapshots' = Snapshots
  BY <1>2 DEF Snapshots
<1>4. /\ DOMAIN task = Turn
      /\ task'[j] = [status |-> "done", frozen |-> task[j].frozen, rows |-> task[j].rows,
                     at |-> task[j].at, topic |-> task[j].topic, result |-> result]
      /\ \A i \in Turn : i # j => task'[i] = task[i]
  <2>1. DOMAIN task = Turn /\ task[j] =
          [status |-> task[j].status, frozen |-> task[j].frozen, rows |-> task[j].rows,
           at |-> task[j].at, topic |-> task[j].topic, result |-> task[j].result]
    BY <1>1, TurnRecord
  <2> QED BY <1>2, <2>1
<1>5. LogInv'
  BY <1>1, <1>2 DEF LogInv
<1>6. JobsInv'
  <2>1. \A i \in Turn :
          /\ task'[i] = [status |-> task'[i].status, frozen |-> task'[i].frozen,
                         rows |-> task'[i].rows, at |-> task'[i].at,
                         topic |-> task'[i].topic, result |-> task'[i].result]
          /\ task'[i].frozen \in Snapshots
          /\ task'[i].rows \in {task'[i].frozen, <<>>}
          /\ task'[i].status \in {"new", "queued"} => task'[i].rows = <<>>
    <3> TAKE i \in Turn
    <3>1. CASE i = j
      BY <1>1, <1>4, <3>1, TurnRecord
    <3>2. CASE i # j
      <4>1. task'[i] = task[i]
        BY <1>4, <3>2
      <4> QED BY <1>1, <4>1, TurnRecord
    <3> QED BY <3>1, <3>2
  <2>2. task' = [i \in Turn |-> task'[i]]
    BY <1>2, <1>4
  <2> QED BY <2>1, <2>2, <1>3 DEF JobsInv
<1>7. \A i \in Done' : i = j \/ (i \in Done /\ task'[i] = task[i])
  BY <1>4 DEF Done
<1>8. \A i \in Done' : Compiled(task'[i]) /\ ShownOf(task'[i])
  BY <1>1, <1>2, <1>7
<1> QED BY <1>2, <1>5, <1>6, <1>8 DEF ContextInv

LEMMA EvictStep == ASSUME ContextInv, NEW w \in Worker, Evict(w) PROVE ContextInv'
<1>1. LogInv /\ CacheInv /\ JobsInv /\ \A i \in Done : Compiled(task[i]) /\ ShownOf(task[i])
  BY DEF ContextInv
<1>2. UNCHANGED <<messages, task>>
  BY DEF Evict
<1>3. NoEntry.upto = 0 /\ NoEntry.data = <<>>
  BY DEF NoEntry
<1> DEFINE none == [m \in Message |-> NoEntry]
<1>4. /\ states' \in {states, [states EXCEPT ![w] = none]}
      /\ indexes' \in {indexes, [indexes EXCEPT ![w] = none]}
  BY DEF Evict
<1>5. Snapshots' = Snapshots
  BY <1>2 DEF Snapshots
<1>6. /\ states' = [x \in Worker |-> [m \in Message |-> states'[x][m]]]
      /\ indexes' = [x \in Worker |-> [m \in Message |-> indexes'[x][m]]]
      /\ \A x \in Worker, m \in Message :
           /\ states'[x][m] \in {states[x][m], NoEntry}
           /\ indexes'[x][m] \in {indexes[x][m], NoEntry}
  <2>1. /\ states = [x \in Worker |-> [m \in Message |-> states[x][m]]]
        /\ indexes = [x \in Worker |-> [m \in Message |-> indexes[x][m]]]
    BY <1>1 DEF CacheInv
  <2> HIDE DEF none
  <2>2. /\ none = [m \in Message |-> none[m]] /\ \A m \in Message : none[m] = NoEntry
    BY DEF none
  <2>3. /\ states' = [x \in Worker |-> [m \in Message |-> states'[x][m]]]
        /\ \A x \in Worker, m \in Message : states'[x][m] \in {states[x][m], NoEntry}
    <3>1. CASE states' = states
      BY <2>1, <3>1
    <3>2. CASE states' = [states EXCEPT ![w] = none]
      BY <2>1, <2>2, <3>2
    <3> QED BY <1>4, <3>1, <3>2
  <2>4. /\ indexes' = [x \in Worker |-> [m \in Message |-> indexes'[x][m]]]
        /\ \A x \in Worker, m \in Message : indexes'[x][m] \in {indexes[x][m], NoEntry}
    <3>1. CASE indexes' = indexes
      BY <2>1, <3>1
    <3>2. CASE indexes' = [indexes EXCEPT ![w] = none]
      BY <2>1, <2>2, <3>2
    <3> QED BY <1>4, <3>1, <3>2
  <2> QED BY <2>3, <2>4
<1>7. CacheInv'
  <2>1. \A x \in Worker, m \in Message :
          KnowsState(states'[x][m], Snapshots) /\ KnowsTopics(indexes'[x][m], Snapshots)
    <3> TAKE x \in Worker, m \in Message
    <3>1. KnowsState(NoEntry, Snapshots) /\ KnowsTopics(NoEntry, Snapshots)
      BY <1>3 DEF KnowsState, KnowsTopics
    <3>2. KnowsState(states[x][m], Snapshots) /\ KnowsTopics(indexes[x][m], Snapshots)
      BY <1>1 DEF CacheInv
    <3> QED BY <1>6, <3>1, <3>2
  <2> QED BY <1>5, <1>6, <2>1 DEF CacheInv, KnowsState, KnowsTopics
<1>8. LogInv' /\ JobsInv' /\ \A i \in Done' : Compiled(task'[i]) /\ ShownOf(task'[i])
  BY <1>1, <1>2, <1>5 DEF LogInv, JobsInv, Done
<1> QED BY <1>7, <1>8 DEF ContextInv

(* What every step preserves.                                              *)
THEOREM ContextInductive == ContextSpec => []ContextInv
<1>1. ContextInit => ContextInv
  BY ContextStarts
<1>2. ContextInv /\ [ContextNext]_contextVars => ContextInv'
  <2> SUFFICES ASSUME ContextInv, [ContextNext]_contextVars PROVE ContextInv'
    OBVIOUS
  <2>1. CASE UNCHANGED contextVars
    BY <2>1 DEF contextVars, ContextInv, LogInv, CacheInv, JobsInv, KnowsState, KnowsTopics,
                Snapshots, Done
  <2>2. CASE Say
    BY <2>2, SayStep
  <2>3. ASSUME NEW j \in Turn, Enqueue(j) \/ Requeue(j) PROVE ContextInv'
    BY <2>3, EnqueueStep, RequeueStep
  <2>4. ASSUME NEW w \in Worker, NEW j \in Turn, Materialize(w, j) \/ CompileJob(w, j)
        PROVE  ContextInv'
    BY <2>4, MaterializeStep, CompileJobStep
  <2>5. ASSUME NEW w \in Worker, Evict(w) PROVE ContextInv'
    BY <2>5, EvictStep
  <2> QED BY <2>1, <2>2, <2>3, <2>4, <2>5 DEF ContextNext
<1> QED BY <1>1, <1>2, PTL DEF ContextSpec

(* A job is compiled from what it froze, or from nothing, and the caches of *)
(* its process answer as a scan from scratch would.                        *)
THEOREM CompiledFromFrozen == ContextSpec => []CompiledFromFrozenHistory
<1>1. ContextInv => CompiledFromFrozenHistory
  <2> SUFFICES ASSUME ContextInv, NEW j \in Done
               PROVE  /\ task[j].rows \in {task[j].frozen, <<>>} /\ Compiled(task[j])
    BY DEF CompiledFromFrozenHistory, Compiled
  <2> QED BY DEF ContextInv, JobsInv, Done
<1> QED BY <1>1, ContextInductive, PTL

(* A provider is shown the newest message, in the order of the log and      *)
(* within what its adapter reads.                                          *)
THEOREM ShowsNewest == ContextSpec => []NewestIsShown
<1>1. ContextInv => NewestIsShown
  BY DEF ContextInv, ShownOf, ShownAs, NewestIsShown
<1> QED BY <1>1, ContextInductive, PTL
=============================================================================
