----------------------------- MODULE IndexBuild -----------------------------
(* The derived index of one source file in the retrieval workers              *)
(* (services/multimodal_retriever: vector_store.py and the hierarchical WeMM  *)
(* and LCO workers).  Worker processes share one SQLite store; a lease keeps  *)
(* them from building the same index twice, and runs out when they die.       *)
(* A part is a text chunk, or a coarse or fine window of a recording.  Each   *)
(* statement on the store is a transaction of its own; one request at a time  *)
(* runs in a process (gpu_lock).  The in-memory vector cache of a process is  *)
(* left out: it answers what the store would.                                 *)
EXTENDS Integers, Sequences, SequencesExt, FiniteSets

CONSTANTS Worker,      \* worker processes
          Chunks,      \* text chunks of the file
          Windows,     \* coarse windows of the full pass over a recording
          FullMax,     \* text_max_chunks
          OnlineMax,   \* online_text_max_chunks
          BatchLimit,  \* chunks indexed between two refreshes of the lease
          MaxCrashes, MaxPrunes  \* bounds on the faults

ASSUME IndexAssumption ==
  /\ {Chunks, Windows, FullMax, OnlineMax, BatchLimit} \subseteq Nat \ {0}
  /\ OnlineMax <= FullMax
  /\ {MaxCrashes, MaxPrunes} \subseteq Nat

VARIABLES kind,    \* "text" or "segments"
          vectors, \* parts with a row in vectors
          units,   \* parts with a row in units
          marker,  \* the completion marker: the count of chunks, or NoMarker
          lease,   \* the row of build_leases
          worker,  \* the request each process is serving
          crashes, prunes

indexVars == <<kind, vectors, units, marker, lease, worker, crashes, prunes>>

NoMarker == -1
Nobody == "nobody"
ASSUME WorkerAssumption == Nobody \notin Worker

Free == [owner |-> Nobody, live |-> FALSE]
Waiting == [pc |-> "idle", full |-> FALSE, late |-> FALSE, todo |-> <<>>,
            missing |-> <<>>, count |-> 0, level |-> "coarse", overran |-> FALSE]

Smaller(a, b) == IF a < b THEN a ELSE b

\* Windows of an online pass are wider than those of the full pass.
Wide == Windows + 1
Fine == Windows + 2
Whole == 1..(IF kind = "text" THEN Smaller(Chunks, FullMax) ELSE Windows)
Pass(full) == IF full THEN [i \in Whole |-> i]
              ELSE IF kind = "text" THEN [i \in 1..Smaller(Chunks, OnlineMax) |-> i]
              ELSE <<Wide>>

\* list_source_vectors: units joined with their vectors.
Rows == units \cap vectors
Coarse == Rows \ {Fine}

IndexInit ==
  /\ kind \in {"text", "segments"}
  /\ vectors = {} /\ units = {} /\ marker = NoMarker
  /\ lease = Free
  /\ worker = [w \in Worker |-> Waiting]
  /\ crashes = 0 /\ prunes = 0

At(w, pc) == worker[w].pc = pc
Done(w) == worker' = [worker EXCEPT ![w] = Waiting]
StoreUnchanged == UNCHANGED <<vectors, units, marker>>
Quiet == UNCHANGED <<kind, crashes, prunes>>

\* _ensure_text_index: the marker vouches for the rows, or an online request
\* takes what is there.  A recording always asks for the lease.
Answered(full) == /\ kind = "text"
                  /\ \/ marker # NoMarker /\ Cardinality(Rows) = marker
                     \/ Rows # {} /\ ~full

Request(w, full) ==
  /\ At(w, "idle") /\ ~Answered(full)
  /\ worker' = [worker EXCEPT ![w] = [Waiting EXCEPT !.pc = "claim", !.full = full]]
  /\ StoreUnchanged /\ Quiet /\ UNCHANGED lease

\* variant: only the owner's release frees a lease.
UntilReleased(w) == lease.owner \in {Nobody, w}
Claimable(w) == lease.owner = Nobody \/ ~lease.live \/ lease.owner = w

\* try_claim_build; the coarse pass of a recording is skipped by an online
\* request that finds coarse rows.
Claim(w) ==
  /\ At(w, "claim") /\ Claimable(w)
  /\ lease' = [owner |-> w, live |-> TRUE]
  /\ LET reuse == kind = "segments" /\ ~worker[w].full /\ Coarse # {}
     IN worker' = [worker EXCEPT ![w].pc = IF reuse THEN "refresh" ELSE "scan",
                               ![w].todo = IF reuse THEN <<>> ELSE Pass(worker[w].full)]
  /\ StoreUnchanged /\ Quiet

\* The loser answers from the rows that are there.
LoseClaim(w) ==
  /\ At(w, "claim") /\ ~Claimable(w)
  /\ Done(w) /\ StoreUnchanged /\ Quiet /\ UNCHANGED lease

BatchReady(w) == \/ worker[w].todo = <<>>
                 \/ kind = "text" /\ Len(worker[w].missing) >= BatchLimit

\* The lease is refreshed after each batch of chunks and after an online coarse
\* pass; a fine pass and a full pass over windows end with the release.
AfterBatch(w) == IF worker[w].level = "fine" \/ (kind = "segments" /\ worker[w].full)
                 THEN "release" ELSE "refresh"
AfterLevel(w) == IF kind = "text" THEN "mark" ELSE AfterBatch(w)

\* One part is read; a vector that is in the store already only needs its unit.
Scan(w) ==
  /\ At(w, "scan") /\ ~BatchReady(w)
  /\ LET part == Head(worker[w].todo) IN
     /\ worker' = [worker EXCEPT ![w].todo = Tail(@), ![w].count = IF kind = "text" THEN @ + 1 ELSE @,
                     ![w].missing = IF part \in vectors THEN @ ELSE Append(@, part)]
     /\ units' = IF part \in vectors THEN units \cup {part} ELSE units
  /\ UNCHANGED <<kind, vectors, marker, lease, crashes, prunes>>

\* The deadline of an online request has passed: what was read and is not yet
\* encoded is dropped.
StopScan(w) ==
  /\ At(w, "scan") /\ ~worker[w].full
  /\ worker' = [worker EXCEPT ![w].pc = AfterLevel(w), ![w].late = TRUE,
                              ![w].missing = <<>>, ![w].todo = <<>>]
  /\ StoreUnchanged /\ Quiet /\ UNCHANGED lease

StartBatch(w) ==
  /\ At(w, "scan") /\ BatchReady(w)
  /\ worker' = [worker EXCEPT ![w].pc = IF worker[w].missing = <<>> THEN AfterBatch(w)
                                         ELSE "encode"]
  /\ StoreUnchanged /\ Quiet /\ UNCHANGED lease

\* _put_cached_vector, then put_unit.
PutVector(w) ==
  /\ At(w, "encode")
  /\ vectors' = vectors \cup {Head(worker[w].missing)}
  /\ worker' = [worker EXCEPT ![w].pc = "unit"]
  /\ UNCHANGED <<kind, units, marker, lease, crashes, prunes>>

\* Between two batches of windows the deadline is looked at again.
PutUnit(w) ==
  /\ At(w, "unit")
  /\ units' = units \cup {Head(worker[w].missing)}
  /\ \E stop \in {FALSE, kind = "segments" /\ ~worker[w].full} :
       LET left == IF stop THEN <<>> ELSE Tail(worker[w].missing) IN
       worker' = [worker EXCEPT ![w].missing = left, ![w].late = @ \/ stop,
                    ![w].pc = IF left = <<>> THEN AfterBatch(w) ELSE "encode"]
  /\ Quiet /\ UNCHANGED <<vectors, marker, lease>>

\* refresh_build_lease: a lost lease is not noticed.
Refresh(w) ==
  /\ At(w, "refresh")
  /\ IF lease.owner = w
     THEN lease' = [lease EXCEPT !.live = TRUE] ELSE UNCHANGED lease
  /\ worker' = [worker EXCEPT ![w].overran = @ /\ lease.owner # w,
                  ![w].pc = IF worker[w].todo = <<>> THEN "mark" ELSE "scan"]
  /\ StoreUnchanged /\ Quiet

\* variant: a prefix the deadline cut short is marked as well.
ShortScan(w) == worker[w].full \/ worker[w].count < OnlineMax
FullScan(w) == worker[w].full \/ (worker[w].count < OnlineMax /\ ~worker[w].late)

\* Text: the completion marker of a full scan; the deadline of an online
\* request may pass on the way here.
MarkText(w) ==
  /\ At(w, "mark") /\ kind = "text"
  /\ \/ FullScan(w) /\ marker' = worker[w].count
     \/ (~FullScan(w) \/ ~worker[w].full) /\ UNCHANGED marker
  /\ worker' = [worker EXCEPT ![w].pc = "release"]
  /\ Quiet /\ UNCHANGED <<vectors, units, lease>>

\* Recordings: without a coarse window, or past the deadline, the answer is
\* ready; else a fine pass follows.
Locate(w) ==
  /\ At(w, "mark") /\ kind = "segments"
  /\ \/ worker' = [worker EXCEPT ![w].pc = "release"]
     \/ /\ ~worker[w].late /\ Coarse # {}
        /\ worker' = [worker EXCEPT ![w].pc = "scan", ![w].level = "fine", ![w].todo = <<Fine>>]
  /\ StoreUnchanged /\ Quiet /\ UNCHANGED lease

\* variant: the lease is deleted whoever holds it by now.
AnyOwner(w) == TRUE
StillOwner(w) == lease.owner = w

\* release_build, on every way out.
Release(w) ==
  /\ At(w, "release")
  /\ lease' = IF StillOwner(w) THEN Free ELSE lease
  /\ Done(w) /\ StoreUnchanged /\ Quiet

\* The encoder, the file or the store raises: 503, by way of the finally.
Raises(w) ==
  /\ worker[w].pc \in {"scan", "encode", "unit", "refresh", "mark"}
  /\ worker' = [worker EXCEPT ![w].pc = "release"]
  /\ StoreUnchanged /\ Quiet /\ UNCHANGED lease

\* The process dies; its successor has another build_owner.
Crash(w) ==
  /\ ~At(w, "idle") /\ crashes < MaxCrashes
  /\ crashes' = crashes + 1
  /\ Done(w)
  /\ lease' = IF lease.owner = w THEN [lease EXCEPT !.owner = "gone"] ELSE lease
  /\ StoreUnchanged /\ UNCHANGED <<kind, prunes>>

\* build_lease_seconds have passed.
Expire ==
  /\ lease.owner # Nobody /\ lease.live
  /\ lease' = [lease EXCEPT !.live = FALSE]
  /\ worker' = [w \in Worker |-> IF lease.owner = w THEN [worker[w] EXCEPT !.overran = TRUE]
                                 ELSE worker[w]]
  /\ StoreUnchanged /\ Quiet

\* prune, by a request that finds too many rows: the oldest vectors of the
\* whole store, the units they orphan, and the expired leases.
Prune ==
  /\ prunes < MaxPrunes /\ prunes' = prunes + 1
  /\ \E kept \in SUBSET vectors :
       /\ vectors' = kept
       /\ units' = IF kept = vectors THEN units ELSE units \cap kept
  /\ lease' = IF lease.live THEN lease ELSE Free
  /\ UNCHANGED <<kind, marker, worker, crashes>>

BuildStep(w) ==
  \/ Claim(w) \/ LoseClaim(w) \/ Scan(w) \/ StopScan(w) \/ StartBatch(w)
  \/ PutVector(w) \/ PutUnit(w) \/ Refresh(w) \/ MarkText(w) \/ Locate(w) \/ Release(w)

IndexNext ==
  \/ \E w \in Worker : \/ \E full \in BOOLEAN : Request(w, full)
                       \/ BuildStep(w) \/ Raises(w) \/ Crash(w)
  \/ Expire \/ Prune

\* A thread runs on until its request is served; time passes.
IndexSpec == /\ IndexInit /\ [][IndexNext]_indexVars
             /\ \A w \in Worker : WF_indexVars(BuildStep(w))
             /\ WF_indexVars(Expire)
-----------------------------------------------------------------------------
Building(w) == worker[w].pc \notin {"idle", "claim"}

\* Two processes build at once only if one of them overran its lease
\* (vector_store.py:287, "without duplicating expensive GPU work").
BuildersExclude ==
  \A v, w \in Worker : v # w /\ Building(v) /\ Building(w) =>
    worker[v].overran \/ worker[w].overran

\* The marker vouches for the whole file, whoever wrote it and whatever was
\* pruned: an index taken for complete has every chunk
\* (worker_wemm_hierarchical.py:434-440).
CompleteIsWhole == marker # NoMarker /\ Cardinality(Rows) = marker => Rows = Whole

IndexSound == BuildersExclude /\ CompleteIsWhole

\* Whatever dies, every process can claim the build again and again
\* (vector_store.py:288, "worker crashes cannot permanently wedge an asset").
LeaseNeverWedges == \A w \in Worker : []<>Claimable(w)
=============================================================================
