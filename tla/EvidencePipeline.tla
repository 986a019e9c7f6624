-------------------------- MODULE EvidencePipeline --------------------------
(* One analysis of a task by the ContextOS analyzer                           *)
(* (worldforge/product/contextual_analyzer*.py over product/analyzer.py):     *)
(* scope filter, selection of the materials, retrieval plan, the fail-open    *)
(* retrieval client and its coordinator, promotions, the bounded payload, the *)
(* choice of a provider and the claim envelope.  Scores are abstracted to the *)
(* order they give, a scope to its build, a query to the markers it contains. *)
(* What an analysis computes is private to its request, so one is enough.     *)
EXTENDS Integers, Sequences, SequencesExt, FiniteSets, FiniteSetsExt, Arrange

CONSTANTS Catalogs,  \* materials of a task: sequences of [kind, builds, long,
                     \* small, sound]
          Queries,   \* sets of markers a query may contain
          Requested, \* builds a request may name
          Routes,    \* sets of what the providers at hand can take in
          KindBudget, AssetBudget,        \* slots of the selection
          DeepPromotions, PlainPromotions \* max_semantic_promotions

NoBuild == "no-build"
Kinds == {"text", "image", "video", "audio", "file"}

ASSUME EvidenceAssumption ==
  /\ \A c \in Catalogs : /\ Len(c) \in Nat /\ DOMAIN c = 1..Len(c)
                         /\ \A i \in DOMAIN c : c[i].kind \in Kinds
  /\ DOMAIN KindBudget = Kinds /\ \A k \in Kinds : KindBudget[k] >= 1
  /\ Cardinality(Kinds) <= AssetBudget
  /\ {DeepPromotions, PlainPromotions} \subseteq Nat
  /\ NoBuild \notin Requested

ExactFrames == 4
RawVideos == 1
AudioBudget == 3
ImageBudget == 9
FramesPerVideo == 3
MaxImages == 10

VARIABLES analysis, \* what the worker was given
          stage,    \* where the coroutine stands
          rank,     \* material -> rank in _context, 0 when it is not selected
          baseline, \* ghost: the ranks before any retrieval
          sent,     \* materials described to the retriever
          hits,     \* accepted hits, best first
          located,  \* hits with a time or character range
          payload,  \* what the provider was shown
          claim     \* the envelope of the result

evidenceVars == <<analysis, stage, rank, baseline, sent, hits, located, payload, claim>>

\* resolve_project_scope over the materials known when the job was enqueued.
Resolve(requested, assets) ==
  LET observed == UNION {assets[i].builds : i \in DOMAIN assets}
  IN CASE requested # NoBuild -> requested
       [] requested = NoBuild /\ Cardinality(observed) = 1 -> CHOOSE b \in observed : TRUE
       [] OTHER -> NoBuild  \* none, or a conflict that nobody may guess away

Asset == DOMAIN analysis.assets
Of(kind) == {a \in Asset : analysis.assets[a].kind = kind}
Asks(marker) == marker \in analysis.query
Selected == {a \in Asset : rank[a] > 0}

\* _mismatches: an explicit build other than the frozen one.
Contradicts(a) == analysis.scope # NoBuild /\ \E b \in analysis.assets[a].builds : b # analysis.scope
Eligible == {a \in Asset : ~Contradicts(a)}
InScope(kind) == Of(kind) \cap Eligible

NoPayload == [from |-> {}, images |-> 0, temporal |-> 0, asked |-> 0, audio |-> 0, raw |-> 0]
NoClaim == [status |-> "none", verified |-> FALSE]

EvidenceInit ==
  /\ \E c \in Catalogs, q \in Queries, r \in Requested \cup {NoBuild}, route \in Routes,
        match \in BOOLEAN : \E known \in 0..Len(c) :
       analysis = [assets |-> c, query |-> q, scope |-> Resolve(r, SubSeq(c, 1, known)),
              routes |-> route, textHit |-> match]
  /\ stage = "compile"
  /\ rank = [a \in DOMAIN analysis.assets |-> 0] /\ baseline = rank
  /\ sent = {} /\ hits = <<>> /\ located = {}
  /\ payload = NoPayload /\ claim = NoClaim

\* Of a sequence without repetitions; 0 when the element is not there.
Position(seq, a) == IF Contains(seq, a) THEN CHOOSE i \in DOMAIN seq : seq[i] = a ELSE 0

\* MultimodalContextCompiler.compile: the best of each kind, then the best of
\* the rest while their kind and the whole have room.
Take(chosen, a) ==
  LET same == {c \in chosen : analysis.assets[c].kind = analysis.assets[a].kind}
  IN IF Cardinality(chosen) < AssetBudget /\ Cardinality(same) < KindBudget[analysis.assets[a].kind]
     THEN chosen \cup {a} ELSE chosen

BestOfKind(order) ==
  {a \in ToSet(order) : \A b \in ToSet(order) :
     analysis.assets[b].kind = analysis.assets[a].kind =>
       Position(order, a) <= Position(order, b)}

Selection(order) == FoldLeft(Take, BestOfKind(order), order)

Compile ==
  /\ stage = "compile"
  /\ \E order \in SetToSeqs(Eligible) : \E chosen \in {Selection(order)} :
     \E ranked \in {Kept(order, {i \in DOMAIN order : order[i] \in chosen})} :
       rank' = [a \in Asset |-> Position(ranked, a)]
  /\ baseline' = rank'
  /\ stage' = "plan"
  /\ UNCHANGED <<analysis, sent, hits, located, payload, claim>>

\* EvidenceController.plan over the eligible materials.
Deep == Asks("causal") \/ Asks("compare")
Content == ~Asks("identifier")
Visual == InScope("image") \cup InScope("video")
NeedsVisual == \/ Asks("visual")
               \/ Content /\ Visual # {}
               \/ Deep /\ InScope("video") # {}
NeedsAudio == \/ Asks("audio")
              \/ (Content \/ Asks("causal")) /\ InScope("audio") # {}
Hearable == InScope("audio") \cup {a \in InScope("video") : analysis.assets[a].sound}
TimestampDirect == Asks("temporal") /\ InScope("video") # {} /\ ~Deep

Semantic ==
  /\ ~TimestampDirect
  /\ \/ NeedsVisual /\ (Cardinality(Visual) > 1 \/ InScope("video") # {})
     \/ Asks("audio") /\ Hearable # {}
     \/ InScope("text") # {} /\ ~analysis.textHit
     \/ Deep /\ Cardinality(Eligible) > 1
     \/ Content /\ Cardinality({analysis.assets[a].kind : a \in Eligible} \ {"file"}) >= 2
     \/ Content /\ \E a \in InScope("video") \cup InScope("audio") : analysis.assets[a].long

MaxPromotions == IF Deep THEN DeepPromotions ELSE IF Semantic THEN PlainPromotions ELSE 0

FrameBudget == CASE ~NeedsVisual -> 0
                 [] NeedsVisual /\ Deep -> 6
                 [] NeedsVisual /\ ~Deep /\ Asks("temporal") -> 4
                 [] OTHER -> 3

SkipRetrieval ==
  /\ stage = "plan" /\ ~Semantic
  /\ stage' = "payload"
  /\ UNCHANGED <<analysis, rank, baseline, sent, hits, located, payload, claim>>

\* variant: the client describes every material of the task.
Everything(assets) == assets
\* scope_eligible_assets.
ScopeEligible(assets) == {a \in assets : ~Contradicts(a)}

Ask ==
  /\ stage = "plan" /\ Semantic
  /\ sent' = ScopeEligible(Asset)
  /\ stage' = "ranking"
  /\ UNCHANGED <<analysis, rank, baseline, hits, located, payload, claim>>

\* The coordinator: the workers score what they can take in, each may fail or
\* run out of its budget, and names give a lexical score to any.
Scorable == {a \in sent : analysis.assets[a].kind \in {"text", "image", "video"}
                          \/ (Asks("audio") /\ a \in Hearable)}
RankAnswers(scored, named) == SetToSeqs(scored \cup named)

\* The client keeps one hit of each material it sent, whatever came back.
Accepted(raw) ==
  Kept(raw, {i \in DOMAIN raw : raw[i] \in sent /\ \A k \in 1..(i - 1) : raw[k] # raw[i]})

Rank ==
  /\ stage = "ranking"
  /\ \E scored \in SUBSET Scorable, named \in {{}, sent}, stray \in Asset :
       \E raw \in RankAnswers(scored, named) :
         /\ hits' = Accepted(<<stray>> \o raw)
         /\ located' = scored
  /\ stage' = "promote"
  /\ UNCHANGED <<analysis, rank, baseline, sent, payload, claim>>

\* Timeout, refused connection, an error status or a malformed answer.
RankFails ==
  /\ stage = "ranking"
  /\ stage' = "payload"
  /\ UNCHANGED <<analysis, rank, baseline, sent, hits, located, payload, claim>>

\* variant: a hit takes a new rank even if the compiler had selected it.
AnyHit(a) == TRUE
Promotable(a) == rank[a] = 0

\* apply_retrieval_hits.
Promote ==
  /\ stage = "promote"
  /\ \E fresh \in {Kept(hits, {i \in DOMAIN hits : Promotable(hits[i])})} :
     \E taken \in {SubSeq(fresh, 1, Min({Len(fresh), MaxPromotions}))} :
       LET last == Max({rank[a] : a \in Asset}) IN
       rank' = [a \in Asset |-> IF Contains(taken, a) THEN last + Position(taken, a) ELSE rank[a]]
  /\ stage' = "payload"
  /\ UNCHANGED <<analysis, baseline, sent, hits, located, payload, claim>>

\* Points and ranges in time: the query's own, and those of located hits.
Moments(assets) ==
  {m \in assets \X {"query", "hit"} :
     IF m[2] = "query" THEN Asks("temporal") ELSE m[1] \in located /\ Contains(hits, m[1])}
Undated(assets) == {a \in assets : Moments({a}) = {}}
Small(assets) == {a \in assets : analysis.assets[a].small}
Room(budget, used) == IF used < budget THEN budget - used ELSE 0

\* augment_model_assets takes the materials in the order of their ranks, and
\* each kind of evidence until its budget is spent.
Inline(videos) ==
  {a \in Small(videos) : /\ NeedsVisual /\ NeedsAudio
                         /\ Cardinality({b \in Small(videos) : rank[b] < rank[a]}) < RawVideos}
\* A small recording is one clip; another has a clip of each of its moments.
Clips(shown) ==
  LET small == Small(shown \cap Of("audio"))
      cut == ((shown \cap Of("audio")) \ small)
             \cup {a \in shown \cap Of("video") : NeedsAudio /\ analysis.assets[a].sound}
  IN Moments(cut) \cup ((Undated(cut) \cup small) \X {"whole"})
Derived(shown) ==
  LET videos == shown \cap Of("video")
  IN [exact |-> Min({ExactFrames, FrameBudget, Cardinality(Moments(videos))}),
      raw   |-> Cardinality(Inline(videos)),
      scene |-> IF \E a \in Undated(videos) : a \notin Inline(videos) \/ analysis.assets[a].long
                THEN FrameBudget ELSE 0,
      audio |-> Min({AudioBudget, Cardinality(Clips(shown))})]

\* model_assets: pictures and key frames, up to their budget.
KeyFrames(shown) ==
  Min({ImageBudget, Cardinality(shown \cap Of("image"))
                    + FramesPerVideo * Cardinality(shown \cap Of("video"))})

\* variant: derived frames are merged behind the key frames.
LastInLine(temporal, rest) == Min({temporal, Room(MaxImages, rest)})
\* merge_temporal_evidence: exact frames, dense frames, then the rest.
FirstInLine(temporal, rest) == Min({temporal, MaxImages})

\* _model_assets, when ffmpeg works and when it does not.
Payload(ffmpeg) ==
  LET shown == {a \in Selected : \/ analysis.assets[a].kind \in {"image", "video"} /\ NeedsVisual
                                 \/ analysis.assets[a].kind = "audio" /\ NeedsAudio}
      made == Derived(shown)
      ranges == \E a \in shown : analysis.assets[a].kind = "video" /\ (Asks("range") \/ a \in located)
      asked == IF ffmpeg THEN made.exact + (IF ranges THEN FrameBudget ELSE 0) ELSE 0
      rest == KeyFrames(shown) + (IF ffmpeg THEN made.scene ELSE 0)
      kept == FirstInLine(asked, rest)
  IN [from |-> shown, asked |-> asked, temporal |-> kept,
      images |-> kept + Min({rest, MaxImages - kept}),
      audio |-> IF ffmpeg THEN made.audio
                ELSE Cardinality(Small(shown \cap Of("audio"))),
      raw |-> made.raw]

Silent(p) == [p EXCEPT !.audio = 0, !.from = {a \in @ : analysis.assets[a].kind # "audio"}]

\* ProviderRegistry.choose.
Fits(p) == \E can \in analysis.routes :
             /\ p.images > 0 => "image" \in can
             /\ p.audio > 0 => "audio" \in can
             /\ p.raw > 0 => "video" \in can

\* The whole payload, or the same without sound, or none: then the built-in
\* answer stands in, as it does when the provider fails.
Dispatch ==
  /\ stage = "payload"
  /\ \E ffmpeg \in BOOLEAN :
       LET whole == Payload(ffmpeg) IN
       \/ Fits(whole) /\ payload' = whole
       \/ ~Fits(whole) /\ whole.audio > 0 /\ Fits(Silent(whole)) /\ payload' = Silent(whole)
       \/ ~Fits(whole) /\ ~(whole.audio > 0 /\ Fits(Silent(whole))) /\ payload' = NoPayload
  /\ stage' = "conclude"
  /\ UNCHANGED <<analysis, rank, baseline, sent, hits, located, claim>>

\* variant: a causal claim is judged like an observation.
AsObservation(sources, localized, identity) == sources >= 1 /\ localized
\* build_claim_evidence_graph; no adapter ever executes the user's project.
Verified(sources, localized, identity) ==
  CASE Asks("causal") -> FALSE
    [] Asks("compare") /\ ~Asks("causal") -> identity /\ sources >= 1
    [] OTHER -> sources >= 1 /\ localized

\* Every material of the task counts here, those out of scope included.
Conclude ==
  /\ stage = "conclude"
  /\ LET identity == \E a \in Asset : analysis.assets[a].builds # {}
         status == CASE Asks("causal") -> "hypothesis"
                     [] Asks("compare") /\ ~Asks("causal") /\ ~identity -> "directional"
                     [] OTHER -> "observation"
     IN claim' = [status |-> status,
                  verified |-> Verified(Cardinality({analysis.assets[a].kind : a \in Asset}),
                                        Asset # {} \/ located # {}, identity)]
  /\ stage' = "done"
  /\ UNCHANGED <<analysis, rank, baseline, sent, hits, located, payload>>

EvidenceNext == \/ Compile \/ SkipRetrieval \/ Ask \/ Rank \/ RankFails
                \/ Promote \/ Dispatch \/ Conclude

EvidenceSpec == EvidenceInit /\ [][EvidenceNext]_evidenceVars
-----------------------------------------------------------------------------
\* A material of another build takes no slot, no request and no hit, and is not
\* shown to a provider, whatever the retriever answers (scoped_multimodal.py:42).
ScopeIsHard ==
  \A a \in Asset : Contradicts(a) =>
    rank[a] = 0 /\ a \notin sent /\ ~Contains(hits, a) /\ a \notin payload.from

\* Retrieval only adds: the compiler's own choice keeps its ranks, additions are
\* few and rank behind it (retrieval_sidecar.py:281, "without allowing an
\* embedding model to erase baseline evidence").
BaselineStands ==
  LET added == {a \in Asset : rank[a] # baseline[a]} IN
  /\ Cardinality(added) <= MaxPromotions
  /\ \A a \in added : baseline[a] = 0 /\ \A b \in Selected \ {a} :
       rank[b] # rank[a] /\ (baseline[b] > 0 => rank[b] < rank[a])

\* Frames cut for the moments in question are never crowded out of the payload
\* by key frames and scenes, although all share ten places (temporal_evidence.py:173).
MomentsAreShown == payload.temporal = payload.asked /\ payload.images <= MaxImages

\* The analyzer never calls a causal claim verified (claim_graph.py:169).
CausesStayHypotheses ==
  Asks("causal") /\ stage = "done" => claim.status = "hypothesis" /\ ~claim.verified

EvidenceSound == ScopeIsHard /\ BaselineStands /\ MomentsAreShown /\ CausesStayHypotheses
=============================================================================
