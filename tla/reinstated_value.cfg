SPECIFICATION Spec
CONSTANTS
  Conversation = Conversation
  Evidence = Evidence
  Memory = Memory
  Part = {Conversation}
  Catalogs <- MaterialSets
  Queries <- Wordings
  Requested = {"b1"}
  Routes <- Abilities
  KindBudget <- OneEach
  AssetBudget = 5
  DeepPromotions = 2
  PlainPromotions = 1
  Worker = {w1}
  Turn = {a, b}
  Utterances <- Talk
  Topics = {"hp"}
  StateItems = 2
  Recent = 2
  Retrieved = 1
  MessageCost = 2
  HistoryBudget = 5
  MaxHistory = 4
  PackBudget = 4
  TokenRooms = {2, 9}
  MaxMessages = 4
  Client = {a, b}
  Slot <- TwoScopes
  JobScope <- ForBuild
  Proposal = {p1}
  SlotOf <- IntoGeneral
  Job = {j1}
  Retries = 2
  MaxItems = 2
  MaxDeletes = 1
SYMMETRY Swap
INVARIANT LastWordWins
CHECK_DEADLOCK FALSE
