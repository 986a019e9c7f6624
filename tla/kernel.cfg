SPECIFICATION Spec
CONSTANTS
  Kernel = Kernel
  Adapter = Adapter
  Evolution = Evolution
  Part = {Kernel, Adapter, Evolution}
  Scenarios <- Worlds
  FarmYields <- Yields
  MaxSteps = 5
  Ranked <- Picks
  Ticket = {t1, t2}
  Call = {c1, c2}
  Gateway = {g1, g2}
  MaxTime = 2
  TicketLife = 1
  Searcher = {s1, s2}
  Landscapes <- Lands
  FirstGrade <- First
  Population = 4
  PlateauRounds = 1
  RefinementRounds = 1
  TrustElites = 1
  Alphas = 1
  Bisections = 2
  Tolerance = 1
  MaxPerCell = 2
  MaxSpecialists = 2
  MaxSearches = 2
SYMMETRY Symmetry
INVARIANTS KernelSound TicketsAreOneShot 
CHECK_DEADLOCK FALSE
