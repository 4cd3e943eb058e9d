\* One thread; every backend round-trip may fail.
CONSTANTS
  w1 = w1  w2 = w2  h1 = h1  h2 = h2
  imsiA = imsiA  imsiB = imsiB  imsiR = imsiR  imsiU = imsiU
  Zero = Zero  RandFnBytes = RandFnBytes  Garbage = Garbage
  NoVector = NoVector  NoWorker = NoWorker  NoResync = NoResync
  VisitedPlmn = VisitedPlmn  UserNameBytes = UserNameBytes
  Workers <- OneWorker
  Instance <- OneInstance1
  Imsis <- AllImsis
  InitDb <- DbSmall
  Rands <- MCRands
  ResyncInfo <- ResyncGood
  SqnWidth = 8
  RefillCount = 2
  StoreFaults = TRUE
  MaxRequests = 3
SPECIFICATION Spec
INVARIANTS TypeOK
PROPERTIES AnswerEventually
