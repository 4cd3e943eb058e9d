\* Two dispatch threads of one HSS process sharing db_lock: remote
\* subscriber with one pooled vector (pool runs dry) and a local one.
CONSTANTS
  w1 = w1  w2 = w2  h1 = h1  h2 = h2
  imsiA = imsiA  imsiB = imsiB  imsiR = imsiR  imsiU = imsiU
  Zero = Zero  RandFnBytes = RandFnBytes  Garbage = Garbage
  NoVector = NoVector  NoWorker = NoWorker  NoResync = NoResync
  VisitedPlmn = VisitedPlmn  UserNameBytes = UserNameBytes
  Workers <- TwoWorkers
  Instance <- SharedInstance
  Imsis <- AllImsis
  InitDb <- DbSmall
  Rands <- MCRands
  ResyncInfo <- ResyncNone
  SqnWidth = 8
  RefillCount = 2
  StoreFaults = FALSE
  MaxRequests = 3
SPECIFICATION Spec
INVARIANTS TypeOK PoolVectorsDeliveredOnce
PROPERTIES AnswerEventually
