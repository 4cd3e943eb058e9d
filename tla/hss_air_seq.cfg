\* One dispatch thread, every AIR path: unprovisioned, first AIR of a
\* subscriber, SQN wrap, resync with good and bad MAC_S, pooled vectors
\* until the pool is empty.
CONSTANTS
  w1 = w1  w2 = w2  h1 = h1  h2 = h2
  imsiA = imsiA  imsiB = imsiB  imsiR = imsiR  imsiU = imsiU
  Zero = Zero  RandFnBytes = RandFnBytes  Garbage = Garbage
  NoVector = NoVector  NoWorker = NoWorker  NoResync = NoResync
  VisitedPlmn = VisitedPlmn  UserNameBytes = UserNameBytes
  Workers <- OneWorker
  Instance <- OneInstance1
  Imsis <- AllImsis
  InitDb <- DbMixed
  Rands <- MCRands
  ResyncInfo <- ResyncMixed
  SqnWidth = 8
  RefillCount = 9
  StoreFaults = FALSE
  MaxRequests = 4
SPECIFICATION Spec
INVARIANTS TypeOK NoVectorReuse PoolVectorsDeliveredOnce
PROPERTIES SqnAdvance AnswerEventually AirRefinement
