\* Two threads of one HSS process serve AIRs for the same local subscriber.
CONSTANTS
  w1 = w1  w2 = w2  h1 = h1  h2 = h2
  imsiA = imsiA  imsiB = imsiB  imsiR = imsiR  imsiU = imsiU
  Zero = Zero  RandFnBytes = RandFnBytes  Garbage = Garbage
  NoVector = NoVector  NoWorker = NoWorker  NoResync = NoResync
  VisitedPlmn = VisitedPlmn  UserNameBytes = UserNameBytes
  Workers <- TwoWorkers
  Instance <- SharedInstance
  Imsis <- AllImsis
  InitDb <- DbLocal
  Rands <- MCRands
  ResyncInfo <- ResyncNone
  SqnWidth = 8
  RefillCount = 1
  StoreFaults = FALSE
  MaxRequests = 2
SPECIFICATION Spec
INVARIANT NoVectorReuse

