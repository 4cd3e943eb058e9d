\* One dispatch thread; the remote subscriber's pool holds one vector, so
\* its second AIR finds the pool empty.
CONSTANTS
  w1 = w1  w2 = w2  h1 = h1  h2 = h2
  imsiA = imsiA  imsiB = imsiB  imsiR = imsiR  imsiU = imsiU
  Zero = Zero  RandFnBytes = RandFnBytes  Garbage = Garbage
  NoVector = NoVector  NoWorker = NoWorker  NoResync = NoResync
  VisitedPlmn = VisitedPlmn  UserNameBytes = UserNameBytes
  Workers <- OneWorker
  Instance <- OneInstance1
  Imsis <- AllImsis
  InitDb <- DbSmall
  Rands <- MCRands
  ResyncInfo <- ResyncNone
  SqnWidth = 8
  RefillCount = 2
  StoreFaults = FALSE
  MaxRequests = 2
SPECIFICATION Spec
PROPERTY EmptyPoolAnswered
