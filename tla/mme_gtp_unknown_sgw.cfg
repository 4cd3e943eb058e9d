\* One datagram, from an address that is no configured SGW; nothing else.
CONSTANTS
  s1 = s1  s2 = s2  s3 = s3  sgw1 = sgw1  stranger = stranger
  Sess <- ThreeSess
  InitSess <- SessOrder
  S1u <- WithS1u
  Disconnecting <- PdnWillDisconnect
  Sgws = {sgw1}
  Strangers = {stranger}
  EnbUe = TRUE
  QueueSize = 1
  MaxRecv = 1
  MaxTeardown = 0
  MaxSend = 0
  BuildFaults = FALSE
SPECIFICATION Spec
INVARIANT UnknownSgwDropped
