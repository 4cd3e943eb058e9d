\* One teardown request for a UE whose first session has an S1-U path; no
\* faults, no stray datagrams.
CONSTANTS
  s1 = s1  s2 = s2  s3 = s3  sgw1 = sgw1  stranger = stranger
  Sess <- ThreeSess
  InitSess <- SessOrder
  S1u <- WithS1u
  Disconnecting <- PdnWillDisconnect
  Sgws = {sgw1}
  Strangers = {}
  EnbUe = TRUE
  QueueSize = 1
  MaxRecv = 1
  MaxTeardown = 1
  MaxSend = 0
  BuildFaults = FALSE
SPECIFICATION Spec
PROPERTY DeleteAllTerminates
