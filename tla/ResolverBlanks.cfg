\* One list fails.
SPECIFICATION Spec
CONSTANTS
  Ids = {1, 2}
  Address <- AddressOf
  Pods = {p1}
  Owner <- OwnerOf
  PodIP = podIP
  SvcIP = svcIP
  maxPendingResolve = 1
  maxResolveAttempts = 2
  MaxFaults = 1
  None = None
PROPERTY
  FailedListKeepsNames
