\* The smallest connection whose response is cut by a gap, and without limits
\* or gc having touched it.
SPECIFICATION Spec
CONSTANTS
  Keys = {k1}
  MaxRequests = 2
  reqBacklogCap = 2
  completeResponsePairRetries = 1
  Ages = FALSE
  None = None
INVARIANT
  NoMispairAfterGap
CHECK_DEADLOCK FALSE
