\* A scan and two overlapping flush jobs.  The margin just covers a request and the
\* clocks; the clock goes well past the life of the first refresh token.
SPECIFICATION Spec
CONSTANTS
  Caller = {scan, flush1, flush2}
  AccessTTL = 5
  RefreshTTL = 10
  Margin = 2
  Timeout = 1
  Skew = 1
  MaxTime = 24
INVARIANTS
  TypeOK
  SentValid
  KeepsAccess
