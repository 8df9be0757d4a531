SPECIFICATION FairSpec
CONSTANTS
  Callers = {a, b}
  source = source
  fresh = fresh
  Refs = {source, fresh}
  Requests <- MCRequests
  Nobody = Nobody
  MaxFaults = 2
INVARIANTS TypeOK OneConnection RepeatSucceeds
PROPERTY NeverWedged
