SPECIFICATION FairSpec
CONSTANTS
  e1 = e1
  e2 = e2
  e3 = e3
  Element = {e1, e2, e3}
  Dir = {"energy"}
  Root = "/"
  DirectoryOf <- Places
  Rootless = {e3}
  Kind = {"TH1", "int"}
  Histogram = {"TH1"}
  None = None
INVARIANTS
  OfferFollowsBooking
  FlagKeepsListTold
PROPERTY BookedGetsTold
