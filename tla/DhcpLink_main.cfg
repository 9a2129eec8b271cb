SPECIFICATION FairSpec
CONSTANTS
  Leases = {a1}
  Static = s0
  NoAddr = none
  MaxTries = 2
  SelectTries = 3
  RebootTries = 2
  TriesCap = 4
  AgainMax = 3
  Polls = 2
  MaxFlips = 3
  MaxBad = 1
INVARIANTS
  DhcpInv
  StateFollowsLink
  SearchHasClient
PROPERTIES
  SearchEnds
