CONSTANTS
  TSPktMin = 4
  Datagrams <- MCDatagrams
SPECIFICATION Spec
INVARIANT ExtractMatchesSpec
