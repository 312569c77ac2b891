\* Two addresses checked at once, two identifiers, one reply of another program.
CONSTANTS
  Addresses = {a1, a2}
  Workers = {w1, w2}
  Enabled <- IcmpUdpHttp
  Idents = {i1, i2}
  Strays = 1
  Faults = TRUE
  FixedIdent = i1
SPECIFICATION ReaderSpec
INVARIANTS MixedUpByIdentOnly ChainIsFollowed TtlIsFresh
PROPERTIES AliveSpec OwnReplyHeard DiscoveryEnds
\* The hosts are fingerprinted.
CHECK_DEADLOCK FALSE
