\* Two items of different channels, up to three clusters: an item may be in several
\* of them, and merges follow one another.  An item expires after one day.
SPECIFICATION Spec
CONSTANTS
  a = a
  b = b
  p1 = p1
  p2 = p2
  Channels = {a, b}
  Posts = {p1, p2}
  ChannelOf <- MCChannelOf
  MaxQuality = 1
  MaxItem = 2
  MaxCluster = 3
  MaxNow = 1
  ItemsDays = 1
  NULL = NULL
INVARIANT RepresentativeIsMember
PROPERTIES ChangedClusterIsReranked DuplicatesStayTogether ImplementsClusterTable
