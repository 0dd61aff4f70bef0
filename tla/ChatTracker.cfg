SPECIFICATION FollowSpec
CONSTANTS
  s1 = s1
  s2 = s2
  w = w
  Requests = {s1, s2, w}
  Streams = {s1, s2}
  Ids = {m1, m2}
  HistoryCap = 3
  TailLength = 2
  FeedCap = 1
INVARIANTS
  CountersBalanced
  OneStoryEach
  RingFollowsFeed
  FollowIsHonest
CONSTRAINT FewWhileFollowed
SYMMETRY StreamSymmetry
CHECK_DEADLOCK FALSE
