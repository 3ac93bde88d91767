CONSTANTS
  t1 = t1
  t2 = t2
  NoTopic = NoTopic
  Topics <- TwoTopics
  Plans <- SomePlans
  Chosen = {1}
  MaxConn = 2
SPECIFICATION FairSpec
INVARIANTS TypeOK Tracked TablesAgree
PROPERTIES Delivered EventuallyAgree
CHECK_DEADLOCK FALSE
