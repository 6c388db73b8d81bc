SPECIFICATION FairSpec
CONSTANTS
  Threads = {t1, t2, t3}
  Capacity = 2
  Unbounded = Unbounded
  MaxSends = 4
INVARIANTS
  NoSleepingReceiver
  NoSleepingSender
PROPERTIES
  MailIsFetched
  ChannelSpec
CHECK_DEADLOCK FALSE
