SPECIFICATION FairSpec
CONSTANTS
  Senders <- AllSenders
  Persisters <- BothWrite
  Workers <- OneWorker
  Kinds <- LiveKinds
  Options = {"short", "long"}
  Chats = {"a"}
  MaxRetries = 2
  RetryTicks = 1
  Expire = 2
  Margin = 1
  MaxCommands = 1
  MaxAlerts = 1
INVARIANTS
  ReplyIsTrue
  TokenFresh
  NoNeedlessRefresh
  SentMeansDelivered
PROPERTIES
  CommandsEnd
CHECK_DEADLOCK FALSE
