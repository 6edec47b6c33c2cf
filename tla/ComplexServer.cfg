SPECIFICATION FairSpec
CONSTANTS
  Clients = {1, 2}
  Listener = 0
  MaxCommands = 2
  Peers = {1, 2}
  SendEvery = 2
  MaxTurns = 3
  SaveEvery = 3
  MaxStarted = 2
INVARIANTS
  UnsavedBounded
  TablesAgree
  AnswerMatches
  AnswersInOrder
  OnlyEarlyLost
PROPERTIES
  EverybodyServed
  ConnectionsReleased
