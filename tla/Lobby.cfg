\* Two clients, three slots, every answer, moves that arrive together.
SPECIFICATION FairSpec
CONSTANTS
  Clients = {c1, c2}
  Choices = {"start", "join", "wait", "other"}
  MaxPlayers = 3
  MaxInbox = 2
  CountMod = 16
INVARIANTS TypeOK OneUpdater AliveCount GameHasBoard OneSlotPerDescriptor
PROPERTY NewcomersAreServed
CHECK_DEADLOCK FALSE
