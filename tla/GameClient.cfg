\* Boards of two cells, two frames, room for one message; two keys, or a bot.
SPECIFICATION FairSpec
CONSTANTS
  Cells = 2
  Cap = 4
  Frames = 2
  Keyboard = {"up", "End", "Esc", "AltBracket", "other"}
  MaxKeys = 2
  BotMoves = {"UP", "LEFT"}
INVARIANTS FailsOnlyWhenTorn NoLostWakeup
PROPERTIES AcceptsWholePictures SilenceEndsUpdates ChosenMovesAreSent ClientEnds
CHECK_DEADLOCK FALSE
