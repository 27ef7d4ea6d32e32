\* One player in the game on two by three cells, two monsters, two coins.
SPECIFICATION FairSpec
CONSTANTS
  Height = 4
  Width = 5
  NumPlayers = 1
  Inside = {0}
  Joiners = {}
  MaxMonsters = 2
  MaxCoins = 2
  CoinWorth = 10
  PowerDivider = 10
  PowerRounds = 2
  Keys = {"UP", "DOWN", "LEFT", "RIGHT", "INVALID"}
  CountMod = 16
INVARIANTS PowerIsTimed BoardAgrees
PROPERTY RoundsGoOn
CHECK_DEADLOCK FALSE
