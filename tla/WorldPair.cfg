\* A player in a corridor of five cells, a second one that joins, one monster,
\* two coins; up to the first death or lost race.
SPECIFICATION Spec
CONSTANTS
  Height = 3
  Width = 7
  NumPlayers = 2
  Inside = {0}
  Joiners = {1}
  MaxMonsters = 1
  MaxCoins = 2
  CoinWorth = 10
  PowerDivider = 10
  PowerRounds = 2
  Keys = {"LEFT", "RIGHT"}
  CountMod = 16
CONSTRAINT Undisturbed
INVARIANT BoardAgrees
CHECK_DEADLOCK FALSE
