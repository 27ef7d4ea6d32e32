-------------------------- MODULE GameWorld_proofs --------------------------
(* The running game for any board, any number of monsters, coins and players,   *)
(* and any commands: until somebody is caught or written over, the board, the   *)
(* monsters, the players and the count of the coins agree.                      *)
EXTENDS GameWorld, FiniteSetTheorems, TLAPS

Symbols == {"wall", "empty", "coin", "monster", "player"}
Cell    == [sym : Symbols, coin : BOOLEAN, upper : BOOLEAN, obj : Nat]
Player  == [location : Pos, points : Nat, power : BOOLEAN,
            state : {"LOBBY", "ACK", "INSIDE", "DEAD", "DISCONNECTED"}]
Main    == [at : {"serving", "placing", "joining", "exited"}, p : Players, q : Pos,
            overwrote : BOOLEAN]

(* The types, and who may be put on the board: the starter of the game is on it *)
(* from the start, and who is being put on it has acknowledged and no more.     *)
Typing ==
    /\ cells \in [Pos -> Cell]
    /\ monsters \in [1 .. MaxMonsters -> Pos \cup {Freed}]
    /\ player \in [Players -> Player]
    /\ main \in Main
    /\ player[0].state \notin {"LOBBY", "ACK"}
    /\ main.at = "placing" => player[main.p].state = "ACK"

(* The cell of a player that left stays as it is, so it still is on the board.  *)
OnBoard(p) == player[p].state \in {"INSIDE", "DISCONNECTED"}

StandsOn(p, q) ==
    cells[q].sym = "player" /\ cells[q].obj = p /\ cells[q].upper = player[p].power

BelongsToOne(q) ==
    /\ cells[q].obj \in Players /\ OnBoard(cells[q].obj)
    /\ player[cells[q].obj].location = q

PlayersPlaced ==
    /\ \A p \in Players : OnBoard(p) => StandsOn(p, player[p].location)
    /\ \A p \in Players : ~OnBoard(p) => ~player[p].power
    /\ \A q \in Pos : cells[q].sym = "player" => BelongsToOne(q)

MonstersPlaced ==
    /\ \A i \in 1 .. MaxMonsters : monsters[i] # Freed =>
         cells[monsters[i]].sym = "monster" /\ cells[monsters[i]].obj = i
    /\ \A q \in Pos : cells[q].sym = "monster" =>
         cells[q].obj \in 1 .. MaxMonsters /\ monsters[cells[q].obj] = q

(* A coin lies open or under a monster.                                         *)
Coins == {q \in Pos : cells[q].coin}

CoinShown(q) == /\ cells[q].coin => cells[q].sym \in {"coin", "monster"}
                /\ cells[q].sym = "coin" => cells[q].coin

CoinsPlaced ==
    /\ \A q \in Pos : CoinShown(q)
    /\ coins = Cardinality(Coins)

IInv == Typing /\ (Undisturbed => PlayersPlaced /\ MonstersPlaced /\ CoinsPlaced)
-----------------------------------------------------------------------------
(* Positions.                                                                   *)
LEMMA Board ==
  /\ IsFiniteSet(Pos) /\ <<0, 0>> \in Pos /\ Freed \notin Pos
  /\ Room \subseteq Pos /\ 0 \in Players /\ Players \subseteq Nat
<1>1. Height - 1 \in Nat /\ Width - 1 \in Nat /\ NumPlayers - 1 \in Nat
  BY WorldAssumption
<1>2. IsFiniteSet(0 .. Height - 1) /\ IsFiniteSet(0 .. Width - 1)
  BY <1>1, FS_Interval
<1>3. IsFiniteSet(Pos)
  BY <1>2, FS_Product DEF Pos
<1>4. <<0, 0>> \in Pos
  BY <1>1 DEF Pos
<1>5. \A q \in Pos : DOMAIN q = {1, 2}
  BY DEF Pos
<1>6. DOMAIN Freed = {}
  BY DEF Freed
<1>7. Freed \notin Pos
  BY <1>5, <1>6
<1>8. Room \subseteq Pos
  BY DEF Room
<1>9. 0 \in Players /\ Players \subseteq Nat
  BY <1>1 DEF Players
<1> QED
  BY <1>3, <1>4, <1>7, <1>8, <1>9

LEMMA NextInside == ASSUME NEW q \in Pos, NEW d \in Directions PROVE NextLocation(q, d) \in Pos
<1>1. q[1] \in 0 .. Height - 1 /\ q[2] \in 0 .. Width - 1
  BY DEF Pos
<1>2. /\ (q[1] + Height - 1) % Height \in 0 .. Height - 1 /\ (q[1] + 1) % Height \in 0 .. Height - 1
      /\ (q[2] + Width - 1) % Width \in 0 .. Width - 1 /\ (q[2] + 1) % Width \in 0 .. Width - 1
  BY <1>1, WorldAssumption
<1> QED
  BY <1>1, <1>2 DEF NextLocation, Directions, Pos
-----------------------------------------------------------------------------
(* The types.                                                                   *)

(* Cells that exchange their contents stay cells.                               *)
LEMMA CellsTyped ==
  ASSUME Typing, NEW from \in Pos, NEW to \in Pos, NEW a \in Cell, NEW b \in Cell,
         cells' = [cells EXCEPT ![to] = a, ![from] = b]
  PROVE  cells' \in [Pos -> Cell]
  BY DEF Typing

LEMMA CellValues ==
  /\ EmptyCell \in Cell /\ WallCell \in Cell /\ CoinCell \in Cell
  /\ \A n \in Nat : MonsterCell(n) \in Cell /\ PlayerCell(n) \in Cell
  /\ \A c \in Cell : Vacated(c) \in Cell
  /\ \A c \in Cell, b \in BOOLEAN : /\ [c EXCEPT !.upper = b] \in Cell
                                   /\ [c EXCEPT !.coin = b] \in Cell
<1> USE DEF Cell, Symbols, EmptyCell, WallCell, CoinCell, MonsterCell, PlayerCell, Vacated
<1>1. EmptyCell \in Cell /\ WallCell \in Cell /\ CoinCell \in Cell
  OBVIOUS
<1>2. \A n \in Nat : MonsterCell(n) \in Cell /\ PlayerCell(n) \in Cell
  OBVIOUS
<1>3. \A c \in Cell : Vacated(c) \in Cell
  OBVIOUS
<1>4. \A c \in Cell, b \in BOOLEAN : [c EXCEPT !.upper = b] \in Cell /\ [c EXCEPT !.coin = b] \in Cell
  OBVIOUS
<1> QED
  BY <1>1, <1>2, <1>3, <1>4

(* What the updater does to the players' states: it kills player 0 at most.     *)
OnlyDeaths == /\ UNCHANGED main
              /\ \A p \in Players : player'[p].state \in {player[p].state, "DEAD"}

LEMMA Unplaced ==
  ASSUME Typing, cells' \in [Pos -> Cell],
         monsters' \in [1 .. MaxMonsters -> Pos \cup {Freed}],
         player' \in [Players -> Player],
         \A p \in Players : player'[p].state \in {player[p].state, "DEAD"},
         \A p \in Players \ {0} : player'[p].state = player[p].state,
         UNCHANGED main
  PROVE  Typing' /\ OnlyDeaths
<1>1. main.at = "placing" => main.p \in Players /\ main.p # 0
  BY DEF Typing, Main
<1>2. player'[0].state \notin {"LOBBY", "ACK"}
  BY Board DEF Typing
<1> QED
  BY <1>1, <1>2 DEF Typing, OnlyDeaths

(* mark_as_dead is told player 0, whatever else changes in the record of p.     *)
LEMMA PlayersTyped ==
  ASSUME Typing, NEW p \in Players, NEW to \in Pos, NEW pts \in Nat, NEW pow \in BOOLEAN,
         \/ player' = player
         \/ player' = [player EXCEPT ![p].location = to]
         \/ player' = [player EXCEPT ![p].power = pow]
         \/ player' = [player EXCEPT ![p].location = to, ![p].points = pts, ![p].power = pow]
  PROVE  /\ player' \in [Players -> Player]
         /\ \A r \in Players : player'[r].state = player[r].state
<1>1. player \in [Players -> Player]
  BY DEF Typing
<1>2. \A c \in Player : /\ [c EXCEPT !.location = to] \in Player /\ [c EXCEPT !.power = pow] \in Player
                       /\ [c EXCEPT !.points = pts] \in Player
                       /\ [c EXCEPT !.location = to].state = c.state
                       /\ [c EXCEPT !.power = pow].state = c.state
                       /\ [c EXCEPT !.points = pts].state = c.state
  BY DEF Player
<1>3. ASSUME NEW f \in [Players -> Player], NEW c \in Player, c.state = f[p].state
      PROVE  /\ [f EXCEPT ![p] = c] \in [Players -> Player]
             /\ \A r \in Players : [f EXCEPT ![p] = c][r].state = f[r].state
  BY <1>3
<1>4. CASE player' = player
  BY <1>1, <1>4
<1>5. CASE player' = [player EXCEPT ![p].location = to]
  BY <1>1, <1>2, <1>3, <1>5
<1>6. CASE player' = [player EXCEPT ![p].power = pow]
  BY <1>1, <1>2, <1>3, <1>6
<1>7. CASE player' = [player EXCEPT ![p].location = to, ![p].points = pts, ![p].power = pow]
  <2> DEFINE f == [player EXCEPT ![p].location = to]
             g == [f EXCEPT ![p] = [f[p] EXCEPT !.points = pts]]
  <2>1. f \in [Players -> Player] /\ \A r \in Players : f[r].state = player[r].state
    BY <1>1, <1>2, <1>3
  <2>2. g \in [Players -> Player] /\ \A r \in Players : g[r].state = player[r].state
    <3> HIDE DEF f
    <3>1. f[p] \in Player
      BY <2>1
    <3>2. [f[p] EXCEPT !.points = pts] \in Player /\ [f[p] EXCEPT !.points = pts].state = f[p].state
      BY <1>2, <3>1
    <3> QED BY <1>3, <2>1, <3>2
  <2>3. player' = [g EXCEPT ![p] = [g[p] EXCEPT !.power = pow]]
    BY <1>7
  <2> HIDE DEF g
  <2>4. g[p] \in Player
    BY <2>2
  <2>5. [g[p] EXCEPT !.power = pow] \in Player /\ [g[p] EXCEPT !.power = pow].state = g[p].state
    BY <1>2, <2>4
  <2> QED BY <1>3, <2>2, <2>3, <2>5
<1> QED
  BY <1>4, <1>5, <1>6, <1>7

LEMMA DeathTyped ==
  ASSUME Typing, NEW pl \in [Players -> Player],
         \A r \in Players : pl[r].state = player[r].state,
         player' = [pl EXCEPT ![0].state = "DEAD"]
  PROVE  /\ player' \in [Players -> Player]
         /\ \A r \in Players : player'[r].state \in {player[r].state, "DEAD"}
         /\ \A r \in Players \ {0} : player'[r].state = player[r].state
<1>1. \A c \in Player : /\ [c EXCEPT !.state = "DEAD"] \in Player
                       /\ [c EXCEPT !.state = "DEAD"].state = "DEAD"
  BY DEF Player
<1>2. 0 \in Players /\ player' = [pl EXCEPT ![0] = [pl[0] EXCEPT !.state = "DEAD"]]
  BY Board
<1>3. [pl[0] EXCEPT !.state = "DEAD"] \in Player /\ [pl[0] EXCEPT !.state = "DEAD"].state = "DEAD"
  BY <1>1, <1>2
<1> DEFINE c == [pl[0] EXCEPT !.state = "DEAD"]
<1> HIDE DEF c
<1>4. c \in Player /\ c.state = "DEAD" /\ player' = [pl EXCEPT ![0] = c]
  BY <1>2, <1>3 DEF c
<1>5. player' \in [Players -> Player]
  BY <1>4
<1>6. \A r \in Players : player'[r].state = IF r = 0 THEN "DEAD" ELSE player[r].state
  BY <1>4
<1> QED
  BY <1>5, <1>6

LEMMA PowerTyped == ASSUME Typing, NEW i \in Players, UpdateSuperPower(i) PROVE Typing' /\ OnlyDeaths
<1> DEFINE q == player[i].location
<1>1. q \in Pos
  BY DEF Typing, Player
<1>2. cells' \in [Pos -> Cell]
  <2>1. cells[q] \in Cell /\ [cells[q] EXCEPT !.upper = FALSE] \in Cell
    BY <1>1, CellValues DEF Typing
  <2> QED
    BY <1>1, <2>1 DEF UpdateSuperPower, Typing
<1>3. /\ player' \in [Players -> Player]
      /\ \A r \in Players : player'[r].state = player[r].state
  <2>1. ASSUME cells[q].obj \notin Players, player' # player PROVE FALSE
    BY <2>1 DEF UpdateSuperPower, Typing
  <2>2. ASSUME cells[q].obj \in Players
        PROVE  /\ player' \in [Players -> Player]
               /\ \A r \in Players : player'[r].state = player[r].state
    BY <1>1, <2>2, PlayersTyped DEF UpdateSuperPower, Typing, Player
  <2> QED
    BY <2>1, <2>2 DEF Typing
<1> QED
  BY <1>2, <1>3, Unplaced DEF UpdateSuperPower, Typing

(* TakeCoin and its alternatives leave a typed board.                           *)
LEMMA WalkTyped ==
  ASSUME Typing, NEW p \in Players, NEW from \in Pos, NEW to \in Pos, NEW gain \in BOOLEAN,
         MovesTo(p, from, to, gain)
  PROVE  cells' \in [Pos -> Cell]
<1>1. cells[from] \in Cell /\ (cells[from].upper \/ gain) \in BOOLEAN
  BY DEF Typing
<1>2. [cells[from] EXCEPT !.upper = @ \/ gain] \in Cell
  BY <1>1, CellValues
<1> QED
  BY <1>2, CellValues, CellsTyped DEF MovesTo

LEMMA TakeCoinTyped ==
  ASSUME Typing, NEW p \in Players, NEW from \in Pos, NEW to \in Pos, TakeCoin(p, from, to)
  PROVE  /\ cells' \in [Pos -> Cell] /\ player' \in [Players -> Player]
         /\ \A r \in Players : player'[r].state = player[r].state
<1> DEFINE pts == player[p].points + CoinWorth
           gain == coins # 1 /\ pts % PowerDivider = 0
<1>1. player[p].points \in Nat /\ CoinWorth \in Nat /\ player[p].power \in BOOLEAN
  BY WorldAssumption DEF Typing, Player
<1>2. pts \in Nat /\ gain \in BOOLEAN /\ (player[p].power \/ gain) \in BOOLEAN
  BY <1>1
<1>3. /\ MovesTo(p, from, to, gain)
      /\ player' = [player EXCEPT ![p].location = to, ![p].points = pts,
                                  ![p].power = player[p].power \/ gain]
  BY DEF TakeCoin, Typing, Player
<1> HIDE DEF gain, pts
<1>4. cells' \in [Pos -> Cell]
  BY <1>2, <1>3, WalkTyped
<1> DEFINE pow == player[p].power \/ gain
<1> HIDE DEF pow
<1>6. pow \in BOOLEAN /\ player' = [player EXCEPT ![p].location = to, ![p].points = pts, ![p].power = pow]
  BY <1>2, <1>3 DEF pow
<1> QED
  BY <1>2, <1>4, <1>6, PlayersTyped

LEMMA MoveTyped == ASSUME Typing, NEW p \in Players, handle_player_move(p) PROVE Typing' /\ OnlyDeaths
<1> DEFINE from == player[p].location
           to == NextLocation(from, last_move[p])
<1>1. from \in Pos /\ to \in Pos
  BY NextInside DEF handle_player_move, Typing, Player
<1>2. UNCHANGED main
  BY DEF handle_player_move
<1>3. \/ MoveIntoEmpty(p, from, to) \/ KillMonster(p, from, to) \/ WalkIntoMonster(p, from, to)
      \/ StepOntoCoin(p, from, to) \/ BumpInto(p, from, to)
  BY DEF handle_player_move
<1> HIDE DEF from, to
<1>4. CASE MoveIntoEmpty(p, from, to)
  BY <1>1, <1>2, <1>4, WalkTyped, PlayersTyped, Unplaced DEF MoveIntoEmpty, Typing, Player
<1>5. CASE KillMonster(p, from, to)
  <2>1. monsters' \in [1 .. MaxMonsters -> Pos \cup {Freed}]
    BY <1>5 DEF KillMonster, Typing
  <2>2. CASE TakeCoin(p, from, to)
    BY <1>1, <1>2, <2>1, <2>2, TakeCoinTyped, Unplaced
  <2>3. CASE MovesTo(p, from, to, FALSE) /\ player' = [player EXCEPT ![p].location = to]
    BY <1>1, <1>2, <2>1, <2>3, WalkTyped, PlayersTyped, Unplaced DEF Typing, Player
  <2> QED
    BY <1>5, <2>2, <2>3 DEF KillMonster
<1>6. CASE WalkIntoMonster(p, from, to)
  <2>1. cells' \in [Pos -> Cell] /\ UNCHANGED monsters
    BY <1>1, <1>6, CellValues DEF WalkIntoMonster, Typing
  <2> DEFINE pl == [player EXCEPT ![p].location = to]
  <2>2. pl \in [Players -> Player] /\ \A r \in Players : pl[r].state = player[r].state
    BY <1>1 DEF Typing, Player
  <2>3. player' = [pl EXCEPT ![0].state = "DEAD"]
    BY <1>6 DEF WalkIntoMonster, MarkAsDead, Index
  <2> HIDE DEF pl
  <2> QED
    BY <1>2, <2>1, <2>2, <2>3, DeathTyped, Unplaced DEF Typing
<1>7. CASE StepOntoCoin(p, from, to)
  BY <1>1, <1>2, <1>7, TakeCoinTyped, Unplaced DEF StepOntoCoin, Typing
<1>8. CASE BumpInto(p, from, to)
  BY <1>2, <1>8, Unplaced DEF BumpInto, board, Typing
<1> QED
  BY <1>3, <1>4, <1>5, <1>6, <1>7, <1>8

LEMMA MonsterTyped ==
  ASSUME Typing, NEW i \in 1 .. MaxMonsters, handle_monster_move(i)
  PROVE  Typing' /\ OnlyDeaths
<1> DEFINE from == monsters[i]
<1>1. from \in Pos /\ UNCHANGED main
  BY DEF handle_monster_move, Typing
<1>2. CASE GiveUp(from)
  BY <1>1, <1>2, Unplaced DEF GiveUp, board, Typing
<1>3. ASSUME NEW d \in Directions,
             LET to == NextLocation(from, d)
             IN Prowl(i, from, to) \/ AttackPower(i, from, to) \/ KillPlayer(i, from, to)
      PROVE  Typing' /\ OnlyDeaths
  <2> DEFINE to == NextLocation(from, d)
  <2>1. to \in Pos /\ cells[from] \in Cell /\ cells[to] \in Cell
    BY <1>1, NextInside DEF Typing
  <2>2. Vacated(cells[from]) \in Cell
    BY <2>1, CellValues
  <2>3. Prowl(i, from, to) \/ AttackPower(i, from, to) \/ KillPlayer(i, from, to)
    BY <1>3
  <2> HIDE DEF from, to
  <2>4. CASE Prowl(i, from, to)
    <3>1. [cells[from] EXCEPT !.coin = (cells[to].sym = "coin")] \in Cell
      BY <2>1, CellValues
    <3>2. cells' \in [Pos -> Cell]
      BY <1>1, <2>1, <2>2, <2>4, <3>1, CellsTyped DEF Prowl
    <3>3. monsters' \in [1 .. MaxMonsters -> Pos \cup {Freed}]
      BY <2>1, <2>4 DEF Prowl, Typing
    <3> QED
      BY <1>1, <2>4, <3>2, <3>3, Unplaced DEF Prowl, Typing
  <2>5. CASE AttackPower(i, from, to)
    <3>1. cells' \in [Pos -> Cell]
      BY <1>1, <2>2, <2>5 DEF AttackPower, Typing
    <3>2. monsters' \in [1 .. MaxMonsters -> Pos \cup {Freed}]
      BY <2>5 DEF AttackPower, Typing
    <3> QED
      BY <1>1, <2>5, <3>1, <3>2, Unplaced DEF AttackPower, Typing
  <2>6. CASE KillPlayer(i, from, to)
    <3>1. cells' \in [Pos -> Cell]
      BY <1>1, <2>1, <2>2, <2>6, CellsTyped DEF KillPlayer
    <3>2. monsters' \in [1 .. MaxMonsters -> Pos \cup {Freed}]
      BY <2>1, <2>6 DEF KillPlayer, Typing
    <3>3. player' = [player EXCEPT ![0].state = "DEAD"]
      BY <2>6 DEF KillPlayer, MarkAsDead, Index
    <3> QED
      BY <1>1, <3>1, <3>2, <3>3, DeathTyped, Unplaced DEF Typing
  <2> QED
    BY <2>3, <2>4, <2>5, <2>6
<1> QED
  BY <1>2, <1>3 DEF handle_monster_move

LEMMA DisconnectTyped == ASSUME Typing, NEW p \in Players, Disconnect(p) PROVE Typing'
<1>1. /\ player' = [player EXCEPT ![p].state = "DISCONNECTED"]
      /\ UNCHANGED <<cells, monsters>>
      /\ main.at = "serving"
      /\ main' = main \/ \E at \in {"joining", "exited"} : main' = [main EXCEPT !.at = at]
  BY DEF Disconnect, MarkAsDead, board, Serving
<1>2. player' \in [Players -> Player] /\ player'[0].state \notin {"LOBBY", "ACK"}
  <2>1. player \in [Players -> Player] /\ player[0].state \notin {"LOBBY", "ACK"} /\ 0 \in Players
    BY Board DEF Typing
  <2>2. [player[p] EXCEPT !.state = "DISCONNECTED"] \in Player
    BY <2>1 DEF Player
  <2>3. player' \in [Players -> Player]
    BY <1>1, <2>1, <2>2
  <2>4. player'[0].state \in {player[0].state, "DISCONNECTED"}
    BY <1>1, <2>1 DEF Player
  <2> QED
    BY <2>1, <2>3, <2>4
<1>3. main' \in Main /\ main'.at # "placing"
  BY <1>1 DEF Typing, Main
<1> QED
  BY <1>1, <1>2, <1>3 DEF Typing

LEMMA PlaceTyped == ASSUME Typing, put_player_on_board PROVE Typing'
<1>1. main.p \in Players /\ main.q \in Pos /\ main.overwrote \in BOOLEAN
  BY DEF Typing, Main
<1>2. main' \in Main /\ main'.at = "serving"
  <2>1. (main.overwrote \/ cells[main.q].sym # "empty") \in BOOLEAN
    OBVIOUS
  <2>2. /\ main \in Main /\ <<0, 0>> \in Pos /\ 0 \in Players
    BY Board DEF Typing
  <2> QED
    BY <2>1, <2>2 DEF put_player_on_board, Main
<1>3. cells' \in [Pos -> Cell]
  <2>1. cells[main.q] \in Cell /\ main.p \in Nat
    BY <1>1, Board DEF Typing
  <2>2. [cells[main.q] EXCEPT !.sym = "player", !.obj = main.p, !.upper = FALSE] \in Cell
    BY <2>1 DEF Cell, Symbols
  <2> QED
    BY <1>1, <2>2 DEF put_player_on_board, Typing
<1>4. player' \in [Players -> Player] /\ player'[0].state \notin {"LOBBY", "ACK"}
  BY <1>1, Board DEF put_player_on_board, Typing, Player
<1> QED
  BY <1>2, <1>3, <1>4 DEF put_player_on_board, Typing

(* Steps that touch neither the board nor the players.                          *)
Quiet ==
    \/ Ring \/ SigWait \/ SendUpdates \/ Joined
    \/ \E phase, n, next : NextPhase(phase, n, next)
    \/ \E p \in Players : \/ NoMove(p) \/ Command(p) \/ Hangup(p) \/ FindPlace(p)
                         \/ TakenForNew(p)
    \/ \E i \in 1 .. MaxMonsters : SkipMonster(i)

LEMMA QuietStep ==
  ASSUME Typing, Quiet
  PROVE  /\ UNCHANGED <<cells, monsters, coins, player>> /\ Typing'
         /\ main'.overwrote = main.overwrote
<1>1. UNCHANGED <<cells, monsters, coins, player>>
  BY DEF Quiet, Ring, SigWait, SendUpdates, Joined, NextPhase, NoMove, Command, Hangup, FindPlace,
         TakenForNew, SkipMonster, board
<1>2. \/ main' = main
      \/ main' = [main EXCEPT !.at = "serving"]
      \/ \E p \in Players, q \in Pos : /\ player[p].state = "ACK"
                                       /\ main' = [main EXCEPT !.at = "placing", !.p = p, !.q = q]
  BY DEF Quiet, Ring, SigWait, SendUpdates, Joined, NextPhase, NoMove, Command, Hangup, FindPlace,
         TakenForNew, SkipMonster
<1>3. /\ main' \in Main /\ main'.overwrote = main.overwrote
      /\ main'.at = "placing" => player[main'.p].state = "ACK"
  <2>1. CASE main' = main
    BY <2>1 DEF Typing
  <2>2. CASE main' = [main EXCEPT !.at = "serving"]
    BY <2>2 DEF Typing, Main
  <2>3. ASSUME NEW p \in Players, NEW q \in Pos, player[p].state = "ACK",
               main' = [main EXCEPT !.at = "placing", !.p = p, !.q = q]
        PROVE  /\ main' \in Main /\ main'.overwrote = main.overwrote
               /\ main'.at = "placing" => player[main'.p].state = "ACK"
    BY <2>3 DEF Typing, Main
  <2> QED
    BY <1>2, <2>1, <2>2, <2>3
<1> QED
  BY <1>1, <1>3 DEF Typing

LEMMA Kinds ==
  ASSUME Typing, Next
  PROVE  \/ Quiet \/ put_player_on_board
         \/ \E p \in Players : UpdateSuperPower(p) \/ handle_player_move(p) \/ Disconnect(p)
         \/ \E i \in 1 .. MaxMonsters : handle_monster_move(i)
<1>1. ASSUME \/ NextPhase("powers", NumPlayers, "moves")
             \/ NextPhase("moves", NumPlayers, "monsters")
             \/ NextPhase("monsters", Len(monsters), "send")
      PROVE  Quiet
  BY <1>1 DEF Quiet
<1>2. CASE UpdaterStep
  BY <1>1, <1>2 DEF UpdaterStep, Quiet
<1> QED
  BY <1>2 DEF Next, MainStep, Quiet

LEMMA TypingStep == ASSUME Typing, Next PROVE Typing'
BY Kinds, QuietStep, PlaceTyped, PowerTyped, MoveTyped, MonsterTyped, DisconnectTyped

(* What disturbs the board is not made up for: the dead stay dead.              *)
LEMMA DisturbedForGood == ASSUME Typing, Next, Undisturbed' PROVE Undisturbed
<1>1. server = "up" /\ server' = "up"
  BY DEF Next, Ring, UpdaterStep, MainStep, Hangup, SigWait, SendUpdates, NextPhase, UpdateSuperPower,
         handle_player_move, NoMove, handle_monster_move, SkipMonster, Updater, Joined,
         put_player_on_board, Command, Disconnect, TakenForNew, FindPlace, Serving, Undisturbed
<1>2. \A p \in Players : player'[p].state # "DEAD" /\ ~main'.overwrote
  BY DEF Undisturbed
<1>3. CASE Quiet
  BY <1>1, <1>2, <1>3, QuietStep DEF Undisturbed
<1>4. CASE OnlyDeaths
  BY <1>1, <1>2, <1>4, Board DEF Undisturbed, OnlyDeaths
<1>5. CASE put_player_on_board
  <2>1. main \in Main /\ player[main.p].state = "ACK"
    BY <1>5 DEF Typing, put_player_on_board
  <2>2. ~main.overwrote
    BY <1>2, <1>5, <2>1, Board DEF put_player_on_board, Main
  <2>3. \A r \in Players : r # main.p => player'[r] = player[r]
    BY <1>5 DEF put_player_on_board, Typing
  <2> QED
    BY <1>1, <1>2, <2>1, <2>2, <2>3 DEF Undisturbed
<1>6. ASSUME NEW p \in Players, Disconnect(p) PROVE Undisturbed
  <2>1. /\ player[p].state = "INSIDE" /\ player' = [player EXCEPT ![p].state = "DISCONNECTED"]
        /\ main' = main \/ \E at \in {"joining", "exited"} : main' = [main EXCEPT !.at = at]
    BY <1>6 DEF Disconnect, MarkAsDead
  <2>2. ~main.overwrote
    BY <1>2, <2>1, Board DEF Typing, Main
  <2>3. \A r \in Players : r # p => player'[r] = player[r]
    BY <2>1 DEF Typing
  <2> QED
    BY <1>1, <1>2, <2>1, <2>2, <2>3 DEF Undisturbed
<1> QED
  BY <1>3, <1>4, <1>5, <1>6, Kinds, PowerTyped, MoveTyped, MonsterTyped
-----------------------------------------------------------------------------
(* A player walks from one cell to another and takes its cell along.            *)
Walks(from, to, gain) ==
    /\ cells'[to].sym = cells[from].sym /\ cells'[to].obj = cells[from].obj
    /\ cells'[to].coin = cells[from].coin /\ cells'[to].upper = (cells[from].upper \/ gain)
    /\ cells'[from].sym = "empty" /\ cells'[from].coin = FALSE
    /\ \A q \in Pos \ {from, to} : cells'[q] = cells[q]

LEMMA Walked ==
  ASSUME Typing, NEW p \in Players, NEW from \in Pos, NEW to \in Pos, from # to,
         NEW gain \in BOOLEAN, MovesTo(p, from, to, gain)
  PROVE  Walks(from, to, gain)
<1> DEFINE c == [cells[from] EXCEPT !.upper = @ \/ gain]
<1>1. /\ cells[from] \in Cell /\ cells \in [Pos -> Cell]
  BY DEF Typing
<1>2. /\ c.sym = cells[from].sym /\ c.obj = cells[from].obj /\ c.coin = cells[from].coin
      /\ c.upper = (cells[from].upper \/ gain)
  BY <1>1 DEF Cell
<1>3. cells' = [cells EXCEPT ![to] = c, ![from] = EmptyCell]
  BY DEF MovesTo
<1> HIDE DEF c
<1>4. /\ cells'[to] = c /\ cells'[from] = EmptyCell
      /\ \A q \in Pos \ {from, to} : cells'[q] = cells[q]
  BY <1>1, <1>3
<1> QED
  BY <1>2, <1>4 DEF EmptyCell, Walks

LEMMA PlayersWalk ==
  ASSUME Typing, PlayersPlaced, NEW p \in Players, OnBoard(p),
         NEW from \in Pos, from = player[p].location, NEW to \in Pos, from # to,
         cells[to].sym # "player", NEW gain \in BOOLEAN, Walks(from, to, gain),
         player'[p].location = to, player'[p].state = player[p].state,
         player'[p].power = (player[p].power \/ gain),
         \A r \in Players \ {p} : player'[r] = player[r]
  PROVE  PlayersPlaced'
<1>1. cells[from].sym = "player" /\ cells[from].obj = p /\ cells[from].upper = player[p].power
  BY DEF PlayersPlaced, StandsOn
<1>2. /\ cells'[to].sym = "player" /\ cells'[to].obj = p
      /\ cells'[to].upper = (player[p].power \/ gain)
      /\ cells'[from].sym = "empty" /\ \A q \in Pos \ {from, to} : cells'[q] = cells[q]
  BY <1>1 DEF Walks
<1>3. \A r \in Players : OnBoard(r)' <=> OnBoard(r)
  BY DEF OnBoard
<1>4. ASSUME NEW r \in Players, OnBoard(r)' PROVE StandsOn(r, player[r].location)'
  <2>1. CASE r = p
    BY <1>2, <2>1 DEF StandsOn
  <2>2. CASE r # p
    <3>1. StandsOn(r, player[r].location) /\ player[r].location \in Pos
      BY <1>3, <1>4 DEF PlayersPlaced, Typing, Player
    <3>2. player[r].location \in Pos \ {from, to}
      BY <1>1, <2>2, <3>1 DEF StandsOn
    <3> QED
      BY <1>2, <2>2, <3>1, <3>2 DEF StandsOn
  <2> QED
    BY <2>1, <2>2
<1>5. \A r \in Players : ~OnBoard(r)' => ~player'[r].power
  BY <1>3 DEF PlayersPlaced
<1>6. ASSUME NEW q \in Pos, cells'[q].sym = "player" PROVE BelongsToOne(q)'
  <2>1. CASE q = to
    BY <1>2, <1>3, <2>1 DEF BelongsToOne
  <2>2. CASE q \in Pos \ {from, to}
    <3>1. cells'[q] = cells[q] /\ BelongsToOne(q)
      BY <1>2, <1>6, <2>2 DEF PlayersPlaced
    <3>2. cells[q].obj # p
      BY <2>2, <3>1 DEF BelongsToOne
    <3>3. OnBoard(cells[q].obj)'
      BY <1>3, <3>1 DEF BelongsToOne
    <3> QED
      BY <3>1, <3>2, <3>3 DEF BelongsToOne
  <2> QED
    BY <1>2, <1>6, <2>1, <2>2
<1> QED
  BY <1>4, <1>5, <1>6 DEF PlayersPlaced

(* A monster in the way is gone with its cell.                                  *)
LEMMA MonstersWalk ==
  ASSUME Typing, MonstersPlaced,
         NEW from \in Pos, cells[from].sym = "player", NEW to \in Pos, from # to,
         NEW gain \in BOOLEAN, Walks(from, to, gain),
         \/ cells[to].sym # "monster" /\ monsters' = monsters
         \/ cells[to].sym = "monster" /\ monsters' = [monsters EXCEPT ![cells[to].obj] = Freed]
  PROVE  MonstersPlaced'
<1>1. /\ cells'[to].sym = "player" /\ cells'[from].sym = "empty"
      /\ \A q \in Pos \ {from, to} : cells'[q] = cells[q]
  BY DEF Walks
<1>2. ASSUME NEW i \in 1 .. MaxMonsters, monsters'[i] # Freed
      PROVE  monsters'[i] = monsters[i] /\ monsters[i] \in Pos \ {from, to}
  <2>1. monsters'[i] = monsters[i] /\ monsters[i] \in Pos
    BY <1>2 DEF Typing
  <2>2. monsters[i] # from
    BY <1>2, <2>1 DEF MonstersPlaced
  <2>3. ASSUME monsters[i] = to PROVE FALSE
    <3>1. cells[to].sym = "monster" /\ cells[to].obj = i
      BY <1>2, <2>1, <2>3 DEF MonstersPlaced
    <3> QED
      BY <1>2, <3>1 DEF Typing
  <2> QED
    BY <2>1, <2>2, <2>3
<1>3. ASSUME NEW q \in Pos, cells'[q].sym = "monster"
      PROVE  cells'[q].obj \in 1 .. MaxMonsters /\ monsters'[cells'[q].obj] = q
  <2>1. q \in Pos \ {from, to} /\ cells'[q] = cells[q]
    BY <1>1, <1>3
  <2>2. cells[q].obj \in 1 .. MaxMonsters /\ monsters[cells[q].obj] = q
    BY <1>3, <2>1 DEF MonstersPlaced
  <2>3. cells[to].sym = "monster" => cells[to].obj # cells[q].obj
    BY <2>1, <2>2 DEF MonstersPlaced
  <2> QED
    BY <2>1, <2>2, <2>3 DEF Typing
<1> QED
  BY <1>1, <1>2, <1>3 DEF MonstersPlaced

LEMMA CoinSets == IsFiniteSet(Coins) /\ Cardinality(Coins) \in Nat
BY Board, FS_Subset, FS_CardinalityType DEF Coins

LEMMA CoinsWalk ==
  ASSUME Typing, CoinsPlaced,
         NEW from \in Pos, cells[from].sym = "player", NEW to \in Pos, from # to,
         NEW gain \in BOOLEAN, Walks(from, to, gain),
         \/ cells[to].coin /\ coins' = coins - 1
         \/ ~cells[to].coin /\ coins' = coins
  PROVE  CoinsPlaced'
<1>1. ~cells[from].coin /\ coins = Cardinality(Coins)
  BY DEF CoinsPlaced, CoinShown
<1>2. /\ cells'[to].sym = "player" /\ ~cells'[to].coin
      /\ cells'[from].sym = "empty" /\ ~cells'[from].coin
      /\ \A q \in Pos \ {from, to} : cells'[q] = cells[q]
  BY <1>1 DEF Walks
<1>3. Coins' = Coins \ {to}
  BY <1>1, <1>2 DEF Coins
<1>4. to \in Coins <=> cells[to].coin
  BY DEF Coins
<1>5. coins' = Cardinality(Coins')
  BY <1>1, <1>3, <1>4, CoinSets, FS_RemoveElement
<1>6. ASSUME NEW q \in Pos PROVE CoinShown(q)'
  BY <1>2 DEF CoinsPlaced, CoinShown
<1> QED
  BY <1>5, <1>6 DEF CoinsPlaced

Placed == PlayersPlaced /\ MonstersPlaced /\ CoinsPlaced

LEMMA Unmoved == ASSUME Placed, UNCHANGED <<cells, monsters, coins, player>> PROVE Placed'
BY DEF Placed, PlayersPlaced, StandsOn, BelongsToOne, OnBoard, MonstersPlaced, CoinsPlaced, Coins, CoinShown

(* The two ways of walking, onto a coin and onto none.                          *)
LEMMA CoinStep ==
  ASSUME Typing, PlayersPlaced, CoinsPlaced, NEW p \in Players, OnBoard(p),
         NEW from \in Pos, from = player[p].location, NEW to \in Pos, cells[to].coin,
         TakeCoin(p, from, to)
  PROVE  /\ PlayersPlaced' /\ CoinsPlaced' /\ from # to
         /\ \E gain \in BOOLEAN : Walks(from, to, gain)
<1> DEFINE pts == player[p].points + CoinWorth
           gain == coins # 1 /\ pts % PowerDivider = 0
           pow == player[p].power \/ gain
<1>1. /\ cells[from].sym = "player" /\ ~cells[from].coin /\ cells[to].sym # "player" /\ from # to
  BY DEF PlayersPlaced, StandsOn, CoinsPlaced, CoinShown
<1>2. gain \in BOOLEAN /\ pow \in BOOLEAN
  BY DEF Typing, Player
<1>3. /\ MovesTo(p, from, to, gain) /\ coins' = coins - 1
      /\ player' = [player EXCEPT ![p].location = to, ![p].points = pts, ![p].power = pow]
  BY DEF TakeCoin, Typing, Player
<1> HIDE DEF pts, gain
<1>4. Walks(from, to, gain)
  BY <1>1, <1>2, <1>3, Walked
<1>5. /\ player'[p].location = to /\ player'[p].power = pow /\ player'[p].state = player[p].state
      /\ \A r \in Players \ {p} : player'[r] = player[r]
  BY <1>3 DEF Typing, Player
<1>6. PlayersPlaced'
  BY <1>1, <1>2, <1>4, <1>5, PlayersWalk
<1>7. CoinsPlaced'
  BY <1>1, <1>2, <1>3, <1>4, CoinsWalk
<1> QED
  BY <1>1, <1>2, <1>4, <1>6, <1>7

LEMMA PlainStep ==
  ASSUME Typing, PlayersPlaced, CoinsPlaced, NEW p \in Players, OnBoard(p),
         NEW from \in Pos, from = player[p].location, NEW to \in Pos,
         cells[to].sym # "player", ~cells[to].coin, UNCHANGED coins,
         MovesTo(p, from, to, FALSE), player' = [player EXCEPT ![p].location = to]
  PROVE  /\ PlayersPlaced' /\ CoinsPlaced' /\ from # to
         /\ \E gain \in BOOLEAN : Walks(from, to, gain)
<1>1. cells[from].sym = "player" /\ from # to
  BY DEF PlayersPlaced, StandsOn
<1>2. Walks(from, to, FALSE)
  BY <1>1, Walked
<1>3. /\ player'[p].location = to /\ player'[p].state = player[p].state
      /\ player'[p].power = (player[p].power \/ FALSE)
      /\ \A r \in Players \ {p} : player'[r] = player[r]
  BY DEF Typing, Player
<1>4. PlayersPlaced'
  BY <1>1, <1>2, <1>3, PlayersWalk
<1>5. CoinsPlaced'
  BY <1>1, <1>2, CoinsWalk
<1> QED
  BY <1>1, <1>2, <1>4, <1>5

LEMMA MovePlaced ==
  ASSUME Typing, Placed, NEW p \in Players, handle_player_move(p), Undisturbed'
  PROVE  Placed'
<1> DEFINE from == player[p].location
           to == NextLocation(from, last_move[p])
<1>1. from \in Pos /\ to \in Pos /\ OnBoard(p)
  BY NextInside DEF handle_player_move, Typing, Player, OnBoard
<1>2. \/ MoveIntoEmpty(p, from, to) \/ KillMonster(p, from, to) \/ WalkIntoMonster(p, from, to)
      \/ StepOntoCoin(p, from, to) \/ BumpInto(p, from, to)
  BY DEF handle_player_move
<1>3. cells[from].sym = "player" /\ ~cells[from].coin
  BY <1>1 DEF Placed, PlayersPlaced, StandsOn, CoinsPlaced, CoinShown
<1>4. cells[to].sym = "empty" => ~cells[to].coin
  BY <1>1 DEF Placed, CoinsPlaced, CoinShown
<1>5. from = player[p].location
  OBVIOUS
<1> HIDE DEF from, to
<1>6. CASE MoveIntoEmpty(p, from, to)
  <2>1. PlayersPlaced' /\ CoinsPlaced' /\ from # to /\ \E gain \in BOOLEAN : Walks(from, to, gain)
    BY <1>1, <1>4, <1>5, <1>6, PlainStep DEF MoveIntoEmpty, Placed
  <2>2. MonstersPlaced'
    BY <1>1, <1>3, <1>6, <2>1, MonstersWalk DEF MoveIntoEmpty, Placed
  <2> QED
    BY <2>1, <2>2 DEF Placed
<1>7. CASE KillMonster(p, from, to)
  <2>1. PlayersPlaced' /\ CoinsPlaced' /\ from # to /\ \E gain \in BOOLEAN : Walks(from, to, gain)
    BY <1>1, <1>5, <1>7, PlainStep, CoinStep DEF KillMonster, Placed
  <2>2. MonstersPlaced'
    BY <1>1, <1>3, <1>7, <2>1, MonstersWalk DEF KillMonster, Placed
  <2> QED
    BY <2>1, <2>2 DEF Placed
<1>8. CASE WalkIntoMonster(p, from, to)
  <2>1. player'[0].state = "DEAD"
    BY <1>1, <1>8, Board DEF WalkIntoMonster, MarkAsDead, Index, Typing, Player
  <2> QED
    BY <2>1, Board DEF Undisturbed
<1>9. CASE StepOntoCoin(p, from, to)
  <2>1. PlayersPlaced' /\ CoinsPlaced' /\ from # to /\ \E gain \in BOOLEAN : Walks(from, to, gain)
    BY <1>1, <1>5, <1>9, CoinStep DEF StepOntoCoin, Placed
  <2>2. MonstersPlaced'
    BY <1>1, <1>3, <1>9, <2>1, MonstersWalk DEF StepOntoCoin, Placed
  <2> QED
    BY <2>1, <2>2 DEF Placed
<1>10. CASE BumpInto(p, from, to)
  BY <1>10, Unmoved DEF BumpInto, board
<1> QED
  BY <1>2, <1>6, <1>7, <1>8, <1>9, <1>10
-----------------------------------------------------------------------------
(* Monsters move, and superpowers end.                                          *)

(* One cell changes hands between monsters and the floor: the players' cells    *)
(* are the same.                                                                *)
LEMMA PlayersElsewhere ==
  ASSUME Typing, PlayersPlaced, UNCHANGED player,
         \A q \in Pos : cells'[q] # cells[q] => /\ cells[q].sym # "player"
                                              /\ cells'[q].sym # "player"
  PROVE  PlayersPlaced'
<1>1. \A r \in Players : OnBoard(r)' <=> OnBoard(r)
  BY DEF OnBoard
<1>2. ASSUME NEW r \in Players, OnBoard(r)' PROVE StandsOn(r, player[r].location)'
  BY <1>1, <1>2 DEF PlayersPlaced, StandsOn, Typing, Player
<1>3. ASSUME NEW q \in Pos, cells'[q].sym = "player" PROVE BelongsToOne(q)'
  <2>1. cells'[q] = cells[q] /\ BelongsToOne(q)
    BY <1>3 DEF PlayersPlaced
  <2> QED
    BY <1>1, <2>1 DEF BelongsToOne
<1> QED
  BY <1>1, <1>2, <1>3 DEF PlayersPlaced

LEMMA CoinsStay ==
  ASSUME Typing, CoinsPlaced, UNCHANGED coins,
         \A q \in Pos : cells'[q].coin = cells[q].coin /\ CoinShown(q)'
  PROVE  CoinsPlaced'
<1>1. Coins' = Coins
  BY DEF Coins
<1> QED
  BY <1>1 DEF CoinsPlaced

LEMMA MonsterPlaced ==
  ASSUME Typing, Placed, NEW i \in 1 .. MaxMonsters, handle_monster_move(i), Undisturbed'
  PROVE  Placed'
<1> DEFINE from == monsters[i]
<1>1. /\ from \in Pos /\ cells[from] \in Cell /\ cells[from].sym = "monster" /\ cells[from].obj = i
      /\ from # Freed
  BY DEF handle_monster_move, Typing, Placed, MonstersPlaced
<1>2. CASE GiveUp(from)
  BY <1>2, Unmoved DEF GiveUp, board
<1>3. ASSUME NEW d \in Directions,
             LET to == NextLocation(from, d)
             IN Prowl(i, from, to) \/ AttackPower(i, from, to) \/ KillPlayer(i, from, to)
      PROVE  Placed'
  <2> DEFINE to == NextLocation(from, d)
  <2>1. to \in Pos /\ cells[to] \in Cell
    BY <1>1, NextInside DEF Typing
  <2>2. Prowl(i, from, to) \/ AttackPower(i, from, to) \/ KillPlayer(i, from, to)
    BY <1>3
  <2>3. from = monsters[i]
    OBVIOUS
  <2>4. /\ Vacated(cells[from]).sym \in {"coin", "empty"}
        /\ Vacated(cells[from]).coin = cells[from].coin
        /\ Vacated(cells[from]).sym = "coin" <=> cells[from].coin
    BY <1>1 DEF Vacated, CoinCell, EmptyCell, Cell
  <2> DEFINE v == Vacated(cells[from])
  <2> HIDE DEF from, to, v
  <2>5. CASE Prowl(i, from, to)
    <3> DEFINE c == [cells[from] EXCEPT !.coin = (cells[to].sym = "coin")]
    <3>1. from # to /\ cells[to].sym \in {"empty", "coin"}
      BY <1>1, <2>5 DEF Prowl
    <3>2. c.sym = "monster" /\ c.obj = i /\ c.coin = (cells[to].sym = "coin")
      BY <1>1 DEF Cell
    <3>3. cells' = [cells EXCEPT ![to] = c, ![from] = v] /\ monsters' = [monsters EXCEPT ![i] = to]
      BY <2>5 DEF Prowl, v
    <3> HIDE DEF c
    <3>4. /\ cells'[to] = c /\ cells'[from] = v
          /\ \A q \in Pos \ {from, to} : cells'[q] = cells[q]
      BY <1>1, <2>1, <3>1, <3>3 DEF Typing
    <3>5. PlayersPlaced'
      <4>1. \A q \in Pos : cells'[q] # cells[q] => cells[q].sym # "player" /\ cells'[q].sym # "player"
        BY <1>1, <2>4, <3>1, <3>2, <3>4 DEF v
      <4> QED
        BY <2>5, <4>1, PlayersElsewhere DEF Prowl, Placed
    <3>6. cells[to].coin <=> cells[to].sym = "coin"
      BY <2>1, <3>1 DEF Placed, CoinsPlaced, CoinShown
    <3>7. CoinsPlaced'
      <4>1. \A q \in Pos : cells'[q].coin = cells[q].coin
        BY <1>1, <2>1, <2>4, <3>2, <3>4, <3>6 DEF v, Cell
      <4>2. \A q \in Pos : CoinShown(q)'
        BY <1>1, <2>1, <2>4, <3>2, <3>4 DEF v, Placed, CoinsPlaced, CoinShown
      <4> QED
        BY <2>5, <4>1, <4>2, CoinsStay DEF Prowl, Placed
    <3>8. MonstersPlaced'
      <4>1. ASSUME NEW j \in 1 .. MaxMonsters, j # i, monsters'[j] # Freed
            PROVE  cells'[monsters'[j]].sym = "monster" /\ cells'[monsters'[j]].obj = j
        BY <1>1, <3>1, <3>3, <3>4, <4>1 DEF Typing, Placed, MonstersPlaced
      <4>2. monsters'[i] = to
        BY <3>3 DEF Typing
      <4>3. ASSUME NEW q \in Pos \ {from, to}, cells'[q].sym = "monster"
            PROVE  cells'[q].obj \in 1 .. MaxMonsters /\ monsters'[cells'[q].obj] = q
        <5>1. cells[q].obj \in 1 .. MaxMonsters /\ monsters[cells[q].obj] = q /\ cells'[q] = cells[q]
          BY <3>4, <4>3 DEF Placed, MonstersPlaced
        <5> QED
          BY <2>3, <3>3, <4>3, <5>1 DEF Typing
      <4> QED
        BY <1>1, <2>1, <2>4, <3>2, <3>4, <4>1, <4>2, <4>3 DEF MonstersPlaced, v
    <3> QED
      BY <3>5, <3>7, <3>8 DEF Placed
  <2>6. CASE AttackPower(i, from, to)
    <3>1. cells' = [cells EXCEPT ![from] = v] /\ monsters' = [monsters EXCEPT ![i] = Freed]
      BY <2>6 DEF AttackPower, v
    <3>2. cells'[from] = v /\ \A q \in Pos \ {from} : cells'[q] = cells[q]
      BY <1>1, <3>1 DEF Typing
    <3>3. PlayersPlaced'
      <4>1. \A q \in Pos : cells'[q] # cells[q] => cells[q].sym # "player" /\ cells'[q].sym # "player"
        BY <1>1, <2>4, <3>2 DEF v
      <4> QED
        BY <2>6, <4>1, PlayersElsewhere DEF AttackPower, Placed
    <3>4. CoinsPlaced'
      <4>1. \A q \in Pos : cells'[q].coin = cells[q].coin
        BY <1>1, <2>4, <3>2 DEF v
      <4>2. \A q \in Pos : CoinShown(q)'
        BY <1>1, <2>4, <3>2 DEF v, Placed, CoinsPlaced, CoinShown
      <4> QED
        BY <2>6, <4>1, <4>2, CoinsStay DEF AttackPower, Placed
    <3>5. MonstersPlaced'
      <4>1. ASSUME NEW j \in 1 .. MaxMonsters, monsters'[j] # Freed
            PROVE  cells'[monsters'[j]].sym = "monster" /\ cells'[monsters'[j]].obj = j
        BY <1>1, <3>1, <3>2, <4>1 DEF Typing, Placed, MonstersPlaced
      <4>2. ASSUME NEW q \in Pos \ {from}, cells'[q].sym = "monster"
            PROVE  cells'[q].obj \in 1 .. MaxMonsters /\ monsters'[cells'[q].obj] = q
        <5>1. cells[q].obj \in 1 .. MaxMonsters /\ monsters[cells[q].obj] = q /\ cells'[q] = cells[q]
          BY <3>2, <4>2 DEF Placed, MonstersPlaced
        <5> QED
          BY <2>3, <3>1, <4>2, <5>1 DEF Typing
      <4> QED
        BY <2>4, <3>2, <4>1, <4>2 DEF MonstersPlaced, v
    <3> QED
      BY <3>3, <3>4, <3>5 DEF Placed
  <2>7. CASE KillPlayer(i, from, to)
    <3>1. player'[0].state = "DEAD"
      BY <2>7, Board DEF KillPlayer, MarkAsDead, Index, Typing, Player
    <3> QED
      BY <3>1, Board DEF Undisturbed
  <2> QED
    BY <2>2, <2>5, <2>6, <2>7
<1> QED
  BY <1>2, <1>3 DEF handle_monster_move

(* The power goes with the capital, and a monster has no capital to lose.       *)
LEMMA PowerPlaced ==
  ASSUME Typing, Placed, NEW i \in Players, UpdateSuperPower(i), Undisturbed'
  PROVE  Placed'
<1>0. PICK q \in Pos : q = player[i].location
  BY DEF Typing, Player
<1>1. cells[q] \in Cell /\ server' = "up" /\ UNCHANGED <<monsters, coins>>
  BY DEF Typing, Player, Undisturbed, UpdateSuperPower
<1>2. CASE superpower_timers[i] # 1
  BY <1>1, <1>2, Unmoved DEF UpdateSuperPower
<1>3. CASE superpower_timers[i] = 1
  <2> DEFINE c == [cells[q] EXCEPT !.upper = FALSE]
  <2>1. /\ c.sym = cells[q].sym /\ c.obj = cells[q].obj /\ c.coin = cells[q].coin
        /\ c.upper = FALSE
    BY <1>1 DEF Cell
  <2>2. cells' = [cells EXCEPT ![q] = c]
    BY <1>0, <1>3 DEF UpdateSuperPower
  <2> HIDE DEF c
  <2>3. cells'[q] = c /\ \A r \in Pos \ {q} : cells'[r] = cells[r]
    BY <1>1, <2>2 DEF Typing
  <2>4. \A r \in Pos : /\ cells'[r].sym = cells[r].sym /\ cells'[r].obj = cells[r].obj
                       /\ cells'[r].coin = cells[r].coin
    BY <2>1, <2>3
  <2>5. MonstersPlaced'
    BY <1>1, <2>4 DEF Placed, MonstersPlaced, Typing
  <2>6. CoinsPlaced'
    BY <1>1, <2>4, CoinsStay DEF Placed, CoinsPlaced, CoinShown
  <2>7. PlayersPlaced'
    <3>1. CASE cells[q].sym = "player"
      <4>1. PICK o \in Players : o = cells[q].obj /\ OnBoard(o) /\ player[o].location = q
        BY <1>1, <3>1 DEF Placed, PlayersPlaced, BelongsToOne
      <4>2. player' = [player EXCEPT ![o].power = FALSE]
        BY <1>0, <1>3, <3>1, <4>1 DEF UpdateSuperPower
      <4>3. /\ \A r \in Players : /\ player'[r].location = player[r].location
                                  /\ player'[r].state = player[r].state
                                  /\ player'[r].power = (r # o /\ player[r].power)
            /\ \A r \in Players : OnBoard(r)' <=> OnBoard(r)
        BY <4>1, <4>2 DEF Typing, Player, OnBoard
      <4>4. ASSUME NEW r \in Players, OnBoard(r) PROVE StandsOn(r, player[r].location)'
        <5>1. StandsOn(r, player[r].location) /\ player[r].location \in Pos
          BY <4>4 DEF Placed, PlayersPlaced, Typing, Player
        <5>2. CASE r = o
          <6>1. player'[r].power = FALSE /\ player'[r].location = q
            BY <4>1, <4>3, <5>2
          <6> QED
            BY <2>1, <2>3, <4>1, <5>1, <5>2, <6>1 DEF StandsOn
        <5>3. CASE r # o
          <6>1. player[r].location # q
            BY <4>1, <5>1, <5>3 DEF StandsOn
          <6>2. player[r].power \in BOOLEAN
            BY DEF Typing, Player
          <6>3. player'[r].power = player[r].power /\ player'[r].location = player[r].location
            <7>1. player'[r].power = (r # o /\ player[r].power)
              BY <4>3
            <7>2. (r # o /\ player[r].power) = player[r].power
              BY <5>3, <6>2
            <7> QED
              BY <4>3, <7>1, <7>2
          <6> QED
            BY <2>3, <5>1, <6>1, <6>3 DEF StandsOn
        <5> QED
          BY <5>2, <5>3
      <4>5. ASSUME NEW r \in Pos, cells'[r].sym = "player" PROVE BelongsToOne(r)'
        BY <2>4, <4>3, <4>5 DEF Placed, PlayersPlaced, BelongsToOne
      <4>6. \A r \in Players : ~OnBoard(r)' => ~player'[r].power
        BY <4>3 DEF Placed, PlayersPlaced
      <4> QED
        BY <4>3, <4>4, <4>5, <4>6 DEF PlayersPlaced
    <3>2. CASE cells[q].sym # "player"
      <4>1. UNCHANGED player
        BY <1>0, <3>2 DEF UpdateSuperPower
      <4>2. \A r \in Pos : cells'[r] # cells[r] => /\ cells[r].sym # "player"
                                                    /\ cells'[r].sym # "player"
        BY <2>1, <2>3, <3>2
      <4> QED
        BY <4>1, <4>2, PlayersElsewhere DEF Placed
    <3> QED
      BY <3>1, <3>2
  <2> QED
    BY <2>5, <2>6, <2>7 DEF Placed
<1> QED
  BY <1>2, <1>3
-----------------------------------------------------------------------------
(* The main thread's handlers.                                                  *)

(* Who leaves the game stays on its cell.                                       *)
LEMMA DisconnectPlaced ==
  ASSUME Typing, Placed, NEW p \in Players, Disconnect(p) PROVE Placed'
<1>1. /\ UNCHANGED <<cells, monsters, coins>> /\ player[p].state = "INSIDE"
      /\ player' = [player EXCEPT ![p].state = "DISCONNECTED"]
  BY DEF Disconnect, MarkAsDead, board
<1>2. \A r \in Players : /\ player'[r].location = player[r].location
                         /\ player'[r].power = player[r].power
                         /\ OnBoard(r)' <=> OnBoard(r)
  BY <1>1 DEF Typing, Player, OnBoard
<1>3. PlayersPlaced'
  BY <1>1, <1>2 DEF Placed, PlayersPlaced, StandsOn, BelongsToOne
<1>4. MonstersPlaced'
  BY <1>1 DEF Placed, MonstersPlaced
<1>5. CoinsPlaced'
  BY <1>1 DEF Placed, CoinsPlaced, Coins, CoinShown
<1> QED
  BY <1>3, <1>4, <1>5 DEF Placed

(* Who is put on a cell that still is empty takes nobody's place.               *)
LEMMA PlacePlaced ==
  ASSUME Typing, Placed, put_player_on_board, Undisturbed' PROVE Placed'
<1>0. PICK p \in Players, q \in Pos : p = main.p /\ q = main.q
  BY DEF Typing, Main
<1> DEFINE c == [cells[q] EXCEPT !.sym = "player", !.obj = p, !.upper = FALSE]
<1>1. /\ cells[q] \in Cell /\ player[p].state = "ACK" /\ main.overwrote \in BOOLEAN
  BY <1>0 DEF put_player_on_board, Typing, Main
<1>2. cells[q].sym = "empty" /\ UNCHANGED <<monsters, coins>>
  <2>1. main' = [main EXCEPT !.at = "serving", !.p = 0, !.q = <<0, 0>>,
                             !.overwrote = @ \/ cells[q].sym # "empty"]
    BY <1>0 DEF put_player_on_board
  <2>2. main'.overwrote = (main.overwrote \/ cells[q].sym # "empty")
    BY <2>1 DEF Typing, Main
  <2> QED
    BY <2>2 DEF put_player_on_board, Undisturbed
<1>3. ~cells[q].coin /\ ~OnBoard(p) /\ ~player[p].power
  BY <1>1, <1>2 DEF Placed, PlayersPlaced, CoinsPlaced, CoinShown, OnBoard
<1>4. c.sym = "player" /\ c.obj = p /\ c.upper = FALSE /\ c.coin = FALSE
  BY <1>1, <1>3 DEF Cell
<1>5. /\ cells' = [cells EXCEPT ![q] = c]
      /\ player' = [player EXCEPT ![p].location = q, ![p].state = "INSIDE"]
  BY <1>0 DEF put_player_on_board
<1> HIDE DEF c
<1>6. cells'[q] = c /\ \A r \in Pos \ {q} : cells'[r] = cells[r]
  BY <1>1, <1>5 DEF Typing
<1>7. /\ player'[p].location = q /\ player'[p].state = "INSIDE"
      /\ player'[p].power = player[p].power
      /\ \A r \in Players \ {p} : player'[r] = player[r]
  BY <1>1, <1>5 DEF Typing, Player
<1>8. OnBoard(p)' /\ \A r \in Players \ {p} : OnBoard(r)' <=> OnBoard(r)
  BY <1>7 DEF OnBoard
<1>9. PlayersPlaced'
  <2>1. ASSUME NEW r \in Players \ {p}, OnBoard(r) PROVE StandsOn(r, player[r].location)'
    <3>1. StandsOn(r, player[r].location) /\ player[r].location \in Pos
      BY <2>1 DEF Placed, PlayersPlaced, Typing, Player
    <3>2. player[r].location \in Pos \ {q}
      BY <1>2, <3>1 DEF StandsOn
    <3> QED
      BY <1>6, <1>7, <3>1, <3>2 DEF StandsOn
  <2>2. StandsOn(p, player[p].location)'
    <3>1. player[p].power = FALSE
      BY <1>1, <1>3 DEF Typing, Player
    <3> QED
      BY <1>1, <1>4, <1>6, <1>7, <3>1 DEF StandsOn
  <2>3. ASSUME NEW r \in Pos, cells'[r].sym = "player" PROVE BelongsToOne(r)'
    <3>1. CASE r = q
      BY <1>1, <1>4, <1>6, <1>7, <1>8, <3>1 DEF BelongsToOne
    <3>2. CASE r # q
      <4>1. cells'[r] = cells[r] /\ BelongsToOne(r)
        BY <1>6, <2>3, <3>2 DEF Placed, PlayersPlaced
      <4>2. cells[r].obj # p
        BY <1>3, <4>1 DEF BelongsToOne
      <4> QED
        BY <1>7, <1>8, <4>1, <4>2 DEF BelongsToOne
    <3> QED
      BY <3>1, <3>2
  <2>4. \A r \in Players : ~OnBoard(r)' => ~player'[r].power
    BY <1>7, <1>8 DEF Placed, PlayersPlaced
  <2> QED
    BY <1>8, <2>1, <2>2, <2>3, <2>4 DEF PlayersPlaced
<1>10. MonstersPlaced'
  <2>1. \A r \in Pos : cells[r].sym = "monster" => cells'[r] = cells[r]
    BY <1>2, <1>6
  <2>2. \A r \in Pos : cells'[r].sym = "monster" => cells'[r] = cells[r]
    BY <1>4, <1>6
  <2> QED
    BY <1>2, <2>1, <2>2 DEF Placed, MonstersPlaced, Typing
<1>11. CoinsPlaced'
  <2>1. \A r \in Pos : cells'[r].coin = cells[r].coin
    <3>1. cells[q].coin = FALSE
      BY <1>1, <1>3 DEF Cell
    <3> QED
      BY <1>4, <1>6, <3>1
  <2>2. \A r \in Pos : CoinShown(r)'
    BY <1>4, <1>6 DEF Placed, CoinsPlaced, CoinShown
  <2> QED
    BY <1>2, <2>1, <2>2, CoinsStay DEF Placed
<1> QED
  BY <1>9, <1>10, <1>11 DEF Placed

LEMMA PlacedStep == ASSUME Typing, Placed, Next, Undisturbed' PROVE Placed'
BY Kinds, QuietStep, Unmoved, MovePlaced, MonsterPlaced, PowerPlaced, DisconnectPlaced, PlacePlaced
-----------------------------------------------------------------------------
(* init_board numbers the monsters in the order of their cells, so that no two  *)
(* share a cell and none is without a number.                                   *)
LEMMA Numbered ==
  ASSUME NEW lairs \in SUBSET Pos, Cardinality(lairs) = MaxMonsters,
         monsters \in [1 .. MaxMonsters -> lairs],
         \A i, j \in 1 .. MaxMonsters : i < j => Before(monsters[i], monsters[j])
  PROVE  /\ \A i, j \in 1 .. MaxMonsters : monsters[i] = monsters[j] => i = j
         /\ \A q \in lairs : \E i \in 1 .. MaxMonsters : monsters[i] = q
<1>1. MaxMonsters \in Nat /\ IsFiniteSet(lairs)
  BY WorldAssumption, Board, FS_Subset
<1>2. \A q \in Pos : ~Before(q, q)
  <2>1. ASSUME NEW q \in Pos PROVE ~Before(q, q)
    <3>1. q[1] \in Int /\ q[2] \in Int /\ Width \in Int
      BY WorldAssumption DEF Pos
    <3>2. q[1] * Width + q[2] \in Int
      BY <3>1
    <3>3. \A n \in Int : ~(n < n)
      OBVIOUS
    <3> QED
      BY <3>2, <3>3 DEF Before
  <2> QED
    BY <2>1
<1>3. \A i, j \in 1 .. MaxMonsters : monsters[i] = monsters[j] => i = j
  <2> SUFFICES ASSUME NEW i \in 1 .. MaxMonsters, NEW j \in 1 .. MaxMonsters,
                      monsters[i] = monsters[j], i # j
               PROVE  FALSE
    OBVIOUS
  <2>1. i < j \/ j < i
    OBVIOUS
  <2>2. monsters[i] \in Pos
    OBVIOUS
  <2> QED
    BY <1>2, <2>1, <2>2
<1>4. monsters \in Injection(1 .. MaxMonsters, lairs)
  BY <1>3 DEF Injection, IsInjective
<1>5. Cardinality(1 .. MaxMonsters) = MaxMonsters
  BY <1>1, FS_Interval
<1>6. monsters \in Surjection(1 .. MaxMonsters, lairs)
  BY <1>1, <1>4, <1>5, FS_Injection
<1> QED
  BY <1>3, <1>6 DEF Surjection

(* What init_board puts into each cell.                                         *)
Furnished(lairs, gold, seat) ==
    \A q \in Pos :
      /\ q \in lairs => \E i \in 1 .. MaxMonsters : monsters[i] = q /\ cells[q] = MonsterCell(i)
      /\ q \in gold => cells[q] = CoinCell
      /\ \A p \in Inside : seat[p] = q => cells[q] = PlayerCell(p)
      /\ \/ q \in lairs \/ q \in gold \/ \E p \in Inside : seat[p] = q
         \/ cells[q] \in {WallCell, EmptyCell}

LEMMA BoardFurnished ==
  ASSUME NEW lairs \in SUBSET Room, Cardinality(lairs) = MaxMonsters,
         NEW gold \in SUBSET (Room \ lairs),
         NEW seat \in [Inside -> Room \ (lairs \cup gold)],
         \A p, q \in Inside : p # q => seat[p] # seat[q],
         InitBoard(lairs, gold, seat)
  PROVE  Furnished(lairs, gold, seat)
<1>1. /\ \A i, j \in 1 .. MaxMonsters : monsters[i] = monsters[j] => i = j
      /\ \A q \in lairs : \E i \in 1 .. MaxMonsters : monsters[i] = q
  BY Board, Numbered DEF InitBoard
<1> SUFFICES ASSUME NEW q \in Pos
             PROVE  /\ q \in lairs => \E i \in 1 .. MaxMonsters :
                                        monsters[i] = q /\ cells[q] = MonsterCell(i)
                    /\ q \in gold => cells[q] = CoinCell
                    /\ \A p \in Inside : seat[p] = q => cells[q] = PlayerCell(p)
                    /\ \/ q \in lairs \/ q \in gold \/ \E p \in Inside : seat[p] = q
                       \/ cells[q] \in {WallCell, EmptyCell}
  BY DEF Furnished
<1>2. cells[q] = IF isBoundary(q) THEN WallCell
                 ELSE IF q \in lairs
                      THEN MonsterCell(CHOOSE i \in DOMAIN monsters : monsters[i] = q)
                 ELSE IF q \in gold THEN CoinCell
                 ELSE IF \E p \in Inside : seat[p] = q
                      THEN PlayerCell(CHOOSE p \in Inside : seat[p] = q)
                 ELSE EmptyCell
  BY DEF InitBoard
<1>3. q \in Room => ~isBoundary(q)
  BY DEF Room
<1>4. ASSUME q \in lairs
      PROVE  \E i \in 1 .. MaxMonsters : monsters[i] = q /\ cells[q] = MonsterCell(i)
  <2> DEFINE i == CHOOSE i \in DOMAIN monsters : monsters[i] = q
  <2>1. DOMAIN monsters = 1 .. MaxMonsters
    BY DEF InitBoard
  <2>2. i \in 1 .. MaxMonsters /\ monsters[i] = q
    BY <1>1, <1>4, <2>1
  <2>3. cells[q] = MonsterCell(i)
    BY <1>2, <1>3, <1>4
  <2> QED
    BY <2>2, <2>3
<1>5. q \in gold => cells[q] = CoinCell
  BY <1>2, <1>3
<1>6. ASSUME NEW p \in Inside, seat[p] = q PROVE cells[q] = PlayerCell(p)
  <2> DEFINE r == CHOOSE r \in Inside : seat[r] = q
  <2>1. r \in Inside /\ seat[r] = q
    BY <1>6
  <2>2. r = p
    BY <1>6, <2>1
  <2>3. cells[q] = PlayerCell(r)
    BY <1>2, <1>3, <1>6
  <2> QED
    BY <2>2, <2>3
<1>7. \/ q \in lairs \/ q \in gold \/ \E p \in Inside : seat[p] = q
      \/ cells[q] \in {WallCell, EmptyCell}
  BY <1>2
<1> QED
  BY <1>4, <1>5, <1>6, <1>7

LEMMA Furniture ==
  /\ WallCell.sym = "wall" /\ ~WallCell.coin /\ EmptyCell.sym = "empty" /\ ~EmptyCell.coin
  /\ CoinCell.sym = "coin" /\ CoinCell.coin
  /\ \A i : MonsterCell(i).sym = "monster" /\ ~MonsterCell(i).coin
  /\ \A p : PlayerCell(p).sym = "player" /\ ~PlayerCell(p).coin
BY DEF WallCell, EmptyCell, CoinCell, MonsterCell, PlayerCell

LEMMA InitPlaced == ASSUME Init PROVE Typing /\ Placed
<1> DEFINE Start(lairs, gold, seat) ==
             /\ \A p, q \in Inside : p # q => seat[p] # seat[q]
             /\ InitBoard(lairs, gold, seat)
             /\ player = [p \in Players |->
                  [location |-> IF p \in Inside THEN seat[p] ELSE <<0, 0>>,
                   state    |-> IF p \in Inside THEN "INSIDE"
                                ELSE IF p \in Joiners THEN "ACK" ELSE "LOBBY",
                   points |-> 0, power |-> FALSE]]
<1>a. \E lairs \in kSubset(MaxMonsters, Room) :
      \E gold \in kSubset(MaxCoins, Room \ lairs) :
      \E seat \in [Inside -> Room \ (lairs \cup gold)] : Start(lairs, gold, seat)
  BY DEF Init
<1> HIDE DEF Start
<1>b. PICK lairs \in kSubset(MaxMonsters, Room) :
        \E gold \in kSubset(MaxCoins, Room \ lairs) :
        \E seat \in [Inside -> Room \ (lairs \cup gold)] : Start(lairs, gold, seat)
  BY <1>a
<1>c. PICK gold \in kSubset(MaxCoins, Room \ lairs) :
        \E seat \in [Inside -> Room \ (lairs \cup gold)] : Start(lairs, gold, seat)
  BY <1>b
<1>1. PICK seat \in [Inside -> Room \ (lairs \cup gold)] : Start(lairs, gold, seat)
  BY <1>c
<1> USE DEF Start
<1>2. /\ lairs \in SUBSET Room /\ Cardinality(lairs) = MaxMonsters
      /\ gold \in SUBSET (Room \ lairs)
  BY <1>1 DEF kSubset
<1>3. Furnished(lairs, gold, seat)
  BY <1>1, <1>2, BoardFurnished
<1>4. /\ \A p \in Inside : p \in Players /\ seat[p] \in Pos
      /\ \A q \in Pos : isBoundary(q) => q \notin lairs /\ q \notin gold
      /\ lairs \subseteq Pos /\ gold \subseteq Pos
  BY <1>1, <1>2, Board, WorldAssumption DEF Room
<1>5. /\ DOMAIN cells = Pos /\ cells = [q \in Pos |-> cells[q]]
      /\ monsters \in [1 .. MaxMonsters -> lairs] /\ coins = Cardinality(gold)
      /\ \A i, j \in 1 .. MaxMonsters : monsters[i] = monsters[j] => i = j
  <2>1. /\ DOMAIN cells = Pos /\ cells = [q \in Pos |-> cells[q]]
        /\ monsters \in [1 .. MaxMonsters -> lairs] /\ coins = Cardinality(gold)
        /\ \A i, j \in 1 .. MaxMonsters : i < j => Before(monsters[i], monsters[j])
    BY <1>1 DEF InitBoard
  <2> QED
    BY <1>2, <1>4, <2>1, Numbered
<1>6. \A q \in Pos :
        \/ \E i \in 1 .. MaxMonsters : q \in lairs /\ monsters[i] = q /\ cells[q] = MonsterCell(i)
        \/ q \in gold /\ cells[q] = CoinCell
        \/ \E p \in Inside : seat[p] = q /\ cells[q] = PlayerCell(p)
        \/ q \notin gold /\ cells[q] \in {WallCell, EmptyCell}
  BY <1>3 DEF Furnished
<1>7. \A p \in Players :
        /\ player[p].location = IF p \in Inside THEN seat[p] ELSE <<0, 0>>
        /\ player[p].state = IF p \in Inside THEN "INSIDE"
                             ELSE IF p \in Joiners THEN "ACK" ELSE "LOBBY"
        /\ player[p].power = FALSE
        /\ OnBoard(p) <=> p \in Inside
  BY <1>1 DEF OnBoard
<1>8. Typing
  <2>1. \A q \in Pos : cells[q] \in Cell
    BY <1>4, <1>6, CellValues, Board
  <2>2. player \in [Players -> Player]
    BY <1>1, <1>4, Board DEF Player
  <2>3. main \in Main /\ main.at # "placing"
    BY Board DEF Init, Main
  <2>4. player[0].state \notin {"LOBBY", "ACK"}
    BY <1>7, Board, WorldAssumption
  <2>5. monsters \in [1 .. MaxMonsters -> Pos \cup {Freed}]
    BY <1>4, <1>5
  <2>6. cells \in [Pos -> Cell]
    BY <1>5, <2>1
  <2> QED
    BY <2>2, <2>3, <2>4, <2>5, <2>6 DEF Typing
<1>9. PlayersPlaced
  <2>1. ASSUME NEW p \in Players, OnBoard(p) PROVE StandsOn(p, player[p].location)
    <3>1. p \in Inside /\ player[p].location = seat[p] /\ player[p].power = FALSE
      BY <1>7, <2>1
    <3>2. cells[seat[p]] = PlayerCell(p)
      BY <1>3, <1>4, <3>1 DEF Furnished
    <3> QED
      BY <3>1, <3>2 DEF StandsOn, PlayerCell, EmptyCell
  <2>2. ASSUME NEW q \in Pos, cells[q].sym = "player" PROVE BelongsToOne(q)
    <3>1. PICK p \in Inside : seat[p] = q /\ cells[q] = PlayerCell(p)
      BY <1>6, <2>2, Furniture
    <3> QED
      BY <1>4, <1>7, <3>1 DEF BelongsToOne, PlayerCell, EmptyCell
  <2> QED
    BY <1>7, <2>1, <2>2 DEF PlayersPlaced
<1>10. MonstersPlaced
  <2>1. ASSUME NEW i \in 1 .. MaxMonsters
        PROVE  cells[monsters[i]].sym = "monster" /\ cells[monsters[i]].obj = i
    <3>1. monsters[i] \in lairs /\ monsters[i] \in Pos
      BY <1>4, <1>5
    <3>2. PICK j \in 1 .. MaxMonsters : /\ monsters[j] = monsters[i]
                                        /\ cells[monsters[i]] = MonsterCell(j)
      BY <1>3, <3>1 DEF Furnished
    <3>3. j = i
      BY <1>5, <3>2
    <3> QED
      BY <3>2, <3>3 DEF MonsterCell, EmptyCell
  <2>2. ASSUME NEW q \in Pos, cells[q].sym = "monster"
        PROVE  cells[q].obj \in 1 .. MaxMonsters /\ monsters[cells[q].obj] = q
    <3>1. PICK i \in 1 .. MaxMonsters : monsters[i] = q /\ cells[q] = MonsterCell(i)
      BY <1>6, <2>2, Furniture
    <3> QED
      BY <3>1 DEF MonsterCell, EmptyCell
  <2> QED
    BY <2>1, <2>2 DEF MonstersPlaced
<1>11. CoinsPlaced
  <2>1. ASSUME NEW q \in Pos PROVE CoinShown(q) /\ (cells[q].coin <=> q \in gold)
    <3>1. CASE q \in gold
      <4>1. cells[q] = CoinCell
        BY <1>3, <3>1 DEF Furnished
      <4> QED
        BY <3>1, <4>1 DEF CoinShown, CoinCell, EmptyCell
    <3>2. CASE q \notin gold
      <4>1. ~cells[q].coin /\ cells[q].sym # "coin"
        BY <1>6, <3>2, Furniture
      <4> QED
        BY <3>2, <4>1 DEF CoinShown
    <3> QED
      BY <3>1, <3>2
  <2>2. Coins = gold
    BY <1>4, <2>1 DEF Coins
  <2> QED
    BY <1>5, <2>1, <2>2 DEF CoinsPlaced
<1> QED
  BY <1>8, <1>9, <1>10, <1>11 DEF Placed
-----------------------------------------------------------------------------
(* The invariant: as long as nobody was caught or written over, every player    *)
(* of the game is on one cell and every monster on another, and the coins that  *)
(* are counted are those that lie on the board (timer_handler and the handlers  *)
(* of the main thread).                                                         *)
THEOREM Invariance == Spec => []IInv
<1>1. Init => IInv
  BY InitPlaced DEF IInv, Placed
<1>2. IInv /\ [Next]_vars => IInv'
  <2> SUFFICES ASSUME IInv, [Next]_vars PROVE IInv'
    OBVIOUS
  <2>1. CASE Next
    <3>1. Typing'
      BY <2>1, TypingStep DEF IInv
    <3>2. ASSUME Undisturbed' PROVE Placed'
      BY <2>1, <3>2, DisturbedForGood, PlacedStep DEF IInv, Placed
    <3> QED
      BY <3>1, <3>2 DEF IInv, Placed
  <2>2. CASE UNCHANGED vars
    <3>1. Typing' /\ (Undisturbed' <=> Undisturbed)
      BY <2>2 DEF vars, IInv, Typing, Undisturbed
    <3>2. Placed => Placed'
      BY <2>2, Unmoved DEF vars
    <3> QED
      BY <3>1, <3>2 DEF IInv, Placed
  <2> QED
    BY <2>1, <2>2
<1> QED
  BY <1>1, <1>2, PTL DEF Spec

(* Board, monsters, players and the coin count agree until somebody is caught   *)
(* or written over, whatever the players send and wherever the monsters go      *)
(* (handle_player_move, handle_monster_move, updateSuperPowers,                 *)
(* put_player_on_board, handle_disconnected_player).                            *)
THEOREM BoardsAgree == Spec => []BoardAgrees
<1>1. IInv => BoardAgrees
  <2> SUFFICES ASSUME IInv, Undisturbed
               PROVE  MonstersOnBoard /\ PlayersOnBoard /\ CoinsCounted
    BY DEF BoardAgrees, MonstersOnBoard, PlayersOnBoard, CoinsCounted
  <2>1. Typing /\ PlayersPlaced /\ MonstersPlaced /\ CoinsPlaced
    BY DEF IInv
  <2>2. MonstersOnBoard
    BY <2>1 DEF Typing, MonstersPlaced, MonstersOnBoard
  <2>3. PlayersOnBoard
    <3> SUFFICES ASSUME NEW p \in Players, player[p].state = "INSIDE"
                 PROVE  /\ \A q \in Pos : (cells[q].sym = "player" /\ cells[q].obj = p)
                                          <=> q = player[p].location
                        /\ cells[player[p].location].upper = player[p].power
      BY DEF PlayersOnBoard
    <3>1. StandsOn(p, player[p].location)
      BY <2>1 DEF PlayersPlaced, OnBoard
    <3>2. \A q \in Pos : cells[q].sym = "player" => BelongsToOne(q)
      BY <2>1 DEF PlayersPlaced
    <3> QED
      BY <3>1, <3>2 DEF StandsOn, BelongsToOne
  <2>4. CoinsCounted
    BY <2>1 DEF CoinsPlaced, CoinsCounted, Coins
  <2> QED
    BY <2>2, <2>3, <2>4
<1> QED
  BY <1>1, Invariance, PTL
-----------------------------------------------------------------------------
(* One player.  The index that handle_player_event never stores is zero for     *)
(* everybody, so timers and deaths are booked right for a lone player.          *)

Owned == \A q \in Pos : cells[q].sym = "player" => cells[q].obj \in Players

(* Nobody is put on the board beside a player who is on it from the start, so   *)
(* only a catch or a crash can disturb it.                                      *)
LoneInv ==
    /\ IInv /\ Owned /\ ~main.overwrote
    /\ superpower_timers \in [Players -> Nat]
    /\ PowerIsTimed

LEMMA Alone == ASSUME NumPlayers = 1 PROVE Players = {0}
BY DEF Players

LEMMA NothingPlaced ==
  ASSUME NumPlayers = 1, Typing PROVE ~put_player_on_board
BY Alone DEF Typing, Main, put_player_on_board

LEMMA LonePlaced ==
  ASSUME NumPlayers = 1, LoneInv, server = "up", player[0].state = "INSIDE"
  PROVE  Typing /\ Placed
BY Alone DEF LoneInv, IInv, Placed, Undisturbed

LEMMA LoneMoves ==
  ASSUME NumPlayers = 1, LoneInv, NEW p \in Players, handle_player_move(p)
  PROVE  /\ p = 0 /\ Placed /\ OnBoard(0) /\ player[0].state = "INSIDE"
         /\ player[0].location \in Pos /\ cells[player[0].location].sym = "player"
         /\ cells[player[0].location].obj = 0
<1>1. p = 0 /\ server = "up" /\ player[0].state = "INSIDE"
  BY Alone DEF handle_player_move, Updater
<1>2. Typing /\ Placed /\ OnBoard(0)
  BY <1>1, LonePlaced DEF OnBoard
<1> QED
  BY <1>1, <1>2, Board DEF Placed, PlayersPlaced, StandsOn, Typing, Player

(* What a player's cell holds comes from another cell, or from newPlayer.       *)
LEMMA OwnedStep == ASSUME NumPlayers = 1, LoneInv, Next PROVE Owned'
<1>0. Typing /\ Owned
  BY DEF LoneInv, IInv
<1>1. CASE Quiet
  BY <1>0, <1>1, QuietStep DEF Owned
<1>2. ASSUME NEW i \in Players, UpdateSuperPower(i) PROVE Owned'
  <2>1. player[i].location \in Pos /\ cells \in [Pos -> Cell]
    BY <1>0 DEF Typing, Player
  <2>2. \A q \in Pos : cells'[q].sym = cells[q].sym /\ cells'[q].obj = cells[q].obj
    BY <1>2, <2>1 DEF UpdateSuperPower, Cell
  <2> QED
    BY <1>0, <2>2 DEF Owned
<1>3. ASSUME NEW p \in Players, handle_player_move(p) PROVE Owned'
  <2> DEFINE from == player[p].location
             to == NextLocation(from, last_move[p])
  <2>1. from \in Pos /\ to \in Pos /\ cells \in [Pos -> Cell] /\ cells[from].obj \in Players
    BY <1>0, <1>3, NextInside, LoneMoves, Board DEF handle_player_move, Typing, Player
  <2>2. \/ UNCHANGED cells
        \/ cells' = [cells EXCEPT ![from] = EmptyCell]
        \/ \E gain : MovesTo(p, from, to, gain)
    BY <1>3 DEF handle_player_move, MoveIntoEmpty, KillMonster, WalkIntoMonster, StepOntoCoin,
                BumpInto, TakeCoin, board
  <2>3. EmptyCell.sym # "player"
    BY Furniture
  <2> HIDE DEF from, to
  <2>4. ASSUME NEW gain, MovesTo(p, from, to, gain) PROVE Owned'
    <3> DEFINE c == [cells[from] EXCEPT !.upper = @ \/ gain]
    <3>1. c.obj = cells[from].obj
      BY <2>1 DEF Cell
    <3>2. cells' = [cells EXCEPT ![to] = c, ![from] = EmptyCell]
      BY <2>4 DEF MovesTo
    <3> HIDE DEF c
    <3> QED
      BY <1>0, <2>1, <2>3, <3>1, <3>2 DEF Owned
  <2>5. CASE UNCHANGED cells
    BY <1>0, <2>5 DEF Owned
  <2>6. CASE cells' = [cells EXCEPT ![from] = EmptyCell]
    BY <1>0, <2>1, <2>3, <2>6 DEF Owned
  <2> QED
    BY <2>2, <2>4, <2>5, <2>6
<1>4. ASSUME NEW i \in 1 .. MaxMonsters, handle_monster_move(i) PROVE Owned'
  <2> DEFINE from == monsters[i]
             v == Vacated(cells[from])
  <2>1. from \in Pos /\ cells \in [Pos -> Cell]
    BY <1>0, <1>4 DEF handle_monster_move, Typing
  <2>2. v.sym # "player"
    BY Furniture DEF Vacated
  <2>3. \/ UNCHANGED cells
        \/ cells' = [cells EXCEPT ![from] = v]
        \/ \E d \in Directions, b \in BOOLEAN :
             cells' = [cells EXCEPT ![NextLocation(from, d)] = [cells[from] EXCEPT !.coin = b],
                                    ![from] = v]
        \/ \E d \in Directions :
             cells' = [cells EXCEPT ![NextLocation(from, d)] = cells[from], ![from] = v]
    BY <1>4 DEF handle_monster_move, GiveUp, Prowl, AttackPower, KillPlayer, board
  <2> HIDE DEF from, v
  <2>4. ASSUME NEW c \in Cell, c.sym = cells[from].sym, c.obj = cells[from].obj, NEW to \in Pos,
               cells' = [cells EXCEPT ![to] = c, ![from] = v]
        PROVE  Owned'
    BY <1>0, <2>1, <2>2, <2>4 DEF Owned
  <2>5. \A b \in BOOLEAN : /\ [cells[from] EXCEPT !.coin = b] \in Cell
                          /\ [cells[from] EXCEPT !.coin = b].sym = cells[from].sym
                          /\ [cells[from] EXCEPT !.coin = b].obj = cells[from].obj
    BY <2>1 DEF Cell
  <2>6. CASE UNCHANGED cells
    BY <1>0, <2>6 DEF Owned
  <2>7. CASE cells' = [cells EXCEPT ![from] = v]
    BY <1>0, <2>1, <2>2, <2>7 DEF Owned
  <2>8. ASSUME NEW d \in Directions, NEW b \in BOOLEAN,
               cells' = [cells EXCEPT ![NextLocation(from, d)] = [cells[from] EXCEPT !.coin = b],
                                      ![from] = v]
        PROVE  Owned'
    BY <2>1, <2>4, <2>5, <2>8, NextInside
  <2>9. ASSUME NEW d \in Directions,
               cells' = [cells EXCEPT ![NextLocation(from, d)] = cells[from], ![from] = v]
        PROVE  Owned'
    BY <2>1, <2>4, <2>9, NextInside
  <2> QED
    BY <2>3, <2>6, <2>7, <2>8, <2>9
<1>5. ASSUME NEW p \in Players, Disconnect(p) PROVE Owned'
  BY <1>0, <1>5 DEF Disconnect, board, Owned
<1> QED
  BY <1>0, <1>1, <1>2, <1>3, <1>4, <1>5, Kinds, NothingPlaced

(* Powers are given with a full timer, and taken with its end.                  *)
LEMMA PowerStep ==
  ASSUME NumPlayers = 1, LoneInv, Next
  PROVE  superpower_timers' \in [Players -> Nat] /\ PowerIsTimed'
<1>0. /\ Typing /\ Players = {0} /\ superpower_timers \in [Players -> Nat]
      /\ player[0].state = "INSIDE" => (player[0].power <=> superpower_timers[0] > 0)
      /\ player[0] \in Player
  BY Alone DEF LoneInv, IInv, PowerIsTimed, Typing
<1> DEFINE Kept == superpower_timers' = superpower_timers /\ player'[0].power = player[0].power
                   /\ player'[0].state = player[0].state
           Goal == superpower_timers' \in [Players -> Nat] /\ PowerIsTimed'
<1>1. ASSUME Kept PROVE Goal
  BY <1>0, <1>1 DEF PowerIsTimed
<1>2. ASSUME superpower_timers' \in [Players -> Nat], player'[0].state # "INSIDE" PROVE Goal
  BY <1>2 DEF PowerIsTimed
<1>3. CASE Quiet
  <2>1. superpower_timers' = superpower_timers
    BY <1>3 DEF Quiet, Ring, SigWait, SendUpdates, Joined, NextPhase, NoMove, Command, Hangup,
                FindPlace, TakenForNew, SkipMonster
  <2> QED
    BY <1>0, <1>1, <1>3, <2>1, QuietStep
<1>4. ASSUME NEW pl \in [Players -> Player], NEW state \in {"DEAD", "DISCONNECTED"},
             MarkAsDead(0, state, pl)
      PROVE  Goal
  <2>1. superpower_timers' \in [Players -> Nat]
    BY <1>0, <1>4 DEF MarkAsDead
  <2>2. player'[0].state = state
    BY <1>0, <1>4 DEF MarkAsDead, Player
  <2>3. player'[0].state # "INSIDE"
    BY <1>4, <2>2
  <2> QED
    BY <1>2, <2>1, <2>3
<1>5. ASSUME NEW i \in Players, UpdateSuperPower(i) PROVE Goal
  <2> DEFINE q == player[0].location
  <2>1. i = 0 /\ server = "up"
    BY <1>0, <1>5 DEF UpdateSuperPower, Updater
  <2>2. superpower_timers' = [superpower_timers EXCEPT ![0] = IF @ = 0 THEN 0 ELSE @ - 1]
    BY <1>5, <2>1 DEF UpdateSuperPower
  <2>3. superpower_timers' \in [Players -> Nat]
    BY <1>0, <2>2
  <2>4. CASE superpower_timers[0] # 1
    <3>1. player' = player
      BY <1>5, <2>1, <2>4 DEF UpdateSuperPower
    <3> QED
      BY <1>0, <2>2, <2>3, <2>4, <3>1 DEF PowerIsTimed
  <2>5. CASE superpower_timers[0] = 1 /\ player[0].state = "INSIDE"
    <3>1. cells[q].sym = "player" /\ cells[q].obj = 0
      BY <1>0, <2>1, <2>5, LonePlaced, Board
         DEF Placed, PlayersPlaced, StandsOn, OnBoard
    <3>2. player' = [player EXCEPT ![0].power = FALSE]
      BY <1>5, <2>1, <2>5, <3>1 DEF UpdateSuperPower
    <3>3. player'[0].power = FALSE
      BY <1>0, <3>2 DEF Typing, Player
    <3> QED
      BY <1>0, <2>2, <2>3, <2>5, <3>3 DEF PowerIsTimed
  <2>6. CASE player[0].state # "INSIDE"
    <3>1. player'[0].state = player[0].state
      BY <1>0, <1>5 DEF UpdateSuperPower, Typing, Player
    <3> QED
      BY <1>2, <2>3, <2>6, <3>1
  <2> QED
    BY <2>4, <2>5, <2>6
<1>6. ASSUME NEW from, NEW to, TakeCoin(0, from, to), player[0].state = "INSIDE" PROVE Goal
  <2> DEFINE gain == coins # 1 /\ (player[0].points + CoinWorth) % PowerDivider = 0
  <2>1. /\ player' = [player EXCEPT ![0].location = to, ![0].points = player[0].points + CoinWorth,
                                    ![0].power = @ \/ gain]
        /\ superpower_timers' = IF gain THEN [superpower_timers EXCEPT ![0] = PowerRounds]
                                        ELSE superpower_timers
    BY <1>6 DEF TakeCoin, Index
  <2> HIDE DEF gain
  <2>2. player'[0].power = (player[0].power \/ gain)
    BY <1>0, <2>1 DEF Typing, Player
  <2>3. PowerRounds \in Nat /\ PowerRounds > 0
    BY WorldAssumption
  <2>4. CASE gain
    BY <1>0, <2>1, <2>2, <2>3, <2>4 DEF PowerIsTimed
  <2>5. CASE ~gain
    BY <1>0, <1>6, <2>1, <2>2, <2>5 DEF PowerIsTimed
  <2> QED
    BY <2>4, <2>5
<1>7. ASSUME NEW to, player' = [player EXCEPT ![0].location = to],
             UNCHANGED superpower_timers
      PROVE  Goal
  BY <1>0, <1>1, <1>7 DEF Typing, Player
<1>8. ASSUME NEW p \in Players, handle_player_move(p) PROVE Goal
  <2> DEFINE from == player[p].location
             to == NextLocation(from, last_move[p])
  <2>1. p = 0 /\ player[0].state = "INSIDE" /\ to \in Pos
    BY <1>0, <1>8, NextInside, LoneMoves DEF handle_player_move
  <2>2. \/ MoveIntoEmpty(p, from, to) \/ KillMonster(p, from, to) \/ WalkIntoMonster(p, from, to)
        \/ StepOntoCoin(p, from, to) \/ BumpInto(p, from, to)
    BY <1>8 DEF handle_player_move
  <2> HIDE DEF from, to
  <2>3. CASE WalkIntoMonster(p, from, to)
    <3> DEFINE pl == [player EXCEPT ![p].location = to]
    <3>1. pl \in [Players -> Player]
      BY <1>0, <2>1 DEF Typing, Player
    <3>2. MarkAsDead(0, "DEAD", pl)
      BY <2>3 DEF WalkIntoMonster, Index
    <3> HIDE DEF pl
    <3> QED
      BY <1>4, <3>1, <3>2
  <2>4. CASE MoveIntoEmpty(p, from, to)
    BY <1>7, <2>1, <2>4 DEF MoveIntoEmpty
  <2>5. CASE KillMonster(p, from, to)
    BY <1>6, <1>7, <2>1, <2>5 DEF KillMonster
  <2>6. CASE StepOntoCoin(p, from, to)
    BY <1>6, <2>1, <2>6 DEF StepOntoCoin
  <2>7. CASE BumpInto(p, from, to)
    BY <1>1, <2>7 DEF BumpInto
  <2> QED
    BY <2>2, <2>3, <2>4, <2>5, <2>6, <2>7
<1>9. ASSUME NEW i \in 1 .. MaxMonsters, handle_monster_move(i) PROVE Goal
  <2>1. \/ UNCHANGED <<player, superpower_timers>>
        \/ MarkAsDead(0, "DEAD", player)
    BY <1>9 DEF handle_monster_move, GiveUp, Prowl, AttackPower, KillPlayer, Index
  <2>2. player \in [Players -> Player]
    BY <1>0 DEF Typing
  <2>3. MarkAsDead(0, "DEAD", player) => Goal
    BY <1>4, <2>2
  <2> QED
    BY <1>1, <2>1, <2>3
<1>10. ASSUME NEW p \in Players, Disconnect(p) PROVE Goal
  <2>1. player \in [Players -> Player] /\ p = 0
    BY <1>0 DEF Typing
  <2>2. MarkAsDead(0, "DISCONNECTED", player)
    BY <1>10, <2>1 DEF Disconnect
  <2> QED
    BY <1>4, <2>1, <2>2
<1> QED
  BY <1>0, <1>3, <1>5, <1>8, <1>9, <1>10, Kinds, NothingPlaced

LEMMA LoneInit == ASSUME NumPlayers = 1, Init PROVE LoneInv
<1>1. Typing /\ Placed
  BY InitPlaced
<1>2. Owned
  BY <1>1 DEF Placed, PlayersPlaced, BelongsToOne, Owned
<1>3. superpower_timers = [p \in Players |-> 0] /\ ~main.overwrote
  BY DEF Init
<1>4. ~player[0].power
  BY Board DEF Init
<1>5. PowerIsTimed
  BY <1>3, <1>4, Board DEF PowerIsTimed
<1> QED
  BY <1>1, <1>2, <1>3, <1>5 DEF LoneInv, IInv, Placed

LEMMA LoneStep == ASSUME NumPlayers = 1, LoneInv, Next PROVE LoneInv'
<1>1. Typing
  BY DEF LoneInv, IInv
<1>2. IInv'
  <2>1. Typing'
    BY <1>1, TypingStep
  <2>2. ASSUME Undisturbed' PROVE Placed'
    BY <1>1, <2>2, DisturbedForGood, PlacedStep DEF LoneInv, IInv, Placed
  <2> QED
    BY <2>1, <2>2 DEF IInv, Placed
<1>3. main'.overwrote = main.overwrote
  <2>1. CASE Quiet
    BY <1>1, <2>1, QuietStep
  <2>2. CASE OnlyDeaths
    BY <2>2 DEF OnlyDeaths
  <2>3. ASSUME NEW p \in Players, Disconnect(p) PROVE main'.overwrote = main.overwrote
    BY <1>1, <2>3 DEF Disconnect, Typing, Main
  <2> QED
    BY <1>1, <2>1, <2>2, <2>3, Kinds, NothingPlaced, PowerTyped, MoveTyped, MonsterTyped
<1> QED
  BY <1>2, <1>3, OwnedStep, PowerStep DEF LoneInv

(* The board is true to a lone player as long as nobody is caught, every cell    *)
(* with a player is that player's, and its timer and its powers run out together *)
(* (check_for_coin_in_target_after_move, updateSuperPowers, mark_as_dead).       *)
THEOREM LoneInvariance == ASSUME NumPlayers = 1 PROVE Spec => []LoneInv
<1>1. Init => LoneInv
  BY LoneInit
<1>2. LoneInv /\ [Next]_vars => LoneInv'
  <2>1. ASSUME LoneInv, UNCHANGED vars PROVE LoneInv'
    BY <2>1 DEF vars, LoneInv, IInv, Typing, Undisturbed, PlayersPlaced, OnBoard, StandsOn,
                BelongsToOne, MonstersPlaced, CoinsPlaced, CoinShown, Coins, Owned, PowerIsTimed
  <2> QED
    BY <2>1, LoneStep
<1> QED
  BY <1>1, <1>2, PTL DEF Spec

(* A lone player has superpowers just while its timer runs, for any board, any   *)
(* number of monsters and coins, any worth of a coin and length of the powers    *)
(* (check_for_coin_in_target_after_move, updateSuperPowers).                     *)
THEOREM PowerTimed == ASSUME NumPlayers = 1 PROVE Spec => []PowerIsTimed
<1>1. LoneInv => PowerIsTimed
  BY DEF LoneInv
<1> QED
  BY <1>1, LoneInvariance, PTL
-----------------------------------------------------------------------------
(* The counts.  num_of_coins_on_screen is unsigned and decides when the game is *)
(* won.  That it does not wrap below zero does not follow from the board: once  *)
(* a monster with a coin under it has killed a player, the coin lies on both    *)
(* cells.  It follows from the updater's end, which comes with the last coin    *)
(* counted, so nobody is left to take another.                                  *)
Phases == {"sigwait", "powers", "moves", "monsters", "send", "exited"}
Bare == \A q \in Pos : ~cells[q].coin /\ cells[q].sym # "coin"

CoinsLast == /\ coins \in 0 .. MaxCoins
             /\ coins > 0 \/ updater.at = "exited" \/ Bare

Counters ==
    /\ superpower_timers \in [Players -> 0 .. PowerRounds]
    /\ last_move \in [Players -> Directions \cup {"INVALID"}]
    /\ alive \in 0 .. CountMod - 1

Connections == {"open", "closed", "forgotten", "removed"}

Threads ==
    /\ client \in [Players -> Connections]
    /\ timer \in BOOLEAN /\ alarm \in BOOLEAN
    /\ updater \in [at : Phases, i : Nat] /\ server \in {"up", "crashed", "exited"}

(* A board without coins stays without.                                         *)
LEMMA BareStep == ASSUME Typing, Bare, Next PROVE Bare' /\ UNCHANGED coins
<1> DEFINE Plain(c) == ~c.coin /\ c.sym # "coin"
<1>1. /\ cells \in [Pos -> Cell] /\ \A q \in Pos : Plain(cells[q])
      /\ Plain(EmptyCell)
      /\ \A c \in Cell : Plain(c) => Plain(Vacated(c))
      /\ \A c \in Cell : \A b : Plain(c) => Plain([c EXCEPT !.upper = b])
  BY DEF Typing, Bare, EmptyCell, Vacated, Cell
<1>2. SUFFICES UNCHANGED coins /\ \A q \in Pos : Plain(cells'[q])
  BY DEF Bare
<1>3. CASE UNCHANGED <<cells, coins>>
  BY <1>1, <1>3
<1>4. ASSUME NEW p \in Players, handle_player_move(p)
      PROVE  UNCHANGED coins /\ \A q \in Pos : Plain(cells'[q])
  <2> DEFINE from == player[p].location
             to == NextLocation(from, last_move[p])
  <2>1. from \in Pos /\ to \in Pos
    BY <1>4, NextInside DEF handle_player_move, Typing, Player
  <2>2. /\ UNCHANGED coins
        /\ \/ UNCHANGED cells
           \/ cells' = [cells EXCEPT ![from] = EmptyCell]
           \/ MovesTo(p, from, to, FALSE)
    BY <1>1, <1>4, <2>1
       DEF handle_player_move, MoveIntoEmpty, KillMonster, WalkIntoMonster, StepOntoCoin,
           BumpInto, board
  <2> HIDE DEF from, to
  <2>3. CASE MovesTo(p, from, to, FALSE)
    <3> DEFINE c == [cells[from] EXCEPT !.upper = @ \/ FALSE]
    <3>1. Plain(c)
      BY <1>1, <2>1 DEF Cell
    <3>2. cells' = [cells EXCEPT ![to] = c, ![from] = EmptyCell]
      BY <2>3 DEF MovesTo
    <3> HIDE DEF c
    <3> QED
      BY <1>1, <2>1, <2>2, <3>1, <3>2
  <2> QED
    BY <1>1, <2>1, <2>2, <2>3
<1>5. ASSUME NEW i \in 1 .. MaxMonsters, handle_monster_move(i)
      PROVE  UNCHANGED coins /\ \A q \in Pos : Plain(cells'[q])
  <2> DEFINE from == monsters[i]
             v == Vacated(cells[from])
  <2>1. from \in Pos /\ Plain(v)
    BY <1>1, <1>5 DEF handle_monster_move, Typing
  <2>2. CASE UNCHANGED <<cells, coins>>
    BY <1>1, <2>2
  <2>3. ASSUME NEW d \in Directions,
               LET to == NextLocation(from, d)
               IN Prowl(i, from, to) \/ AttackPower(i, from, to) \/ KillPlayer(i, from, to)
        PROVE  UNCHANGED coins /\ \A q \in Pos : Plain(cells'[q])
    <3> DEFINE to == NextLocation(from, d)
               c == [cells[from] EXCEPT !.coin = (cells[to].sym = "coin")]
    <3>1. to \in Pos
      BY <2>1, NextInside
    <3>2. Plain(c) /\ Plain(cells[from])
      BY <1>1, <2>1, <3>1 DEF Cell
    <3>3. /\ UNCHANGED coins
          /\ \/ cells' = [cells EXCEPT ![to] = c, ![from] = v]
             \/ cells' = [cells EXCEPT ![from] = v]
             \/ cells' = [cells EXCEPT ![to] = cells[from], ![from] = v]
      BY <2>3 DEF Prowl, AttackPower, KillPlayer
    <3> HIDE DEF from, to, v, c
    <3> QED
      BY <1>1, <2>1, <3>1, <3>2, <3>3
  <2> QED
    BY <1>5, <2>2, <2>3 DEF handle_monster_move, GiveUp, board
<1>6. ASSUME NEW p \in Players, UpdateSuperPower(p)
      PROVE  UNCHANGED coins /\ \A q \in Pos : Plain(cells'[q])
  <2> DEFINE from == player[p].location
             c == [cells[from] EXCEPT !.upper = FALSE]
  <2>1. from \in Pos
    BY DEF Typing, Player
  <2>2. Plain(c)
    BY <1>1, <2>1
  <2>3. UNCHANGED coins /\ (UNCHANGED cells \/ cells' = [cells EXCEPT ![from] = c])
    BY <1>6 DEF UpdateSuperPower
  <2> HIDE DEF from, c
  <2> QED
    BY <1>1, <2>1, <2>2, <2>3
<1>7. CASE put_player_on_board
  <2> DEFINE c == [cells[main.q] EXCEPT !.sym = "player", !.obj = main.p, !.upper = FALSE]
  <2>1. main.q \in Pos
    BY DEF Typing, Main
  <2>2. Plain(c)
    BY <1>1, <2>1 DEF Cell
  <2>3. UNCHANGED coins /\ cells' = [cells EXCEPT ![main.q] = c]
    BY <1>7 DEF put_player_on_board
  <2> HIDE DEF c
  <2> QED
    BY <1>1, <2>1, <2>2, <2>3
<1>8. ASSUME NEW p \in Players, Disconnect(p) PROVE UNCHANGED <<cells, coins>>
  BY <1>8 DEF Disconnect, board
<1> QED
  BY <1>3, <1>4, <1>5, <1>6, <1>7, <1>8, Kinds, QuietStep

(* Coins are taken only by players' moves, and the last one ends the updater.   *)
LEMMA CoinsLastStep ==
  ASSUME Typing, Threads, Threads', CoinsLast, Next PROVE CoinsLast'
<1>1. \/ UNCHANGED coins
      \/ coins' = coins - 1 /\ (coins = 1 => updater'.at = "exited")
  <2>1. ASSUME NEW p, NEW from, NEW to, TakeCoin(p, from, to)
        PROVE  coins' = coins - 1 /\ (coins = 1 => updater'.at = "exited")
    BY <2>1 DEF TakeCoin, Finish
  <2>2. ASSUME NEW p \in Players, handle_player_move(p)
        PROVE  \/ UNCHANGED coins
               \/ coins' = coins - 1 /\ (coins = 1 => updater'.at = "exited")
    BY <2>1, <2>2 DEF handle_player_move, MoveIntoEmpty, KillMonster, WalkIntoMonster,
                      StepOntoCoin, BumpInto, board
  <2>3. ASSUME NEW i \in 1 .. MaxMonsters, handle_monster_move(i) PROVE UNCHANGED coins
    BY <2>3 DEF handle_monster_move, GiveUp, Prowl, AttackPower, KillPlayer, board
  <2> QED
    BY <2>2, <2>3, Kinds, QuietStep DEF UpdateSuperPower, Disconnect, put_player_on_board, board
<1>2. ASSUME updater.at = "exited" PROVE UNCHANGED <<coins, updater>>
  <2>1. \A phase, n : Updater(phase, n) => phase = "exited"
    BY <1>2 DEF Updater
  <2>2. ~UpdaterStep
    BY <2>1 DEF UpdaterStep, SigWait, SendUpdates, UpdateSuperPower, handle_player_move, NoMove,
                handle_monster_move, SkipMonster, NextPhase
  <2> QED
    BY <2>2 DEF Next, MainStep, Ring, Hangup, Joined, put_player_on_board, Command, Disconnect,
                TakenForNew, FindPlace, board
<1>3. coins \in 0 .. MaxCoins /\ MaxCoins \in Nat
  BY WorldAssumption DEF CoinsLast
<1>4. CASE updater.at = "exited"
  BY <1>2, <1>3, <1>4 DEF CoinsLast
<1>5. CASE Bare
  BY <1>3, <1>5, BareStep DEF CoinsLast
<1>6. CASE coins > 0
  BY <1>1, <1>3, <1>6 DEF CoinsLast
<1> QED
  BY <1>4, <1>5, <1>6 DEF CoinsLast

LEMMA CountersStep == ASSUME Counters, Next PROVE Counters'
<1>1. /\ CountMod \in Nat /\ CountMod > 0 /\ PowerRounds \in Nat /\ 0 \in Players
      /\ Keys \subseteq Directions \cup {"INVALID"}
  BY Board, WorldAssumption
<1>2. Decremented \in 0 .. CountMod - 1
  BY <1>1 DEF Counters, Decremented
<1>3. ASSUME NEW i \in Players, NEW state, NEW pl, MarkAsDead(i, state, pl) PROVE Counters'
  BY <1>1, <1>2, <1>3 DEF MarkAsDead, Counters
<1>4. CASE UNCHANGED <<superpower_timers, last_move, alive>>
  BY <1>4 DEF Counters
<1>5. ASSUME NEW p, NEW from, NEW to, TakeCoin(p, from, to) PROVE Counters'
  BY <1>1, <1>5 DEF TakeCoin, Index, NobodyDies, Counters
<1>6. ASSUME NEW p \in Players, handle_player_move(p) PROVE Counters'
  BY <1>1, <1>3, <1>4, <1>5, <1>6
     DEF handle_player_move, MoveIntoEmpty, KillMonster, WalkIntoMonster, StepOntoCoin, BumpInto,
         Index, NobodyDies
<1>7. ASSUME NEW i \in 1 .. MaxMonsters, handle_monster_move(i) PROVE Counters'
  BY <1>1, <1>3, <1>4, <1>7
     DEF handle_monster_move, GiveUp, Prowl, AttackPower, KillPlayer, Index, NobodyDies
<1>8. ASSUME NEW p \in Players, UpdateSuperPower(p) PROVE Counters'
  <2>1. /\ superpower_timers' = [superpower_timers EXCEPT ![p] = IF @ = 0 THEN 0 ELSE @ - 1]
        /\ UNCHANGED <<alive, last_move>>
    BY <1>8 DEF UpdateSuperPower, NobodyDies
  <2> QED
    BY <1>1, <2>1 DEF Counters
<1>9. ASSUME NEW p \in Players, Command(p) PROVE Counters'
  BY <1>1, <1>9 DEF Command, Counters
<1>10. ASSUME NEW p \in Players, Disconnect(p) PROVE Counters'
  BY <1>3, <1>10 DEF Disconnect
<1>11. ASSUME \/ Ring \/ SigWait \/ SendUpdates \/ Joined \/ put_player_on_board
              \/ \E phase, n, next : NextPhase(phase, n, next)
              \/ \E p \in Players : NoMove(p) \/ Hangup(p) \/ FindPlace(p)
              \/ \E i \in 1 .. MaxMonsters : SkipMonster(i)
       PROVE  Counters'
  BY <1>4, <1>11 DEF Ring, SigWait, SendUpdates, Joined, put_player_on_board, NextPhase, NoMove,
                     Hangup, FindPlace, SkipMonster
<1>12. ASSUME NEW p \in Players, TakenForNew(p) PROVE Counters'
  BY <1>1, <1>12 DEF TakenForNew, Counters
<1> QED
  BY <1>6, <1>7, <1>8, <1>9, <1>10, <1>11, <1>12 DEF Next, UpdaterStep, MainStep

LEMMA ThreadsStep == ASSUME Threads, Next PROVE Threads'
<1>1. updater \in [at : Phases, i : Nat]
  BY DEF Threads
<1>2. ASSUME GoOn PROVE updater' \in [at : Phases, i : Nat] /\ timer' \in BOOLEAN
  BY <1>1, <1>2 DEF GoOn, Threads
<1>3. ASSUME Finish PROVE updater' \in [at : Phases, i : Nat] /\ timer' \in BOOLEAN
  BY <1>3 DEF Finish, Phases
<1>4. ASSUME NEW phase \in Phases, updater' = [at |-> phase, i |-> 0]
      PROVE  updater' \in [at : Phases, i : Nat]
  BY <1>4
<1>0. client \in [Players -> Connections]
  BY DEF Threads
<1>5. ASSUME NEW sends, NEW sockets \in [Players -> Connections], SendIf(sends, sockets)
      PROVE  server' \in {"up", "crashed", "exited"} /\ client' \in [Players -> Connections]
  BY <1>5 DEF SendIf, Connections
<1>6. ASSUME NEW p \in Players, handle_player_move(p) PROVE Threads'
  <2>1. GoOn \/ Finish
    BY <1>6 DEF handle_player_move, MoveIntoEmpty, KillMonster, WalkIntoMonster, StepOntoCoin,
                BumpInto, TakeCoin, FinishIfOver
  <2>2. UNCHANGED alarm /\ server' \in {"up", "crashed", "exited"} /\ client' \in [Players -> Connections]
    BY <1>0, <1>5, <1>6 DEF handle_player_move
  <2> QED
    BY <1>2, <1>3, <2>1, <2>2 DEF Threads
<1>7. ASSUME NEW i \in 1 .. MaxMonsters, handle_monster_move(i) PROVE Threads'
  <2>1. GoOn \/ Finish
    BY <1>7 DEF handle_monster_move, GiveUp, Prowl, AttackPower, KillPlayer, FinishIfOver
  <2>2. UNCHANGED alarm /\ server' \in {"up", "crashed", "exited"} /\ client' \in [Players -> Connections]
    BY <1>0, <1>5, <1>7 DEF handle_monster_move
  <2> QED
    BY <1>2, <1>3, <2>1, <2>2 DEF Threads
<1>8. ASSUME NEW p \in Players, UpdateSuperPower(p) PROVE Threads'
  <2>1. GoOn /\ UNCHANGED <<client, alarm>> /\ server' \in {"up", "crashed", "exited"}
    BY <1>8 DEF UpdateSuperPower
  <2> QED
    BY <1>2, <2>1 DEF Threads
<1>9. ASSUME NEW p \in Players, Disconnect(p) PROVE Threads'
  <2>1. [client EXCEPT ![p] = "removed"] \in [Players -> Connections]
    BY <1>0 DEF Connections
  <2>2. UNCHANGED <<alarm, updater>> /\ timer' \in {timer, FALSE}
    BY <1>9 DEF Disconnect
  <2>3. server' \in {"up", "crashed", "exited"} /\ client' \in [Players -> Connections]
    BY <1>5, <1>9, <2>1 DEF Disconnect
  <2> QED
    BY <2>2, <2>3 DEF Threads
<1>10. ASSUME \/ NextPhase("powers", NumPlayers, "moves")
              \/ NextPhase("moves", NumPlayers, "monsters")
              \/ NextPhase("monsters", Len(monsters), "send")
       PROVE  Threads'
  <2>1. /\ \E phase \in Phases : updater' = [at |-> phase, i |-> 0]
        /\ UNCHANGED <<client, timer, alarm, server>>
    BY <1>10 DEF NextPhase, Phases
  <2> QED
    BY <1>4, <2>1 DEF Threads
<1>11. CASE SigWait \/ SendUpdates
  <2>1. /\ \E phase \in Phases : updater' = [at |-> phase, i |-> 0]
        /\ client' \in [Players -> Connections] /\ {timer', alarm'} \subseteq BOOLEAN
        /\ server' \in {"up", "crashed", "exited"}
    BY <1>0, <1>5, <1>11 DEF SigWait, SendUpdates, Phases, Threads
  <2> QED
    BY <1>4, <2>1 DEF Threads
<1>12. ASSUME \/ \E p \in Players : NoMove(p)
              \/ \E i \in 1 .. MaxMonsters : SkipMonster(i)
       PROVE  Threads'
  <2>1. GoOn /\ UNCHANGED <<client, alarm, server>>
    BY <1>12 DEF NoMove, SkipMonster
  <2> QED
    BY <1>2, <2>1 DEF Threads
<1>13. ASSUME \/ Ring \/ Joined \/ put_player_on_board
              \/ \E p \in Players : Command(p) \/ Hangup(p) \/ TakenForNew(p) \/ FindPlace(p)
       PROVE  Threads'
  BY <1>13 DEF Threads, Connections, Ring, Joined, put_player_on_board, Command, Hangup, TakenForNew,
               FindPlace
<1> QED
  BY <1>6, <1>7, <1>8, <1>9, <1>10, <1>11, <1>12, <1>13 DEF Next, UpdaterStep, MainStep

LEMMA CountsInit == ASSUME Init PROVE CoinsLast /\ Counters /\ Threads
<1>1. /\ NumPlayers \in 1 .. 26 /\ CountMod \in Nat /\ CountMod > NumPlayers + 1
      /\ PowerRounds \in Nat /\ MaxCoins \in Nat
  BY WorldAssumption
<1>2. Counters
  BY <1>1 DEF Init, Counters, Directions
<1>3. Threads
  BY DEF Init, Threads, Connections, Phases
<1>4. coins = MaxCoins
  <2>1. \E lairs, gold, seat : Cardinality(gold) = MaxCoins /\ InitBoard(lairs, gold, seat)
    BY DEF Init, kSubset
  <2> QED
    BY <2>1 DEF InitBoard
<1>5. coins = 0 => Bare
  <2> SUFFICES ASSUME coins = 0 PROVE Bare
    OBVIOUS
  <2>1. Typing /\ \A q \in Pos : CoinShown(q)
    BY InitPlaced DEF Placed, CoinsPlaced
  <2>2. IsFiniteSet(Coins) /\ Cardinality(Coins) = 0
    BY InitPlaced, Board, FS_Subset DEF Placed, CoinsPlaced, Coins
  <2>3. Coins = {}
    BY <2>2, FS_EmptySet
  <2> QED
    BY <2>1, <2>3 DEF Coins, CoinShown, Bare
<1> QED
  BY <1>1, <1>2, <1>3, <1>4, <1>5 DEF CoinsLast

(* Disturbed or not, num_of_coins_on_screen does not wrap below zero and no      *)
(* coin is taken once the game was won, no superpower outlasts its start value,  *)
(* and the threads are where their loops can take them                           *)
(* (check_for_coin_in_target_after_move, updateSuperPowers, timer_handler).      *)
THEOREM CountsHold == Spec => [](Typing /\ CoinsLast /\ Counters /\ Threads)
<1> DEFINE Inv == Typing /\ CoinsLast /\ Counters /\ Threads
<1>1. Init => Inv
  BY InitPlaced, CountsInit
<1>2. Inv /\ [Next]_vars => Inv'
  <2>1. ASSUME Inv, UNCHANGED vars PROVE Inv'
    BY <2>1 DEF vars, Typing, CoinsLast, Bare, Counters, Threads
  <2> QED
    BY <2>1, TypingStep, CoinsLastStep, CountersStep, ThreadsStep
<1> QED
  BY <1>1, <1>2, PTL DEF Spec

(* TypeOK, for any board and any number of players, monsters and coins          *)
(* (server/main.c and server/types.h).                                          *)
THEOREM TypesAreOK == Spec => []TypeOK
<1>1. Typing /\ CoinsLast /\ Counters /\ Threads => TypeOK
  <2> SUFFICES ASSUME Typing, CoinsLast, Counters, Threads PROVE TypeOK
    OBVIOUS
  <2>1. monsters \in Seq(Pos \cup {Freed})
    BY WorldAssumption DEF Typing
  <2>2. /\ cells \in [Pos -> [sym : {"wall", "empty", "coin", "monster", "player"},
                               coin : BOOLEAN, upper : BOOLEAN, obj : Nat]]
        /\ player \in [Players -> [location : Pos, points : Nat, power : BOOLEAN,
               state : {"LOBBY", "ACK", "INSIDE", "DEAD", "DISCONNECTED"}]]
    BY DEF Typing, Cell, Symbols, Player
  <2>3. main.at \in {"serving", "placing", "joining", "exited"}
    BY DEF Typing, Main
  <2>4. /\ coins \in 0 .. MaxCoins /\ superpower_timers \in [Players -> 0 .. PowerRounds]
        /\ last_move \in [Players -> Directions \cup {"INVALID"}] /\ alive \in 0 .. CountMod - 1
    BY DEF CoinsLast, Counters
  <2>5. /\ client \in [Players -> {"open", "closed", "forgotten", "removed"}]
        /\ {timer, alarm} \subseteq BOOLEAN /\ server \in {"up", "crashed", "exited"}
        /\ updater.at \in {"sigwait", "powers", "moves", "monsters", "send", "exited"}
    BY DEF Threads, Connections, Phases
  <2> QED
    BY <2>1, <2>2, <2>3, <2>4, <2>5 DEF TypeOK
<1> QED
  BY <1>1, CountsHold, PTL
=============================================================================
