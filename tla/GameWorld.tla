----------------------------- MODULE GameWorld -----------------------------
(* The running game of the multiplayer server (server/main.c): the board, the  *)
(* monsters and the players, shared without any lock by two threads.  The      *)
(* updater thread plays one round per SIGALRM (timer_handler); the main thread *)
(* serves the players' sockets: moves, joins and disconnections.  One call of  *)
(* a handler is one step; put_player_on_board, whose test and write are apart, *)
(* is two.  The model starts when the board is made, player 0 stands on it and *)
(* the updater has sent the first picture and armed the timer.                 *)
EXTENDS Integers, Sequences, FiniteSetsExt

CONSTANTS Height, Width,        \* BOARD_HEIGHT, BOARD_WIDTH
          NumPlayers,           \* num_of_known_players, all of them connected
          Inside,               \* the players that are on the board at first
          Joiners,              \* those whose client has yet to acknowledge the game
          MaxMonsters, MaxCoins,
          CoinWorth, PowerDivider, PowerRounds,
          Keys,                 \* the commands that clients send
          CountMod              \* num_of_alive_players is counted modulo this

Players   == 0 .. NumPlayers - 1
Directions == {"UP", "DOWN", "LEFT", "RIGHT"}
Pos       == (0 .. Height - 1) \X (0 .. Width - 1)
isBoundary(q) == q[1] \in {0, Height - 1} \/ q[2] \in {0, Width - 1}

ASSUME WorldAssumption ==
    /\ Height \in Nat /\ Width \in Nat /\ Height > 2 /\ Width > 2
    /\ NumPlayers \in 1 .. 26
    /\ Inside \cup Joiners \subseteq Players /\ 0 \in Inside /\ Inside \cap Joiners = {}
    /\ Keys \subseteq Directions \cup {"INVALID"}
    /\ {MaxMonsters, MaxCoins} \subseteq Nat
    /\ {CoinWorth, PowerDivider, PowerRounds} \subseteq Nat \ {0}
    /\ CountMod \in Nat /\ CountMod > NumPlayers + 1

VARIABLES cells,     \* p_board->cells; obj is a monster's or a player's index
          monsters,  \* monsters[]: where each one thinks it is
          player,    \* players_info
          superpower_timers,
          last_move,                  \* last_move_commands
          coins,                      \* num_of_coins_on_screen
          alive,                      \* num_of_alive_players
          client,    \* each player's connection: open, closed at the far end,
                     \* forgotten by the server, or removed
          timer,     \* the interval timer is armed
          alarm,     \* SIGALRM is pending
          updater,   \* where the updater thread is: phase of the round, loop index
          main,      \* the main thread: serving, placing player p on q, joining, gone;
                     \* overwrote: a history of the races it has lost
          server     \* the process
vars == <<cells, monsters, player, superpower_timers, last_move, coins, alive,
          client, timer, alarm, updater, main, server>>
board == <<cells, monsters, coins>>

Freed == <<>>                                \* monsters[i] = NULL
EmptyCell == [sym |-> "empty", coin |-> FALSE, upper |-> FALSE, obj |-> 0]
WallCell  == [EmptyCell EXCEPT !.sym = "wall"]
CoinCell  == [EmptyCell EXCEPT !.sym = "coin", !.coin = TRUE]
MonsterCell(i) == [EmptyCell EXCEPT !.sym = "monster", !.obj = i]
PlayerCell(p)  == [EmptyCell EXCEPT !.sym = "player", !.obj = p]

(* Row-major order, in which init_board walks over the cells.                  *)
Before(q, r) == q[1] * Width + q[2] < r[1] * Width + r[2]

(* init_board: walls around, and in every other cell a monster, a coin or      *)
(* nothing.  seat is where put_player_on_board then put the players.           *)
InitBoard(lairs, gold, seat) ==
    /\ monsters \in [1 .. MaxMonsters -> lairs]
    /\ \A i, j \in 1 .. MaxMonsters : i < j => Before(monsters[i], monsters[j])
    /\ cells = [q \in Pos |->
                  IF isBoundary(q) THEN WallCell
                  ELSE IF q \in lairs
                       THEN MonsterCell(CHOOSE i \in DOMAIN monsters : monsters[i] = q)
                  ELSE IF q \in gold THEN CoinCell
                  ELSE IF \E p \in Inside : seat[p] = q
                       THEN PlayerCell(CHOOSE p \in Inside : seat[p] = q)
                  ELSE EmptyCell]
    /\ coins = Cardinality(gold)

Room == {q \in Pos : ~isBoundary(q)}

(* setup's memset fills four bytes of last_move_commands: player 0's entry is  *)
(* no direction, the others' is zero, which is UP.                             *)
Init ==
    /\ \E lairs \in kSubset(MaxMonsters, Room) :
       \E gold \in kSubset(MaxCoins, Room \ lairs) :
       \E seat \in [Inside -> Room \ (lairs \cup gold)] :
          /\ \A p, q \in Inside : p # q => seat[p] # seat[q]
          /\ InitBoard(lairs, gold, seat)
          /\ player = [p \in Players |->
               [location |-> IF p \in Inside THEN seat[p] ELSE <<0, 0>>,
                state    |-> IF p \in Inside THEN "INSIDE"
                             ELSE IF p \in Joiners THEN "ACK" ELSE "LOBBY",
                points |-> 0, power |-> FALSE]]
    /\ superpower_timers = [p \in Players |-> 0]
    /\ last_move = [p \in Players |-> IF p = 0 THEN "INVALID" ELSE "UP"]
    /\ alive = NumPlayers
    /\ client = [p \in Players |-> "open"]
    /\ timer = TRUE /\ alarm = FALSE
    /\ updater = [at |-> "sigwait", i |-> 0]
    /\ main = [at |-> "serving", p |-> 0, q |-> <<0, 0>>, overwrote |-> FALSE]
    /\ server = "up"
-----------------------------------------------------------------------------
(* calculateNextLocation, with its wrap around the edges.                      *)
NextLocation(q, d) ==
    CASE d = "UP"    -> <<(q[1] + Height - 1) % Height, q[2]>>
      [] d = "DOWN"  -> <<(q[1] + 1) % Height, q[2]>>
      [] d = "LEFT"  -> <<q[1], (q[2] + Width - 1) % Width>>
      [] d = "RIGHT" -> <<q[1], (q[2] + 1) % Width>>

(* players_info[p].index: addToKnownPlayers' result is stored through a        *)
(* pointer in front of the array, so the field keeps its zero for everyone.    *)
Index(p) == 0

Decremented == (alive + CountMod - 1) % CountMod

(* mark_as_dead(i), with the state the caller leaves it in; pl is players_info *)
(* as the caller has changed it before.                                        *)
MarkAsDead(i, state, pl) ==
    /\ alive' = Decremented
    /\ player' = [pl EXCEPT ![i].state = state]
    /\ last_move' = [last_move EXCEPT ![i] = "INVALID"]
    /\ superpower_timers' = [superpower_timers EXCEPT ![i] = 0]

NobodyDies == UNCHANGED <<alive, last_move>>

(* The updater thread goes on to loop index j, or ends (pthread_exit) after    *)
(* stop_updates has disarmed the timer.                                        *)
GoOn   == updater' = [updater EXCEPT !.i = @ + 1] /\ UNCHANGED timer
Finish == updater' = [at |-> "exited", i |-> 0] /\ timer' = FALSE

(* check_game_over as the updater's handlers use it.                           *)
FinishIfOver == IF Decremented = 0 THEN Finish ELSE GoOn

(* send_game_updates_handler, where the code reaches it: the picture goes to   *)
(* everyone in the game, the dead too.  A write to a socket whose far end is   *)
(* gone may still succeed; it may be told of a reset, and the server forgets   *)
(* the descriptor (known_players_fds[i] = -1); or it raises SIGPIPE, which     *)
(* nobody handles.  sockets is client as the caller has changed it before.     *)
GetsUpdates(p) == player[p].state \in {"INSIDE", "DEAD", "SPECTATOR"}

SendIf(sends, sockets) ==
    LET broken == {p \in Players : sends /\ sockets[p] = "closed" /\ GetsUpdates(p)'}
    IN \/ /\ server' = "up"
          /\ \E reset \in SUBSET broken :
                client' = [p \in Players |-> IF p \in reset THEN "forgotten" ELSE sockets[p]]
       \/ server' = "crashed" /\ broken # {} /\ client' = sockets

Updater(phase, i) == server = "up" /\ updater = [at |-> phase, i |-> i]
-----------------------------------------------------------------------------
(* The interval timer runs out.                                                *)
Ring == /\ server = "up" /\ timer
        /\ timer' = FALSE /\ alarm' = TRUE
        /\ UNCHANGED <<board, player, superpower_timers, last_move, alive, client,
                       updater, main, server>>

(* set_timer_signal: sigwait returns SIGALRM.                                  *)
SigWait == /\ Updater("sigwait", 0) /\ alarm
           /\ alarm' = FALSE /\ updater' = [at |-> "powers", i |-> 0]
           /\ UNCHANGED <<board, player, superpower_timers, last_move, alive, client,
                          timer, main, server>>

(* A loop of timer_handler is done; the next one starts.                       *)
NextPhase(phase, bound, next) ==
    /\ Updater(phase, bound)
    /\ updater' = [at |-> next, i |-> 0]
    /\ UNCHANGED <<board, player, superpower_timers, last_move, alive, client,
                   timer, alarm, main, server>>

\* Faulty variant: the capital goes and the powers stay.
UpdateSymbolOnly(i) ==
    /\ Updater("powers", i) /\ i \in Players
    /\ superpower_timers' = [superpower_timers EXCEPT ![i] = IF @ = 0 THEN 0 ELSE @ - 1]
    /\ GoOn /\ NobodyDies
    /\ UNCHANGED <<board, player, client, alarm, main, server>>

(* updateSuperPowers for player i.  When the timer runs out the code takes the *)
(* player from the cell: NULL in a cell without one, and beyond the end of a   *)
(* monster in a monster's cell, which may go unnoticed.                        *)
UpdateSuperPower(i) ==
    /\ Updater("powers", i) /\ i \in Players
    /\ LET q == player[i].location
           expires == superpower_timers[i] = 1
       IN /\ superpower_timers' = [superpower_timers EXCEPT
                                      ![i] = IF @ = 0 THEN 0 ELSE @ - 1]
          /\ cells' = IF expires THEN [cells EXCEPT ![q].upper = FALSE] ELSE cells
          /\ player' = IF expires /\ cells[q].sym = "player"
                       THEN [player EXCEPT ![cells[q].obj].power = FALSE] ELSE player
          /\ server' \in IF ~expires THEN {"up"}
                         ELSE CASE cells[q].sym = "player"  -> {"up"}
                                [] cells[q].sym = "monster" -> {"up", "crashed"}
                                [] OTHER                    -> {"crashed"}
    /\ GoOn /\ NobodyDies
    /\ UNCHANGED <<monsters, coins, client, alarm, main>>
-----------------------------------------------------------------------------
\* Faulty variant: the old cell is not emptied.
MovesToCopy(p, from, to, gain) ==
    cells' = [cells EXCEPT ![to] = [cells[from] EXCEPT !.upper = @ \/ gain]]

(* handle_player_move, one operator per branch.  MovesTo is the common part:   *)
(* the player takes its cell along.                                            *)
MovesTo(p, from, to, gain) ==
    /\ cells' = [cells EXCEPT ![to] = [cells[from] EXCEPT !.upper = @ \/ gain],
                              ![from] = EmptyCell]

MoveIntoEmpty(p, from, to) ==
    /\ cells[to].sym = "empty"
    /\ MovesTo(p, from, to, FALSE)
    /\ player' = [player EXCEPT ![p].location = to]
    /\ GoOn /\ NobodyDies
    /\ UNCHANGED <<monsters, coins, superpower_timers>>

(* check_for_coin_in_target_after_move: the last coin ends the game (wonGame), *)
(* every PowerDivider points give superpowers.                                 *)
TakeCoin(p, from, to) ==
    LET points == player[p].points + CoinWorth
        gain == coins # 1 /\ points % PowerDivider = 0
    IN /\ MovesTo(p, from, to, gain)
       /\ coins' = coins - 1
       /\ player' = [player EXCEPT ![p].location = to, ![p].points = points,
                                   ![p].power = @ \/ gain]
       /\ superpower_timers' = IF gain THEN [superpower_timers EXCEPT ![Index(p)] = PowerRounds]
                                       ELSE superpower_timers
       /\ IF coins = 1 THEN Finish ELSE GoOn
       /\ NobodyDies

KillMonster(p, from, to) ==
    /\ cells[to].sym = "monster" /\ player[p].power
    /\ monsters' = [monsters EXCEPT ![cells[to].obj] = Freed]
    /\ IF cells[to].coin THEN TakeCoin(p, from, to)
       ELSE /\ MovesTo(p, from, to, FALSE)
            /\ player' = [player EXCEPT ![p].location = to]
            /\ GoOn /\ NobodyDies
            /\ UNCHANGED <<coins, superpower_timers>>

WalkIntoMonster(p, from, to) ==
    /\ cells[to].sym = "monster" /\ ~player[p].power
    /\ MarkAsDead(Index(p), "DEAD", [player EXCEPT ![p].location = to])
    /\ cells' = [cells EXCEPT ![from] = EmptyCell]
    /\ FinishIfOver
    /\ UNCHANGED <<monsters, coins>>

StepOntoCoin(p, from, to) ==
    /\ cells[to].sym \notin {"empty", "monster"} /\ cells[to].coin
    /\ TakeCoin(p, from, to)
    /\ UNCHANGED monsters

BumpInto(p, from, to) ==
    /\ cells[to].sym \notin {"empty", "monster"} /\ ~cells[to].coin
    /\ GoOn /\ NobodyDies
    /\ UNCHANGED <<board, player, superpower_timers>>

(* check_for_clients_moves for player p: the last command stands until the     *)
(* next one comes.  Killing a monster that was freed before aborts the server. *)
handle_player_move(p) ==
    /\ Updater("moves", p) /\ p \in Players
    /\ last_move[p] \in Directions /\ player[p].state = "INSIDE"
    /\ UNCHANGED <<alarm, main>>
    /\ LET from == player[p].location
           to == NextLocation(from, last_move[p])
       IN /\ \/ MoveIntoEmpty(p, from, to)
             \/ KillMonster(p, from, to)
             \/ WalkIntoMonster(p, from, to)
             \/ StepOntoCoin(p, from, to)
             \/ BumpInto(p, from, to)
          /\ IF /\ cells[to].sym = "monster" /\ player[p].power
                /\ monsters[cells[to].obj] = Freed
             THEN server' = "crashed" /\ UNCHANGED client
             ELSE SendIf(updater'.at = "exited", client)

NoMove(p) ==
    /\ Updater("moves", p) /\ p \in Players
    /\ last_move[p] \notin Directions \/ player[p].state # "INSIDE"
    /\ GoOn
    /\ UNCHANGED <<board, player, superpower_timers, last_move, alive, client,
                   alarm, main, server>>
-----------------------------------------------------------------------------
(* handle_monster_move for monster i.  A random direction is drawn until its   *)
(* cell is neither wall nor monster, at most MONSTER_TRIES_TRESHOLD times.     *)
Blocked(q) == cells[q].sym \in {"wall", "monster"}

GiveUp(from) == /\ \E d \in Directions : Blocked(NextLocation(from, d))
                /\ GoOn /\ NobodyDies
                /\ UNCHANGED <<board, player, superpower_timers>>

\* Faulty variant: the coin under the monster goes with it.
VacatedBare(c) == EmptyCell

(* update_source_cell                                                          *)
Vacated(c) == IF c.coin THEN CoinCell ELSE EmptyCell

Prowl(i, from, to) ==
    /\ cells[to].sym \in {"empty", "coin"}
    /\ cells' = [cells EXCEPT ![to] = [cells[from] EXCEPT !.coin = (cells[to].sym = "coin")],
                              ![from] = Vacated(cells[from])]
    /\ monsters' = [monsters EXCEPT ![i] = to]
    /\ GoOn /\ NobodyDies
    /\ UNCHANGED <<player, coins, superpower_timers>>

AttackPower(i, from, to) ==
    /\ cells[to].sym = "player" /\ player[cells[to].obj].power
    /\ monsters' = [monsters EXCEPT ![i] = Freed]
    /\ cells' = [cells EXCEPT ![from] = Vacated(cells[from])]
    /\ GoOn /\ NobodyDies
    /\ UNCHANGED <<player, coins, superpower_timers>>

KillPlayer(i, from, to) ==
    /\ cells[to].sym = "player" /\ ~player[cells[to].obj].power
    /\ MarkAsDead(Index(cells[to].obj), "DEAD", player)
    /\ cells' = [cells EXCEPT ![to] = cells[from], ![from] = Vacated(cells[from])]
    /\ monsters' = [monsters EXCEPT ![i] = to]
    /\ FinishIfOver
    /\ UNCHANGED coins

handle_monster_move(i) ==
    /\ Updater("monsters", i - 1) /\ i \in DOMAIN monsters /\ monsters[i] # Freed
    /\ LET from == monsters[i]
       IN \/ GiveUp(from)
          \/ \E d \in Directions :
                LET to == NextLocation(from, d)
                IN \/ Prowl(i, from, to)
                   \/ AttackPower(i, from, to)
                   \/ KillPlayer(i, from, to)
    /\ UNCHANGED <<alarm, main>>
    /\ SendIf(updater'.at = "exited", client)

(* advance_game passes over the monsters that are gone.                        *)
SkipMonster(i) ==
    /\ Updater("monsters", i - 1) /\ i \in DOMAIN monsters /\ monsters[i] = Freed
    /\ GoOn
    /\ UNCHANGED <<board, player, superpower_timers, last_move, alive, client,
                   alarm, main, server>>
-----------------------------------------------------------------------------
\* Faulty variant: the timer is not armed again.
SendUpdatesOnce ==
    /\ Updater("send", 0)
    /\ updater' = [at |-> "sigwait", i |-> 0]
    /\ UNCHANGED <<board, player, superpower_timers, last_move, alive,
                   timer, alarm, main>>
    /\ SendIf(TRUE, client)

(* The end of timer_handler: the picture is sent and the timer armed again.    *)
SendUpdates ==
    /\ Updater("send", 0)
    /\ updater' = [at |-> "sigwait", i |-> 0] /\ timer' = TRUE
    /\ UNCHANGED <<board, player, superpower_timers, last_move, alive, alarm, main>>
    /\ SendIf(TRUE, client)

UpdaterStep ==
    \/ SigWait \/ SendUpdates
    \/ \E p \in Players : UpdateSuperPower(p) \/ handle_player_move(p) \/ NoMove(p)
    \/ \E i \in 1 .. MaxMonsters : handle_monster_move(i) \/ SkipMonster(i)
    \/ NextPhase("powers", NumPlayers, "moves")
    \/ NextPhase("moves", NumPlayers, "monsters")
    \/ NextPhase("monsters", Len(monsters), "send")
-----------------------------------------------------------------------------
Serving == server = "up" /\ main.at = "serving"

(* handle_known_player: a byte from a player in the game, decodeDirection.     *)
Command(p) ==
    /\ Serving /\ client[p] = "open" /\ player[p].state = "INSIDE"
    /\ \E d \in Keys : last_move' = [last_move EXCEPT ![p] = d]
    /\ UNCHANGED <<board, player, superpower_timers, alive, client, timer, alarm,
                   updater, main, server>>

(* A client of the game goes away.                                             *)
Hangup(p) ==
    /\ server = "up" /\ client[p] = "open" /\ player[p].state \in {"INSIDE", "DEAD"}
    /\ client' = [client EXCEPT ![p] = "closed"]
    /\ UNCHANGED <<board, player, superpower_timers, last_move, alive, timer, alarm,
                   updater, main, server>>

(* handle_known_player reads the end of the connection: handle_disconnected_   *)
(* player, check_game_over, and then wait_for_updater_thread, or pthread_exit  *)
(* when the connection was reset.  The player's cell stays as it is.           *)
Disconnect(p) ==
    /\ Serving /\ client[p] = "closed" /\ player[p].state = "INSIDE"
    /\ MarkAsDead(p, "DISCONNECTED", player)
    /\ IF Decremented = 0
       THEN timer' = FALSE /\ \E at \in {"joining", "exited"} : main' = [main EXCEPT !.at = at]
       ELSE UNCHANGED <<timer, main>>
    /\ SendIf(Decremented = 0, [client EXCEPT ![p] = "removed"])
    /\ UNCHANGED <<board, alarm, updater>>

(* The next event of a descriptor the server has forgotten is taken for a new  *)
(* player's: one more is counted as alive, although nobody will ever answer    *)
(* for it, and asked for its name, which may raise SIGPIPE.  The old player    *)
(* stays in the game with its last command.                                    *)
TakenForNew(p) ==
    /\ Serving /\ client[p] = "forgotten"
    /\ client' = [client EXCEPT ![p] = "removed"]
    /\ alive' = (alive + 1) % CountMod
    /\ server' \in {"up", "crashed"}
    /\ UNCHANGED <<board, player, superpower_timers, last_move, timer, alarm, updater, main>>

(* wait_for_updater_thread: pthread_join returns.                              *)
Joined == /\ server = "up" /\ main.at = "joining" /\ updater.at = "exited"
          /\ main' = [main EXCEPT !.at = "serving"]
          /\ UNCHANGED <<board, player, superpower_timers, last_move, alive, client,
                         timer, alarm, updater, server>>

(* put_player_on_board after a client's acknowledgement: it draws cells until  *)
(* it sees an empty one, or Height * Width times in vain, ...                  *)
FindPlace(p) ==
    /\ Serving /\ client[p] = "open" /\ player[p].state = "ACK"
    /\ \/ /\ \E q \in Pos : /\ cells[q].sym = "empty"
                            /\ main' = [main EXCEPT !.at = "placing", !.p = p, !.q = q]
          /\ UNCHANGED server
       \/ server' = "exited" /\ UNCHANGED main
    /\ UNCHANGED <<board, player, superpower_timers, last_move, alive, client,
                   timer, alarm, updater>>

(* ... and writes the player into the cell it saw.                             *)
put_player_on_board ==
    /\ server = "up" /\ main.at = "placing"
    /\ cells' = [cells EXCEPT ![main.q] = [@ EXCEPT !.sym = "player", !.obj = main.p,
                                                    !.upper = FALSE]]
    /\ player' = [player EXCEPT ![main.p].location = main.q, ![main.p].state = "INSIDE"]
    /\ main' = [main EXCEPT !.at = "serving", !.p = 0, !.q = <<0, 0>>,
                            !.overwrote = @ \/ cells[main.q].sym # "empty"]
    /\ UNCHANGED <<monsters, coins, superpower_timers, last_move, alive, client,
                   timer, alarm, updater, server>>

MainStep == \/ Joined \/ put_player_on_board
            \/ \E p \in Players : Command(p) \/ Disconnect(p) \/ TakenForNew(p) \/ FindPlace(p)

Next == Ring \/ UpdaterStep \/ MainStep \/ \E p \in Players : Hangup(p)

Spec == Init /\ [][Next]_vars
FairSpec == Spec /\ WF_vars(Ring) /\ WF_vars(UpdaterStep)
-----------------------------------------------------------------------------
TypeOK ==
    /\ cells \in [Pos -> [sym : {"wall", "empty", "coin", "monster", "player"},
                          coin : BOOLEAN, upper : BOOLEAN, obj : Nat]]
    /\ monsters \in Seq(Pos \cup {Freed})
    /\ player \in [Players -> [location : Pos, points : Nat, power : BOOLEAN,
          state : {"LOBBY", "ACK", "INSIDE", "DEAD", "DISCONNECTED"}]]
    /\ superpower_timers \in [Players -> 0 .. PowerRounds]
    /\ last_move \in [Players -> Directions \cup {"INVALID"}]
    /\ coins \in 0 .. MaxCoins /\ alive \in 0 .. CountMod - 1
    /\ client \in [Players -> {"open", "closed", "forgotten", "removed"}]
    /\ {timer, alarm} \subseteq BOOLEAN
    /\ updater.at \in {"sigwait", "powers", "moves", "monsters", "send", "exited"}
    /\ main.at \in {"serving", "placing", "joining", "exited"}
    /\ server \in {"up", "crashed", "exited"}

(* Nobody was caught, which is booked on the wrong player, and no joining       *)
(* player was written over another object.                                      *)
Undisturbed == /\ server = "up" /\ ~main.overwrote
               /\ \A p \in Players : player[p].state # "DEAD"

(* Monsters and board agree: while undisturbed every living monster is on the  *)
(* cell it believes it is on, and every monster cell is of a living monster    *)
(* (handle_monster_move, destroy_monster, move_player_to_empty_cell).          *)
MonstersOnBoard == Undisturbed =>
    /\ \A i \in DOMAIN monsters : monsters[i] # Freed =>
          cells[monsters[i]].sym = "monster" /\ cells[monsters[i]].obj = i
    /\ \A q \in Pos : cells[q].sym = "monster" => monsters[cells[q].obj] = q

(* Players and board agree until somebody is caught: each player in the game   *)
(* is on its cell and on no other, in capitals just while it has superpowers.  *)
PlayersOnBoard == Undisturbed =>
    \A p \in Players : player[p].state = "INSIDE" =>
       /\ \A q \in Pos : (cells[q].sym = "player" /\ cells[q].obj = p)
                         <=> q = player[p].location
       /\ cells[player[p].location].upper = player[p].power

(* The count that decides the game is the number of coins on the board, those  *)
(* under monsters included, until somebody is caught.                          *)
CoinsCounted == Undisturbed => coins = Cardinality({q \in Pos : cells[q].coin})

(* All three: board, monsters, players and the coin count agree.               *)
BoardAgrees == MonstersOnBoard /\ PlayersOnBoard /\ CoinsCounted

(* Superpowers of a lone player last just as long as its timer runs.           *)
PowerIsTimed ==
    player[0].state = "INSIDE" => (player[0].power <=> superpower_timers[0] > 0)

(* The rounds go on: the updater sends a picture again and again until the     *)
(* game is over; the timer is never left disarmed by a round.                  *)
Ended == \/ updater.at = "exited" \/ server # "up"
         \/ main.at \in {"joining", "exited"}
RoundsGoOn == []<>(updater.at = "send" \/ Ended)

-----------------------------------------------------------------------------
(***************************************************************************)
(* What the documents say and the code does not keep.                      *)
(***************************************************************************)

(* "monster kills player" (main.c:640): the player whose cell a monster takes  *)
(* is dead.  With a second player it is player 0 that is booked as dead.       *)
CaughtAreDead == [][\A q \in Pos :
    (cells[q].sym = "player" /\ cells'[q].sym = "monster")
       => player'[cells[q].obj].state = "DEAD"]_vars

(* "if it is implemented serially, then no need for locking" (README.md): the  *)
(* cell put_player_on_board tested for isEmpty is empty when it writes.        *)
PlacedOnEmptyCell == ~main.overwrote

(* Players can "exit a game and/or logout at any time without crashing the     *)
(* server or current match" (server/design.md): the server does not crash.     *)
ServerSurvives == server # "crashed"

(* The same promise: a main thread that waits for the updater to end is not    *)
(* waiting for one that itself waits for a signal nobody will send.            *)
MainIsNotStuck == ~(/\ main.at = "joining" /\ updater.at = "sigwait"
                    /\ ~timer /\ ~alarm /\ server = "up")
=============================================================================
