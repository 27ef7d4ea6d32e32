# Models and proofs of the Software-Development-Playground

The repository holds three independent concurrent programs. This directory models
each of them in TLA+, checks the models with TLC and proves the most important
invariants with TLAPS for every size.

| program | source | modules |
|---|---|---|
| traffic circle (pthreads) | `src/Academic-tasks/Linux-multithreading/traffic-cycle/traffic_cycle.c` | Ring, Circle, TrafficCircle, TrafficShutdown |
| the ports of Haifa and Eilat (Win32 processes, threads, pipes) | `src/Academic-Projects/WIN32API-IPC-Multithreading/` | Fleet, EilatPort, HaifaPort, VesselJourney, Canal, PortNumbers, Handshake |
| multiplayer game, server and client (epoll, signals, pthreads) | `src/C-Multiplayer-game/src/` | GameWorld, GameLobby, UpdateStream, GameClient |

`MC*` modules add only the symmetry sets TLC needs; where a run has none, its `.cfg`
is used with the module itself. `*_proofs` modules hold the theorems. `PROJECT.json`
maps every definition to the lines it models and lists the runs, their mutants (faulty
variants of the code that each property catches), the hazards and the theorems.

## 1. Inventory

### Traffic circle

*State.* A ring of 4(N-1) border squares of an N x N matrix, each with a mutex
(`cellsMutexes`) and a picture (`board`); the cars' structs (position, direction,
corner type, "entered" and "exit" flags); `cars`, `car_threads`, `carID` with its mutex.

*Operations.* `carGenerator` (four threads, one per corner) numbers, publishes and
starts cars; `moveCar` (a thread per car) locks the square before its corner and the
corner, enters, advances hand over hand, may leave at a corner; `updateBoardAndCar`;
`printBoardSnapshots` (a thread that main joins) and `releaseResources` (main, at the end).

*Interaction.* Only through the mutexes of squares, `board_mutex`, `carIDMutex`, and
pthread cancellation.

*Hard.* Every car holds one or two mutexes while it waits for the next; the board is
written by all; cars free themselves while main frees and cancels cars.

*Correct means.* One car per square, no collision drawn over another car, cars stay
on the circle and leave only at a corner after a whole side, no circular wait unless
the circle is full, everybody advances; unique ids, no dangling or doubly freed car.

### The ports

*State.* Haifa: a thread and a semaphore per vessel, `haifaMutex` (the canal), the
counter of vessels that came home. Eilat: a barrier (queue of binary semaphores, head,
tail, `vesselsInBarrier`), the quay (`cranesVessleIDs`, `cranesWithVessels`,
`isQuayADTFree`), a thread and two semaphores per crane, a thread per vessel.
Two anonymous pipes carry vessel ids.

*Operations.* Haifa: check the argument, create the Eilat process (three names are
tried), ask, send vessels, wake them as they return, wait for Eilat, join. Eilat:
prime test and answer, draw the number of cranes, create semaphores and cranes, receive
vessels; `enterToBarrier`, `releaseFromBarrier`, `enterQuay`, `leaveQuay`, the crane's
loop, `sailBackToHaifa`, joins and cleanup.

*Hard.* Two mutexes and 2 x cranes + vessels semaphores in one handover; released
vessels that have not run yet; a group released while the previous one is still at the
quay; cranes with a fixed share of vessels; cleanup before initialisation.

*Correct means.* FIFO barrier, a vessel per crane, no lost or doubled wake-up, vessels
are unloaded before they leave, no vessel is lost or doubled between the processes,
both processes agree on the answer and on when to end.

### The game server and its client

*State.* Board of cells (wall, empty, coin, monster or player in it), `monsters[]`,
`players_info[]`, `last_move_commands[]`, `superpower_timers[]`, coin and alive
counters, `known_players_fds[]`, `has_someone_started_a_game`, `game_initiator_idx`,
the interval timer. In the client: `currentMove` and `last_sent_move` under `updates_lock`
with the condition `have_new_keystroke`, `isGameOver`, the buffer of the pictures.

*Operations.* Server, main thread: `accept`, and `handle_player_event` (name, options, choice,
acknowledgement, moves, disconnection) on edge-triggered epoll. Updater thread: on each
SIGALRM superpowers, players' moves, monsters' moves, the picture to everyone, timer. Client: `interactWithServer` up to
GAME_STARTED; then `send_move_commands` (main thread), `receiveUpdates` (a thread),
`start_keyboard_listener` (a thread, of a human) or `timer_handler` (SIGALRM, of a bot).

*Interaction.* The server's two threads share everything without a lock; the updater ends
itself on victory or when nobody is alive, and the main thread joins it. A picture goes to
a client as three nonblocking writes and is read back piece by piece; the client's
threads share one move under a lock, and main cancels and joins the listener.

*Hard.* Unlocked sharing; an index that is never set; edge triggers with one read
per event; unsigned counters; `errno` left behind; SIGPIPE; descriptors used again;
a timer disarmed by one thread and armed by another. In the client: short writes and short
reads of a message without a length; a wait that nobody ends; a lock held while a thread
waits for the keyboard; a signal handler that locks a mutex.

*Correct means.* Board, monsters, players and coins agree; who is caught is dead;
rounds go on until the game is over; a descriptor leads to one session; one updater
thread; a game has a board; no client can stop the server by leaving. A client shows
whole pictures, loses no move it chose, and ends after the game.

### Parts left out

- `printBoardSnapshots` reads a whole picture under `board_mutex`, which every write of
  the board takes too: it prints states that TrafficCircle has and changes none.
- A second game in one server: the updater thread is created at most once in the server's
  life (`SingleUpdater`, section 8), so the board that a second `init_board` makes is
  never played on. GameLobby has the sessions of later games.
- The server after its table of players is full. Slots are never used again, so the 27th
  connection of a server's life finds none: `main.c:1022` leaves the index -1, with which a
  name is asked for, read and stored in front of `players_info`. GameLobby goes up to that
  step (`OverrunTable`, with a table of `MaxPlayers` slots) and ends there, and GameWorld
  has no more players than slots.
- Writes to the ports' pipes that fail: nobody closes an end that is still written to.
- Logging, cargo weights and random sleep times; the scratch programs under
  `server/experiments`; `socket_api.c` (wrappers of single system calls); build files.

## 2. Modules

### Ring, Circle, TrafficCircle

`Ring` is the geometry: squares, corners, `Ahead`. `Circle` is what the exercise
promises and knows no threads: `Enter` a free corner, `Advance` to a free square,
`Vanish` at a corner after N-1 squares.

`TrafficCircle` has a program counter per car thread. Each `pthread_mutex_lock` is an
action (`LockTest`, `LockCorner`, `LockNext`), each unlock that another thread can
notice is one (`UnlockTest`, `UnlockCurrent`, `UnlockSink`), and
`updateBoardAndCar` is one step under its locks (`EnterCircle`, `Move`).
`DecideToExit`/`DecideToContinue` are `shouldExitCircle`. `Generate` is
`carGenerator` + `initCar`. `Cars` are the structs that can be in use at a time: one that
left is freed (`FreeCar`) and can be generated again, so cars come and go without end.
`OnItsWay` are those in use, `HasRoom` says they are fewer than the squares. `ImplementsCircle` maps `occ` to the board and `trip` to
the number of squares since the entry, kept as a history variable up to N-1.

### TrafficShutdown

The same program as memory and threads: where cars drive is left out, `cars[]`,
`car_threads[]`, heap blocks and deferred cancellation (acted on at `usleep` only) are
in. `ClearThread` reads the id of a car that is freed already: it can be any id, or
no index at all (`strayWrite`). Main tests a thread's handle and uses it in two steps (`TestThread`,
`CancelCar`), between which the thread may have cleared it (`cancelNull`). These and a
double free are states that end the model.

### Fleet, EilatPort, HaifaPort, VesselJourney, Canal

`EilatPort` gives every vessel a program counter from `lockAdt` to `sailBack`, every
crane one (`waitJob`, `unload`), and the main thread one; a step is what a thread does
between two waits. Mutexes held across a wait have an owner: `mutexAdt` and `barrierMutex` on the
way in, `barrierMutex` again when a released vessel counts itself out (`LockToLeave`,
`LeaveBarrier`) and when the last vessel of a group looks at the barrier. Binary semaphores are 0/1, a handle not created yet is `Null`, and
undefined behaviour (an index behind the last crane, a wait on NULL, a queue overrun, a
failing release) leads to a named failure state after which nothing is claimed. The
auxiliary variable `overtaken` notes that a vessel left its crane before one that the
barrier had let go came to one; `SoundUnlessOvertaken` says that this is the only way to
an overfull quay, an overrun queue or a vessel at a crane that has ended.
`PortCanStep` says what each thread can do next; `PortGoesOn` and `CanalGoesOn` say with it
that the port and both processes do not halt. `HaifaPort` is the other process. `Canal` puts
the two on the ends of two FIFO pipes and shows that they implement `VesselJourney`: every vessel makes its round trip, one
leg after the other.

### PortNumbers, Handshake

The start: argument check, process creation, request and answer, prime test, draw of
the cranes, and the path on which a refused Eilat cleans up. `PortNumbers` has the
arithmetic, and the definition of a prime the test is compared with.

### GameWorld

The running game. The updater's round is a loop over phases (`powers`, `moves`,
`monsters`, `send`); one player or one monster is one step, so that the main thread
can come between any two. Branches of `handle_player_move` and `handle_monster_move`
are operators of their own. The main thread's `put_player_on_board` is two steps,
because it tests a cell and writes it later; other handlers are one. A write to a client that left can succeed, raise SIGPIPE or be told of a
reset, upon which the server forgets the descriptor (`SendIf`); its next event is taken
for a new player's (`TakenForNew`). A cell is a
record of what its fields tell apart: symbol, coin flag, capital letter, index.
`Index(p) = 0` is not a simplification: the code never stores the index (line 1026
writes in front of the array). The model starts with a board that any draw of `init_board` can give for
the numbers in the `.cfg`.

### GameLobby

The sessions over a server's whole life, several games included: `known`, `state`,
`name` per slot, the descriptors (the kernel hands out the lowest free one), the set of
descriptors for which epoll still owes an edge, what clients have sent and the
server has not read, `errno`, the two threads. Each branch of `handle_player_event`
is an action named for it. The clients follow `interactWithServer`; they may leave
at any moment. A client that is gone can be forgotten (`Forget`) any time after the first
picture, which is more often than the code writes one, and is then taken for new. A table of
`MaxPlayers` slots fills up (`OverrunTable`). Moves and deaths appear only as `Caught` (whoever is caught,
`mark_as_dead` is told player 0) and `Won`.

### UpdateStream

One connection as a sequence of bytes: the server's three writes per picture, each of which
can fail or be cut by a full socket, and `receiveUpdates`, which looks for UPDATE_START, reads
the board with one read and checks UPDATE_END. A cell is told apart by the picture it is of.
`torn` notes what went wrong with a message: a write that was dropped or cut, a read that
was short. `AcceptsWholePictures` says that a picture that passes the check is one picture
even when writes were dropped or reads were short. It excepts a board write that was
cut: the message carries no length, so the rest of the board can be filled with what the
buffer had, or with the next picture's bytes, and an UPDATE_END still follow.

### GameClient

Extends UpdateStream by the other threads from `startGameinClientSide` on. A human has a
keyboard listener (keys are their escape sequences), a bot has the handler of SIGALRM, which
runs inside the thread it interrupts: if that is the main thread with `updates_lock`
held, it waits for itself (`stuck`). Cancellation of the listener is deferred to `select`
and `read`. `exit` after "Something wrong" ends all threads (`failed`).

## 3. Abstractions to keep in mind

- *Handlers are atomic* except where a property depends on what comes between:
  lock by lock in TrafficCircle, wait by wait in EilatPort, player by player and
  monster by monster in GameWorld, system call by system call in UpdateStream and
  GameClient.
- SIGALRM in the client goes to the main thread, or, while that waits in the handler, to
  the thread `receiveUpdates`. In any other thread the handler is a short step.
- *Data races* on single words (`last_move_commands`, `state`, `alive`) are modelled
  as interleavings of whole steps, not of torn accesses.
- `players_info[-1]` overlaps other globals; in the unoptimised build of the Makefile
  these are entries of `last_move_commands` for players 24 and 25, whom the models do
  not have. What matters is kept: the real player's fields stay as they were.
- `atoi(&choice)` on one byte is taken as the digit; the byte behind it is chance.
- In GameLobby the updater's victims are chosen freely; that the picture itself
  raises SIGPIPE is GameWorld's subject. When no empty cell is drawn for a player, the server exits
  (`GetUserAck`); GameWorld has the draw.
- Haifa's and Eilat's messages have one length, so a read is a message.
- Failing system calls are taken where the code has a branch that matters (a lock that
  was not obtained, a release above the limit, process creation, reads of nothing); malloc,
  thread creation and socket set-up succeed.

## 4. Runs

All runs explore every interleaving of the stated instance.

| run | instance | distinct states | what it shows |
|---|---|---|---|
| circle_safe | 3 x 3, three cars | 49 k | squares, locks and board agree (`IndInv`, the invariant of the proofs); no collision; the threads implement `Circle`, turns and exits included |
| circle_live | 2 x 2, up to four cars at a time | 521 k | no circular wait while cars are fewer than squares; who drives waits for ever only in a full circle or behind new cars without end; the circle as a whole goes on unless it is full |
| shutdown_safe | two generators, three cars | 1.8 M | ids, `cars[]`, late cars |
| canal_safe | four vessels, two cranes, both processes | 94 k | barrier, quay, cranes; soundness of the groups and no halt of the two processes unless a vessel is overtaken; no vessel lost or doubled; `VesselJourney` |
| eilat_live | four vessels, two cranes | 433 k | a released vessel reaches a crane |
| handshake_start | arguments 0 .. 51 | 4.6 k | agreement, prime test, crane count, end of the start |
| world_solo | 2 x 3 free cells, one player, two monsters, two coins | 1.06 M | superpowers, rounds, and `BoardAgrees` with monsters that pass each other |
| world_pair | corridor of five cells, a player, one that joins, a monster, two coins | 1.49 M | `BoardAgrees` (monsters, players and coin count match the board) while the main thread places a player |
| lobby | two clients, a table of three slots, inboxes of two | 152 k | sessions, counts, updater thread, edge triggering, clients that were forgotten, the full table |
| game_client | boards of two cells, a socket for one message, two pictures, two keys or a bot | 282 k | framing, condition variable, end of the client |
| eilat_overfull, shutdown_double_free | as above | (stop at the counterexample) | section 6 |

*Why these bounds.* Two cars are enough for a collision on the circle, the third makes
one car wait for a car that waits; 3 x 3 has squares that are no corners, 2 x 2 has
none and is filled by four cars. Four vessels at two cranes are two full groups, the smallest
case in which a group can be released behind another; four is also the smallest number
the ports accept. The arguments 0 .. 51 contain every number the check accepts (2 .. 50) and some
on either side. The smallest game board in which a monster can be
boxed in, be walked round and carry a coin past a player has six free cells; two coins
are needed for a game that goes on after one is taken; `PowerRounds = 2`, `PowerDivider`
and `CoinWorth = 10` give superpowers at the first coin and let them end within the
game. In the lobby, the second client is the one whose index is wrong, and a
disconnected client makes room for its descriptor to be used again; of three slots a client that
was forgotten takes a second one, and the next finds the table full; an inbox of two
holds an acknowledgement and the move that follows at once. `CountMod = 16` stands for
2^32: the count wraps at zero in the same way. In the client, two cells are the fewest of
which a part can be written or read, a buffer of four bytes holds just one message, so that every
write can fail or be cut, and two pictures are the fewest that can be mixed. The keys are one
arrow, the End key, two that stop within an escape sequence and one that means nothing. The
safety properties also hold with three cells, a buffer of six and three pictures.

*Symmetry* is used for cars, vessels and generators in runs of safety properties only;
the models never order or choose between them. Clients, players and cranes are not
symmetric (slots, index 0 and the search for the first free crane tell them apart).

*Deadlock* is an error in circle_safe: three cars on eight squares never stop. A full circle
does (circle_live), and the other systems really end (a process exits, a server ends, a
failure state is reached), so their configurations say `CHECK_DEADLOCK FALSE`.

*Constraint.* world_pair has `CONSTRAINT Undisturbed`: it follows a game up to the first
state in which a player was booked as dead or a joining player was written over another
object. Both put board and players at odds for good, as section 7 shows, and
`BoardAgrees` claims agreement only before.

*Faulty variants.* Beside most actions the modules hold a variant marked
`Faulty variant`: the action with a plausible mistake. No specification uses them;
`PROJECT.json` pairs each property with the variant that breaks it.

## 5. Fairness

- *TrafficCircle*: weak fairness of each car's thread (`WF_vars(MoveCar(c))`): a thread
  that can run does. The generators need not run. Nothing stronger is assumed of the
  mutexes: `pthread_mutex_lock` owes nothing to who came first. So no property says that a car
  that waits to enter ever does, nor that a driving car gets the square ahead whatever happens: an
  entering car needs just that square for its test (line 327) and may get it each time. What
  holds is that a driving car waits for ever only if the circle is full for good or new cars enter without
  end (`CarsKeepMoving`), and that, whoever is overtaken, the cars together enter, move or leave again
  and again until none is left or the circle is full (`CircleKeepsTurning`).
- *EilatPort*: weak fairness of every vessel's and crane's thread while the port has not
  failed. The mutexes of Windows are not promised to be fair, and none is needed:
  every vessel takes each mutex a bounded number of times.
- *Handshake*: weak fairness of both processes. The loop that draws the crane count
  ends by this only because `DrawCranes` is the draw that succeeds: `rand` is taken not to
  miss the divisors for ever.
- *GameWorld*: weak fairness of the timer (`Ring`) and of the updater thread. The main
  thread and the players need not do anything.
- *GameLobby*: weak fairness of the handler of every client whose descriptor is ready
  (epoll reports every ready descriptor sooner or later) and of a client's answer to a
  prompt. `NewcomersAreServed` promises the options to a client that stays and whose descriptor is
  in no slot. One that is given the descriptor of a kicked-out client is in that
  client's slot and is never asked (`EverybodyIsServed`, section 7).
- *GameClient*: weak fairness of the thread `receiveUpdates`, of the main thread and of
  the listener; spurious wakeups need not come. Strong fairness of a bot's choice
  (`BotChooses`): its timer rings again and again, so it cannot for ever come while the
  lock is held or draw the move that was just sent. The server, the network and the user
  need not do anything.

## 6. Findings

Two disagreements have a run of their own.

- *eilat_overfull* (`EilatPort.c:266`, the comment at 255 says a vessel "settles down at
  an available Crane"): the barrier can release more vessels than there are free cranes;
  the search for a crane then ends one behind the last, and the arrays are indexed there.
- *shutdown_double_free* (`traffic_cycle.c:449`, comments at 341 and 449): main reads a
  car's pointer, the car clears the pointer and frees itself, main frees it again.

## 7. Other divergences the models show

These properties state what a comment or document says and the code does not keep. They
are defined in the modules. Each can be reproduced by adding the property to the configuration named, as an INVARIANT unless it
is marked as a property; TLC finds a counterexample within seconds.

| add | to | source, and what it says | what happens |
|---|---|---|---|
| `AvoidsDeadlocks` | CircleLive.cfg | `traffic_cycle.c:328`; task-definition: "The program should avoid deadlocks" | with as many cars as squares every square is held by a thread that waits for the next; the EDEADLK branch cannot fire with default mutexes; by `DeadlockTakesAll` (section 8) no fewer cars do it |
| `ThreadsRegistered` | ShutdownSafe.cfg | `traffic_cycle.c:347`; line 78 "for later joining the threads" | the id read from the freed car can be another car's, whose thread drops out of the array |
| `ReleasesIntoEmptyQuay` (property) | EilatLive.cfg | `EilatPort.c:326`; line 225 "If the unloading quay is empty AND ..." | a group is released while a vessel of the one before has yet to settle or is at a crane |
| `ReleasesOnlyQueuedVessels` (property) | EilatLive.cfg | `EilatPort.c:330`; line 225 "at least numOfCranes vessels in the barrier" | vessels released but not yet awake are counted again |
| `NeverStranded` | EilatLive.cfg | `EilatPort.c:98`; line 97 "Every Crane will serve a total of vesselsPerCrane vessels" | a vessel settles at a crane whose thread has served its share and ended |
| `NoPhantomJob` | EilatLive.cfg | `EilatPort.c:453`; line 100 "Defends against Doing a Crane job until next time barrier releases vessels" | a crane thread runs before its semaphores exist and passes its wait |
| `CleansUpAndExits` | HandshakeStart.cfg | `EilatPort.c:489`; line 72 "cleanup resources and exit" | a refused Eilat reads `barrierQueue[0]` through NULL in its cleanup |
| `CaughtAreDead` (property) | WorldPair.cfg | `server/main.c:642`; line 640 "monster kills player" | player 1 is caught, player 0 is booked as dead |
| `PlacedOnEmptyCell` | WorldPair.cfg | `server/main.c:769`; README.md:67 "if it is implemented serially, then no need for locking" | a monster walks into the cell between the test and the write |
| `ServerSurvives` | WorldPair.cfg | `server/main.c:288`; design.md:20 "exit a game and/or logout at any time without crashing the server or current match" | a picture to a client that left raises SIGPIPE |
| `MainIsNotStuck` | WorldSolo.cfg | `server/main.c:906`; design.md:20 | the last player leaves, the timer is disarmed, main joins an updater that waits for it |
| `ServerStaysUp` | Lobby.cfg | `server/main.c:997`; design.md:20 | a client that leaves at a prompt ends the server |
| `ReadUntilEAGAIN` | Lobby.cfg | `server/main.c:966`; lines 1148-1149 "until EAGAIN is returned" | a move that arrives with the acknowledgement stays unread though its edge is used up |
| `NamesAreNames` | Lobby.cfg | `server/main.c:691`; line 693 "user sent his/her name" | two moves read together are stored as the player's name |
| `FreshDescriptor` (property) | Lobby.cfg | `server/main.c:1091`; protocol.md:2 "players connect to the server and decide between 3 options" | a new client gets the descriptor, and the session, of one that was kicked out |
| `EverybodyIsServed` (property) | Lobby.cfg | `server/main.c:1091`; protocol.md:2 | the client that got such a descriptor is in a slot that waits for a choice, and nobody shows it the options |
| `GameIsUpdated` | Lobby.cfg | `server/main.c:941`; design.md:51 "Another thread/process will be in charge of pushing periodic game updates" | the game has an updater thread only if the first client of the server's life starts it, because the player's index is never stored |
| `WaitersWait` (property) | Lobby.cfg | `server/main.c:827`; line 869 "3. Wait for other players" | the option's number 3 is stored as the state `WAITING_FOR_NAME` |
| `KeyEndsClient` (property) | GameClient.cfg | `client/main.c:275`; line 267 "press any key to exit" | the listener ends at the key and signals nobody, and the main thread sleeps on |
| `BotPlaysOn` | GameClient.cfg | `client/main.c:65`; line 35 "FOR TIMER of bot" | the timer can end the bot: its handler waits for a mutex that the thread it interrupted holds |
| `ClosedEndsUpdates` (property) | GameClient.cfg | `client/main.c:226`; README.md:80 "to detect a game over / disconnection" | a closed connection is always readable: no timeout, and the search for UPDATE_START spins |

## 8. Proofs

TLAPS checks every step of these modules, for every value of the constants that the
named assumptions allow.

*TrafficCircle_proofs* (`N >= 2`, any set of cars, `NoCar` not one of them). The
inductive invariant `IndInv` adds to the types what is known of a car at each label
(`CarInv`: where it stands, that its direction keeps it on the border, which of its
fields is stale), that a square's mutex is held by exactly the thread whose label says so
(`LockDiscipline`), and that the board shows exactly the driving cars (`BoardIsTrue`).
`OneCarPerSquare` is not inductive: a car moves to a square because it holds that
square's mutex, and only `LockDiscipline` says that the car standing there would hold it
too. The steps are proved for one car (`OwnStep`), with lemmas that the others' facts are
untouched; geometry is in lemmas of its own (`LaneAhead`, `LaneStep`, `AheadInjective`).
From `IndInv` follow `MutualExclusion`, `OnTheCircle`, `ExitAfterSide`, the action
property `BoardSafety`, and `Refinement`: every step is a step of `Circle` or a stutter.

`DeadlockTakesAll` is about any set of cars: threads that wait for each other in a group hold
every square. A thread that waits holds no square, or the one behind the square it waits for
(`WaitsBehind`). So the squares the group holds are closed under `Ahead`, and such a set is the
whole ring (`RingClosed`): the squares are numbered along it, and one that missed a square would
miss a least one that follows a square it has. Each thread holds one square at most, so
4(N-1) cars are needed (`FullCircleHasNoRoom`). `NoDeadlock` and `SomebodyMoves` speak of the
state: however many cars a run makes, in every state in which those on their way are fewer than the
squares there is no circular wait, and some car on its way does not wait. Both take the
set of structs to be finite, for a set without a cardinality has no "fewer".

*Handshake_proofs* (any set of integers as arguments). `PrimeTest`: trying divisors to
the square root is right, because a divisor above the root has a cofactor below it.
`CranesExist`: a number that is not a prime has a divisor within the range of the draw.
`IndInv` says which steps of one process go with which steps of the other and with which
pipe contents; from it follow `PortsAgree`, `CranesAreLegal` (what `EilatPort` assumes
of the number of cranes) and `LastTry`.

*GameLobby_proofs* (any clients, any answers, any `MaxPlayers`; the count's modulus exceeds the
table by two at least). `IInv` is the typing of the session
arrays, `OneSlotPerDescriptor`, `GameHasBoard`, and `StarterIsDone`: once the updater
thread was created, the first slot is past its acknowledgement for good. Only with the
last is `OneUpdater` inductive; it is claimed while the server is up, for a server that exits at the
acknowledgement leaves the slot where it was. It needs `OneSlotPerDescriptor`, for otherwise a second
descriptor could lead to the first slot. `PlayersAreCounted` is about an unsigned counter,
and so about its not wrapping: a client that is forgotten and comes back takes a second slot, so
clients do not bound the count, but the table does (`CountInv`).
That messages have their types is no matter of typing alone: the server stores what it reads as a
name or a choice. `TalkInv` says what a client can have sent, or be about to send, at each
state of its slot (`Talk`): nothing but a name where one is asked for, and nothing left over when
its descriptor goes to another. A client that was forgotten may have left moves behind, which nobody
reads when it is `Over`: gone, and without an event. `TypesAreOK` follows.

*GameWorld_proofs* (any board, any number of monsters, coins and players, any commands).
`Typing` holds always; the rest of `IInv` until somebody is caught or written over, and
`DisturbedForGood` says that no step makes up for that. `PlayersPlaced`: every player of the
game, the disconnected too, is on its cell, every player's cell is of such a player, and
nobody who is not on the board has superpowers. `MonstersPlaced` and `CoinsPlaced` say the
like of monsters and of the coins that are counted, those under monsters included.
`BoardAgrees` is not inductive without the disconnected, whose cells stay. The handlers are
proved by what they do to the cells: a walk (`Walks`), a change of one cell between monsters and
floor (`PlayersElsewhere`), one that moves no coin (`CoinsStay`). In the initial state, that
monsters are numbered in the order of their cells makes the numbering one to one (`Numbered`).

For `NumPlayers = 1` the index that is never stored happens to be right. `LoneInv` adds that
nobody is written over (nobody is put on the board during the game), that every player's cell
is that player's, and `PowerIsTimed`; it gives `PowerTimed`. Section 7 shows what
the index does to a second player (`CaughtAreDead`), so the condition on the number cannot go.

`CountsHold` is about the game after such a disturbance too. A monster with a coin under it that
kills a player leaves a coin and takes the flag along (`main.c:643`), so more coins lie on the
board than `num_of_coins_on_screen` counts. The count, which is unsigned, does not wrap for
another reason (`CoinsLast`): the updater ends with the last coin counted, and only the updater takes
coins. `TypesAreOK` (GameWorld's `TypeOK`, in no run) follows.

*EilatPort_proofs* (any number of vessels, and of cranes that divide it with at least two
vessels each). `IInv` has a part for each mechanism, and each is proved from the parts
that its own steps use. `LocksInv`: a mutex is held by just the vessel whose label says so. From it follows `LockOrder`:
whether a vessel comes to `barrierMutex` with `mutexAdt` or, to count itself out, without it, the
owner of `barrierMutex` waits for no mutex and the owner of `mutexAdt` at most for that one.
`BarrierInv`: places in the queue are a numbering of the vessels that queued, and a semaphore
whose vessel still waits, or is yet to come, is released just when the head has passed it; from
this follows that no release is lost. `QuayInv`: table and vessels name each other.
`StartInv`: no vessel arrives before all semaphores exist. `TokenInv`: exactly while its vessel
waits, a crane has one token (announced, in work, done). `ServiceInv`: a crane that works has
not used up its share. `FifoBarrier`, `CraneExclusive` and `JobHandover` are consequences.
`SoundUnlessOvertaken` needs more: `Group(g)` says that g groups were released, all of vessels
that had queued, that a crane has done g jobs or, while its vessel of the last group is still
to come or unload, g - 1, and that there are as many free cranes as released vessels on their
way. That a group is complete when the next one is released is counted out: the places below
the head are all given out (`Numbered`), so each release has NumOfCranes vessels to let go.

`PortDoesNotHalt` shows that the tests at both ends of a group's stay leave no gap. By
`OpenQuay`, a quay that is open, and whose last vessel has looked at the barrier, has less
than a group there; by `ClosedQuay`, one that is closed has a vessel at a crane or on its way.
Suppose that nobody can go on (`Halted`): then no crane is occupied and nobody is on the way, so the quay
is open; all vessels that are not gone wait at the barrier, and there are fewer than NumOfCranes. But every
release took NumOfCranes places and NumOfCranes divides the number of vessels, so none is left, and the main
thread can join.

*Canal_proofs.* `EilatInCanal` shows that Eilat at the ends of the pipes takes only steps of
`EilatPort`, so that all of the above holds there. `LegInv` says for every vessel which of
its two threads, the pipes and its semaphore have it, and that nothing is twice in a pipe;
from it follow `OnePlace` and the refinement of `VesselJourney`. `EndInv` adds the count of
those that came home, which is what makes Haifa end behind Eilat (`HaifaCount`).
`CanalDoesNotHalt` carries `PortDoesNotHalt` over: where Eilat only waits for a vessel at sea,
`LegInv` says that it is in the pipe or still with a thread of Haifa, and `HaifaInv` that this
thread can go on, because the owner of `haifaMutex` is crossing.

*TrafficShutdown_proofs* (any number of generators; the cars are bounded by the length
of the arrays, which the code does not test). `NumbersInv` says that a number taken under
`carIDMutex` is its generator's until the thread is created; from it follow `UniqueIds`,
`RegistryIsLive` and `OneLateCar`. Nothing is claimed of `car_threads`, out of which a freed id takes
whatever it names.

*GameClient_proofs* (the stream and the threads; any board, buffer, number of pictures, keys
and moves). `StreamInv` describes the bytes of the connection: unless a board write was cut,
every UPDATE_END has one whole picture before it (`WholeFrames`); while nothing went wrong,
every UPDATE_START has its UPDATE_END in the right place (`StartsEnd`); and the buffer holds
what was read since the last UPDATE_START (`ReaderPlace`). From it follow
`AcceptsWholePictures` and `FailsOnlyWhenTorn`. For the threads, `NoLostWakeup` is inductive
with the owner of `updates_lock` (`LockDiscipline`) and that main goes to sleep on a test that
is still true.

*Only model-checked:* all liveness properties (`CarsKeepMoving`, `CircleKeepsTurning`,
`ReleasedVesselsSettle`, `StartEnds`, `CompositesSail`, `RoundsGoOn`, `NewcomersAreServed`, `SilenceEndsUpdates`,
`ChosenMovesAreSent`, `ClientEnds`), which are out of reach of the prover.
All invariants and action properties of the runs are theorems, `PowerIsTimed`
for one player. What the theorems
say of a halt is that some thread can go on, spelled out by the guards; ENABLED is not used.

## 9. Plan

Built in this order: circle, ports, game server, client. Left:

1. *More proofs.* What is true of the quay once a vessel was overtaken.
2. *More of the system.* At the end of Eilat's process, Haifa's read on a pipe whose write end
   it holds itself; several clients of GameClient on one GameWorld.
