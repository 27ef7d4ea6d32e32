--------------------------- MODULE TrafficCircle ---------------------------
(***************************************************************************)
(* traffic_cycle.c: four generator threads create cars, every car is a     *)
(* thread (moveCar) that locks the mutex of a square before it drives onto *)
(* it and unlocks the square it left behind.                               *)
(*                                                                         *)
(* A step is what a thread does between two lock operations.  board_mutex  *)
(* is always the innermost lock and is released at once, so a section      *)
(* under it is part of the step.  Car fields are written by the car's own  *)
(* thread only.  A car is its struct: a freed one can be another car's     *)
(* later, so Cars bounds the cars of one moment and not those of a run.    *)
(* The end of the program, which frees cars under their threads, is the    *)
(* subject of TrafficShutdown.                                             *)
(***************************************************************************)
EXTENDS Ring, FiniteSets

CONSTANTS Cars,     \* the structs of cars: there are never more at one time
          NoCar     \* NULL in board, "unlocked" in cellsMutexes

ASSUME NoCarAssumption == NoCar \notin Cars

VARIABLES
  pc,          \* pc[c]: where the thread of car c stands
  pos,         \* pos[c] = <<car->row, car->col>>
  current,     \* current[c]: the locals currentRow, currentCol of moveCar
  dir,         \* car->dir
  corner,      \* car->corner
  entered,     \* the cars with hasEnteredCircle
  onExit,      \* the cars with isOnExitCorner
  board,       \* board[s]: the car drawn on cell s
  mutex,       \* cellsMutexes[s]: the car whose thread holds it
  trip         \* auxiliary: squares a car has advanced, counted up to N-1

vars == <<pc, pos, current, dir, corner, entered, onExit, board, mutex, trip>>

Generators == 0 .. 3
RIGHT == 0
UP    == 1
LEFT  == 2
DOWN  == 3

Corners == {"UPPER_RIGHT", "UPPER_LEFT", "BUTTOM_LEFT", "BUTTOM_RIGHT"}

Corner(s) == CASE s = <<0, 0>>     -> "UPPER_LEFT"
               [] s = <<0, N-1>>   -> "UPPER_RIGHT"
               [] s = <<N-1, 0>>   -> "BUTTOM_LEFT"
               [] s = <<N-1, N-1>> -> "BUTTOM_RIGHT"

NextRowCol(s, d) == CASE d = UP    -> <<s[1] - 1, s[2]>>
                      [] d = RIGHT -> <<s[1], s[2] + 1>>
                      [] d = DOWN  -> <<s[1] + 1, s[2]>>
                      [] d = LEFT  -> <<s[1], s[2] - 1>>

\* Faulty variant: the square after the corner instead of the one before it.
CellAfter(k) == CASE k = "UPPER_LEFT"   -> <<1, 0>>
                  [] k = "UPPER_RIGHT"  -> <<0, N-2>>
                  [] k = "BUTTOM_LEFT"  -> <<N-1, 1>>
                  [] k = "BUTTOM_RIGHT" -> <<N-2, N-1>>

\* The extra square a car locks before it enters at a corner.
CellToCheck(k) == CASE k = "UPPER_LEFT"   -> <<0, 1>>
                    [] k = "UPPER_RIGHT"  -> <<1, N-1>>
                    [] k = "BUTTOM_LEFT"  -> <<N-2, 0>>
                    [] k = "BUTTOM_RIGHT" -> <<N-1, N-2>>

\* Where generator g puts a new car, just outside its corner.
StartPos(g)    == CASE g = 0 -> <<N-1, -1>>
                    [] g = 1 -> <<N, N-1>>
                    [] g = 2 -> <<0, N>>
                    [] g = 3 -> <<-1, 0>>
StartDir(g)    == g
StartCorner(g) == CASE g = 0 -> "BUTTOM_LEFT"
                    [] g = 1 -> "BUTTOM_RIGHT"
                    [] g = 2 -> "UPPER_RIGHT"
                    [] g = 3 -> "UPPER_LEFT"

Target(c) == NextRowCol(pos[c], dir[c])     \* nextRow, nextCol
Test(c)   == CellToCheck(corner[c])         \* rowToTest, colToTest

\* The change of direction at a corner.
Turn(d) == (d + 1) % 4

Further(n) == IF n < N-1 THEN n + 1 ELSE n

Init ==
  /\ pc = [c \in Cars |-> "none"]
  /\ pos = [c \in Cars |-> StartPos(0)]
  /\ current = [c \in Cars |-> StartPos(0)]
  /\ dir = [c \in Cars |-> RIGHT]
  /\ corner = [c \in Cars |-> StartCorner(0)]
  /\ entered = {}
  /\ onExit = {}
  /\ board = [s \in Cells |-> NoCar]
  /\ mutex = [s \in Cells |-> NoCar]
  /\ trip = [c \in Cars |-> 0]

Goto(c, label) == pc' = [pc EXCEPT ![c] = label]
Lock(c, s)     == mutex[s] = NoCar /\ mutex' = [mutex EXCEPT ![s] = c]
Unlock(s)      == mutex' = [mutex EXCEPT ![s] = NoCar]

-----------------------------------------------------------------------------
\* carGenerator, which never stops: malloc, initCar and pthread_create; the new
\* thread reaches line 327.
Generate(c, g) ==
  /\ pc[c] = "none"
  /\ pos' = [pos EXCEPT ![c] = StartPos(g)]
  /\ current' = [current EXCEPT ![c] = StartPos(g)]
  /\ dir' = [dir EXCEPT ![c] = StartDir(g)]
  /\ corner' = [corner EXCEPT ![c] = StartCorner(g)]
  /\ Goto(c, "lockTest")
  /\ UNCHANGED <<entered, onExit, board, mutex, trip>>

\* Faulty variant: enters without waiting for the square before the corner.
LockTestSkipped(c) ==
  /\ pc[c] = "lockTest"
  /\ Goto(c, "lockCorner")
  /\ UNCHANGED <<pos, current, dir, corner, entered, onExit, board, mutex, trip>>

LockTest(c) ==
  /\ pc[c] = "lockTest"
  /\ Lock(c, Test(c))
  /\ Goto(c, "lockCorner")
  /\ UNCHANGED <<pos, current, dir, corner, entered, onExit, board, trip>>

\* Faulty variant: goes on when the lock call returns without the lock.
LockCornerUnchecked(c) ==
  /\ pc[c] = "lockCorner"
  /\ mutex' = [mutex EXCEPT ![Target(c)] = c]
  /\ Goto(c, "enter")
  /\ UNCHANGED <<pos, current, dir, corner, entered, onExit, board, trip>>

LockCorner(c) ==
  /\ pc[c] = "lockCorner"
  /\ Lock(c, Target(c))
  /\ Goto(c, "enter")
  /\ UNCHANGED <<pos, current, dir, corner, entered, onExit, board, trip>>

\* updateBoardAndCar(car, next, curr)
UpdateBoardAndCar(c, next, curr) ==
  /\ board' = IF c \in entered THEN [board EXCEPT ![next] = c, ![curr] = NoCar]
                               ELSE [board EXCEPT ![next] = c]
  /\ pos' = [pos EXCEPT ![c] = next]
  /\ IF IsCorner(next) /\ c \in entered
       THEN /\ onExit' = onExit \union {c}
            /\ dir' = [dir EXCEPT ![c] = Turn(@)]
            /\ corner' = [corner EXCEPT ![c] = Corner(next)]
       ELSE /\ onExit' = onExit \ {c}
            /\ UNCHANGED <<dir, corner>>

EnterCircle(c) ==
  /\ pc[c] = "enter"
  /\ UpdateBoardAndCar(c, Target(c), current[c])
  /\ entered' = entered \union {c}
  /\ trip' = [trip EXCEPT ![c] = 0]
  /\ Goto(c, "unlockTest")
  /\ UNCHANGED <<current, mutex>>

\* Unlock the test square, sleep, and start the next iteration at line 316.
UnlockTest(c) ==
  /\ pc[c] = "unlockTest"
  /\ Unlock(Test(c))
  /\ current' = [current EXCEPT ![c] = pos[c]]
  /\ Goto(c, "decide")
  /\ UNCHANGED <<pos, dir, corner, entered, onExit, board, trip>>

\* shouldExitCircle is a coin flip; it is tossed only on an exit corner.
DecideToExit(c) ==
  /\ pc[c] = "decide"
  /\ c \in onExit
  /\ Goto(c, "removeFromBoard")
  /\ UNCHANGED <<pos, current, dir, corner, entered, onExit, board, mutex, trip>>

DecideToContinue(c) ==
  /\ pc[c] = "decide"
  /\ Goto(c, "lockNext")
  /\ UNCHANGED <<pos, current, dir, corner, entered, onExit, board, mutex, trip>>

\* Faulty variant: goes on when the lock call returns without the lock.
LockNextUnchecked(c) ==
  /\ pc[c] = "lockNext"
  /\ mutex' = [mutex EXCEPT ![Target(c)] = c]
  /\ Goto(c, "move")
  /\ UNCHANGED <<pos, current, dir, corner, entered, onExit, board, trip>>

LockNext(c) ==
  /\ pc[c] = "lockNext"
  /\ Lock(c, Target(c))
  /\ Goto(c, "move")
  /\ UNCHANGED <<pos, current, dir, corner, entered, onExit, board, trip>>

Move(c) ==
  /\ pc[c] = "move"
  /\ UpdateBoardAndCar(c, Target(c), current[c])
  /\ trip' = [trip EXCEPT ![c] = Further(@)]
  /\ Goto(c, "unlockCurrent")
  /\ UNCHANGED <<current, entered, mutex>>

\* Faulty variant: the locals of the loop are not refreshed.
UnlockStaleCurrent(c) ==
  /\ pc[c] = "unlockCurrent"
  /\ Unlock(current[c])
  /\ Goto(c, "decide")
  /\ UNCHANGED <<pos, current, dir, corner, entered, onExit, board, trip>>

UnlockCurrent(c) ==
  /\ pc[c] = "unlockCurrent"
  /\ Unlock(current[c])
  /\ current' = [current EXCEPT ![c] = pos[c]]
  /\ Goto(c, "decide")
  /\ UNCHANGED <<pos, dir, corner, entered, onExit, board, trip>>

\* Faulty variant: the thread neither unlocks its corner nor ends.
RemoveAndStay(c) ==
  /\ pc[c] = "removeFromBoard"
  /\ board' = [board EXCEPT ![pos[c]] = NoCar]
  /\ Goto(c, "decide")
  /\ UNCHANGED <<pos, current, dir, corner, entered, onExit, mutex, trip>>

RemoveFromBoard(c) ==
  /\ pc[c] = "removeFromBoard"
  /\ board' = [board EXCEPT ![pos[c]] = NoCar]
  /\ trip' = [trip EXCEPT ![c] = 0]
  /\ Goto(c, "unlockSink")
  /\ UNCHANGED <<pos, current, dir, corner, entered, onExit, mutex>>

\* free: what a freed struct holds is not told apart, for initCar sets it all.
FreeCar(c) ==
  /\ pos' = [pos EXCEPT ![c] = StartPos(0)]
  /\ current' = [current EXCEPT ![c] = StartPos(0)]
  /\ dir' = [dir EXCEPT ![c] = RIGHT]
  /\ corner' = [corner EXCEPT ![c] = StartCorner(0)]
  /\ entered' = entered \ {c}
  /\ onExit' = onExit \ {c}

\* Unlock the corner, free the car, pthread_exit.
UnlockSink(c) ==
  /\ pc[c] = "unlockSink"
  /\ Unlock(current[c])
  /\ FreeCar(c)
  /\ Goto(c, "none")
  /\ UNCHANGED <<board, trip>>

MoveCar(c) ==
  \/ LockTest(c)
  \/ LockCorner(c)
  \/ EnterCircle(c)
  \/ UnlockTest(c)
  \/ DecideToExit(c)
  \/ DecideToContinue(c)
  \/ LockNext(c)
  \/ Move(c)
  \/ UnlockCurrent(c)
  \/ RemoveFromBoard(c)
  \/ UnlockSink(c)

Next == \E c \in Cars : MoveCar(c) \/ \E g \in Generators : Generate(c, g)

Spec == Init /\ [][Next]_vars

\* Every thread that can take its next step eventually does.
FairSpec == Spec /\ \A c \in Cars : WF_vars(MoveCar(c))
-----------------------------------------------------------------------------
Labels == {"none", "lockTest", "lockCorner", "enter", "unlockTest", "decide", "lockNext",
           "move", "unlockCurrent", "removeFromBoard", "unlockSink"}

TypeOK ==
  /\ pc \in [Cars -> Labels]
  /\ pos \in [Cars -> (-1 .. N) \X (-1 .. N)]
  /\ current \in [Cars -> (-1 .. N) \X (-1 .. N)]
  /\ dir \in [Cars -> 0 .. 3]
  /\ corner \in [Cars -> Corners]
  /\ entered \subseteq Cars
  /\ onExit \subseteq Cars
  /\ board \in [Cells -> Cars \union {NoCar}]
  /\ mutex \in [Cells -> Cars \union {NoCar}]
  /\ trip \in [Cars -> 0 .. N-1]

\* The cars whose picture is on the board: from updateBoardAndCar to removal.
Driving == {c \in Cars : pc[c] \in {"unlockTest", "decide", "lockNext", "move",
                                    "unlockCurrent", "removeFromBoard"}}

\* The squares whose mutex the thread of c holds.
Held(c) ==
  CASE pc[c] \in {"none", "lockTest"} -> {}
    [] pc[c] = "lockCorner"    -> {Test(c)}
    [] pc[c] = "enter"         -> {Test(c), Target(c)}
    [] pc[c] = "unlockTest"    -> {Test(c), pos[c]}
    [] pc[c] = "move"          -> {pos[c], Target(c)}
    [] pc[c] = "unlockCurrent" -> {current[c], pos[c]}
    [] OTHER                   -> {pos[c]}

\* A mutex is held by exactly the thread whose program counter says so: no
\* path through moveCar forgets an unlock or unlocks another car's square.
LockDiscipline == \A c \in Cars, s \in Cells : mutex[s] = c <=> s \in Held(c)

\* "The square may contain one car at most at any given time": told by the
\* cars' own coordinates, not by the board.
OneCarPerSquare == \A c, d \in Driving : pos[c] = pos[d] => c = d

\* The board shows every driving car once, where the car thinks it is, and
\* nothing else: no ghost is left behind by a move or an exit.
BoardIsTrue == \A c \in Cars, s \in Cells : board[s] = c <=> c \in Driving /\ s = pos[c]

\* A driving car is on the border and faces along the circle: the turns at
\* the corners never send it across the inner cells or off the board.
StaysOnCircle ==
  \A c \in Driving : pos[c] \in Squares /\ Target(c) = Ahead(pos[c])

\* A car leaves only at a corner and only after it has driven a whole side.
ExitOnlyAfterSide ==
  \A c \in Cars : pc[c] = "removeFromBoard" => IsCorner(pos[c]) /\ trip[c] >= N-1

\* No step draws a car over another one.
NoOverwrite ==
  [][\A s \in Cells : board[s] # NoCar => board'[s] \in {board[s], NoCar}]_vars

\* The square the thread of c waits for.
Wanted(c) == IF pc[c] = "lockTest" THEN Test(c) ELSE Target(c)
Waiting   == {c \in Cars : /\ pc[c] \in {"lockTest", "lockCorner", "lockNext"}
                           /\ mutex[Wanted(c)] # NoCar}

\* The cars there are, and whether they are fewer than the squares.
OnItsWay == {c \in Cars : pc[c] # "none"}
HasRoom  == Cardinality(OnItsWay) < 4 * (N-1)

\* Every square is locked by a thread that waits for another one.
FullCircle == \A s \in Squares : mutex[s] \in Waiting

\* While there are fewer cars than squares on the circle, no group of threads
\* waits for squares held inside the group: the locks of entries (two at a
\* time) and of moves (hand over hand) never close a cycle.
NoCircularWait ==
  HasRoom => \A G \in SUBSET Waiting : G # {} => \E c \in G : mutex[Wanted(c)] \notin G

\* A driving car waits for ever for the square ahead only in a full circle, or
\* because new cars enter for ever: pthread_mutex_lock (lines 327 and 354) owes
\* nothing to who came first, so an entering car may get that square each time.
CarsKeepMoving ==
  \A c \in Cars : <>[](pc[c] = "lockNext") => \/ <>[]FullCircle
                                             \/ []<>(\E d \in Cars : pc[d] = "enter")

\* Whoever is overtaken, the circle as a whole never stands still: as long as
\* there are cars and no full circle, cars enter, move or leave.
CircleKeepsTurning ==
  []<><<board' # board>>_board \/ <>[](OnItsWay = {} \/ FullCircle)

\* What the exercise asks for ("The program should avoid deadlocks") and the code
\* does not keep: with as many cars as squares the circle can fill up and stop.
AvoidsDeadlocks == ~FullCircle

Abstract == INSTANCE Circle WITH occ <- [s \in Squares |-> board[s]]

\* The threads and mutexes implement the promises of Circle.
ImplementsCircle == Abstract!Spec
-----------------------------------------------------------------------------
(***************************************************************************)
(* The inductive invariant: what is known of a car at every label.         *)
(***************************************************************************)

\* Direction d keeps a car on the circle at square s: it lies on the side
\* that d runs along and is not the last square of it.
Lane(s, d) == CASE d = RIGHT -> s[1] = N-1 /\ s[2] < N-1
                [] d = UP    -> s[2] = N-1 /\ s[1] > 0
                [] d = LEFT  -> s[1] = 0   /\ s[2] > 0
                [] d = DOWN  -> s[2] = 0   /\ s[1] < N-1

\* How far along that side s lies.
Along(s, d) == CASE d = RIGHT -> s[2]
                 [] d = UP    -> N-1 - s[1]
                 [] d = LEFT  -> N-1 - s[2]
                 [] d = DOWN  -> s[1]

BeforeEntry == {"none", "lockTest", "lockCorner", "enter"}
Approaching == {"lockTest", "lockCorner", "enter"}
OnCircle    == {"unlockTest", "decide", "lockNext", "move", "unlockCurrent",
                "removeFromBoard", "unlockSink"}

FlagsInv(c) ==
  /\ pc[c] \in BeforeEntry <=> c \notin entered
  /\ c \in onExit => c \in entered

ApproachInv(c) ==
  pc[c] \in Approaching =>
    \E g \in Generators : /\ pos[c] = StartPos(g) /\ current[c] = pos[c]
                          /\ dir[c] = StartDir(g) /\ corner[c] = StartCorner(g)

RoadInv(c) ==
  pc[c] \in OnCircle =>
    /\ pos[c] \in Cells /\ Lane(pos[c], dir[c])
    /\ pc[c] = "unlockTest" => Test(c) \in Squares /\ Test(c) # pos[c]
    /\ pc[c] = "unlockCurrent" => current[c] \in Squares /\ current[c] # pos[c]
    /\ pc[c] \notin {"unlockTest", "unlockCurrent"} => current[c] = pos[c]

SideInv(c) ==
  c \in Driving =>
    /\ trip[c] >= N-1 \/ trip[c] >= Along(pos[c], dir[c])
    /\ c \in onExit => IsCorner(pos[c]) /\ trip[c] >= N-1
    /\ pc[c] = "removeFromBoard" => c \in onExit

CarInv == \A c \in Cars : FlagsInv(c) /\ ApproachInv(c) /\ RoadInv(c) /\ SideInv(c)

IndInv == TypeOK /\ CarInv /\ LockDiscipline /\ BoardIsTrue
=============================================================================
