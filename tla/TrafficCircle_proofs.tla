------------------------ MODULE TrafficCircle_proofs ------------------------
(***************************************************************************)
(* Proofs about TrafficCircle, for every side N >= 2 and every set of cars. *)
(* First the geometry (what the switch tables of the code compute), then   *)
(* the inductive invariant, then the properties that follow from it.       *)
(***************************************************************************)
EXTENDS TrafficCircle, FiniteSetTheorems, TLAPS

USE NAssumption, NoCarAssumption

-----------------------------------------------------------------------------
\* Geometry.

\* A car on its lane faces the square ahead, which is another border square;
\* getNextRowCol never leaves the matrix from there.
LEMMA LaneAhead ==
  ASSUME NEW s \in Cells, NEW d \in 0 .. 3, Lane(s, d)
  PROVE  /\ s \in Squares
         /\ NextRowCol(s, d) = Ahead(s)
         /\ Ahead(s) \in Squares
         /\ Ahead(s) # s
<1>1. CASE d = RIGHT
  BY <1>1 DEF Lane, NextRowCol, Ahead, Squares, Cells, OnBorder, RIGHT, UP, LEFT, DOWN
<1>2. CASE d = UP
  BY <1>2 DEF Lane, NextRowCol, Ahead, Squares, Cells, OnBorder, RIGHT, UP, LEFT, DOWN
<1>3. CASE d = LEFT
  BY <1>3 DEF Lane, NextRowCol, Ahead, Squares, Cells, OnBorder, RIGHT, UP, LEFT, DOWN
<1>4. CASE d = DOWN
  BY <1>4 DEF Lane, NextRowCol, Ahead, Squares, Cells, OnBorder, RIGHT, UP, LEFT, DOWN
<1> QED
  BY <1>1, <1>2, <1>3, <1>4 DEF RIGHT, UP, LEFT, DOWN

\* One square further the car is still on its lane, or at a corner, where the
\* turn of updateBoardAndCar puts it on the next lane.
LEMMA LaneStep ==
  ASSUME NEW s \in Cells, NEW d \in 0 .. 3, Lane(s, d)
  PROVE  /\ ~IsCorner(Ahead(s)) => Lane(Ahead(s), d) /\ Along(Ahead(s), d) = Along(s, d) + 1
         /\ IsCorner(Ahead(s)) => /\ Lane(Ahead(s), Turn(d))
                                  /\ Along(Ahead(s), Turn(d)) = 0
                                  /\ Along(s, d) = N-2
<1>1. CASE d = 0
  BY <1>1 DEF Lane, Ahead, IsCorner, Along, Cells, Turn, RIGHT, UP, LEFT, DOWN
<1>2. CASE d = 1
  BY <1>2 DEF Lane, Ahead, IsCorner, Along, Cells, Turn, RIGHT, UP, LEFT, DOWN
<1>3. CASE d = 2
  BY <1>3 DEF Lane, Ahead, IsCorner, Along, Cells, Turn, RIGHT, UP, LEFT, DOWN
<1>4. CASE d = 3
  BY <1>4 DEF Lane, Ahead, IsCorner, Along, Cells, Turn, RIGHT, UP, LEFT, DOWN
<1> QED
  BY <1>1, <1>2, <1>3, <1>4

LEMMA AlongType ==
  ASSUME NEW s \in Cells, NEW d \in 0 .. 3
  PROVE  Along(s, d) \in 0 .. N-1
BY DEF Along, Cells, RIGHT, UP, LEFT, DOWN

\* Each generator aims its cars at a corner, along a lane of the circle, and
\* the extra square the car tests is the one before that corner.
LEMMA StartGeometry ==
  ASSUME NEW g \in Generators
  PROVE  /\ StartPos(g) \in (-1 .. N) \X (-1 .. N)
         /\ StartDir(g) \in 0 .. 3 /\ StartCorner(g) \in Corners
         /\ NextRowCol(StartPos(g), StartDir(g)) \in Cells
         /\ IsCorner(NextRowCol(StartPos(g), StartDir(g)))
         /\ Lane(NextRowCol(StartPos(g), StartDir(g)), StartDir(g))
         /\ Along(NextRowCol(StartPos(g), StartDir(g)), StartDir(g)) = 0
         /\ CellToCheck(StartCorner(g)) \in Squares
         /\ CellToCheck(StartCorner(g)) # NextRowCol(StartPos(g), StartDir(g))
         /\ Ahead(CellToCheck(StartCorner(g))) = NextRowCol(StartPos(g), StartDir(g))
<1> USE DEF StartPos, StartDir, StartCorner, Corners, NextRowCol, IsCorner, Lane, Along,
            CellToCheck, Ahead, Squares, Cells, OnBorder, RIGHT, UP, LEFT, DOWN, Generators
<1>1. CASE g = 0
  BY <1>1
<1>2. CASE g = 1
  BY <1>2
<1>3. CASE g = 2
  BY <1>3
<1>4. CASE g = 3
  BY <1>4
<1> HIDE DEF StartPos, StartDir, StartCorner, Corners, NextRowCol, IsCorner, Lane, Along,
             CellToCheck, Ahead, Squares, Cells, OnBorder, RIGHT, UP, LEFT, DOWN
<1> QED
  BY <1>1, <1>2, <1>3, <1>4 DEF Generators

\* The square before a given one is unique.
LEMMA AheadInjective ==
  ASSUME NEW s \in Squares, NEW t \in Squares, Ahead(s) = Ahead(t)
  PROVE  s = t
BY DEF Ahead, Squares, Cells, OnBorder

LEMMA SquaresAreCells == Squares \subseteq Cells
BY DEF Squares

LEMMA CornersAreSquares ==
  ASSUME NEW s \in Cells, IsCorner(s)
  PROVE  s \in Squares /\ Corner(s) \in Corners
BY DEF IsCorner, Squares, OnBorder, Corner, Corners, Cells

-----------------------------------------------------------------------------
\* What the invariant says of a car at the places the actions care about.

LEMMA ApproachFacts ==
  ASSUME TypeOK, CarInv, NEW c \in Cars, pc[c] \in Approaching
  PROVE  /\ Target(c) \in Squares /\ IsCorner(Target(c))
         /\ Lane(Target(c), dir[c]) /\ Along(Target(c), dir[c]) = 0
         /\ Test(c) \in Squares /\ Test(c) # Target(c) /\ Ahead(Test(c)) = Target(c)
<1>1. PICK g \in Generators : /\ pos[c] = StartPos(g) /\ dir[c] = StartDir(g)
                              /\ corner[c] = StartCorner(g)
  BY DEF CarInv, ApproachInv
<1> QED
  BY <1>1, StartGeometry, CornersAreSquares DEF Target, Test

LEMMA RoadFacts ==
  ASSUME TypeOK, CarInv, NEW c \in Cars, pc[c] \in OnCircle
  PROVE  /\ pos[c] \in Squares /\ Target(c) \in Squares
         /\ Target(c) = Ahead(pos[c]) /\ Target(c) # pos[c]
BY LaneAhead DEF TypeOK, CarInv, RoadInv, Target

\* updateBoardAndCar keeps every field in its type.
LEMMA UpdateTypes ==
  ASSUME TypeOK, NEW c \in Cars, NEW next \in Squares, NEW curr,
         UpdateBoardAndCar(c, next, curr)
  PROVE  /\ board' \in [Cells -> Cars \union {NoCar}]
         /\ pos' \in [Cars -> (-1 .. N) \X (-1 .. N)]
         /\ onExit' \subseteq Cars
         /\ dir' \in [Cars -> 0 .. 3]
         /\ corner' \in [Cars -> Corners]
<1>1. next \in (-1 .. N) \X (-1 .. N) /\ next \in Cells
  BY DEF Squares, Cells
<1>2. IsCorner(next) => Corner(next) \in Corners
  BY <1>1, CornersAreSquares
<1>3. Turn(dir[c]) \in 0 .. 3
  BY DEF TypeOK, Turn
<1>4. board' \in [Cells -> Cars \union {NoCar}]
  BY <1>1 DEF UpdateBoardAndCar, TypeOK
<1>5. pos' \in [Cars -> (-1 .. N) \X (-1 .. N)]
  BY <1>1 DEF UpdateBoardAndCar, TypeOK
<1>6. onExit' \subseteq Cars
  BY DEF UpdateBoardAndCar, TypeOK
<1>7. dir' \in [Cars -> 0 .. 3]
  BY <1>3 DEF UpdateBoardAndCar, TypeOK
<1>8. corner' \in [Cars -> Corners]
  BY <1>2 DEF UpdateBoardAndCar, TypeOK
<1> QED
  BY <1>4, <1>5, <1>6, <1>7, <1>8

LEMMA TypeStep == TypeOK /\ CarInv /\ [Next]_vars => TypeOK'
<1> SUFFICES ASSUME TypeOK, CarInv, [Next]_vars PROVE TypeOK'
  OBVIOUS
<1>1. ASSUME NEW c \in Cars, NEW g \in Generators, Generate(c, g) PROVE TypeOK'
  BY <1>1, StartGeometry DEF Generate, TypeOK, Goto, Labels
<1>2. ASSUME NEW c \in Cars, LockTest(c) PROVE TypeOK'
  BY <1>2 DEF LockTest, TypeOK, Goto, Lock, Labels
<1>3. ASSUME NEW c \in Cars, LockCorner(c) PROVE TypeOK'
  BY <1>3 DEF LockCorner, TypeOK, Goto, Lock, Labels
<1>4. ASSUME NEW c \in Cars, EnterCircle(c) PROVE TypeOK'
  <2>1. Target(c) \in Squares
    BY <1>4, ApproachFacts DEF EnterCircle, Approaching
  <2> QED
    BY <1>4, <2>1, UpdateTypes DEF EnterCircle, TypeOK, Goto, Labels
<1>5. ASSUME NEW c \in Cars, UnlockTest(c) PROVE TypeOK'
  BY <1>5 DEF UnlockTest, TypeOK, Goto, Unlock, Labels
<1>6. ASSUME NEW c \in Cars, DecideToExit(c) PROVE TypeOK'
  BY <1>6 DEF DecideToExit, TypeOK, Goto, Labels
<1>7. ASSUME NEW c \in Cars, DecideToContinue(c) PROVE TypeOK'
  BY <1>7 DEF DecideToContinue, TypeOK, Goto, Labels
<1>8. ASSUME NEW c \in Cars, LockNext(c) PROVE TypeOK'
  BY <1>8 DEF LockNext, TypeOK, Goto, Lock, Labels
<1>9. ASSUME NEW c \in Cars, Move(c) PROVE TypeOK'
  <2>1. Target(c) \in Squares
    BY <1>9, RoadFacts DEF Move, OnCircle
  <2>2. Further(trip[c]) \in 0 .. N-1
    BY DEF Further, TypeOK
  <2> QED
    BY <1>9, <2>1, <2>2, UpdateTypes DEF Move, TypeOK, Goto, Labels
<1>10. ASSUME NEW c \in Cars, UnlockCurrent(c) PROVE TypeOK'
  BY <1>10 DEF UnlockCurrent, TypeOK, Goto, Unlock, Labels
<1>11. ASSUME NEW c \in Cars, RemoveFromBoard(c) PROVE TypeOK'
  <2>1. trip' \in [Cars -> 0 .. N-1]
    BY <1>11 DEF RemoveFromBoard, TypeOK
  <2> QED
    BY <1>11, <2>1 DEF RemoveFromBoard, TypeOK, Goto, Labels
<1>12. ASSUME NEW c \in Cars, UnlockSink(c) PROVE TypeOK'
  <2>1. StartPos(0) \in (-1 .. N) \X (-1 .. N) /\ StartCorner(0) \in Corners
    BY StartGeometry DEF Generators
  <2>2. /\ pos' \in [Cars -> (-1 .. N) \X (-1 .. N)] /\ current' \in [Cars -> (-1 .. N) \X (-1 .. N)]
        /\ dir' \in [Cars -> 0 .. 3] /\ corner' \in [Cars -> Corners]
        /\ entered' \subseteq Cars /\ onExit' \subseteq Cars
    BY <1>12, <2>1 DEF UnlockSink, FreeCar, TypeOK, RIGHT
  <2> QED
    BY <1>12, <2>2 DEF UnlockSink, TypeOK, Goto, Unlock, Labels
<1>13. CASE UNCHANGED vars
  BY <1>13 DEF vars, TypeOK
<1> QED
  BY <1>1, <1>2, <1>3, <1>4, <1>5, <1>6, <1>7, <1>8, <1>9, <1>10, <1>11, <1>12, <1>13
     DEF Next, MoveCar

-----------------------------------------------------------------------------
\* The invariant of one car survives the steps of the others.

CarInvOf(c) == FlagsInv(c) /\ ApproachInv(c) /\ RoadInv(c) /\ SideInv(c)

Untouched(c) ==
  /\ pc'[c] = pc[c] /\ pos'[c] = pos[c] /\ current'[c] = current[c] /\ dir'[c] = dir[c]
  /\ corner'[c] = corner[c] /\ trip'[c] = trip[c]
  /\ (c \in entered') = (c \in entered) /\ (c \in onExit') = (c \in onExit)

LEMMA UntouchedCar ==
  ASSUME NEW c \in Cars, CarInvOf(c), Untouched(c)
  PROVE  CarInvOf(c)'
BY DEF CarInvOf, Untouched, FlagsInv, ApproachInv, RoadInv, SideInv, Driving, Test

\* Only the fields of the car whose thread runs change.
LEMMA OneCarMoves ==
  ASSUME TypeOK, NEW c \in Cars, NEW d \in Cars, d # c,
         MoveCar(c) \/ \E g \in Generators : Generate(c, g)
  PROVE  Untouched(d)
<1> USE DEF TypeOK, Untouched, Goto, Lock, Unlock
<1>1. ASSUME NEW g \in Generators, Generate(c, g) PROVE Untouched(d)
  BY <1>1 DEF Generate
<1>2. CASE LockTest(c)
  BY <1>2 DEF LockTest
<1>3. CASE LockCorner(c)
  BY <1>3 DEF LockCorner
<1>4. CASE EnterCircle(c)
  BY <1>4 DEF EnterCircle, UpdateBoardAndCar
<1>5. CASE UnlockTest(c)
  BY <1>5 DEF UnlockTest
<1>6. CASE DecideToExit(c)
  BY <1>6 DEF DecideToExit
<1>7. CASE DecideToContinue(c)
  BY <1>7 DEF DecideToContinue
<1>8. CASE LockNext(c)
  BY <1>8 DEF LockNext
<1>9. CASE Move(c)
  BY <1>9 DEF Move, UpdateBoardAndCar
<1>10. CASE UnlockCurrent(c)
  BY <1>10 DEF UnlockCurrent
<1>11. CASE RemoveFromBoard(c)
  BY <1>11 DEF RemoveFromBoard
<1>12. CASE UnlockSink(c)
  BY <1>12 DEF UnlockSink, FreeCar
<1> HIDE DEF TypeOK, Untouched, Goto, Lock, Unlock
<1> QED
  BY <1>1, <1>2, <1>3, <1>4, <1>5, <1>6, <1>7, <1>8, <1>9, <1>10, <1>11, <1>12 DEF MoveCar

\* ... and the step of a car's own thread keeps its invariant.
LEMMA OwnStep ==
  ASSUME TypeOK, CarInv, TypeOK', NEW c \in Cars,
         MoveCar(c) \/ \E g \in Generators : Generate(c, g)
  PROVE  CarInvOf(c)'
<1> USE DEF Goto, Lock, Unlock, BeforeEntry, Approaching, OnCircle, Driving
<1>0. CarInvOf(c)
  BY DEF CarInv, CarInvOf
<1>1. ASSUME NEW g \in Generators, Generate(c, g) PROVE CarInvOf(c)'
  BY <1>0, <1>1 DEF Generate, TypeOK, CarInvOf, FlagsInv, ApproachInv, RoadInv, SideInv
<1>2. CASE LockTest(c)
  BY <1>0, <1>2 DEF LockTest, TypeOK, CarInvOf, FlagsInv, ApproachInv, RoadInv, SideInv
<1>3. CASE LockCorner(c)
  BY <1>0, <1>3 DEF LockCorner, TypeOK, CarInvOf, FlagsInv, ApproachInv, RoadInv, SideInv
<1>4. CASE EnterCircle(c)
  <2>1. /\ Target(c) \in Cells /\ Lane(Target(c), dir[c]) /\ Along(Target(c), dir[c]) = 0
        /\ Test(c) \in Squares /\ Test(c) # Target(c)
    BY <1>4, ApproachFacts, SquaresAreCells DEF EnterCircle
  <2>2. c \notin entered /\ c \notin onExit
    BY <1>0, <1>4 DEF EnterCircle, CarInvOf, FlagsInv
  <2>3. /\ pc'[c] = "unlockTest" /\ pos'[c] = Target(c) /\ dir' = dir /\ corner' = corner
        /\ c \in entered' /\ c \notin onExit' /\ trip'[c] = 0
    BY <1>4, <2>2 DEF EnterCircle, UpdateBoardAndCar, TypeOK
  <2> QED
    BY <2>1, <2>3 DEF CarInvOf, FlagsInv, ApproachInv, RoadInv, SideInv, Test
<1>5. CASE UnlockTest(c)
  BY <1>0, <1>5 DEF UnlockTest, TypeOK, CarInvOf, FlagsInv, ApproachInv, RoadInv, SideInv
<1>6. CASE DecideToExit(c)
  BY <1>0, <1>6 DEF DecideToExit, TypeOK, CarInvOf, FlagsInv, ApproachInv, RoadInv, SideInv
<1>7. CASE DecideToContinue(c)
  BY <1>0, <1>7 DEF DecideToContinue, TypeOK, CarInvOf, FlagsInv, ApproachInv, RoadInv, SideInv
<1>8. CASE LockNext(c)
  BY <1>0, <1>8 DEF LockNext, TypeOK, CarInvOf, FlagsInv, ApproachInv, RoadInv, SideInv
<1>9. CASE Move(c)
  <2> DEFINE s == pos[c]
             d == dir[c]
             t == Target(c)
  <2>1. /\ s \in Cells /\ Lane(s, d) /\ d \in 0 .. 3 /\ current[c] = s
        /\ t = Ahead(s) /\ t \in Squares /\ t # s /\ s \in Squares
        /\ trip[c] \in 0 .. N-1 /\ (trip[c] >= N-1 \/ trip[c] >= Along(s, d))
    BY <1>0, <1>9, RoadFacts DEF Move, TypeOK, CarInvOf, RoadInv, SideInv
  <2>2. c \in entered
    BY <1>0, <1>9 DEF Move, CarInvOf, FlagsInv
  <2>3. /\ pc'[c] = "unlockCurrent" /\ pos'[c] = t /\ current'[c] = s
        /\ c \in entered' /\ trip'[c] = Further(trip[c])
    BY <1>9, <2>1, <2>2 DEF Move, UpdateBoardAndCar, TypeOK
  <2>4. IsCorner(t) => c \in onExit' /\ dir'[c] = Turn(d)
    BY <1>9, <2>2 DEF Move, UpdateBoardAndCar, TypeOK
  <2>5. ~IsCorner(t) => c \notin onExit' /\ dir'[c] = d
    BY <1>9, <2>2 DEF Move, UpdateBoardAndCar, TypeOK
  <2>6. Along(s, d) \in 0 .. N-1
    BY <2>1, AlongType
  <2>7. CASE IsCorner(t)
    <3>1. Lane(t, Turn(d)) /\ Along(s, d) = N-2
      BY <2>1, <2>7, LaneStep
    <3>2. trip'[c] >= N-1
      BY <2>1, <2>3, <3>1 DEF Further
    <3> QED
      BY <2>1, <2>3, <2>4, <2>7, <3>1, <3>2, SquaresAreCells
         DEF CarInvOf, FlagsInv, ApproachInv, RoadInv, SideInv
  <2>8. CASE ~IsCorner(t)
    <3>1. Lane(t, d) /\ Along(t, d) = Along(s, d) + 1
      BY <2>1, <2>8, LaneStep
    <3>2. trip'[c] >= N-1 \/ trip'[c] >= Along(t, d)
      BY <2>1, <2>3, <2>6, <3>1 DEF Further
    <3> QED
      BY <2>1, <2>3, <2>5, <2>8, <3>1, <3>2, SquaresAreCells
         DEF CarInvOf, FlagsInv, ApproachInv, RoadInv, SideInv
  <2> QED
    BY <2>7, <2>8
<1>10. CASE UnlockCurrent(c)
  BY <1>0, <1>10 DEF UnlockCurrent, TypeOK, CarInvOf, FlagsInv, ApproachInv, RoadInv, SideInv
<1>11. CASE RemoveFromBoard(c)
  BY <1>0, <1>11 DEF RemoveFromBoard, TypeOK, CarInvOf, FlagsInv, ApproachInv, RoadInv, SideInv
<1>12. CASE UnlockSink(c)
  BY <1>0, <1>12 DEF UnlockSink, FreeCar, TypeOK, CarInvOf, FlagsInv, ApproachInv, RoadInv, SideInv
<1> QED
  BY <1>1, <1>2, <1>3, <1>4, <1>5, <1>6, <1>7, <1>8, <1>9, <1>10, <1>11, <1>12 DEF MoveCar

LEMMA CarStep == TypeOK /\ CarInv /\ TypeOK' /\ [Next]_vars => CarInv'
<1> SUFFICES ASSUME TypeOK, CarInv, TypeOK', [Next]_vars, NEW d \in Cars
             PROVE  CarInvOf(d)'
  BY DEF CarInv, CarInvOf
<1>1. CarInvOf(d)
  BY DEF CarInv, CarInvOf
<1>2. ASSUME NEW c \in Cars, MoveCar(c) \/ \E g \in Generators : Generate(c, g)
      PROVE  CarInvOf(d)'
  BY <1>1, <1>2, OwnStep, OneCarMoves, UntouchedCar
<1>3. CASE UNCHANGED vars
  BY <1>1, <1>3, UntouchedCar DEF vars, Untouched
<1> QED
  BY <1>2, <1>3 DEF Next

-----------------------------------------------------------------------------
\* The lock discipline.  A lock adds one free square to what the thread
\* holds, an unlock takes away one that it holds.

LEMMA LockStep ==
  ASSUME TypeOK, LockDiscipline, NEW c \in Cars, NEW s \in Cells, Lock(c, s),
         Held(c)' = Held(c) \union {s}, \A d \in Cars \ {c} : Held(d)' = Held(d)
  PROVE  LockDiscipline'
BY DEF LockDiscipline, Lock, TypeOK

LEMMA UnlockStep ==
  ASSUME TypeOK, LockDiscipline, NEW c \in Cars, NEW s \in Cells, Unlock(s), s \in Held(c),
         Held(c)' = Held(c) \ {s}, \A d \in Cars \ {c} : Held(d)' = Held(d)
  PROVE  LockDiscipline'
BY DEF LockDiscipline, Unlock, TypeOK

LEMMA NoLockStep ==
  ASSUME LockDiscipline, UNCHANGED mutex, \A d \in Cars : Held(d)' = Held(d)
  PROVE  LockDiscipline'
BY DEF LockDiscipline

LEMMA UntouchedHeld ==
  ASSUME NEW c \in Cars, Untouched(c)
  PROVE  Held(c)' = Held(c)
BY DEF Untouched, Held, Test, Target

LEMMA DisciplineStep ==
  ASSUME TypeOK, CarInv, TypeOK', LockDiscipline, [Next]_vars
  PROVE  LockDiscipline'
<1>1. ASSUME NEW c \in Cars, MoveCar(c) \/ \E g \in Generators : Generate(c, g)
      PROVE  LockDiscipline'
  <2>0. CarInvOf(c) /\ \A d \in Cars \ {c} : Held(d)' = Held(d)
    BY <1>1, OneCarMoves, UntouchedHeld DEF CarInv, CarInvOf
  <2> USE DEF Goto, OnCircle, Approaching
  <2>1. ASSUME NEW g \in Generators, Generate(c, g) PROVE LockDiscipline'
    <3>1. Held(c) = {} /\ Held(c)' = {}
      BY <2>1 DEF Generate, Held, TypeOK
    <3> QED
      BY <2>0, <2>1, <3>1, NoLockStep DEF Generate
  <2>2. CASE LockTest(c)
    <3>1. Held(c) = {} /\ Held(c)' = {Test(c)} /\ Test(c) \in Cells
      BY <2>2, ApproachFacts, SquaresAreCells DEF LockTest, Held, TypeOK, Test
    <3> QED
      BY <2>0, <2>2, <3>1, LockStep DEF LockTest
  <2>3. CASE LockCorner(c)
    <3>1. Held(c) = {Test(c)} /\ Held(c)' = {Test(c), Target(c)} /\ Target(c) \in Cells
      BY <2>3, ApproachFacts, SquaresAreCells DEF LockCorner, Held, TypeOK, Test, Target
    <3> QED
      BY <2>0, <2>3, <3>1, LockStep DEF LockCorner
  <2>4. CASE EnterCircle(c)
    <3>1. c \notin entered
      BY <2>0, <2>4 DEF EnterCircle, CarInvOf, FlagsInv, BeforeEntry
    <3>2. Held(c) = {Test(c), Target(c)} /\ Held(c)' = {Test(c), Target(c)}
      BY <2>4, <3>1 DEF EnterCircle, UpdateBoardAndCar, Held, TypeOK, Test
    <3> QED
      BY <2>0, <2>4, <3>2, NoLockStep DEF EnterCircle
  <2>5. CASE UnlockTest(c)
    <3>1. /\ Held(c) = {Test(c), pos[c]} /\ Held(c)' = {pos[c]}
          /\ Test(c) \in Cells /\ Test(c) # pos[c]
      BY <2>0, <2>5, SquaresAreCells DEF UnlockTest, Held, TypeOK, CarInvOf, RoadInv
    <3> QED
      BY <2>0, <2>5, <3>1, UnlockStep DEF UnlockTest
  <2>6. CASE DecideToExit(c)
    <3>1. Held(c) = {pos[c]} /\ Held(c)' = {pos[c]}
      BY <2>6 DEF DecideToExit, Held, TypeOK
    <3> QED
      BY <2>0, <2>6, <3>1, NoLockStep DEF DecideToExit
  <2>7. CASE DecideToContinue(c)
    <3>1. Held(c) = {pos[c]} /\ Held(c)' = {pos[c]}
      BY <2>7 DEF DecideToContinue, Held, TypeOK
    <3> QED
      BY <2>0, <2>7, <3>1, NoLockStep DEF DecideToContinue
  <2>8. CASE LockNext(c)
    <3>1. Held(c) = {pos[c]} /\ Held(c)' = {pos[c], Target(c)} /\ Target(c) \in Cells
      BY <2>8, RoadFacts, SquaresAreCells DEF LockNext, Held, TypeOK, Target
    <3> QED
      BY <2>0, <2>8, <3>1, LockStep DEF LockNext
  <2>9. CASE Move(c)
    <3>1. Held(c) = {pos[c], Target(c)} /\ current[c] = pos[c]
      BY <2>0, <2>9 DEF Move, Held, CarInvOf, RoadInv
    <3>2. Held(c)' = {current[c], Target(c)}
      BY <2>9 DEF Move, UpdateBoardAndCar, Held, TypeOK
    <3> QED
      BY <2>0, <2>9, <3>1, <3>2, NoLockStep DEF Move
  <2>10. CASE UnlockCurrent(c)
    <3>1. /\ Held(c) = {current[c], pos[c]} /\ Held(c)' = {pos[c]}
          /\ current[c] \in Cells /\ current[c] # pos[c]
      BY <2>0, <2>10, SquaresAreCells DEF UnlockCurrent, Held, TypeOK, CarInvOf, RoadInv
    <3> QED
      BY <2>0, <2>10, <3>1, UnlockStep DEF UnlockCurrent
  <2>11. CASE RemoveFromBoard(c)
    <3>1. Held(c) = {pos[c]} /\ Held(c)' = {pos[c]}
      BY <2>11 DEF RemoveFromBoard, Held, TypeOK
    <3> QED
      BY <2>0, <2>11, <3>1, NoLockStep DEF RemoveFromBoard
  <2>12. CASE UnlockSink(c)
    <3>1. /\ Held(c) = {pos[c]} /\ Held(c)' = {}
          /\ current[c] = pos[c] /\ pos[c] \in Cells
      BY <2>0, <2>12 DEF UnlockSink, Held, TypeOK, CarInvOf, RoadInv
    <3> QED
      BY <2>0, <2>12, <3>1, UnlockStep DEF UnlockSink
  <2> QED
    BY <1>1, <2>1, <2>2, <2>3, <2>4, <2>5, <2>6, <2>7, <2>8, <2>9, <2>10, <2>11, <2>12
       DEF MoveCar
<1>2. CASE UNCHANGED vars
  <2>1. \A d \in Cars : Held(d)' = Held(d)
    BY <1>2, UntouchedHeld DEF vars, Untouched
  <2> QED
    BY <1>2, <2>1, NoLockStep DEF vars
<1> QED
  BY <1>1, <1>2 DEF Next

-----------------------------------------------------------------------------
\* The board.

\* A driving car's thread holds the mutex of the square the car is on.
LEMMA DrivingHolds ==
  ASSUME TypeOK, CarInv, LockDiscipline, NEW c \in Driving
  PROVE  pos[c] \in Squares /\ mutex[pos[c]] = c
<1>1. c \in Cars /\ pc[c] \in OnCircle /\ pos[c] \in Held(c)
  BY DEF Driving, OnCircle, Held
<1>2. pos[c] \in Squares
  BY <1>1, RoadFacts
<1> QED
  BY <1>1, <1>2, SquaresAreCells DEF LockDiscipline

LEMMA BoardStep ==
  ASSUME TypeOK, CarInv, LockDiscipline, BoardIsTrue, TypeOK', [Next]_vars
  PROVE  BoardIsTrue'
<1>1. ASSUME NEW c \in Cars, MoveCar(c) \/ \E g \in Generators : Generate(c, g)
      PROVE  BoardIsTrue'
  <2>0. CarInvOf(c)
    BY DEF CarInv, CarInvOf
  <2>1. \A d \in Cars \ {c} : pos'[d] = pos[d] /\ (d \in Driving' <=> d \in Driving)
    BY <1>1, OneCarMoves DEF Untouched, Driving
  <2> USE DEF Goto
  <2>2. CASE EnterCircle(c)
    <3>1. Target(c) \in Cells /\ mutex[Target(c)] = c
      BY <2>2, ApproachFacts, SquaresAreCells DEF EnterCircle, Approaching, LockDiscipline, Held
    <3>2. c \notin entered /\ c \notin Driving
      BY <2>0, <2>2 DEF EnterCircle, CarInvOf, FlagsInv, BeforeEntry, Driving
    <3>3. c \in Driving' /\ pos'[c] = Target(c) /\ board' = [board EXCEPT ![Target(c)] = c]
      BY <2>2, <3>2 DEF EnterCircle, UpdateBoardAndCar, Driving, TypeOK
    <3>4. \A d \in Driving : pos[d] # Target(c)
      BY <3>1, <3>2, DrivingHolds DEF Driving
    <3>5. ASSUME NEW d \in Cars, NEW s \in Cells
          PROVE  board'[s] = d <=> d \in Driving' /\ s = pos'[d]
      <4>1. board[s] = d <=> d \in Driving /\ s = pos[d]
        BY DEF BoardIsTrue
      <4>2. board'[s] = IF s = Target(c) THEN c ELSE board[s]
        BY <3>1, <3>3 DEF TypeOK
      <4>3. CASE d = c
        BY <3>2, <3>3, <4>1, <4>2, <4>3
      <4>4. CASE d # c
        BY <2>1, <3>4, <4>1, <4>2, <4>4
      <4> QED
        BY <4>3, <4>4
    <3> QED
      BY <3>5 DEF BoardIsTrue
  <2>3. CASE Move(c)
    <3>1. /\ Target(c) \in Cells /\ Target(c) # pos[c] /\ pos[c] \in Cells
          /\ mutex[Target(c)] = c
      BY <2>3, RoadFacts, SquaresAreCells DEF Move, OnCircle, LockDiscipline, Held
    <3>2. c \in entered /\ c \in Driving /\ current[c] = pos[c]
      BY <2>0, <2>3 DEF Move, CarInvOf, FlagsInv, RoadInv, BeforeEntry, OnCircle, Driving
    <3>3. /\ c \in Driving' /\ pos'[c] = Target(c)
          /\ board' = [board EXCEPT ![Target(c)] = c, ![pos[c]] = NoCar]
      BY <2>3, <3>2 DEF Move, UpdateBoardAndCar, Driving, TypeOK
    <3>4. \A d \in Driving \ {c} : pos[d] # Target(c) /\ pos[d] # pos[c]
      BY <3>1, <3>2, DrivingHolds DEF Driving
    <3> QED
      BY <2>1, <3>1, <3>2, <3>3, <3>4 DEF BoardIsTrue, TypeOK
  <2>4. CASE RemoveFromBoard(c)
    <3>1. c \in Driving /\ pos[c] \in Cells
      BY <2>0, <2>4 DEF RemoveFromBoard, Driving, CarInvOf, RoadInv, OnCircle
    <3>2. c \notin Driving' /\ board' = [board EXCEPT ![pos[c]] = NoCar]
      BY <2>4 DEF RemoveFromBoard, Driving, TypeOK
    <3>3. \A d \in Driving \ {c} : pos[d] # pos[c]
      BY <3>1, DrivingHolds DEF Driving
    <3> QED
      BY <2>1, <3>1, <3>2, <3>3 DEF BoardIsTrue, TypeOK
  <2>5. ASSUME UNCHANGED board,
               c \in Driving' <=> c \in Driving,
               c \in Driving => pos'[c] = pos[c]
        PROVE  BoardIsTrue'
    BY <2>1, <2>5 DEF BoardIsTrue
  <2>6. CASE LockTest(c) \/ LockCorner(c) \/ LockNext(c)
    BY <2>5, <2>6 DEF LockTest, LockCorner, LockNext, Driving, TypeOK
  <2>7. CASE UnlockTest(c) \/ UnlockCurrent(c) \/ UnlockSink(c)
    BY <2>5, <2>7 DEF UnlockTest, UnlockCurrent, UnlockSink, Driving, TypeOK
  <2>8. CASE DecideToExit(c) \/ DecideToContinue(c)
    BY <2>5, <2>8 DEF DecideToExit, DecideToContinue, Driving, TypeOK
  <2>9. CASE \E g \in Generators : Generate(c, g)
    BY <2>5, <2>9 DEF Generate, Driving, TypeOK
  <2> QED
    BY <1>1, <2>2, <2>3, <2>4, <2>6, <2>7, <2>8, <2>9 DEF MoveCar
<1>2. CASE UNCHANGED vars
  BY <1>2 DEF vars, BoardIsTrue, Driving
<1> QED
  BY <1>1, <1>2 DEF Next

LEMMA InitInd == Init => IndInv
<1> SUFFICES ASSUME Init PROVE IndInv
  OBVIOUS
<1>1. TypeOK
  BY StartGeometry DEF Init, TypeOK, Labels, Generators, RIGHT
<1>2. CarInv
  BY DEF Init, CarInv, FlagsInv, ApproachInv, RoadInv, SideInv,
         BeforeEntry, Approaching, OnCircle, Driving
<1>3. LockDiscipline
  BY DEF Init, LockDiscipline, Held
<1>4. BoardIsTrue
  BY DEF Init, BoardIsTrue, Driving
<1> QED
  BY <1>1, <1>2, <1>3, <1>4 DEF IndInv

-----------------------------------------------------------------------------
\* IndInv is an invariant of every run of the program, for every N >= 2 and
\* every set of cars; TypeOK, LockDiscipline and BoardIsTrue are parts of it.
THEOREM Invariance == Spec => []IndInv
<1>1. IndInv /\ [Next]_vars => IndInv'
  BY TypeStep, CarStep, DisciplineStep, BoardStep DEF IndInv
<1> QED
  BY InitInd, <1>1, PTL DEF Spec

\* Every mutex is held by exactly the thread whose place in moveCar says so,
\* and the board shows exactly the cars on the circle.
THEOREM LocksAndBoard == Spec => [](TypeOK /\ LockDiscipline /\ BoardIsTrue)
<1>1. IndInv => TypeOK /\ LockDiscipline /\ BoardIsTrue
  BY DEF IndInv
<1> QED
  BY Invariance, <1>1, PTL

\* Two cars are never on the same square.
THEOREM MutualExclusion == Spec => []OneCarPerSquare
<1>1. IndInv => OneCarPerSquare
  BY DrivingHolds DEF IndInv, OneCarPerSquare
<1> QED
  BY Invariance, <1>1, PTL

\* A car never leaves the border: every turn puts it on the next side.
THEOREM OnTheCircle == Spec => []StaysOnCircle
<1>1. IndInv => StaysOnCircle
  <2> SUFFICES ASSUME IndInv, NEW c \in Driving
               PROVE  pos[c] \in Squares /\ Target(c) = Ahead(pos[c])
    BY DEF StaysOnCircle
  <2> QED
    BY RoadFacts DEF IndInv, Driving, OnCircle
<1> QED
  BY Invariance, <1>1, PTL

\* A car vanishes only at a corner and after a whole side of the square.
THEOREM ExitAfterSide == Spec => []ExitOnlyAfterSide
<1>1. IndInv => ExitOnlyAfterSide
  BY DEF IndInv, CarInv, SideInv, ExitOnlyAfterSide, Driving
<1> QED
  BY Invariance, <1>1, PTL

-----------------------------------------------------------------------------
\* An unlocked square, or one locked by a thread whose car is elsewhere or not
\* on the board, shows no car.
LEMMA LockedEmpty ==
  ASSUME IndInv, NEW c \in Cars, NEW s \in Cells, mutex[s] = c,
         c \notin Driving \/ pos[c] # s
  PROVE  board[s] = NoCar
<1> SUFFICES ASSUME NEW d \in Cars, board[s] = d PROVE FALSE
  BY DEF IndInv, TypeOK
<1>1. d \in Driving /\ s = pos[d]
  BY DEF IndInv, BoardIsTrue
<1>2. mutex[s] = d
  BY <1>1, DrivingHolds DEF IndInv
<1> QED
  BY <1>1, <1>2

\* What the invariant says at the three steps that draw on the board.
LEMMA EnterFacts ==
  ASSUME IndInv, NEW c \in Cars, EnterCircle(c)
  PROVE  /\ c \notin Driving
         /\ Target(c) \in Squares /\ IsCorner(Target(c)) /\ board[Target(c)] = NoCar
         /\ Test(c) \in Squares /\ Ahead(Test(c)) = Target(c) /\ board[Test(c)] = NoCar
         /\ board' = [board EXCEPT ![Target(c)] = c]
<1>1. /\ Target(c) \in Squares /\ IsCorner(Target(c))
      /\ Test(c) \in Squares /\ Ahead(Test(c)) = Target(c)
  BY ApproachFacts DEF IndInv, EnterCircle, Approaching
<1>2. mutex[Target(c)] = c /\ mutex[Test(c)] = c
  BY <1>1, SquaresAreCells DEF IndInv, EnterCircle, LockDiscipline, Held
<1>3. c \notin entered /\ c \notin Driving
  BY DEF IndInv, CarInv, EnterCircle, FlagsInv, BeforeEntry, Driving
<1> QED
  BY <1>1, <1>2, <1>3, LockedEmpty, SquaresAreCells DEF EnterCircle, UpdateBoardAndCar

LEMMA MoveFacts ==
  ASSUME IndInv, NEW c \in Cars, Move(c)
  PROVE  /\ pos[c] \in Squares /\ board[pos[c]] = c
         /\ Target(c) = Ahead(pos[c]) /\ Target(c) \in Squares /\ Target(c) # pos[c]
         /\ board[Target(c)] = NoCar
         /\ board' = [board EXCEPT ![Target(c)] = c, ![pos[c]] = NoCar]
<1>1. /\ pos[c] \in Squares /\ Target(c) = Ahead(pos[c])
      /\ Target(c) \in Squares /\ Target(c) # pos[c]
  BY RoadFacts DEF IndInv, Move, OnCircle
<1>2. mutex[Target(c)] = c
  BY <1>1, SquaresAreCells DEF IndInv, Move, LockDiscipline, Held
<1>3. c \in entered /\ c \in Driving /\ current[c] = pos[c]
  BY DEF IndInv, CarInv, Move, FlagsInv, RoadInv, BeforeEntry, OnCircle, Driving
<1>4. board[pos[c]] = c
  BY <1>1, <1>3, SquaresAreCells DEF IndInv, BoardIsTrue
<1> QED
  BY <1>1, <1>2, <1>3, <1>4, LockedEmpty, SquaresAreCells DEF Move, UpdateBoardAndCar

LEMMA RemoveFacts ==
  ASSUME IndInv, NEW c \in Cars, RemoveFromBoard(c)
  PROVE  /\ pos[c] \in Squares /\ board[pos[c]] = c
         /\ IsCorner(pos[c]) /\ trip[c] >= N-1
         /\ board' = [board EXCEPT ![pos[c]] = NoCar]
<1>1. pos[c] \in Squares
  BY RoadFacts DEF IndInv, RemoveFromBoard, OnCircle
<1>2. c \in Driving
  BY DEF RemoveFromBoard, Driving
<1>3. IsCorner(pos[c]) /\ trip[c] >= N-1
  BY DEF IndInv, CarInv, RemoveFromBoard, SideInv, Driving
<1> QED
  BY <1>1, <1>2, <1>3, SquaresAreCells DEF IndInv, BoardIsTrue, RemoveFromBoard

\* The other steps leave the board and the count of squares alone.
LEMMA QuietStep ==
  ASSUME [Next]_vars
  PROVE  \/ \E c \in Cars : EnterCircle(c) \/ Move(c) \/ RemoveFromBoard(c)
         \/ UNCHANGED <<board, trip>>
BY DEF Next, MoveCar, LockTest, LockCorner, UnlockTest, DecideToExit, DecideToContinue,
       LockNext, UnlockCurrent, UnlockSink, Generate, vars

\* No car is ever drawn over another.
THEOREM BoardSafety == Spec => NoOverwrite
<1> DEFINE Keeps == \A s \in Cells : board[s] # NoCar => board'[s] \in {board[s], NoCar}
<1>1. ASSUME IndInv, [Next]_vars PROVE Keeps
  <2> SUFFICES ASSUME NEW s \in Cells, board[s] # NoCar
               PROVE  board'[s] \in {board[s], NoCar}
    OBVIOUS
  <2>1. ASSUME NEW c \in Cars, EnterCircle(c) PROVE board'[s] \in {board[s], NoCar}
    BY <1>1, <2>1, EnterFacts DEF IndInv, TypeOK
  <2>2. ASSUME NEW c \in Cars, Move(c) PROVE board'[s] \in {board[s], NoCar}
    BY <1>1, <2>2, MoveFacts DEF IndInv, TypeOK
  <2>3. ASSUME NEW c \in Cars, RemoveFromBoard(c) PROVE board'[s] \in {board[s], NoCar}
    BY <1>1, <2>3, RemoveFacts DEF IndInv, TypeOK
  <2> QED
    BY <1>1, <2>1, <2>2, <2>3, QuietStep
<1> QED
  BY <1>1, Invariance, PTL DEF Spec, NoOverwrite

-----------------------------------------------------------------------------
\* Refinement.  Circle's geometry is Ring's, instantiated with the same N.
LEMMA SameGeometry ==
  /\ Abstract!Squares = Squares
  /\ \A s : Abstract!Ahead(s) = Ahead(s) /\ Abstract!IsCorner(s) = IsCorner(s)
  /\ \A n : Abstract!Further(n) = Further(n)
BY DEF Squares, Cells, OnBorder, Ahead, IsCorner, Further, Abstract!Squares, Abstract!Cells,
       Abstract!OnBorder, Abstract!Ahead, Abstract!IsCorner, Abstract!Further

LEMMA InitRefines == Init => Abstract!Init
BY SameGeometry, SquaresAreCells DEF Init, Abstract!Init

LEMMA StepRefines ==
  ASSUME IndInv, [Next]_vars
  PROVE  [Abstract!Next]_(Abstract!vars)
<1> DEFINE occ == [s \in Squares |-> board[s]]
<1>1. ASSUME NEW c \in Cars, EnterCircle(c) PROVE Abstract!Enter(c, Target(c))
  <2>1. \A t \in Squares : occ[t] # c
    BY <1>1, EnterFacts, SquaresAreCells DEF IndInv, BoardIsTrue
  <2>2. \A t \in Squares : Ahead(t) = Target(c) => occ[t] = NoCar
    BY <1>1, EnterFacts, AheadInjective
  <2>3. occ' = [occ EXCEPT ![Target(c)] = c]
    BY <1>1, EnterFacts, SquaresAreCells DEF IndInv, TypeOK
  <2>4. trip' = [trip EXCEPT ![c] = 0]
    BY <1>1 DEF EnterCircle
  <2> QED
    BY <1>1, <2>1, <2>2, <2>3, <2>4, EnterFacts, SameGeometry DEF Abstract!Enter
<1>2. ASSUME NEW c \in Cars, Move(c) PROVE Abstract!Advance(c, pos[c])
  <2>0. /\ Target(c) \in Squares /\ pos[c] \in Squares /\ Target(c) # pos[c]
        /\ board' = [board EXCEPT ![Target(c)] = c, ![pos[c]] = NoCar]
    BY <1>2, MoveFacts
  <2>1. occ' = [occ EXCEPT ![Target(c)] = c, ![pos[c]] = NoCar]
    <3>1. \A s \in Squares : board'[s] = IF s = pos[c] THEN NoCar
                                        ELSE IF s = Target(c) THEN c ELSE board[s]
      BY <2>0, SquaresAreCells DEF IndInv, TypeOK
    <3>2. DOMAIN occ' = Squares /\ DOMAIN occ = Squares
      OBVIOUS
    <3> QED
      BY <2>0, <3>1, <3>2
  <2>2. trip' = [trip EXCEPT ![c] = Further(@)]
    BY <1>2 DEF Move
  <2> QED
    BY <1>2, <2>1, <2>2, MoveFacts, SameGeometry DEF Abstract!Advance
<1>3. ASSUME NEW c \in Cars, RemoveFromBoard(c) PROVE Abstract!Vanish(c, pos[c])
  <2>1. occ' = [occ EXCEPT ![pos[c]] = NoCar]
    BY <1>3, RemoveFacts, SquaresAreCells DEF IndInv, TypeOK
  <2>2. trip' = [trip EXCEPT ![c] = 0]
    BY <1>3 DEF RemoveFromBoard
  <2> QED
    BY <1>3, <2>1, <2>2, RemoveFacts, SameGeometry DEF Abstract!Vanish
<1>4. CASE UNCHANGED <<board, trip>>
  BY <1>4 DEF Abstract!vars
<1>5. \A c \in Cars : /\ EnterCircle(c) => Target(c) \in Squares
                      /\ Move(c) \/ RemoveFromBoard(c) => pos[c] \in Squares
  BY EnterFacts, MoveFacts, RemoveFacts
<1>6. ASSUME NEW c \in Cars, EnterCircle(c) \/ Move(c) \/ RemoveFromBoard(c)
      PROVE  Abstract!Next
  <2>1. CASE EnterCircle(c)
    <3>1. Abstract!Enter(c, Target(c)) /\ Target(c) \in Abstract!Squares
      BY <1>1, <1>5, <2>1, SameGeometry
    <3> QED
      BY <3>1 DEF Abstract!Next, Abstract!Enter, Abstract!Advance, Abstract!Vanish
  <2>2. CASE Move(c)
    <3>1. Abstract!Advance(c, pos[c]) /\ pos[c] \in Abstract!Squares
      BY <1>2, <1>5, <2>2, SameGeometry
    <3> QED
      BY <3>1 DEF Abstract!Next, Abstract!Enter, Abstract!Advance, Abstract!Vanish
  <2>3. CASE RemoveFromBoard(c)
    <3>1. Abstract!Vanish(c, pos[c]) /\ pos[c] \in Abstract!Squares
      BY <1>3, <1>5, <2>3, SameGeometry
    <3> QED
      BY <3>1 DEF Abstract!Next, Abstract!Enter, Abstract!Advance, Abstract!Vanish
  <2> QED
    BY <1>6, <2>1, <2>2, <2>3
<1>7. CASE \E c \in Cars : EnterCircle(c) \/ Move(c) \/ RemoveFromBoard(c)
  BY <1>6, <1>7
<1> QED
  BY <1>4, <1>7, QuietStep

\* The program with its threads and mutexes implements Circle: every run,
\* seen through the board, only enters at a free corner with a free square
\* before it, advances onto free squares, and vanishes after a whole side.
THEOREM Refinement == Spec => ImplementsCircle
<1>1. IndInv /\ [Next]_vars => [Abstract!Next]_(Abstract!vars)
  BY StepRefines
<1> QED
  BY InitRefines, <1>1, Invariance, PTL DEF Spec, Abstract!Spec, ImplementsCircle

-----------------------------------------------------------------------------
\* No deadlock.  The squares are numbered along the circle; a group of threads
\* that wait for one another would hold, with a square, the one ahead of it,
\* and so all of them, each by a thread of its own.

\* Every nonempty set of natural numbers has a least element: the sets 0 .. n
\* are well founded under inclusion.
LEMMA Least ==
  ASSUME NEW T, T \subseteq Nat, T # {}
  PROVE  \E n \in T : \A m \in T : n <= m
<1> DEFINE U == {0 .. n : n \in T}
<1>1. U # {}
  OBVIOUS
<1>2. U \subseteq FiniteSubsetsOf(Nat)
  <2>1. ASSUME NEW n \in T PROVE 0 .. n \in FiniteSubsetsOf(Nat)
    BY FS_Interval DEF FiniteSubsetsOf
  <2> QED
    BY <2>1
<1>3. IsWellFoundedOn(StrictSubsetOrdering(Nat), FiniteSubsetsOf(Nat))
  BY FS_StrictSubsetOrderingWellFounded
<1> HIDE DEF U
<1>4. PICK X \in U : \A Y \in U : <<Y, X>> \notin StrictSubsetOrdering(Nat)
  BY <1>1, <1>2, <1>3, WFMin, Zenon
<1>5. PICK n \in T : X = 0 .. n
  BY <1>4 DEF U
<1>6. ASSUME NEW m \in T, m < n PROVE FALSE
  <2>1. 0 .. m \in U /\ 0 .. m \subseteq 0 .. n /\ 0 .. n \subseteq Nat
    BY <1>6 DEF U
  <2>2. n \notin 0 .. m /\ n \in 0 .. n
    BY <1>6
  <2>3. <<0 .. m, 0 .. n>> \in StrictSubsetOrdering(Nat)
    BY <2>1, <2>2 DEF StrictSubsetOrdering
  <2> QED
    BY <1>4, <1>5, <2>1, <2>3
<1> QED
  BY <1>6

\* The number of a square, counted along the circle from the lower left corner.
Number(s) == CASE s[1] = N-1 /\ s[2] < N-1 -> s[2]
               [] s[2] = N-1 /\ s[1] > 0   -> (N-1) + (N-1 - s[1])
               [] s[1] = 0   /\ s[2] > 0   -> 2 * (N-1) + (N-1 - s[2])
               [] s[2] = 0   /\ s[1] < N-1 -> 3 * (N-1) + s[1]

Last == 4 * (N-1) - 1

LEMMA NumberType ==
  ASSUME NEW s \in Squares
  PROVE  Number(s) \in 0 .. Last
BY DEF Number, Last, Squares, Cells, OnBorder

LEMMA NumberInjective ==
  ASSUME NEW s \in Squares, NEW t \in Squares, Number(s) = Number(t)
  PROVE  s = t
BY DEF Number, Squares, Cells, OnBorder

LEMMA NumberOnto ==
  ASSUME NEW n \in 0 .. Last
  PROVE  \E s \in Squares : Number(s) = n
<1> USE DEF Number, Last, Squares, Cells, OnBorder
<1>1. CASE n < N-1
  <2>1. <<N-1, n>> \in Squares /\ Number(<<N-1, n>>) = n
    BY <1>1
  <2> QED
    BY <2>1
<1>2. CASE n >= N-1 /\ n < 2 * (N-1)
  <2> DEFINE s == <<2 * (N-1) - n, N-1>>
  <2>1. s \in Squares /\ Number(s) = n
    BY <1>2
  <2> QED
    BY <2>1
<1>3. CASE n >= 2 * (N-1) /\ n < 3 * (N-1)
  <2> DEFINE s == <<0, 3 * (N-1) - n>>
  <2>1. s \in Squares /\ Number(s) = n
    BY <1>3
  <2> QED
    BY <2>1
<1>4. CASE n >= 3 * (N-1)
  <2> DEFINE s == <<n - 3 * (N-1), 0>>
  <2>1. s \in Squares /\ Number(s) = n
    BY <1>4
  <2> QED
    BY <2>1
<1> QED
  BY <1>1, <1>2, <1>3, <1>4

\* The circle has four sides of N-1 squares each.
LEMMA SquareCount == IsFiniteSet(Squares) /\ Cardinality(Squares) = 4 * (N-1)
<1> DEFINE f == [s \in Squares |-> Number(s)]
<1>1. f \in Injection(Squares, 0 .. Last) /\ f \in Surjection(Squares, 0 .. Last)
  BY NumberType, NumberInjective, NumberOnto DEF Injection, Surjection, IsInjective
<1>2. IsFiniteSet(0 .. Last) /\ Cardinality(0 .. Last) = 4 * (N-1)
  BY FS_Interval DEF Last
<1> HIDE DEF f
<1> QED
  BY <1>1, <1>2, FS_Injection

LEMMA NumberAhead ==
  ASSUME NEW s \in Squares
  PROVE  /\ Ahead(s) \in Squares
         /\ Number(Ahead(s)) = IF Number(s) = Last THEN 0 ELSE Number(s) + 1
BY DEF Number, Last, Ahead, Squares, Cells, OnBorder

\* Who goes on ahead from a square comes past all of them.
LEMMA RingClosed ==
  ASSUME NEW S, S \subseteq Squares, S # {}, \A s \in S : Ahead(s) \in S
  PROVE  S = Squares
<1>1. ASSUME NEW a \in S, NEW s \in Squares, Number(s) >= Number(a) PROVE s \in S
  <2> SUFFICES ASSUME s \notin S PROVE FALSE
    OBVIOUS
  <2> DEFINE T == {n \in 0 .. Last : n >= Number(a) /\ \E t \in Squares \ S : Number(t) = n}
  <2>1. Number(s) \in T /\ T \subseteq Nat
    BY <1>1, NumberType DEF Last
  <2>2. PICK n \in T : \A m \in T : n <= m
    BY <2>1, Least
  <2>3. PICK t \in Squares \ S : Number(t) = n
    BY <2>2
  <2>4. Number(a) \in 0 .. Last /\ n \in 0 .. Last /\ n > Number(a)
    BY <2>2, <2>3, NumberType, NumberInjective
  <2>5. n - 1 \in 0 .. Last /\ n - 1 >= Number(a) /\ n - 1 # Last
    BY <2>4 DEF Last
  <2>6. PICK u \in Squares : Number(u) = n - 1
    BY <2>5, NumberOnto
  <2>7. u \in S
    BY <2>2, <2>4, <2>5, <2>6
  <2>8. Ahead(u) = t
    BY <2>3, <2>4, <2>5, <2>6, NumberAhead, NumberInjective
  <2> QED
    BY <2>3, <2>7, <2>8
<1>2. PICK a \in S : TRUE
  OBVIOUS
<1>3. Last \in 0 .. Last /\ 0 \in 0 .. Last
  BY DEF Last
<1>4. PICK z \in Squares : Number(z) = Last
  BY <1>3, NumberOnto
<1>5. z \in S
  BY <1>1, <1>2, <1>4, NumberType
<1>6. Ahead(z) \in S /\ Number(Ahead(z)) = 0
  BY <1>4, <1>5, NumberAhead
<1> QED
  BY <1>1, <1>6, NumberType

\* A thread that waits holds one square at most, the one before the square it
\* waits for: also while it enters, because of the extra square it locked.
LEMMA WaitsBehind ==
  ASSUME IndInv, NEW c \in Waiting
  PROVE  /\ Wanted(c) \in Squares
         /\ \A s \in Cells : mutex[s] = c => s \in Squares /\ Ahead(s) = Wanted(c)
<1>0. c \in Cars /\ TypeOK /\ CarInv /\ LockDiscipline
  BY DEF Waiting, IndInv
<1>1. CASE pc[c] = "lockTest"
  <2>1. Wanted(c) \in Squares
    BY <1>0, <1>1, ApproachFacts DEF Wanted, Approaching
  <2>2. \A s \in Cells : mutex[s] # c
    BY <1>0, <1>1 DEF LockDiscipline, Held
  <2> QED
    BY <2>1, <2>2
<1>2. CASE pc[c] = "lockCorner"
  <2>1. /\ Wanted(c) \in Squares /\ Wanted(c) = Target(c)
        /\ Test(c) \in Squares /\ Ahead(Test(c)) = Target(c)
    BY <1>0, <1>2, ApproachFacts DEF Wanted, Approaching
  <2>2. \A s \in Cells : mutex[s] = c => s = Test(c)
    BY <1>0, <1>2 DEF LockDiscipline, Held
  <2> QED
    BY <2>1, <2>2
<1>3. CASE pc[c] = "lockNext"
  <2>1. /\ Wanted(c) \in Squares /\ Wanted(c) = Target(c)
        /\ pos[c] \in Squares /\ Ahead(pos[c]) = Target(c)
    BY <1>0, <1>3, RoadFacts DEF Wanted, OnCircle
  <2>2. \A s \in Cells : mutex[s] = c => s = pos[c]
    BY <1>0, <1>3 DEF LockDiscipline, Held
  <2> QED
    BY <2>1, <2>2
<1> QED
  BY <1>1, <1>2, <1>3 DEF Waiting

\* A group of threads that wait for each other has every square of the circle.
LEMMA WaitingGroup ==
  ASSUME IndInv, NEW G, G \subseteq Waiting, G # {}, \A c \in G : mutex[Wanted(c)] \in G
  PROVE  \A s \in Squares : mutex[s] \in G
<1> DEFINE S == {s \in Squares : mutex[s] \in G}
<1>1. S # {}
  BY WaitsBehind
<1>2. ASSUME NEW s \in S PROVE Ahead(s) \in S
  <2>1. mutex[s] \in Waiting /\ s \in Cells
    BY SquaresAreCells
  <2>2. Ahead(s) = Wanted(mutex[s]) /\ Ahead(s) \in Squares
    BY <2>1, WaitsBehind
  <2> QED
    BY <2>2
<1>3. S = Squares
  BY <1>1, <1>2, RingClosed
<1> QED
  BY <1>3

\* A deadlock takes a full circle: a group of threads that wait for each other
\* (lockMutexWithErrorCheck in moveCar) holds every square, so there is room for
\* no other car, driving or about to enter.  This is so for any set of cars.
THEOREM DeadlockTakesAll ==
  Spec => [](\A G \in SUBSET Waiting :
               G # {} /\ (\A c \in G : mutex[Wanted(c)] \in G)
                 => \A s \in Squares : mutex[s] \in G)
<1>1. IndInv => \A G \in SUBSET Waiting :
                  G # {} /\ (\A c \in G : mutex[Wanted(c)] \in G)
                    => \A s \in Squares : mutex[s] \in G
  BY WaitingGroup
<1> QED
  BY <1>1, Invariance, PTL

\* A full circle is one of at least 4(N-1) cars: each thread that waits holds
\* one square at most.
LEMMA FullCircleHasNoRoom ==
  ASSUME IndInv, IsFiniteSet(Cars), FullCircle
  PROVE  ~HasRoom
<1> DEFINE f == [s \in Squares |-> mutex[s]]
<1>1. ASSUME NEW s \in Squares, NEW t \in Squares, mutex[s] = mutex[t] PROVE s = t
  <2>1. mutex[s] \in Waiting /\ s \in Cells /\ t \in Cells
    BY SquaresAreCells DEF FullCircle
  <2>2. Ahead(s) = Ahead(t)
    BY <1>1, <2>1, WaitsBehind
  <2> QED
    BY <2>2, AheadInjective
<1>2. IsFiniteSet(OnItsWay) /\ Waiting \subseteq OnItsWay
  <2>1. OnItsWay \subseteq Cars
    BY DEF OnItsWay
  <2> QED
    BY <2>1, FS_Subset DEF OnItsWay, Waiting
<1>3. f \in Injection(Squares, OnItsWay)
  BY <1>1, <1>2 DEF FullCircle, Injection, IsInjective
<1> HIDE DEF f
<1>4. Cardinality(Squares) <= Cardinality(OnItsWay)
  BY <1>2, <1>3, FS_Injection
<1>5. Cardinality(OnItsWay) \in Nat
  BY <1>2, FS_CardinalityType
<1> QED
  BY <1>4, <1>5, SquareCount DEF HasRoom

\* In every state with fewer cars than the circle has squares, no group of
\* threads waits for squares held inside the group (moveCar's lock calls);
\* the cars that came and left before do not count.
THEOREM NoDeadlock ==
  ASSUME IsFiniteSet(Cars)
  PROVE  Spec => []NoCircularWait
<1>1. ASSUME IndInv PROVE NoCircularWait
  <2> SUFFICES ASSUME HasRoom, NEW G \in SUBSET Waiting, G # {},
                      \A c \in G : mutex[Wanted(c)] \in G
               PROVE  FALSE
    BY DEF NoCircularWait
  <2>1. FullCircle
    BY <1>1, WaitingGroup DEF FullCircle
  <2> QED
    BY <1>1, <2>1, FullCircleHasNoRoom
<1> QED
  BY <1>1, Invariance, PTL

\* Then some thread can always go on: in every state with cars, but fewer of
\* them than squares, there is one whose thread is not waiting for a mutex
\* (moveCar).
THEOREM SomebodyMoves ==
  ASSUME IsFiniteSet(Cars)
  PROVE  Spec => [](HasRoom /\ OnItsWay # {} => OnItsWay \ Waiting # {})
<1>1. ASSUME IndInv, NoCircularWait, HasRoom, OnItsWay # {} PROVE OnItsWay \ Waiting # {}
  <2>1. CASE Waiting = {}
    BY <1>1, <2>1
  <2>2. CASE Waiting # {}
    <3>1. PICK c \in Waiting : mutex[Wanted(c)] \notin Waiting
      BY <1>1, <2>2 DEF NoCircularWait
    <3> DEFINE d == mutex[Wanted(c)]
    <3>2. Wanted(c) \in Cells /\ d # NoCar
      BY <1>1, WaitsBehind, SquaresAreCells DEF Waiting
    <3>3. d \in Cars
      BY <1>1, <3>2 DEF IndInv, TypeOK
    <3>4. Wanted(c) \in Held(d)
      BY <1>1, <3>2, <3>3 DEF IndInv, LockDiscipline
    <3>5. d \in OnItsWay
      BY <3>3, <3>4 DEF Held, OnItsWay
    <3> QED
      BY <3>1, <3>5
  <2> QED
    BY <2>1, <2>2
<1> QED
  BY <1>1, NoDeadlock, Invariance, PTL
=============================================================================
