-------------------------- MODULE TrafficShutdown --------------------------
(***************************************************************************)
(* The life of the cars of traffic_cycle.c as memory and as threads: the   *)
(* generators number and publish them, a car that exits frees itself, and  *)
(* when the last snapshot is printed main cancels the generators, frees    *)
(* every car it finds and cancels its thread.  Where the cars drive is     *)
(* TrafficCircle.                                                          *)
(*                                                                         *)
(* Cancellation is deferred: a thread acts on it when it sleeps, never at  *)
(* a mutex.  Undefined behaviour is either a choice among its outcomes or  *)
(* ends the model.                                                         *)
(***************************************************************************)
EXTENDS Integers, FiniteSets

CONSTANTS Generators,  \* the generator threads
          NoGenerator,
          MaxCars      \* MAX_NUMBER_OF_CARS; no generator goes beyond it

ASSUME ShutdownAssumption == MaxCars \in Nat \ {0} /\ NoGenerator \notin Generators

Ids  == 0 .. MaxCars - 1
Null == -1

VARIABLES
  gen,          \* gen[g]: where generator g stands
  newId,        \* newId[g]: the carID passed to its initCar
  genCancelled, \* the generators that pthread_cancel was called for
  late,         \* auxiliary: late[g], the cars g has numbered since then
  carIDMutex,   \* its owner
  carID,
  cars,         \* cars[i]: the car it points to, or Null
  carThreads,   \* the i for which car_threads[i] is not 0
  carCancelled, \* the cars whose thread pthread_cancel was called for
  car,          \* car[i]: where the thread of car i stands
  heap,         \* heap[i]: the memory of car i
  main, i, ptr  \* main's place in releaseResources, its loop index, what it read

genVars  == <<gen, newId, genCancelled, late, carIDMutex, carID>>
carVars  == <<cars, carThreads, carCancelled, car, heap>>
mainVars == <<main, i, ptr>>
vars == <<genVars, carVars, mainVars>>

Undefined == {"doubleFree", "useAfterFree", "strayWrite", "cancelNull"}

Init ==
  /\ gen = [g \in Generators |-> "sleep"]
  /\ newId = [g \in Generators |-> Null]
  /\ genCancelled = {}
  /\ late = [g \in Generators |-> 0]
  /\ carIDMutex = NoGenerator
  /\ carID = 0
  /\ cars = [k \in Ids |-> Null]
  /\ carThreads = {} /\ carCancelled = {}
  /\ car = [k \in Ids |-> "none"]
  /\ heap = [k \in Ids |-> "unused"]
  /\ main = "join" /\ i = 0 /\ ptr = Null
-----------------------------------------------------------------------------
\* Faulty variant: the generator does not notice that it is cancelled.
WakeUpUncancelled(g) ==
  /\ gen[g] = "sleep"
  /\ gen' = [gen EXCEPT ![g] = "awake"]
  /\ UNCHANGED <<newId, genCancelled, late, carIDMutex, carID, carVars, mainVars>>

\* carGenerator: usleep is where a cancelled generator ends.
WakeUp(g) ==
  /\ gen[g] = "sleep"
  /\ gen' = [gen EXCEPT ![g] = IF g \in genCancelled THEN "ended" ELSE "awake"]
  /\ UNCHANGED <<newId, genCancelled, late, carIDMutex, carID, carVars, mainVars>>

\* Faulty variant: carID++ outside the mutex.
ReadCarIdUnlocked(g) ==
  /\ gen[g] = "awake"
  /\ carID < MaxCars
  /\ newId' = [newId EXCEPT ![g] = carID]
  /\ late' = [late EXCEPT ![g] = IF g \in genCancelled THEN @ + 1 ELSE @]
  /\ gen' = [gen EXCEPT ![g] = "initCar"]
  /\ UNCHANGED <<genCancelled, carIDMutex, carID, carVars, mainVars>>

\* carID++ in two steps, the read and the write.
ReadCarId(g) ==
  /\ gen[g] = "awake"
  /\ carID < MaxCars
  /\ carIDMutex = NoGenerator
  /\ carIDMutex' = g
  /\ newId' = [newId EXCEPT ![g] = carID]
  /\ late' = [late EXCEPT ![g] = IF g \in genCancelled THEN @ + 1 ELSE @]
  /\ gen' = [gen EXCEPT ![g] = "initCar"]
  /\ UNCHANGED <<genCancelled, carID, carVars, mainVars>>

InitCar(g) ==
  /\ gen[g] = "initCar"
  /\ carID' = newId[g] + 1
  /\ heap' = [heap EXCEPT ![newId[g]] = "live"]
  /\ carIDMutex' = NoGenerator
  /\ gen' = [gen EXCEPT ![g] = "publish"]
  /\ UNCHANGED <<newId, genCancelled, late, cars, carThreads, carCancelled, car, mainVars>>

Publish(g) ==
  /\ gen[g] = "publish"
  /\ cars' = [cars EXCEPT ![newId[g]] = newId[g]]
  /\ gen' = [gen EXCEPT ![g] = "create"]
  /\ UNCHANGED <<newId, genCancelled, late, carIDMutex, carID, carThreads, carCancelled, car,
                 heap, mainVars>>

\* pthread_create stores the handle before the new thread runs.
CreateThread(g) ==
  /\ gen[g] = "create"
  /\ carThreads' = carThreads \union {newId[g]}
  /\ car' = [car EXCEPT ![newId[g]] = "driving"]
  /\ gen' = [gen EXCEPT ![g] = "sleep"]
  /\ UNCHANGED <<newId, genCancelled, late, carIDMutex, carID, cars, carCancelled, heap,
                 mainVars>>

Generator(g) == WakeUp(g) \/ ReadCarId(g) \/ InitCar(g) \/ Publish(g) \/ CreateThread(g)
-----------------------------------------------------------------------------
\* moveCar reads its car at every turn of its loop, and sleeps in between.
ReadFreedCar(k) ==
  /\ car[k] = "driving"
  /\ heap[k] = "freed"
  /\ main' = "useAfterFree"
  /\ UNCHANGED <<genVars, carVars, i, ptr>>

SleepCancelled(k) ==
  /\ car[k] = "driving"
  /\ k \in carCancelled
  /\ car' = [car EXCEPT ![k] = "ended"]
  /\ UNCHANGED <<genVars, cars, carThreads, carCancelled, heap, mainVars>>

\* Faulty variant: the car frees itself before it takes itself out of cars.
ExitCircleFreeFirst(k) ==
  /\ car[k] = "driving"
  /\ heap[k] = "live"
  /\ heap' = [heap EXCEPT ![k] = "freed"]
  /\ car' = [car EXCEPT ![k] = "leaving"]
  /\ UNCHANGED <<genVars, cars, carThreads, carCancelled, mainVars>>

\* The exit path of moveCar: NULL in cars, off the board, free, 0 in
\* car_threads.  There is no sleep on it, so cancelling has no effect.
ExitCircle(k) ==
  /\ car[k] = "driving"
  /\ heap[k] = "live"
  /\ cars' = [cars EXCEPT ![k] = Null]
  /\ car' = [car EXCEPT ![k] = "leaving"]
  /\ UNCHANGED <<genVars, carThreads, carCancelled, heap, mainVars>>

RemoveFromBoard(k) ==
  /\ car[k] = "leaving"
  /\ IF heap[k] = "live"
       THEN car' = [car EXCEPT ![k] = "free"] /\ UNCHANGED main
       ELSE main' = "useAfterFree" /\ UNCHANGED car
  /\ UNCHANGED <<genVars, cars, carThreads, carCancelled, heap, i, ptr>>

FreeCar(k) ==
  /\ car[k] = "free"
  /\ IF heap[k] = "live"
       THEN /\ heap' = [heap EXCEPT ![k] = "freed"]
            /\ car' = [car EXCEPT ![k] = "clearThread"]
            /\ UNCHANGED main
       ELSE main' = "doubleFree" /\ UNCHANGED <<heap, car>>
  /\ UNCHANGED <<genVars, cars, carThreads, carCancelled, i, ptr>>

\* car_threads[car->carID] = 0 reads the id from memory that is free, in bytes
\* that free() writes to: its own index may come out, another one, or one that
\* is outside the array.
ClearThread(k) ==
  /\ car[k] = "clearThread"
  /\ \/ \E stale \in Ids : carThreads' = carThreads \ {stale} /\ UNCHANGED main
     \/ main' = "strayWrite" /\ UNCHANGED carThreads
  /\ car' = [car EXCEPT ![k] = "ended"]
  /\ UNCHANGED <<genVars, cars, carCancelled, heap, i, ptr>>

Car(k) == \/ ReadFreedCar(k) \/ SleepCancelled(k) \/ ExitCircle(k) \/ RemoveFromBoard(k)
          \/ FreeCar(k) \/ ClearThread(k)
-----------------------------------------------------------------------------
\* The last snapshot is printed: releaseResources.
CancelGenerators ==
  /\ main = "join"
  /\ genCancelled' = Generators
  /\ main' = "readCar"
  /\ UNCHANGED <<gen, newId, late, carIDMutex, carID, carVars, i, ptr>>

\* The head of the loop: i < carID, and cars[i] is read.
ReadCar ==
  /\ main = "readCar"
  /\ i < carID
  /\ ptr' = cars[i]
  /\ main' = "freeCar"
  /\ UNCHANGED <<genVars, carVars, i>>

FreeFound ==
  /\ main = "freeCar"
  /\ IF ptr = Null
       THEN main' = "cancelCar" /\ UNCHANGED heap
       ELSE IF heap[ptr] = "live"
              THEN main' = "cancelCar" /\ heap' = [heap EXCEPT ![ptr] = "freed"]
              ELSE main' = "doubleFree" /\ UNCHANGED heap
  /\ UNCHANGED <<genVars, cars, carThreads, carCancelled, car, i, ptr>>

\* if (car_threads[i]): the test ...
TestThread ==
  /\ main = "cancelCar"
  /\ IF i \in carThreads THEN main' = "cancelThread" /\ UNCHANGED i
                        ELSE main' = "readCar" /\ i' = i + 1
  /\ UNCHANGED <<genVars, carVars, ptr>>

\* ... and the call, which reads the handle again: a thread that ended in
\* between may have cleared it.
CancelCar ==
  /\ main = "cancelThread"
  /\ IF i \in carThreads
       THEN main' = "readCar" /\ i' = i + 1 /\ carCancelled' = carCancelled \union {i}
       ELSE main' = "cancelNull" /\ UNCHANGED <<i, carCancelled>>
  /\ UNCHANGED <<genVars, cars, carThreads, car, heap, ptr>>

\* The mutexes are destroyed and main returns: the process ends.
ReturnFromMain ==
  /\ main = "readCar"
  /\ i >= carID
  /\ main' = "exited"
  /\ UNCHANGED <<genVars, carVars, i, ptr>>

Main == \/ CancelGenerators \/ ReadCar \/ FreeFound \/ TestThread \/ CancelCar
        \/ ReturnFromMain

Next ==
  /\ main \notin Undefined \union {"exited"}
  /\ \/ \E g \in Generators : Generator(g)
     \/ \E k \in Ids : Car(k)
     \/ Main

Spec == Init /\ [][Next]_vars
-----------------------------------------------------------------------------
TypeOK ==
  /\ gen \in [Generators -> {"sleep", "awake", "initCar", "publish", "create", "ended"}]
  /\ newId \in [Generators -> Ids \union {Null}]
  /\ genCancelled \subseteq Generators
  /\ late \in [Generators -> 0 .. MaxCars]
  /\ carIDMutex \in Generators \union {NoGenerator}
  /\ carID \in 0 .. MaxCars
  /\ cars \in [Ids -> Ids \union {Null}]
  /\ carThreads \subseteq Ids /\ carCancelled \subseteq Ids
  /\ car \in [Ids -> {"none", "driving", "leaving", "free", "clearThread", "ended"}]
  /\ heap \in [Ids -> {"unused", "live", "freed"}]
  /\ main \in {"join", "readCar", "freeCar", "cancelCar", "cancelThread", "exited"} \union Undefined
  /\ i \in 0 .. MaxCars /\ ptr \in Ids \union {Null}

Numbering == {"initCar", "publish", "create"}

\* No two cars get one number: a number in use by a generator is not in use by
\* another one, nor by a thread that drives.
UniqueIds ==
  \A g \in Generators : gen[g] \in Numbering =>
    /\ car[newId[g]] = "none"
    /\ \A h \in Generators \ {g} : gen[h] \in Numbering => newId[h] # newId[g]

\* Until main frees cars, cars[] points to just the cars that are published and
\* have not begun to leave, and to no freed memory.
RegistryIsLive ==
  main = "join" =>
    \A k \in Ids : /\ cars[k] # Null <=>
                        \/ car[k] = "driving"
                        \/ \E g \in Generators : gen[g] = "create" /\ newId[g] = k
                   /\ cars[k] # Null => cars[k] = k /\ heap[k] = "live"

\* A generator that is cancelled creates at most one more car.
OneLateCar == \A g \in Generators : late[g] <= 1

\* "to prevent double free later" (the exit path) and "free the cars which are
\* not already freed" (releaseResources).
NoDoubleFree == main # "doubleFree"

\* "Car threads array, for later joining the threads": the thread of a car that
\* drives is in it.
ThreadsRegistered == \A k \in Ids : car[k] = "driving" => k \in carThreads
=============================================================================
