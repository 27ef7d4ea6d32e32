----------------------- MODULE TrafficShutdown_proofs -----------------------
(***************************************************************************)
(* The life and the end of the cars, for any number of generators and of   *)
(* cars: numbers, cars[] and cancelled generators.                         *)
(***************************************************************************)
EXTENDS TrafficShutdown, TLAPS

\* A number is taken under carIDMutex and is below carID from then on.
NumbersInv ==
  /\ \A g \in Generators : carIDMutex = g <=> gen[g] = "initCar"
  /\ \A g \in Generators :
       /\ gen[g] = "initCar" => newId[g] = carID /\ carID < MaxCars
       /\ gen[g] \in {"publish", "create"} =>
            newId[g] \in Ids /\ newId[g] < carID /\ car[newId[g]] = "none"
  /\ \A g, h \in Generators :
       gen[g] \in {"publish", "create"} /\ gen[h] \in {"publish", "create"} /\ g # h
         => newId[g] # newId[h]
  /\ \A k \in Ids : carID <= k => car[k] = "none"
  /\ main \in {"freeCar", "cancelCar", "cancelThread"} => i < carID

\* Before main frees and cancels anything.
RegistryInv ==
  /\ main = "join" => carCancelled = {}
  /\ RegistryIsLive
  /\ main = "join" =>
       \A g \in Generators : gen[g] = "publish" => heap[newId[g]] = "live"

LateInv ==
  \A g \in Generators : /\ late[g] <= 1
                        /\ gen[g] = "awake" \/ g \notin genCancelled => late[g] = 0

IInv == TypeOK /\ NumbersInv /\ RegistryInv /\ LateInv
-----------------------------------------------------------------------------
LEMMA InitIInv == Init => IInv
<1> SUFFICES ASSUME Init PROVE IInv
  OBVIOUS
<1> USE ShutdownAssumption DEF Init
<1>1. TypeOK
  BY DEF TypeOK, Ids, Null
<1>2. NumbersInv
  BY DEF NumbersInv
<1>3. RegistryInv
  BY DEF RegistryInv, RegistryIsLive, Ids
<1>4. LateInv
  BY DEF LateInv
<1> QED BY <1>1, <1>2, <1>3, <1>4 DEF IInv

LEMMA TypeStep == TypeOK /\ NumbersInv /\ LateInv /\ Next => TypeOK'
<1> SUFFICES ASSUME TypeOK, NumbersInv, LateInv, Next PROVE TypeOK'
  OBVIOUS
<1> USE ShutdownAssumption DEF TypeOK, genVars, carVars, mainVars, Undefined
<1>1. ASSUME NEW g \in Generators, Generator(g) PROVE TypeOK'
  <2>1. CASE WakeUp(g)
    BY <2>1 DEF WakeUp
  <2>2. CASE ReadCarId(g)
    <3>1. carID \in Ids /\ late[g] = 0
      BY <2>2 DEF ReadCarId, LateInv, Ids
    <3>2. late' \in [Generators -> 0 .. MaxCars]
      BY <2>2, <3>1 DEF ReadCarId
    <3>3. /\ newId' \in [Generators -> Ids \union {Null}]
          /\ gen' \in [Generators -> {"sleep", "awake", "initCar", "publish", "create", "ended"}]
          /\ carIDMutex' = g /\ UNCHANGED <<genCancelled, carID, carVars, mainVars>>
      BY <2>2, <3>1 DEF ReadCarId
    <3> QED BY <3>2, <3>3
  <2>3. CASE InitCar(g)
    <3>1. newId[g] \in Ids /\ newId[g] + 1 \in 0 .. MaxCars
      BY <2>3 DEF InitCar, NumbersInv, Ids
    <3> QED BY <2>3, <3>1 DEF InitCar
  <2>4. CASE Publish(g)
    BY <2>4 DEF Publish, NumbersInv
  <2>5. CASE CreateThread(g)
    BY <2>5 DEF CreateThread, NumbersInv
  <2> QED BY <1>1, <2>1, <2>2, <2>3, <2>4, <2>5 DEF Generator
<1>2. ASSUME NEW k \in Ids, Car(k) PROVE TypeOK'
  BY <1>2 DEF Car, ReadFreedCar, SleepCancelled, ExitCircle, RemoveFromBoard, FreeCar, ClearThread
<1>3. CASE Main
  <2>1. CASE ReadCar
    <3>1. i \in Ids
      BY <2>1 DEF ReadCar, Ids
    <3> QED BY <2>1, <3>1 DEF ReadCar
  <2>2. CASE FreeFound
    BY <2>2 DEF FreeFound
  <2>3. CASE TestThread \/ CancelCar
    <3>1. i \in Ids /\ i + 1 \in 0 .. MaxCars
      BY <2>3 DEF TestThread, CancelCar, NumbersInv, Ids
    <3> QED BY <2>3, <3>1 DEF TestThread, CancelCar
  <2> QED BY <1>3, <2>1, <2>2, <2>3 DEF Main, CancelGenerators, ReturnFromMain
<1> QED BY <1>1, <1>2, <1>3 DEF Next
-----------------------------------------------------------------------------
\* The generators, whose numbers stay their own.
LEMMA NumbersStep == TypeOK /\ NumbersInv /\ Next => NumbersInv'
<1> SUFFICES ASSUME TypeOK, NumbersInv, Next PROVE NumbersInv'
  OBVIOUS
<1> USE ShutdownAssumption DEF genVars, carVars, mainVars
<1>1. ASSUME NEW g \in Generators, WakeUp(g) PROVE NumbersInv'
  BY <1>1 DEF WakeUp, NumbersInv, TypeOK
<1>2. ASSUME NEW g \in Generators, ReadCarId(g) PROVE NumbersInv'
  BY <1>2 DEF ReadCarId, NumbersInv, TypeOK
<1>3. ASSUME NEW g \in Generators, InitCar(g) PROVE NumbersInv'
  BY <1>3 DEF InitCar, NumbersInv, TypeOK, Ids
<1>4. ASSUME NEW g \in Generators, Publish(g) PROVE NumbersInv'
  BY <1>4 DEF Publish, NumbersInv, TypeOK
<1>5. ASSUME NEW g \in Generators, CreateThread(g) PROVE NumbersInv'
  BY <1>5 DEF CreateThread, NumbersInv, TypeOK, Ids
<1>6. ASSUME NEW k \in Ids, Car(k) PROVE NumbersInv'
  <2>1. /\ UNCHANGED genVars /\ UNCHANGED i /\ main' \in {main} \union Undefined
        /\ car[k] # "none" /\ \A j \in Ids \ {k} : car'[j] = car[j]
    BY <1>6
    DEF TypeOK, Car, ReadFreedCar, SleepCancelled, ExitCircle, RemoveFromBoard, FreeCar, ClearThread, Undefined
  <2>2. \A j \in Ids : car[j] = "none" => car'[j] = "none"
    BY <2>1
  <2> QED BY <2>1, <2>2 DEF NumbersInv, Undefined
<1>7. CASE Main
  BY <1>7 DEF Main, CancelGenerators, ReadCar, FreeFound, TestThread, CancelCar, ReturnFromMain, NumbersInv
<1> QED BY <1>1, <1>2, <1>3, <1>4, <1>5, <1>6, <1>7 DEF Next, Generator

LEMMA RegistryStep == TypeOK /\ NumbersInv /\ RegistryInv /\ Next => RegistryInv'
<1> SUFFICES ASSUME TypeOK, NumbersInv, RegistryInv, Next PROVE RegistryInv'
  OBVIOUS
<1> USE ShutdownAssumption DEF genVars, carVars, mainVars, RegistryInv, RegistryIsLive
<1>1. ASSUME main' # "join" PROVE RegistryInv'
  BY <1>1
<1>2. ASSUME NEW g \in Generators, WakeUp(g) \/ ReadCarId(g) PROVE RegistryInv'
  <2>1. /\ UNCHANGED <<cars, carCancelled, car, heap, main>>
        /\ gen[g] \in {"sleep", "awake"} /\ gen'[g] \in {"ended", "awake", "initCar"}
        /\ \A h \in Generators \ {g} : gen'[h] = gen[h] /\ newId'[h] = newId[h]
    BY <1>2 DEF WakeUp, ReadCarId, TypeOK
  <2> QED BY <2>1
<1>3. ASSUME NEW g \in Generators, InitCar(g) PROVE RegistryInv'
  <2>1. /\ UNCHANGED <<cars, carCancelled, car, main, newId>> /\ newId[g] \in Ids
        /\ gen[g] = "initCar" /\ gen' = [gen EXCEPT ![g] = "publish"]
        /\ heap' = [heap EXCEPT ![newId[g]] = "live"]
    BY <1>3 DEF InitCar, NumbersInv, TypeOK, Ids
  <2>2. /\ heap'[newId[g]] = "live" /\ \A k \in Ids : heap[k] = "live" => heap'[k] = "live"
    BY <2>1 DEF TypeOK
  <2>3. \A h \in Generators : /\ gen'[h] = "create" <=> gen[h] = "create"
                              /\ gen'[h] = "publish" => gen[h] = "publish" \/ h = g
    BY <2>1 DEF TypeOK
  <2> QED BY <2>1, <2>2, <2>3 DEF NumbersInv
<1>4. ASSUME NEW g \in Generators, Publish(g) PROVE RegistryInv'
  <2>1. /\ UNCHANGED <<carCancelled, car, main, newId, heap>> /\ newId[g] \in Ids
        /\ gen[g] = "publish" /\ gen' = [gen EXCEPT ![g] = "create"]
        /\ cars' = [cars EXCEPT ![newId[g]] = newId[g]]
    BY <1>4 DEF Publish, NumbersInv
  <2>2. /\ cars'[newId[g]] = newId[g] /\ \A k \in Ids \ {newId[g]} : cars'[k] = cars[k]
    BY <2>1 DEF TypeOK
  <2>3. gen'[g] = "create" /\ \A h \in Generators \ {g} : gen'[h] = gen[h]
    BY <2>1 DEF TypeOK
  <2> QED BY <2>1, <2>2, <2>3 DEF Ids, Null
<1>5. ASSUME NEW g \in Generators, CreateThread(g) PROVE RegistryInv'
  <2>1. /\ UNCHANGED <<carCancelled, cars, main, newId, heap>> /\ newId[g] \in Ids
        /\ gen[g] = "create" /\ gen' = [gen EXCEPT ![g] = "sleep"]
        /\ car' = [car EXCEPT ![newId[g]] = "driving"]
    BY <1>5 DEF CreateThread, NumbersInv
  <2>2. /\ car'[newId[g]] = "driving" /\ \A k \in Ids \ {newId[g]} : car'[k] = car[k]
    BY <2>1 DEF TypeOK
  <2>3. gen'[g] = "sleep" /\ \A h \in Generators \ {g} : gen'[h] = gen[h]
    BY <2>1 DEF TypeOK
  <2> QED BY <2>1, <2>2, <2>3
<1>6. ASSUME NEW k \in Ids, Car(k), main' = "join" PROVE RegistryInv'
  <2>1. main = "join" /\ UNCHANGED <<gen, newId, carCancelled>>
    BY <1>6 DEF Car, ReadFreedCar, SleepCancelled, ExitCircle, RemoveFromBoard, FreeCar, ClearThread
  <2>2. ~\E g \in Generators : gen[g] \in {"publish", "create"} /\ newId[g] = k
    BY <1>6 DEF NumbersInv, Car, ReadFreedCar, SleepCancelled, ExitCircle, RemoveFromBoard, FreeCar, ClearThread
  <2>3. /\ \A j \in Ids \ {k} : cars'[j] = cars[j] /\ car'[j] = car[j] /\ heap'[j] = heap[j]
        /\ cars'[k] = Null /\ car'[k] # "driving"
    BY <1>6, <2>1, <2>2
    DEF TypeOK, Car, ReadFreedCar, SleepCancelled, ExitCircle, RemoveFromBoard, FreeCar, ClearThread
  <2> QED BY <2>1, <2>2, <2>3 DEF NumbersInv
<1>7. CASE Main
  BY <1>1, <1>7 DEF Main, CancelGenerators, ReadCar, FreeFound, TestThread, CancelCar, ReturnFromMain
<1> QED BY <1>1, <1>2, <1>3, <1>4, <1>5, <1>6, <1>7 DEF Next, Generator

LEMMA LateStep == TypeOK /\ LateInv /\ Next => LateInv'
<1> SUFFICES ASSUME TypeOK, LateInv, Next PROVE LateInv'
  OBVIOUS
<1> USE DEF LateInv, TypeOK, genVars, carVars, mainVars
<1>1. ASSUME NEW g \in Generators, Generator(g) PROVE LateInv'
  BY <1>1 DEF Generator, WakeUp, ReadCarId, InitCar, Publish, CreateThread
<1>2. ASSUME NEW k \in Ids, Car(k) PROVE LateInv'
  BY <1>2 DEF Car, ReadFreedCar, SleepCancelled, ExitCircle, RemoveFromBoard, FreeCar, ClearThread
<1>3. CASE Main
  BY <1>3 DEF Main, CancelGenerators, ReadCar, FreeFound, TestThread, CancelCar, ReturnFromMain
<1> QED BY <1>1, <1>2, <1>3 DEF Next
-----------------------------------------------------------------------------
(***************************************************************************)
(* The theorems.                                                           *)
(***************************************************************************)
LEMMA Stutter == IInv /\ UNCHANGED vars => IInv'
<1> SUFFICES ASSUME IInv, UNCHANGED vars PROVE IInv'
  OBVIOUS
<1> USE DEF vars, genVars, carVars, mainVars, IInv
<1>1. TypeOK' /\ LateInv'
  BY DEF TypeOK, LateInv
<1>2. NumbersInv'
  BY DEF NumbersInv
<1>3. RegistryInv'
  BY DEF RegistryInv, RegistryIsLive
<1> QED BY <1>1, <1>2, <1>3

\* The invariant of the cars' lives: types, numbers, registry and late cars.
THEOREM Invariance == Spec => []IInv
<1>1. IInv /\ [Next]_vars => IInv'
  BY Stutter, TypeStep, NumbersStep, RegistryStep, LateStep DEF IInv
<1> QED BY InitIInv, <1>1, PTL DEF Spec

\* With no more than MaxCars cars, which is the model's bound (the code has the arrays
\* of that size and no test), ids and main's loop index stay within the arrays.
THEOREM TypeCorrect == Spec => []TypeOK
<1>1. IInv => TypeOK
  BY DEF IInv
<1> QED BY <1>1, Invariance, PTL

\* initCar's carID++ under carIDMutex gives every car a number of its own.
THEOREM IdsAreUnique == Spec => []UniqueIds
<1>1. IInv => UniqueIds
  <2> SUFFICES ASSUME IInv PROVE UniqueIds
    OBVIOUS
  <2> USE ShutdownAssumption DEF IInv
  <2>1. ASSUME NEW g \in Generators, gen[g] \in Numbering PROVE car[newId[g]] = "none"
    BY <2>1 DEF Numbering, NumbersInv, TypeOK, Ids
  <2>2. ASSUME NEW g \in Generators, NEW h \in Generators \ {g},
               gen[g] \in Numbering, gen[h] \in Numbering
        PROVE  newId[h] # newId[g]
    BY <2>2 DEF Numbering, NumbersInv, TypeOK, Ids
  <2> QED BY <2>1, <2>2 DEF UniqueIds
<1> QED BY <1>1, Invariance, PTL

\* While the snapshots are printed, cars[] has just the cars that are about and no
\* pointer to freed memory.
THEOREM RegistryPointsToLive == Spec => []RegistryIsLive
<1>1. IInv => RegistryIsLive
  BY DEF IInv, RegistryInv
<1> QED BY <1>1, Invariance, PTL

\* A generator acts on pthread_cancel at its next usleep: one more car at most.
THEOREM AtMostOneLateCar == Spec => []OneLateCar
<1>1. IInv => OneLateCar
  BY DEF IInv, LateInv, OneLateCar
<1> QED BY <1>1, Invariance, PTL
=============================================================================
