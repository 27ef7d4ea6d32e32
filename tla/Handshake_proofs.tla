-------------------------- MODULE Handshake_proofs --------------------------
(***************************************************************************)
(* Proofs about the start of the two ports: isPrime tests primality, a     *)
(* number that passes it has a legal number of cranes, and the two         *)
(* processes agree on the answer.                                          *)
(***************************************************************************)
EXTENDS Handshake, TLAPS

\* The quotient of a division without remainder.
LEMMA Quotient ==
  ASSUME NEW n \in Nat, NEW m \in Nat, m > 0, n % m = 0
  PROVE  n = m * (n \div m) /\ n \div m \in Nat
  BY SMT

\* A divisor of n has the cofactor for a divisor too.
LEMMA Cofactor ==
  ASSUME NEW m \in Nat, NEW q \in Nat, q > 0
  PROVE  (m * q) % q = 0
  BY SMT

\* The larger of two factors is the one whose square may exceed the product.
LEMMA SmallFactor ==
  ASSUME NEW m \in Nat, NEW q \in Nat, m <= q
  PROVE  m * m <= m * q
  BY SMT

\* A factor of n that is at least 2 leaves at most half of n to the other one.
LEMMA Half ==
  ASSUME NEW m \in Nat, NEW q \in Nat, q >= 2, m >= 1
  PROVE  m <= (m * q) \div 2 /\ m < m * q /\ 1 * q <= m * q
  BY SMT

\* isPrime, which stops at the square root, finds a divisor when there is one.
THEOREM PrimeTest ==
  \A n \in Nat : n >= 2 => (IsPrime(n) <=> Prime(n))
<1> SUFFICES ASSUME NEW n \in Nat, n >= 2 PROVE IsPrime(n) <=> Prime(n)
  OBVIOUS
<1>1. ASSUME IsPrime(n), NEW m \in 2 .. n - 1, n % m = 0 PROVE FALSE
  <2> DEFINE q == n \div m
  <2>1. n = m * q /\ q \in Nat
    BY <1>1, Quotient
  <2>2. q # 0 /\ q # 1
    BY <2>1
  <2> HIDE DEF q
  <2>3. q >= 2
    BY <2>1, <2>2
  <2>4. q \in 2 .. n
    BY <2>1, <2>3, Half
  <2>5. n % q = 0
    BY <2>1, <2>3, Cofactor
  <2>6. CASE m <= q
    <3>1. m * m <= n
      BY <2>1, <2>6, SmallFactor
    <3> QED
      BY <1>1, <3>1 DEF IsPrime
  <2>7. CASE q <= m
    <3>1. q * q <= q * m
      BY <2>1, <2>7, SmallFactor
    <3>2. q * m = m * q
      BY <2>1
    <3> QED
      BY <1>1, <2>1, <2>4, <2>5, <3>1, <3>2 DEF IsPrime
  <2> QED
    BY <2>1, <2>6, <2>7
<1>2. ASSUME Prime(n), NEW i \in 2 .. n, i * i <= n PROVE n % i # 0
  <2>1. 2 * i <= i * i
    BY <1>2
  <2>2. i # n
    BY <1>2, <2>1
  <2>3. i \in 2 .. n - 1
    BY <2>2
  <2> QED
    BY <1>2, <2>3 DEF Prime
<1>3. IsPrime(n) => Prime(n)
  BY <1>1 DEF Prime
<1>4. Prime(n) => IsPrime(n)
  BY <1>2 DEF IsPrime
<1> QED
  BY <1>3, <1>4

\* A number of vessels that passes the test has a number of cranes that can be
\* drawn: the loop of generateNumberOfCranes can end.
THEOREM CranesExist ==
  \A n \in Nat : n >= 2 /\ ~IsPrime(n) => \E m \in CraneCandidates(n) : CraneCount(n, m)
<1> SUFFICES ASSUME NEW n \in Nat, n >= 2, ~IsPrime(n)
             PROVE  \E m \in CraneCandidates(n) : CraneCount(n, m)
  OBVIOUS
<1>1. PICK m \in 2 .. n : m * m <= n /\ n % m = 0
  BY DEF IsPrime
<1> DEFINE q == n \div m
<1>2. n = m * q /\ q \in Nat
  BY <1>1, Quotient
<1> HIDE DEF q
<1>3. 2 * m <= m * m
  BY <1>1
<1>4. m # n
  BY <1>1, <1>3
<1>5. q # 0 /\ q # 1
  BY <1>2, <1>4
<1>6. m <= n \div 2 /\ m < n
  BY <1>2, <1>5, Half
<1> QED
  BY <1>1, <1>6 DEF CraneCandidates, CraneCount
-----------------------------------------------------------------------------
LEMMA InitInv == Init => IndInv
  BY DEF Init, IndInv, TriesSoFar, BeforeEilat

\* Every step of either process keeps the two in their places.
LEMMA StepInv == IndInv /\ [Next]_vars => IndInv'
<1> SUFFICES ASSUME IndInv, [Next]_vars PROVE IndInv'
  OBVIOUS
<1> USE DEF IndInv
<1>1. CASE CheckArg
  <2>1. eilat = "none" /\ BeforeEilat
    BY <1>1 DEF CheckArg, BeforeEilat, Asking, Answered
  <2>2. numberOfTries = 0
    BY <1>1 DEF CheckArg, TriesSoFar
  <2>3. haifa' # "usage" => arg \in MinVessels .. MaxVessels
    <3>1. arg \in Int
      BY ArgsAssumption
    <3> QED
      BY <1>1, <3>1 DEF CheckArg, MinVessels, MaxVessels
  <2> QED
    BY <1>1, <2>1, <2>2, <2>3 DEF CheckArg, TriesSoFar, BeforeEilat
<1>2. CASE CreateProcess
  <2>1. TriesSoFar'
    <3>1. numberOfTries \in 0 .. 2 /\ arg \in MinVessels .. MaxVessels
      BY <1>2 DEF CreateProcess, TriesSoFar
    <3>2. CASE Names[numberOfTries + 1] \in present
      BY <1>2, <3>2 DEF CreateProcess, TriesSoFar
    <3>3. CASE Names[numberOfTries + 1] \notin present
      <4>1. \A k \in 1 .. numberOfTries + 1 : k \in 1 .. numberOfTries \/ k = numberOfTries + 1
        BY <3>1
      <4> QED
        BY <1>2, <3>1, <3>3, <4>1 DEF CreateProcess, TriesSoFar
    <3> QED
      BY <3>2, <3>3
  <2>2. eilat = "none" /\ BeforeEilat
    BY <1>2 DEF CreateProcess, BeforeEilat, Asking, Answered
  <2> QED
    BY <1>2, <2>1, <2>2 DEF CreateProcess, BeforeEilat, Asking
<1>3. CASE SendRequest
  <2>1. eilat = "read" /\ toEilat = <<>>
    BY <1>3 DEF SendRequest, BeforeEilat, Asking, Answered
  <2>2. toEilat' = <<arg>>
    BY <1>3, <2>1 DEF SendRequest
  <2> QED
    BY <1>3, <2>1, <2>2 DEF SendRequest, TriesSoFar, Asking
<1>4. CASE ReadAnswer
  <2>1. CASE eilat \in {"draw", "serve"}
    <3>1. toHaifa = <<"Y">> /\ toEilat = <<>>
      BY <1>4, <2>1 DEF ReadAnswer, Answered
    <3>2. toHaifa' = <<>> /\ haifa' = "sailing"
      BY <1>4, <3>1 DEF ReadAnswer
    <3>3. UNCHANGED <<arg, present, numberOfTries, toEilat, eilat, numOfVessels, numOfCranes>>
      BY <1>4 DEF ReadAnswer
    <3>4. haifa = "awaitAnswer"
      BY <1>4 DEF ReadAnswer
    <3> QED
      BY <2>1, <3>1, <3>2, <3>3, <3>4 DEF TriesSoFar, Answered
  <2>2. CASE eilat \in {"exitWithError", "crashed"}
    <3>1. toHaifa = <<"N">> /\ toEilat = <<>>
      BY <1>4, <2>2 DEF ReadAnswer, Answered
    <3>2. toHaifa' = <<>> /\ haifa' = "refused"
      BY <1>4, <3>1 DEF ReadAnswer
    <3>3. UNCHANGED <<arg, present, numberOfTries, toEilat, eilat, numOfVessels, numOfCranes>>
      BY <1>4 DEF ReadAnswer
    <3>4. haifa = "awaitAnswer"
      BY <1>4 DEF ReadAnswer
    <3> QED
      BY <2>2, <3>1, <3>2, <3>3, <3>4 DEF TriesSoFar, Answered
  <2>3. eilat \notin {"none", "read", "check"}
    BY <1>4 DEF ReadAnswer, BeforeEilat, Asking
  <2> QED
    BY <2>1, <2>2, <2>3
<1>5. CASE ReadRequest
  <2>1. toEilat = <<arg>> /\ haifa = "awaitAnswer"
    BY <1>5 DEF ReadRequest, Asking
  <2>2. toEilat' = <<>> /\ numOfVessels' = arg
    BY <1>5, <2>1 DEF ReadRequest
  <2> QED
    BY <1>5, <2>1, <2>2 DEF ReadRequest, TriesSoFar, Asking
<1>6. CASE CheckNumOfVessels
  <2>1. toHaifa' = IF IsPrime(arg) THEN <<"N">> ELSE <<"Y">>
    BY <1>6 DEF CheckNumOfVessels
  <2> QED
    BY <1>6, <2>1 DEF CheckNumOfVessels, TriesSoFar, Answered
<1>7. CASE ExitWithError
  BY <1>7 DEF ExitWithError, TriesSoFar, Answered
<1>8. CASE DrawCranes
  <2>1. CraneCount(arg, numOfCranes')
    <3>1. arg \in MinVessels .. MaxVessels
      BY <1>8 DEF DrawCranes, Answered
    <3> QED
      BY <1>8, <3>1 DEF DrawCranes, CraneCandidates, CraneCount, MinVessels, MaxVessels
  <2> QED
    BY <1>8, <2>1 DEF DrawCranes, TriesSoFar, Answered
<1>9. CASE UNCHANGED vars
  BY <1>9 DEF vars, TriesSoFar, BeforeEilat, Asking, Answered
<1> QED
  BY <1>1, <1>2, <1>3, <1>4, <1>5, <1>6, <1>7, <1>8, <1>9 DEF Next, Haifa, Eilat

\* The invariant holds in every state, for every set of arguments.
THEOREM Invariance == Spec => []IndInv
  BY InitInv, StepInv, PTL DEF Spec

\* Haifa's vessels sail only to an Eilat that counts them right and can give
\* them cranes; a refusal means a prime number.
THEOREM PortsAgree == Spec => []Agreement
<1>1. ASSUME IndInv PROVE Agreement
  <2>1. haifa = "sailing" => eilat \in {"draw", "serve"} /\ numOfVessels = arg
    BY <1>1 DEF IndInv, BeforeEilat, Asking, Answered
  <2>2. haifa = "refused" => eilat \in {"exitWithError", "crashed"} /\ Prime(arg)
    <3> SUFFICES ASSUME haifa = "refused" PROVE eilat \in {"exitWithError", "crashed"} /\ Prime(arg)
      OBVIOUS
    <3>1. eilat \in {"exitWithError", "crashed"} /\ IsPrime(arg)
      BY <1>1 DEF IndInv, BeforeEilat, Asking, Answered
    <3>2. arg \in Nat /\ arg >= 2
      BY <1>1 DEF IndInv, MinVessels, MaxVessels
    <3> QED
      BY <3>1, <3>2, PrimeTest
  <2>3. eilat = "draw" => \E m \in CraneCandidates(numOfVessels) : CraneCount(numOfVessels, m)
    <3> SUFFICES ASSUME eilat = "draw"
                 PROVE  \E m \in CraneCandidates(arg) : CraneCount(arg, m)
      BY <1>1 DEF IndInv
    <3>1. ~IsPrime(arg) /\ haifa \in {"awaitAnswer", "sailing"}
      BY <1>1 DEF IndInv, Answered
    <3>2. arg \in 2 .. 50
      BY <1>1, <3>1 DEF IndInv, MinVessels, MaxVessels
    <3> QED
      BY <3>1, <3>2, CranesExist
  <2> QED
    BY <2>1, <2>2, <2>3 DEF Agreement
<1> QED
  BY <1>1, Invariance, PTL

\* EilatPort's assumption on its constants: the port that serves has more than
\* one crane, fewer than vessels, and as many vessels for each.
THEOREM CranesAreLegal == Spec => []CranesShareVessels
<1>1. IndInv => CranesShareVessels
  BY DEF IndInv, CranesShareVessels
<1> QED
  BY <1>1, Invariance, PTL

\* Haifa fails to create the process only when no executable is there.
THEOREM LastTry == Spec => []GivesUpLast
<1>1. ASSUME IndInv PROVE GivesUpLast
  <2>1. haifa = "noProcess" => present = {}
    BY <1>1 DEF IndInv, TriesSoFar
  <2>2. eilat # "none" => arg \in MinVessels .. MaxVessels
    BY <1>1 DEF IndInv, Asking, Answered
  <2> QED
    BY <2>1, <2>2 DEF GivesUpLast
<1> QED
  BY <1>1, Invariance, PTL
=============================================================================
