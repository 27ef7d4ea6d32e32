---------------------------- MODULE PortNumbers ----------------------------
(***************************************************************************)
(* The arithmetic of EilatPort.c: which numbers of vessels are refused and *)
(* which numbers of cranes are drawn.                                      *)
(***************************************************************************)
EXTENDS Integers

\* Faulty variant: the square root itself is not tried.
IsPrimeStrict(n) == \A i \in 2 .. n : i * i < n => n % i # 0

\* isPrime divides by 2 up to (int)sqrt(n).
IsPrime(n) == \A i \in 2 .. n : i * i <= n => n % i # 0

\* rand() % ((n / 2) - 1) + 2.  For n < 4 the modulus is zero or negative.
CraneCandidates(n) == 2 .. n \div 2

\* What generateNumberOfCranes returns: "#vessels % #cranes == 0 and
\* 1 < #cranes < #vessels".
CraneCount(n, m) == m \in Nat /\ 1 < m /\ m < n /\ n % m = 0

\* The reference: n has no divisor but 1 and itself.
Prime(n) == \A m \in 2 .. n - 1 : n % m # 0
=============================================================================
