----------------------------- MODULE Handshake -----------------------------
(***************************************************************************)
(* How the two ports start: HaifaPort checks its argument, creates the     *)
(* EilatPort process (three names of the executable are tried) and asks    *)
(* through the pipe whether so many vessels may pass.  EilatPort refuses a *)
(* prime number of them; else it draws the number of its cranes.           *)
(* initStaticVars and all that follows is EilatPort.tla, HaifaPort.tla.    *)
(***************************************************************************)
EXTENDS PortNumbers, Sequences

CONSTANTS Args            \* the values of atoi(argv[1])

MinVessels == 2           \* MIN_VESSELS
MaxVessels == 50          \* MAX_VESSELS
Names == <<"EilatPort.exe", "Eilat.exe", "EilatSrc.exe">>

ASSUME ArgsAssumption == Args \subseteq Int

VARIABLES
  haifa,            \* where Haifa's main stands, or how it ended
  arg,              \* its numOfVessels
  present,          \* the executables that are in its directory
  numberOfTries,
  toEilat, toHaifa, \* the pipes
  eilat,            \* where Eilat's main stands, or how it ended
  numOfVessels,     \* Eilat's; 0 until it is read
  numOfCranes       \* num_of_cranes; 0 until it is drawn

vars == <<haifa, arg, present, numberOfTries, toEilat, toHaifa, eilat, numOfVessels, numOfCranes>>

Init ==
  /\ haifa = "start" /\ eilat = "none"
  /\ arg \in Args
  /\ present \in SUBSET {Names[k] : k \in 1 .. 3}
  /\ numberOfTries = 0
  /\ toEilat = <<>> /\ toHaifa = <<>>
  /\ numOfVessels = 0 /\ numOfCranes = 0
-----------------------------------------------------------------------------
\* Faulty variant: the upper bound is missing its last value.
CheckArgStrict ==
  /\ haifa = "start"
  /\ haifa' = IF arg <= MinVessels \/ arg >= MaxVessels THEN "usage" ELSE "creating"
  /\ UNCHANGED <<arg, present, numberOfTries, toEilat, toHaifa, eilat, numOfVessels, numOfCranes>>

CheckArg ==
  /\ haifa = "start"
  /\ haifa' = IF arg < MinVessels \/ arg > MaxVessels THEN "usage" ELSE "creating"
  /\ UNCHANGED <<arg, present, numberOfTries, toEilat, toHaifa, eilat, numOfVessels, numOfCranes>>

\* One round of the loop around CreateProcess and the test behind it.
CreateProcess ==
  /\ haifa = "creating"
  /\ IF Names[numberOfTries + 1] \in present
       THEN haifa' = "request" /\ eilat' = "read" /\ UNCHANGED numberOfTries
       ELSE /\ numberOfTries' = numberOfTries + 1
            /\ haifa' = IF numberOfTries' = 3 THEN "noProcess" ELSE haifa
            /\ UNCHANGED eilat
  /\ UNCHANGED <<arg, present, toEilat, toHaifa, numOfVessels, numOfCranes>>

SendRequest ==
  /\ haifa = "request"
  /\ toEilat' = Append(toEilat, arg)
  /\ haifa' = "awaitAnswer"
  /\ UNCHANGED <<arg, present, numberOfTries, toHaifa, eilat, numOfVessels, numOfCranes>>

\* "N": exitWithError.  "Y": initStaticVars, createVesselsThreads.
ReadAnswer ==
  /\ haifa = "awaitAnswer"
  /\ toHaifa # <<>>
  /\ toHaifa' = Tail(toHaifa)
  /\ haifa' = IF Head(toHaifa) = "N" THEN "refused" ELSE "sailing"
  /\ UNCHANGED <<arg, present, numberOfTries, toEilat, eilat, numOfVessels, numOfCranes>>

ReadRequest ==
  /\ eilat = "read"
  /\ toEilat # <<>>
  /\ toEilat' = Tail(toEilat)
  /\ numOfVessels' = Head(toEilat)
  /\ eilat' = "check"
  /\ UNCHANGED <<haifa, arg, present, numberOfTries, toHaifa, numOfCranes>>

\* Faulty variant: the answer is sent before the test, as an approval.
CheckNumOfVesselsLate ==
  /\ eilat = "check"
  /\ toHaifa' = Append(toHaifa, "Y")
  /\ eilat' = IF IsPrime(numOfVessels) THEN "exitWithError" ELSE "draw"
  /\ UNCHANGED <<haifa, arg, present, numberOfTries, toEilat, numOfVessels, numOfCranes>>

\* checkNumOfVessels answers first and fails afterwards.
CheckNumOfVessels ==
  /\ eilat = "check"
  /\ toHaifa' = Append(toHaifa, IF IsPrime(numOfVessels) THEN "N" ELSE "Y")
  /\ eilat' = IF IsPrime(numOfVessels) THEN "exitWithError" ELSE "draw"
  /\ UNCHANGED <<haifa, arg, present, numberOfTries, toEilat, numOfVessels, numOfCranes>>

\* exitWithError calls releaseResources, which reads barrierQueue[0]:
\* initStaticVars, not yet called, would have allocated that array.
ExitWithError ==
  /\ eilat = "exitWithError"
  /\ eilat' = "crashed"
  /\ UNCHANGED <<haifa, arg, present, numberOfTries, toEilat, toHaifa, numOfVessels, numOfCranes>>

\* One round of the loop of generateNumberOfCranes; a candidate that does not
\* divide the number of vessels changes nothing.
DrawCranes ==
  /\ eilat = "draw"
  /\ \E m \in CraneCandidates(numOfVessels) :
       /\ numOfVessels % m = 0
       /\ numOfCranes' = m
  /\ eilat' = "serve"
  /\ UNCHANGED <<haifa, arg, present, numberOfTries, toEilat, toHaifa, numOfVessels>>

Haifa == CheckArg \/ CreateProcess \/ SendRequest \/ ReadAnswer
Eilat == ReadRequest \/ CheckNumOfVessels \/ ExitWithError \/ DrawCranes

Next == Haifa \/ Eilat

Spec == Init /\ [][Next]_vars

\* Both processes run, and rand() does not miss every divisor for ever.
FairSpec == Spec /\ WF_vars(Haifa) /\ WF_vars(Eilat)
-----------------------------------------------------------------------------
HaifaEnds == {"usage", "noProcess", "refused"}

\* Haifa gives up only when none of the three executables is there, and never
\* asks with fewer vessels than MIN_VESSELS or more than MAX_VESSELS.
GivesUpLast ==
  /\ haifa = "noProcess" => present = {}
  /\ eilat # "none" => arg \in MinVessels .. MaxVessels

\* The two processes agree: Haifa sends vessels out only to an Eilat that
\* serves or will serve just that many, and is refused only by one that ends;
\* a crane count that divides their number can always be drawn.
Agreement ==
  /\ haifa = "sailing" => eilat \in {"draw", "serve"} /\ numOfVessels = arg
  /\ haifa = "refused" => eilat \in {"exitWithError", "crashed"} /\ Prime(arg)
  /\ eilat = "draw" => \E m \in CraneCandidates(numOfVessels) : CraneCount(numOfVessels, m)

\* The crane count of a port that serves is the one EilatPort assumes.
CranesShareVessels == eilat = "serve" => CraneCount(numOfVessels, numOfCranes)

\* For every argument the start ends: with both ports at work or with
\* both ended.
StartEnds ==
  haifa = "start" ~> \/ haifa = "sailing" /\ eilat = "serve"
                     \/ haifa \in HaifaEnds /\ eilat \in {"none", "crashed"}

\* Every number in range that is not a prime is served.
CompositesSail ==
  haifa = "start" /\ arg \in MinVessels .. MaxVessels /\ ~Prime(arg) /\ present # {}
    ~> eilat = "serve"

\* "Print error to mutual console , cleanup resources and exit".
CleansUpAndExits == eilat # "crashed"
-----------------------------------------------------------------------------
(***************************************************************************)
(* The inductive invariant: which steps of the other process each step of  *)
(* one process goes with.                                                  *)
(***************************************************************************)
TriesSoFar ==
  /\ numberOfTries \in 0 .. 3
  /\ \A k \in 1 .. numberOfTries : Names[k] \notin present
  /\ haifa = "start" => numberOfTries = 0
  /\ haifa = "creating" => numberOfTries < 3
  /\ haifa = "noProcess" => numberOfTries = 3

BeforeEilat ==
  /\ haifa \in {"start", "creating", "usage", "noProcess"}
  /\ toEilat = <<>> /\ toHaifa = <<>>

Asking ==
  /\ \/ haifa = "request" /\ toEilat = <<>>
     \/ haifa = "awaitAnswer" /\ toEilat = <<arg>>
  /\ toHaifa = <<>>

Answered(answer, outcome) ==
  /\ toEilat = <<>>
  /\ \/ haifa = "awaitAnswer" /\ toHaifa = <<answer>>
     \/ haifa = outcome /\ toHaifa = <<>>

IndInv ==
  /\ arg \in Args /\ present \subseteq {Names[k] : k \in 1 .. 3}
  /\ TriesSoFar
  /\ eilat \in {"none", "read", "check", "exitWithError", "draw", "serve", "crashed"}
  /\ haifa # "start" /\ haifa # "usage" => arg \in MinVessels .. MaxVessels
  /\ eilat = "none" => BeforeEilat
  /\ eilat = "read" => Asking
  /\ eilat = "check" => haifa = "awaitAnswer" /\ toEilat = <<>> /\ toHaifa = <<>>
  /\ eilat \in {"draw", "serve"} => Answered("Y", "sailing") /\ ~IsPrime(arg)
  /\ eilat \in {"exitWithError", "crashed"} => Answered("N", "refused") /\ IsPrime(arg)
  /\ numOfVessels = IF eilat \in {"none", "read"} THEN 0 ELSE arg
  /\ IF eilat = "serve" THEN CraneCount(arg, numOfCranes) ELSE numOfCranes = 0
=============================================================================
