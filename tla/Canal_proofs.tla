---------------------------- MODULE Canal_proofs ----------------------------
(***************************************************************************)
(* The two ports and the pipes between them.  Eilat behind the pipe is the *)
(* EilatPort of the theorems of EilatPort_proofs, so these hold in the     *)
(* canal.  Every vessel is on one leg of its journey, which is where its   *)
(* Haifa thread, its Eilat thread, the pipes and its semaphore place it.   *)
(***************************************************************************)
EXTENDS Canal, EilatPort_proofs, SequenceTheorems

On(q, v) == \E k \in 1 .. Len(q) : q[k] = v
Once(q)  == \A j, k \in 1 .. Len(q) : q[j] = q[k] => j = k

HaifaTypeOK ==
  /\ sail \in [Vessels -> {"none", "harbour", "crossing", "away", "home"}]
  /\ toEilat \in Seq(Vessels) /\ toHaifa \in Seq(Vessels)
  /\ returned \in [Vessels -> {0, 1}]

Leg(v) ==
  /\ On(toEilat, v) <=> sail[v] = "away" /\ pc[v] = "atSea"
  /\ sail[v] \in {"none", "harbour", "crossing"} => pc[v] = "atSea"
  /\ sail[v] = "home" => pc[v] = "gone"
  /\ On(toHaifa, v) \/ returned[v] = 1 <=> sail[v] = "away" /\ pc[v] = "gone"
  /\ ~(On(toHaifa, v) /\ returned[v] = 1)

LegInv ==
  /\ pc \in [Vessels -> Labels]
  /\ HaifaTypeOK
  /\ Once(toEilat) /\ Once(toHaifa)
  /\ \A v \in Vessels : Leg(v)

Home == {v \in Vessels : sail[v] = "home" \/ returned[v] = 1}

\* Haifa's main thread ends only behind Eilat, which does nothing once it ended.
EndInv ==
  /\ completed = Cardinality(Home)
  /\ haifa \in {"awaitEilat", "joinVessels", "exited"} => completed = NumOfVessels
  /\ haifa \in {"joinVessels", "exited"} => EilatEnded
  /\ port \in {"joinCranes", "exited"} => \A v \in Vessels : pc[v] = "gone"
  /\ port = "exited" => \A i \in CraneIdx : cranePc[i] = "ended"
-----------------------------------------------------------------------------
(***************************************************************************)
(* Pipes in which nothing is twice.                                        *)
(***************************************************************************)
LEMMA Sent ==
  ASSUME NEW q \in Seq(Vessels), NEW v \in Vessels, ~On(q, v), Once(q)
  PROVE  /\ Append(q, v) \in Seq(Vessels) /\ Once(Append(q, v))
         /\ \A w \in Vessels : On(Append(q, v), w) <=> On(q, w) \/ w = v
<1>1. /\ Append(q, v) \in Seq(Vessels) /\ Len(Append(q, v)) = Len(q) + 1 /\ Len(q) \in Nat
      /\ \A i \in 1 .. Len(q) : Append(q, v)[i] = q[i]
      /\ Append(q, v)[Len(q) + 1] = v
  BY AppendProperties, LenProperties
<1>2. Once(Append(q, v))
  BY <1>1 DEF Once, On
<1>3. ASSUME NEW w \in Vessels PROVE On(Append(q, v), w) <=> On(q, w) \/ w = v
  <2>1. On(q, w) => On(Append(q, v), w)
    BY <1>1 DEF On
  <2>2. On(Append(q, v), v)
    BY <1>1 DEF On
  <2>3. On(Append(q, v), w) => On(q, w) \/ w = v
    BY <1>1 DEF On
  <2> QED BY <2>1, <2>2, <2>3
<1> QED BY <1>1, <1>2, <1>3

LEMMA Received ==
  ASSUME NEW q \in Seq(Vessels), q # <<>>, Once(q)
  PROVE  /\ Head(q) \in Vessels /\ On(q, Head(q))
         /\ Tail(q) \in Seq(Vessels) /\ Once(Tail(q))
         /\ \A w \in Vessels : On(Tail(q), w) <=> On(q, w) /\ w # Head(q)
<1>1. /\ Head(q) \in Vessels /\ Tail(q) \in Seq(Vessels) /\ Len(Tail(q)) = Len(q) - 1
      /\ \A i \in 1 .. Len(Tail(q)) : Tail(q)[i] = q[i + 1]
      /\ Head(q) = q[1] /\ Len(q) \in Nat /\ 0 < Len(q)
  BY HeadTailProperties, EmptySeq, LenProperties
<1>2. On(q, Head(q))
  BY <1>1 DEF On
<1>3. Once(Tail(q))
  BY <1>1 DEF Once
<1>4. ASSUME NEW w \in Vessels PROVE On(Tail(q), w) <=> On(q, w) /\ w # Head(q)
  <2>1. ASSUME On(Tail(q), w) PROVE On(q, w) /\ w # Head(q)
    <3>1. PICK k \in 1 .. Len(Tail(q)) : Tail(q)[k] = w
      BY <2>1 DEF On
    <3>2. k + 1 \in 1 .. Len(q) /\ q[k + 1] = w /\ k + 1 # 1
      BY <1>1, <3>1
    <3> QED BY <1>1, <3>2 DEF On, Once
  <2>2. ASSUME On(q, w), w # Head(q) PROVE On(Tail(q), w)
    <3>1. PICK k \in 1 .. Len(q) : q[k] = w
      BY <2>2 DEF On
    <3>2. k - 1 \in 1 .. Len(Tail(q)) /\ Tail(q)[k - 1] = w
      BY <1>1, <2>2, <3>1
    <3> QED BY <3>2 DEF On
  <2> QED BY <2>1, <2>2
<1> QED BY <1>1, <1>2, <1>3, <1>4
-----------------------------------------------------------------------------
(***************************************************************************)
(* The port of Eilat, its main thread and its vessels at the pipes.        *)
(***************************************************************************)
LEMMA EilatMoves == CanalNext => [Next]_vars
BY DEF CanalNext, EilatStep, ArriveEilat, DepartEilat, VesselInEilat, Vessel, Next, Running

\* The port of Eilat in the canal is the port of Eilat alone: what is proved of it
\* with any vessel at sea ready to arrive holds when the pipe says which comes next.
THEOREM EilatInCanal == CanalSpec => Spec
<1>1. CanalInit => Init
  BY DEF CanalInit
<1>2. [CanalNext]_canalVars => [Next]_vars
  BY EilatMoves DEF canalVars
<1> QED BY <1>1, <1>2, PTL DEF CanalSpec, Spec
-----------------------------------------------------------------------------
(***************************************************************************)
(* The legs.                                                               *)
(***************************************************************************)
LEMMA LegInit == CanalInit => LegInv
<1> SUFFICES ASSUME CanalInit PROVE LegInv
  OBVIOUS
<1> USE DEF CanalInit, Init, HaifaInit
<1>1. \A v \in Vessels : ~On(<<>>, v)
  BY DEF On
<1>2. Once(<<>>) /\ <<>> \in Seq(Vessels)
  BY DEF Once
<1> QED BY <1>1, <1>2 DEF LegInv, HaifaTypeOK, Leg, Labels

LEMMA Primes ==
  /\ Once(toEilat)' <=> Once(toEilat')
  /\ Once(toHaifa)' <=> Once(toHaifa')
  /\ \A v \in Vessels : On(toEilat, v)' <=> On(toEilat', v)
  /\ \A v \in Vessels : On(toHaifa, v)' <=> On(toHaifa', v)
BY DEF Once, On

\* A step in which nobody changes legs.
LEMMA SameLegs ==
  ASSUME LegInv, pc' \in [Vessels -> Labels], UNCHANGED <<sail, toEilat, toHaifa, returned>>,
         \A v \in Vessels : /\ pc'[v] = "atSea" <=> pc[v] = "atSea"
                            /\ pc'[v] = "gone" <=> pc[v] = "gone"
  PROVE  LegInv'
<1>1. \A v \in Vessels : /\ On(toEilat, v)' <=> On(toEilat, v)
                         /\ On(toHaifa, v)' <=> On(toHaifa, v)
  BY DEF On
<1>2. \A v \in Vessels : Leg(v)'
  BY <1>1 DEF LegInv, Leg
<1> QED BY <1>2 DEF LegInv, HaifaTypeOK, Once

LEMMA InEilat ==
  ASSUME LegInv, NEW v \in Vessels, VesselInEilat(v)
  PROVE  /\ pc' \in [Vessels -> Labels]
         /\ pc[v] \notin {"atSea", "gone"} /\ pc'[v] \notin {"atSea", "gone"}
         /\ \A w \in Vessels \ {v} : pc'[w] = pc[w]
<1>1. ASSUME NEW l \in Labels \ {"atSea", "gone"}, Goto(v, l), pc[v] \notin {"atSea", "gone"}
      PROVE  /\ pc' \in [Vessels -> Labels]
             /\ pc[v] \notin {"atSea", "gone"} /\ pc'[v] \notin {"atSea", "gone"}
             /\ \A w \in Vessels \ {v} : pc'[w] = pc[w]
  BY <1>1 DEF Goto, LegInv, Labels
<1>2. \E l \in Labels \ {"atSea", "gone"} : Goto(v, l) /\ pc[v] \notin {"atSea", "gone"}
  BY DEF VesselInEilat, LockAdt, LockBarrier, QueueUp, WaitTurn, LockToLeave, LeaveBarrier, Settle, WakeCrane,
         WaitUnload, LeaveCrane, OpenBarrier, Labels
<1> QED BY <1>1, <1>2

LEMMA LegStep == LegInv /\ CanalNext => LegInv'
<1> SUFFICES ASSUME LegInv, CanalNext PROVE LegInv'
  OBVIOUS
<1>1. ASSUME NEW v \in Vessels, ArriveEilat(v) PROVE LegInv'
  <2>1. /\ toEilat # <<>> /\ Head(toEilat) = v /\ toEilat' = Tail(toEilat)
        /\ UNCHANGED <<sail, toHaifa, returned>>
        /\ pc[v] = "atSea" /\ pc' = [pc EXCEPT ![v] = "lockAdt"]
    BY <1>1 DEF ArriveEilat, ReceiveVessel, Goto
  <2>2. /\ toEilat' \in Seq(Vessels) /\ Once(toEilat)' /\ On(toEilat, v)
        /\ \A w \in Vessels : On(toEilat, w)' <=> On(toEilat, w) /\ w # v
    BY <2>1, Received, Primes DEF LegInv, HaifaTypeOK
  <2>3. \A w \in Vessels : On(toHaifa, w)' <=> On(toHaifa, w)
    BY <2>1 DEF On
  <2>4. ASSUME NEW w \in Vessels PROVE Leg(w)'
    <3>1. CASE w = v
      BY <2>1, <2>2, <2>3, <3>1 DEF LegInv, Leg
    <3>2. CASE w # v
      BY <2>1, <2>2, <2>3, <3>2 DEF LegInv, Leg
    <3> QED BY <3>1, <3>2
  <2> QED BY <2>1, <2>2, <2>4 DEF LegInv, HaifaTypeOK, Labels, Once
<1>2. ASSUME NEW v \in Vessels, DepartEilat(v) PROVE LegInv'
  <2>1. /\ toHaifa' = Append(toHaifa, v) /\ UNCHANGED <<sail, toEilat, returned>>
        /\ pc[v] = "sailBack" /\ pc' = [pc EXCEPT ![v] = "gone"]
    BY <1>2 DEF DepartEilat, SailBack, Goto
  <2>2. ~On(toHaifa, v) /\ returned[v] # 1 /\ sail[v] = "away"
    BY <2>1 DEF LegInv, Leg, HaifaTypeOK
  <2>3. /\ toHaifa' \in Seq(Vessels) /\ Once(toHaifa)'
        /\ \A w \in Vessels : On(toHaifa, w)' <=> On(toHaifa, w) \/ w = v
    BY <2>1, <2>2, Sent, Primes DEF LegInv, HaifaTypeOK
  <2>4. \A w \in Vessels : On(toEilat, w)' <=> On(toEilat, w)
    BY <2>1 DEF On
  <2>5. \A w \in Vessels : Leg(w)'
    BY <2>1, <2>2, <2>3, <2>4 DEF LegInv, Leg
  <2> QED BY <2>1, <2>3, <2>5 DEF LegInv, HaifaTypeOK, Labels, Once
<1>3. ASSUME NEW v \in Vessels, VesselInEilat(v), UNCHANGED haifaVars PROVE LegInv'
  BY <1>3, InEilat, SameLegs DEF haifaVars
<1>4. ASSUME UNCHANGED <<pc, sail, toEilat, toHaifa, returned>> PROVE LegInv'
  BY <1>4, SameLegs DEF LegInv
<1>5. ASSUME NEW v \in Vessels, CreateVessel(v) \/ EnterCanal(v), UNCHANGED vars PROVE LegInv'
  <2>1. /\ sail[v] \in {"none", "harbour"} /\ UNCHANGED <<pc, toEilat, toHaifa, returned>>
        /\ \E l \in {"harbour", "crossing"} : sail' = [sail EXCEPT ![v] = l]
    BY <1>5 DEF CreateVessel, EnterCanal, SailTo, vars
  <2>2. \A w \in Vessels : Leg(w)'
    BY <2>1 DEF LegInv, Leg, HaifaTypeOK, On
  <2> QED BY <2>1, <2>2 DEF LegInv, HaifaTypeOK, Once
<1>6. ASSUME NEW v \in Vessels, LeaveCanal(v), UNCHANGED vars PROVE LegInv'
  <2>1. /\ toEilat' = Append(toEilat, v) /\ UNCHANGED <<pc, toHaifa, returned>>
        /\ sail[v] = "crossing" /\ sail' = [sail EXCEPT ![v] = "away"]
    BY <1>6 DEF LeaveCanal, SailTo, vars
  <2>2. ~On(toEilat, v) /\ pc[v] = "atSea"
    BY <2>1 DEF LegInv, Leg
  <2>3. /\ toEilat' \in Seq(Vessels) /\ Once(toEilat)'
        /\ \A w \in Vessels : On(toEilat, w)' <=> On(toEilat, w) \/ w = v
    BY <2>1, <2>2, Sent, Primes DEF LegInv, HaifaTypeOK
  <2>4. \A w \in Vessels : On(toHaifa, w)' <=> On(toHaifa, w)
    BY <2>1 DEF On
  <2>5. \A w \in Vessels : Leg(w)'
    BY <2>1, <2>2, <2>3, <2>4 DEF LegInv, Leg, HaifaTypeOK
  <2> QED BY <2>1, <2>3, <2>5 DEF LegInv, HaifaTypeOK, Once
<1>7. ASSUME NEW v \in Vessels, ComeHome(v), UNCHANGED vars PROVE LegInv'
  <2>1. /\ UNCHANGED <<pc, toEilat, toHaifa>> /\ returned[v] = 1 /\ sail[v] = "away"
        /\ returned' = [returned EXCEPT ![v] = 0] /\ sail' = [sail EXCEPT ![v] = "home"]
    BY <1>7 DEF ComeHome, SailTo, vars
  <2>2. \A w \in Vessels : /\ On(toEilat, w)' <=> On(toEilat, w)
                           /\ On(toHaifa, w)' <=> On(toHaifa, w)
    BY <2>1 DEF On
  <2>3. ASSUME NEW w \in Vessels PROVE Leg(w)'
    <3>1. CASE w = v
      BY <2>1, <2>2, <3>1 DEF LegInv, Leg, HaifaTypeOK
    <3>2. CASE w # v
      BY <2>1, <2>2, <3>2 DEF LegInv, Leg, HaifaTypeOK
    <3> QED BY <3>1, <3>2
  <2> QED BY <2>1, <2>3 DEF LegInv, HaifaTypeOK, Once
<1>8. ASSUME ReadReturn, UNCHANGED vars PROVE LegInv'
  <2>1. /\ toHaifa # <<>> /\ toHaifa' = Tail(toHaifa) /\ UNCHANGED <<pc, sail, toEilat>>
        /\ returned' = [returned EXCEPT ![Head(toHaifa)] = 1]
    BY <1>8 DEF ReadReturn, vars
  <2>2. PICK v \in Vessels : v = Head(toHaifa) /\ On(toHaifa, v)
    BY <2>1, Received DEF LegInv, HaifaTypeOK
  <2>3. /\ toHaifa' \in Seq(Vessels) /\ Once(toHaifa)'
        /\ \A w \in Vessels : On(toHaifa, w)' <=> On(toHaifa, w) /\ w # v
    BY <2>1, <2>2, Received, Primes DEF LegInv, HaifaTypeOK
  <2>4. \A w \in Vessels : On(toEilat, w)' <=> On(toEilat, w)
    BY <2>1 DEF On
  <2>5. ASSUME NEW w \in Vessels PROVE Leg(w)'
    <3>1. CASE w = v
      BY <2>1, <2>2, <2>3, <2>4, <3>1 DEF LegInv, Leg, HaifaTypeOK
    <3>2. CASE w # v
      BY <2>1, <2>2, <2>3, <2>4, <3>2 DEF LegInv, Leg, HaifaTypeOK
    <3> QED BY <3>1, <3>2
  <2> QED BY <2>1, <2>2, <2>3, <2>5 DEF LegInv, HaifaTypeOK, Once
<1>9. ASSUME NEW i \in CraneIdx, StartCrane(i) \/ CreateSemaphores(i) \/ Crane(i), UNCHANGED haifaVars
      PROVE  LegInv'
  BY <1>4, <1>9 DEF StartCrane, CreateSemaphores, Crane, TakeJob, PhantomJob, FinishJob, haifaVars
<1>10. ASSUME JoinVessels \/ JoinCranes, UNCHANGED haifaVars PROVE LegInv'
  BY <1>4, <1>10 DEF JoinVessels, JoinCranes, haifaVars
<1>11. ASSUME JoinAllVessels \/ SeeEilatEnd, UNCHANGED vars PROVE LegInv'
  BY <1>4, <1>11 DEF JoinAllVessels, SeeEilatEnd, vars
<1> QED BY <1>1, <1>2, <1>3, <1>5, <1>6, <1>7, <1>8, <1>9, <1>10, <1>11
        DEF CanalNext, EilatStep, HaifaStep, HaifaVessel

LEMMA LegStutter == LegInv /\ UNCHANGED canalVars => LegInv'
BY SameLegs DEF canalVars, vars, haifaVars, LegInv

LEMMA LegInvariance == CanalSpec => []LegInv
<1>1. LegInv /\ [CanalNext]_canalVars => LegInv'
  BY LegStep, LegStutter
<1> QED BY LegInit, <1>1, PTL DEF CanalSpec
-----------------------------------------------------------------------------
(***************************************************************************)
(* The theorems.                                                           *)
(***************************************************************************)
LEMMA CopiesInPipe ==
  ASSUME NEW q \in Seq(Vessels), NEW v, Once(q)
  PROVE  Cardinality({k \in 1 .. Len(q) : q[k] = v}) = IF On(q, v) THEN 1 ELSE 0
<1>1. CASE On(q, v)
  <2>1. PICK k \in 1 .. Len(q) : q[k] = v
    BY <1>1 DEF On
  <2>2. {j \in 1 .. Len(q) : q[j] = v} = {k}
    BY <2>1 DEF Once
  <2> QED BY <1>1, <2>2, FS_Singleton
<1>2. CASE ~On(q, v)
  <2>1. {j \in 1 .. Len(q) : q[j] = v} = {}
    BY <1>2 DEF On
  <2> QED BY <1>2, <2>1, FS_EmptySet
<1> QED BY <1>1, <1>2

\* A vessel whose Haifa thread waits for it is in exactly one place: a pipe, the port
\* of Eilat, or at its semaphore.  The vessels write the pipes and the main threads
\* read them; none is lost between the processes and none is doubled.
THEOREM VesselsInOnePlace == CanalSpec => []OnePlace
<1>1. LegInv => OnePlace
  <2> SUFFICES ASSUME LegInv, NEW v \in Vessels
               PROVE  Copies(v) = IF sail[v] = "away" THEN 1 ELSE 0
    BY DEF OnePlace
  <2> USE DEF LegInv, HaifaTypeOK
  <2>1. Copies(v) = (IF On(toEilat, v) THEN 1 ELSE 0) + (IF On(toHaifa, v) THEN 1 ELSE 0)
                  + (IF pc[v] \notin {"atSea", "gone"} THEN 1 ELSE 0) + returned[v]
    BY CopiesInPipe DEF Copies
  <2>2. Leg(v) /\ returned[v] \in {0, 1}
    OBVIOUS
  <2> HIDE DEF LegInv, HaifaTypeOK
  <2>3. CASE sail[v] = "away"
    BY <2>1, <2>2, <2>3 DEF Leg
  <2>4. CASE sail[v] # "away"
    <3>1. sail[v] \in {"none", "harbour", "crossing", "home"}
      BY <2>4 DEF LegInv, HaifaTypeOK
    <3> QED BY <2>1, <2>2, <2>4, <3>1 DEF Leg
  <2> QED BY <2>3, <2>4
<1> QED BY <1>1, LegInvariance, PTL

LEMMA EndInit == CanalInit => EndInv
<1> SUFFICES ASSUME CanalInit PROVE EndInv
  OBVIOUS
<1>1. Home = {}
  BY DEF CanalInit, HaifaInit, Home
<1> QED BY <1>1, FS_EmptySet DEF CanalInit, HaifaInit, Init, EndInv

\* Who is home or has been called home does not sail any more; when that is everybody,
\* the pipes are empty and no vessel is in Eilat.
LEMMA AllHome ==
  ASSUME LegInv, completed = Cardinality(Home), completed = NumOfVessels
  PROVE  /\ Home = Vessels /\ toEilat = <<>> /\ toHaifa = <<>>
         /\ \A v \in Vessels : pc[v] = "gone"
<1>1. Home = Vessels
  BY Sizes, FS_Subset DEF Home, NumOfVessels
<1>2. \A v \in Vessels : ~On(toEilat, v) /\ ~On(toHaifa, v) /\ pc[v] = "gone"
  BY <1>1 DEF Home, LegInv, Leg
<1>3. ASSUME NEW q \in Seq(Vessels), \A v \in Vessels : ~On(q, v) PROVE q = <<>>
  BY <1>3, EmptySeq, LenProperties DEF On
<1> QED BY <1>1, <1>2, <1>3 DEF LegInv, HaifaTypeOK

LEMMA EndStep == LegInv /\ EndInv /\ CanalNext => EndInv'
<1> SUFFICES ASSUME LegInv, EndInv, CanalNext PROVE EndInv'
  OBVIOUS
<1> USE Sizes
\* Haifa moves.
<1>1. ASSUME UNCHANGED <<vars, completed>>, Home' = Home,
             haifa' \in {"awaitEilat", "joinVessels", "exited"} => completed = NumOfVessels,
             haifa' \in {"joinVessels", "exited"} => EilatEnded
      PROVE  EndInv'
  BY <1>1 DEF EndInv, vars, craneVars, EilatEnded
<1>2. ASSUME NEW v \in Vessels, CreateVessel(v) \/ EnterCanal(v) \/ LeaveCanal(v), UNCHANGED vars
      PROVE  EndInv'
  <2>1. /\ UNCHANGED <<completed, returned>> /\ sail[v] \in {"none", "harbour", "crossing"}
        /\ \E l \in {"harbour", "crossing", "away"} : sail' = [sail EXCEPT ![v] = l]
        /\ haifa' \in {haifa, "awaitVessels"}
    BY <1>2 DEF CreateVessel, EnterCanal, LeaveCanal, SailTo
  <2>2. Home' = Home
    BY <2>1 DEF Home, LegInv, HaifaTypeOK
  <2> QED BY <1>1, <1>2, <2>1, <2>2 DEF EndInv
<1>3. ASSUME NEW v \in Vessels, ComeHome(v), UNCHANGED vars PROVE EndInv'
  <2>1. /\ UNCHANGED <<completed, haifa>> /\ returned[v] = 1
        /\ sail' = [sail EXCEPT ![v] = "home"] /\ returned' = [returned EXCEPT ![v] = 0]
    BY <1>3 DEF ComeHome, SailTo
  <2>2. Home' = Home
    BY <2>1 DEF Home, LegInv, HaifaTypeOK
  <2> QED BY <1>1, <1>3, <2>1, <2>2 DEF EndInv
<1>4. ASSUME ReadReturn, UNCHANGED vars PROVE EndInv'
  <2>1. /\ toHaifa # <<>> /\ completed' = completed + 1 /\ UNCHANGED sail /\ haifa = "awaitVessels"
        /\ returned' = [returned EXCEPT ![Head(toHaifa)] = 1]
        /\ haifa' = IF completed' = NumOfVessels THEN "awaitEilat" ELSE haifa
    BY <1>4 DEF ReadReturn, NumOfVessels
  <2>2. PICK v \in Vessels : v = Head(toHaifa) /\ On(toHaifa, v)
    BY <2>1, Received DEF LegInv, HaifaTypeOK
  <2>3. v \notin Home
    BY <2>2 DEF Home, LegInv, Leg
  <2>4. Home' = Home \union {v}
    BY <2>1, <2>2 DEF Home, LegInv, HaifaTypeOK
  <2>5. IsFiniteSet(Home)
    BY FS_Subset DEF Home
  <2>6. completed' = Cardinality(Home')
    BY <2>1, <2>3, <2>4, <2>5, FS_AddElement DEF EndInv
  <2> QED BY <1>4, <2>1, <2>6 DEF EndInv, vars, craneVars
<1>5. ASSUME EilatEnded, SeeEilatEnd, UNCHANGED vars PROVE EndInv'
  BY <1>1, <1>5 DEF SeeEilatEnd, EndInv, Home
<1>6. ASSUME JoinAllVessels, UNCHANGED vars PROVE EndInv'
  BY <1>1, <1>6 DEF JoinAllVessels, EndInv, Home
\* Eilat moves: it is then not ended, and Haifa has not seen its end.
<1>7. ASSUME EilatStep PROVE EndInv'
  <2>1. UNCHANGED <<sail, returned, completed, haifa>> /\ Running
    BY <1>7 DEF EilatStep, ArriveEilat, DepartEilat, haifaVars
  <2>2. Home' = Home
    BY <2>1 DEF Home
  <2>3. ASSUME NEW v \in Vessels, ArriveEilat(v) \/ DepartEilat(v) \/ VesselInEilat(v)
        PROVE  /\ pc[v] # "gone" /\ UNCHANGED cranePc
               /\ port' \in {port, "joinVessels"} \union Failed
    BY <2>3 DEF ArriveEilat, ReceiveVessel, DepartEilat, SailBack, VesselInEilat, LockAdt, LockBarrier,
                QueueUp, ReleaseFromBarrier, WaitTurn, LockToLeave, LeaveBarrier, Settle, WakeCrane, WaitUnload,
                LeaveCrane, OpenBarrier, Failed, craneVars
  <2>4. ASSUME NEW i \in CraneIdx, StartCrane(i) \/ CreateSemaphores(i) \/ Crane(i)
        PROVE  /\ UNCHANGED pc /\ port # "exited"
               /\ port' \in {port, "receiving"} \union Failed
    BY <2>4 DEF StartCrane, CreateSemaphores, Crane, TakeJob, PhantomJob, FinishJob, Failed, EndInv
  <2>5. port # "exited" /\ ~EilatEnded
    BY <1>7, <2>1, <2>3, <2>4 DEF EilatStep, JoinVessels, JoinCranes, EndInv, EilatEnded, Running
  <2>6. haifa \notin {"joinVessels", "exited"}
    BY <2>5 DEF EndInv
  <2>7. CASE \E v \in Vessels : ArriveEilat(v) \/ DepartEilat(v) \/ VesselInEilat(v)
    BY <2>1, <2>2, <2>3, <2>5, <2>6, <2>7 DEF EndInv, Failed
  <2>8. CASE \E i \in CraneIdx : StartCrane(i) \/ CreateSemaphores(i) \/ Crane(i)
    BY <2>1, <2>2, <2>4, <2>5, <2>6, <2>8 DEF EndInv, Failed
  <2>9. CASE JoinVessels
    BY <2>1, <2>2, <2>6, <2>9 DEF JoinVessels, EndInv
  <2>10. CASE JoinCranes
    BY <2>1, <2>2, <2>6, <2>10 DEF JoinCranes, EndInv, craneVars
  <2> QED BY <1>7, <2>7, <2>8, <2>9, <2>10 DEF EilatStep
<1> QED BY <1>2, <1>3, <1>4, <1>5, <1>6, <1>7 DEF CanalNext, HaifaStep, HaifaVessel

LEMMA EndInvariance == CanalSpec => []EndInv
<1>1. LegInv /\ EndInv /\ [CanalNext]_canalVars => EndInv'
  <2>1. EndInv /\ UNCHANGED canalVars => EndInv'
    BY DEF EndInv, Home, EilatEnded, canalVars, vars, haifaVars, craneVars
  <2> QED BY <2>1, EndStep
<1> QED BY EndInit, LegInvariance, <1>1, PTL DEF CanalSpec

\* waitForAllVesselsToReturn counts the messages it reads; when it has counted all, the
\* pipes are empty, and the main thread goes on only when the process of Eilat ended.
THEOREM HaifaCountsHome == CanalSpec => []HaifaCount
<1>1. LegInv /\ EndInv => HaifaCount
  <2> SUFFICES ASSUME LegInv, EndInv PROVE HaifaCount
    OBVIOUS
  <2>1. haifa \in {"joinVessels", "exited"} => EilatEnded /\ toHaifa = <<>> /\ toEilat = <<>>
    BY AllHome DEF EndInv
  <2> QED BY <2>1 DEF HaifaCount, EndInv, Home
<1> QED BY <1>1, LegInvariance, EndInvariance, PTL
-----------------------------------------------------------------------------
(***************************************************************************)
(* The ports go on.                                                        *)
(***************************************************************************)

\* The threads of Haifa: the owner of the canal is crossing it, and the main thread has
\* created every vessel before it reads, and reads until it has counted all.
HaifaInv ==
  /\ haifaMutex \in Vessels \union {NoVessel}
  /\ \A v \in Vessels : haifaMutex = v <=> sail[v] = "crossing"
  /\ haifa \in {"creating", "awaitVessels", "awaitEilat", "joinVessels", "exited"}
  /\ haifa = "creating" <=> \E v \in Vessels : sail[v] = "none"
  /\ haifa \in {"creating", "awaitVessels"} => completed # NumOfVessels

LEMMA HaifaInvInit == CanalInit => HaifaInv
<1> SUFFICES ASSUME CanalInit PROVE HaifaInv
  OBVIOUS
<1>1. Vessels # {}
  BY Sizes, FS_EmptySet DEF NumOfVessels
<1> QED BY <1>1, Sizes DEF CanalInit, HaifaInit, HaifaInv

LEMMA HaifaInvStep == LegInv /\ EndInv /\ EndInv' /\ LegInv' /\ HaifaInv /\ CanalNext => HaifaInv'
<1> SUFFICES ASSUME LegInv, EndInv, EndInv', LegInv', HaifaInv, CanalNext PROVE HaifaInv'
  OBVIOUS
<1> USE Sizes DEF HaifaInv
<1>0. sail \in [Vessels -> {"none", "harbour", "crossing", "away", "home"}]
  BY DEF LegInv, HaifaTypeOK
<1>1. ASSUME NEW v \in Vessels, CreateVessel(v) PROVE HaifaInv'
  <2>1. /\ haifa = "creating" /\ sail[v] = "none" /\ UNCHANGED <<haifaMutex, completed>>
        /\ sail'[v] = "harbour" /\ \A w \in Vessels \ {v} : sail'[w] = sail[w]
        /\ haifa' = IF \A w \in Vessels \ {v} : sail[w] # "none" THEN "awaitVessels" ELSE haifa
    BY <1>0, <1>1 DEF CreateVessel, SailTo
  <2> QED BY <2>1
<1>2. ASSUME NEW v \in Vessels, HaifaVessel(v) PROVE HaifaInv'
  <2>1. CASE EnterCanal(v)
    BY <1>0, <2>1 DEF EnterCanal, SailTo
  <2>2. CASE LeaveCanal(v)
    BY <1>0, <2>2 DEF LeaveCanal, SailTo
  <2>3. CASE ComeHome(v)
    BY <1>0, <2>3 DEF ComeHome, SailTo
  <2> QED BY <1>2, <2>1, <2>2, <2>3 DEF HaifaVessel
<1>3. CASE ReadReturn
  BY <1>3 DEF ReadReturn, NumOfVessels
<1>4. CASE SeeEilatEnd \/ JoinAllVessels
  BY <1>4 DEF SeeEilatEnd, JoinAllVessels
<1>5. CASE EilatStep
  <2>1. UNCHANGED <<sail, haifaMutex, completed, haifa>>
    BY <1>5 DEF EilatStep, ArriveEilat, DepartEilat, haifaVars
  <2> QED BY <2>1
<1> QED BY <1>1, <1>2, <1>3, <1>4, <1>5 DEF CanalNext, HaifaStep

\* The two main threads and the vessels of both processes wait for each other in a ring:
\* Haifa for the vessels it sent, Eilat for the vessels it is sent, and both for the
\* cranes.  While nobody is overtaken at the cranes, somebody can always go on.
THEOREM CanalDoesNotHalt == CanalSpec => []CanalGoesOn
<1>1. CanalSpec => []HaifaInv
  <2>1. HaifaInv /\ UNCHANGED canalVars => HaifaInv'
    BY DEF HaifaInv, canalVars, haifaVars
  <2>2. LegInv /\ LegInv' /\ EndInv /\ EndInv' /\ HaifaInv /\ [CanalNext]_canalVars => HaifaInv'
    BY <2>1, HaifaInvStep
  <2> QED BY <2>2, HaifaInvInit, LegInvariance, EndInvariance, PTL DEF CanalSpec
<1>2. PortGoesOn /\ LegInv /\ EndInv /\ HaifaInv => CanalGoesOn
  <2> SUFFICES ASSUME PortGoesOn, LegInv, EndInv, HaifaInv, Running, ~overtaken,
                      ~PortCanStep, ~(port = "receiving" /\ toEilat # <<>>), ~HaifaCanStep,
                      ~(haifa = "awaitEilat" /\ EilatEnded), haifa # "exited"
               PROVE  FALSE
    BY DEF CanalGoesOn
  <2> USE DEF HaifaCanStep, HaifaVesselCanStep
  <2>1. \A v \in Vessels : sail[v] \notin {"harbour", "crossing"}
    BY DEF HaifaInv
  <2>2. \A v \in Vessels : sail[v] \in {"away", "home"}
    BY <2>1 DEF HaifaInv, LegInv, HaifaTypeOK
  <2>3. CASE port = "receiving"
    <3>1. PICK v \in Vessels : pc[v] = "atSea"
      BY <2>3 DEF PortGoesOn
    <3>2. sail[v] = "away"
      BY <2>2, <3>1 DEF LegInv, Leg
    <3>3. On(toEilat, v)
      BY <3>1, <3>2 DEF LegInv, Leg
    <3>4. ~On(<<>>, v)
      BY DEF On
    <3> QED BY <2>3, <3>3, <3>4
  <2>4. CASE port = "exited"
    <3>1. \A v \in Vessels : pc[v] = "gone"
      BY <2>4 DEF EndInv
    <3>2. Home \subseteq Vessels
      BY DEF Home
    <3>3. haifa # "creating"
      BY <2>2 DEF HaifaInv
    <3>4. CASE haifa = "awaitVessels"
      <4>1. toHaifa = <<>>
        BY <3>4
      <4>2. \A v \in Vessels : ~On(toHaifa, v)
        BY <4>1 DEF On
      <4>3. \A v \in Vessels : v \in Home
        BY <2>2, <3>1, <4>2 DEF LegInv, Leg, Home
      <4>4. Home = Vessels
        BY <3>2, <4>3
      <4> QED BY <3>4, <4>4 DEF EndInv, HaifaInv, NumOfVessels
    <3>5. CASE haifa = "joinVessels"
      <4>1. toHaifa = <<>>
        BY <3>5, AllHome DEF EndInv
      <4>2. \A v \in Vessels : ~On(toHaifa, v)
        BY <4>1 DEF On
      <4>3. \A v \in Vessels : sail[v] = "home"
        BY <2>2, <3>1, <4>2 DEF LegInv, Leg
      <4> QED BY <3>5, <4>3
    <3>6. haifa # "awaitEilat"
      BY <2>4 DEF EilatEnded
    <3> QED BY <3>3, <3>4, <3>5, <3>6 DEF HaifaInv
  <2> QED BY <2>3, <2>4 DEF PortGoesOn
<1>3. CanalSpec => []PortGoesOn
  BY EilatInCanal, PortDoesNotHalt, PTL
<1> QED BY <1>1, <1>2, <1>3, LegInvariance, EndInvariance, PTL
-----------------------------------------------------------------------------
(***************************************************************************)
(* The journey.                                                            *)
(***************************************************************************)
LEMMA Places ==
  ASSUME LegInv, NEW v \in Vessels
  PROVE  /\ sail[v] \in {"none", "harbour", "crossing"} <=> Place(v) = "Haifa"
         /\ v \in Home <=> Place(v) = "home"
         /\ sail[v] = "away" /\ pc[v] = "atSea" <=> Place(v) = "southbound"
         /\ sail[v] = "away" /\ pc[v] = "gone" /\ returned[v] # 1 <=> Place(v) = "northbound"
         /\ sail[v] = "away" /\ pc[v] \notin {"atSea", "gone"} <=> Place(v) = "Eilat"
<1>1. Leg(v) /\ sail[v] \in {"none", "harbour", "crossing", "away", "home"}
  BY DEF LegInv, HaifaTypeOK
<1>2. CASE sail[v] \in {"none", "harbour", "crossing"}
  BY <1>1, <1>2 DEF Place, Home, Leg
<1>3. CASE sail[v] = "home"
  BY <1>3 DEF Place, Home
<1>4. CASE sail[v] = "away"
  BY <1>1, <1>4 DEF Place, Home, Leg
<1> QED BY <1>1, <1>2, <1>3, <1>4

\* A step in which only v changes its place.
LEMMA OneMoves ==
  ASSUME LegInv, LegInv', NEW v \in Vessels,
         \A w \in Vessels \ {v} : /\ pc'[w] = pc[w] /\ sail'[w] = sail[w]
                                  /\ returned'[w] = returned[w]
  PROVE  [w \in Vessels |-> Place(w)'] = [[w \in Vessels |-> Place(w)] EXCEPT ![v] = Place(v)']
<1>1. \A w \in Vessels \ {v} : Place(w)' = Place(w)
  BY DEF Place
<1> QED BY <1>1

\* Every step of the two ports moves no vessel, or one to the next leg, in the order of
\* the pipe it comes from.
LEMMA JourneyStep == LegInv /\ LegInv' /\ [CanalNext]_canalVars => [Journey!Next]_Journey!vars
<1> SUFFICES ASSUME LegInv, LegInv', [CanalNext]_canalVars PROVE [Journey!Next]_Journey!vars
  OBVIOUS
<1>1. ASSUME UNCHANGED <<toEilat, toHaifa>>, \A v \in Vessels : Place(v)' = Place(v)
      PROVE  [Journey!Next]_Journey!vars
  BY <1>1 DEF Journey!vars
<1>2. ASSUME UNCHANGED <<pc, sail, toEilat, toHaifa, returned>> PROVE [Journey!Next]_Journey!vars
  BY <1>1, <1>2 DEF Place
<1>3. ASSUME NEW v \in Vessels, ArriveEilat(v) PROVE Journey!Next
  <2>1. /\ toEilat # <<>> /\ Head(toEilat) = v /\ toEilat' = Tail(toEilat)
        /\ UNCHANGED <<sail, toHaifa, returned>>
        /\ pc[v] = "atSea" /\ pc' = [pc EXCEPT ![v] = "lockAdt"]
    BY <1>3 DEF ArriveEilat, ReceiveVessel, Goto
  <2>2. On(toEilat, v) /\ Leg(v)
    BY <2>1, Received DEF LegInv, HaifaTypeOK
  <2>3. sail[v] = "away" /\ pc'[v] = "lockAdt"
    BY <2>1, <2>2 DEF Leg, LegInv
  <2>4. Place(v) = "southbound" /\ Place(v)' = "Eilat"
    BY <2>1, <2>3, Places DEF Place, Leg, LegInv
  <2>5. [w \in Vessels |-> Place(w)'] = [[w \in Vessels |-> Place(w)] EXCEPT ![v] = "Eilat"]
    BY <2>1, <2>4, OneMoves
  <2>6. Journey!ArriveEilat(v)
    BY <2>1, <2>4, <2>5 DEF Journey!ArriveEilat
  <2> QED BY <2>6 DEF Journey!Next
<1>4. ASSUME NEW v \in Vessels, DepartEilat(v) PROVE Journey!Next
  <2>1. /\ toHaifa' = Append(toHaifa, v) /\ UNCHANGED <<sail, toEilat, returned>>
        /\ pc[v] = "sailBack" /\ pc' = [pc EXCEPT ![v] = "gone"]
    BY <1>4 DEF DepartEilat, SailBack, Goto
  <2>2. returned[v] # 1 /\ sail[v] = "away" /\ pc'[v] = "gone"
    BY <2>1 DEF LegInv, Leg, HaifaTypeOK
  <2>3. Place(v) = "Eilat" /\ Place(v)' = "northbound"
    BY <2>1, <2>2, Places DEF Place
  <2>4. [w \in Vessels |-> Place(w)'] = [[w \in Vessels |-> Place(w)] EXCEPT ![v] = "northbound"]
    BY <2>1, <2>3, OneMoves
  <2>5. Journey!EnterNorth(v)
    BY <2>1, <2>3, <2>4 DEF Journey!EnterNorth
  <2> QED BY <2>5 DEF Journey!Next
<1>5. ASSUME NEW v \in Vessels, VesselInEilat(v), UNCHANGED haifaVars
      PROVE  [Journey!Next]_Journey!vars
  <2>1. /\ UNCHANGED <<sail, toEilat, toHaifa, returned>>
        /\ pc[v] \notin {"atSea", "gone"} /\ pc'[v] \notin {"atSea", "gone"}
        /\ \A w \in Vessels \ {v} : pc'[w] = pc[w]
    BY <1>5, InEilat DEF haifaVars
  <2>2. Place(v) = "Eilat" /\ Place(v)' = "Eilat"
    BY <2>1, Places DEF Place, LegInv, Leg, HaifaTypeOK
  <2>3. \A w \in Vessels \ {v} : Place(w)' = Place(w)
    BY <2>1 DEF Place
  <2> QED BY <1>1, <2>1, <2>2, <2>3
<1>6. ASSUME NEW v \in Vessels, CreateVessel(v) \/ EnterCanal(v), UNCHANGED vars
      PROVE  [Journey!Next]_Journey!vars
  <2>1. /\ sail[v] \in {"none", "harbour"} /\ UNCHANGED <<pc, toEilat, toHaifa, returned>>
        /\ \E l \in {"harbour", "crossing"} : sail' = [sail EXCEPT ![v] = l]
    BY <1>6 DEF CreateVessel, EnterCanal, SailTo, vars
  <2>2. /\ sail'[v] \in {"harbour", "crossing"} /\ returned'[v] # 1
        /\ \A w \in Vessels \ {v} : sail'[w] = sail[w]
    BY <2>1 DEF LegInv, HaifaTypeOK, Leg
  <2>3. Place(v)' = "Haifa" /\ Place(v) = "Haifa"
    <3>1. Place(v) = "Haifa"
      BY <2>1, Places
    <3>2. CASE sail'[v] = "harbour"
      BY <2>2, <3>1, <3>2 DEF Place
    <3>3. CASE sail'[v] = "crossing"
      BY <2>2, <3>1, <3>3 DEF Place
    <3> QED BY <2>2, <3>1, <3>2, <3>3
  <2>4. \A w \in Vessels \ {v} : Place(w)' = Place(w)
    BY <2>1, <2>2 DEF Place
  <2> QED BY <1>1, <2>1, <2>3, <2>4
<1>7. ASSUME NEW v \in Vessels, LeaveCanal(v), UNCHANGED vars PROVE Journey!Next
  <2>1. /\ toEilat' = Append(toEilat, v) /\ UNCHANGED <<pc, toHaifa, returned>>
        /\ sail[v] = "crossing" /\ sail' = [sail EXCEPT ![v] = "away"]
    BY <1>7 DEF LeaveCanal, SailTo, vars
  <2>2. pc[v] = "atSea" /\ returned[v] # 1 /\ sail'[v] = "away"
    BY <2>1 DEF LegInv, Leg, HaifaTypeOK
  <2>3. Place(v) = "Haifa" /\ Place(v)' = "southbound"
    BY <2>1, <2>2 DEF Place
  <2>4. [w \in Vessels |-> Place(w)'] = [[w \in Vessels |-> Place(w)] EXCEPT ![v] = "southbound"]
    BY <2>1, <2>3, OneMoves DEF LegInv, HaifaTypeOK
  <2>5. Journey!EnterSouth(v)
    BY <2>1, <2>3, <2>4 DEF Journey!EnterSouth
  <2> QED BY <2>5 DEF Journey!Next
<1>8. ASSUME NEW v \in Vessels, ComeHome(v), UNCHANGED vars PROVE [Journey!Next]_Journey!vars
  <2>1. /\ UNCHANGED <<pc, toEilat, toHaifa>> /\ returned[v] = 1 /\ sail[v] = "away"
        /\ returned' = [returned EXCEPT ![v] = 0] /\ sail' = [sail EXCEPT ![v] = "home"]
    BY <1>8 DEF ComeHome, SailTo, vars
  <2>2. /\ sail'[v] = "home"
        /\ \A w \in Vessels \ {v} : sail'[w] = sail[w] /\ returned'[w] = returned[w]
    BY <2>1 DEF LegInv, HaifaTypeOK
  <2>3. Place(v) = "home" /\ Place(v)' = "home"
    BY <2>1, <2>2 DEF Place
  <2>4. \A w \in Vessels \ {v} : Place(w)' = Place(w)
    BY <2>1, <2>2 DEF Place
  <2> QED BY <1>1, <2>1, <2>3, <2>4
<1>9. ASSUME ReadReturn, UNCHANGED vars PROVE Journey!Next
  <2>1. /\ toHaifa # <<>> /\ toHaifa' = Tail(toHaifa) /\ UNCHANGED <<pc, sail, toEilat>>
        /\ returned' = [returned EXCEPT ![Head(toHaifa)] = 1]
    BY <1>9 DEF ReadReturn, vars
  <2>2. PICK v \in Vessels : v = Head(toHaifa) /\ On(toHaifa, v)
    BY <2>1, Received DEF LegInv, HaifaTypeOK
  <2>3. sail[v] = "away" /\ pc[v] = "gone" /\ returned[v] # 1 /\ returned'[v] = 1
    BY <2>1, <2>2 DEF LegInv, Leg, HaifaTypeOK
  <2>4. Place(v) = "northbound" /\ Place(v)' = "home"
    BY <2>1, <2>3 DEF Place
  <2>5. [w \in Vessels |-> Place(w)'] = [[w \in Vessels |-> Place(w)] EXCEPT ![v] = "home"]
    BY <2>1, <2>2, <2>4, OneMoves DEF LegInv, HaifaTypeOK
  <2>6. Journey!ArriveHaifa(v)
    BY <2>1, <2>2, <2>4, <2>5 DEF Journey!ArriveHaifa
  <2> QED BY <2>6 DEF Journey!Next
<1>10. ASSUME NEW i \in CraneIdx, StartCrane(i) \/ CreateSemaphores(i) \/ Crane(i), UNCHANGED haifaVars
       PROVE  [Journey!Next]_Journey!vars
  BY <1>2, <1>10 DEF StartCrane, CreateSemaphores, Crane, TakeJob, PhantomJob, FinishJob, haifaVars
<1>11. ASSUME JoinVessels \/ JoinCranes, UNCHANGED haifaVars PROVE [Journey!Next]_Journey!vars
  BY <1>2, <1>11 DEF JoinVessels, JoinCranes, haifaVars
<1>12. ASSUME JoinAllVessels \/ SeeEilatEnd, UNCHANGED vars PROVE [Journey!Next]_Journey!vars
  BY <1>2, <1>12 DEF JoinAllVessels, SeeEilatEnd, vars
<1>13. CASE UNCHANGED canalVars
  BY <1>2, <1>13 DEF canalVars, vars, haifaVars
<1> QED BY <1>3, <1>4, <1>5, <1>6, <1>7, <1>8, <1>9, <1>10, <1>11, <1>12, <1>13
        DEF CanalNext, EilatStep, HaifaStep, HaifaVessel

\* The two processes, for every number of vessels and cranes, do nothing but take
\* vessels on their round trips, one leg after the other.
THEOREM Refinement == CanalSpec => ImplementsJourney
<1>1. CanalInit => Journey!Init
  BY DEF CanalInit, HaifaInit, Journey!Init, Place
<1> QED BY <1>1, JourneyStep, LegInvariance, PTL DEF CanalSpec, ImplementsJourney, Journey!Spec
=============================================================================
