-------------------------- MODULE GameLobby_proofs --------------------------
(* Proofs about the sessions, for any number of clients and any answers: a      *)
(* descriptor leads to one slot, the updater thread is created once, and nobody *)
(* gets into a game that has no board.                                          *)
EXTENDS GameLobby, FiniteSetTheorems, TLAPS

Slots == DOMAIN state

Typing ==
    /\ fd \in [Clients -> 0 .. Cardinality(Clients)]
    /\ known \in Seq(0 .. Cardinality(Clients))
    /\ state \in Seq(States) /\ Len(known) = Len(state)
    /\ initiator \in {-1, 0} /\ updaters \in Nat

(* start_game has run for the first slot, which can never again acknowledge.    *)
StarterIsDone ==
    updaters # 0 => /\ updaters = 1
                    /\ server = "up" =>
                         /\ 1 \in Slots
                         /\ state[1] \in {"INSIDE_A_GAME", "DEAD", "DISCONNECTED"}

IInv == Typing /\ OneSlotPerDescriptor /\ StarterIsDone /\ GameHasBoard

(* getPlayerIndex: a client that is found in a slot is found in that one only.  *)
LEMMA SlotFound ==
  ASSUME Typing, OneSlotPerDescriptor, NEW c \in Clients, fd[c] # 0, SlotsOf(c) # {}
  PROVE  Slot(c) \in Slots /\ Slot(c) \in Nat \ {0} /\ known[Slot(c)] = fd[c]
<1>1. PICK s \in SlotsOf(c) : TRUE
  OBVIOUS
<1>2. SlotsOf(c) \subseteq Nat \ {0}
  BY DEF SlotsOf, Typing
<1>3. \A t \in SlotsOf(c) : t = s
  BY <1>1 DEF SlotsOf, OneSlotPerDescriptor
<1>4. Slot(c) \in SlotsOf(c)
  BY <1>1, <1>2, <1>3 DEF Slot
<1> QED
  BY <1>2, <1>4 DEF SlotsOf, Typing, Slots

(* What a handler does that only moves one slot on.                             *)
LEMMA OneSlotMoves ==
  ASSUME IInv, NEW s \in Slots, NEW st \in States,
         state' = [state EXCEPT ![s] = st],
         UNCHANGED <<known, initiator, board, updaters>>,
         fd' \in [Clients -> 0 .. Cardinality(Clients)],
         OneSlotPerDescriptor',
         s = 1 /\ updaters # 0 => st \in {"INSIDE_A_GAME", "DEAD", "DISCONNECTED"},
         server' = "up" => server = "up",
         st \in {"WAITING_FOR_CLIENT_TO_ACK_GAME", "INSIDE_A_GAME"} /\ server' = "up" => board
  PROVE  IInv'
  BY DEF IInv, Typing, Slots, StarterIsDone, GameHasBoard

LEMMA Initially == Init => IInv
<1> SUFFICES ASSUME Init PROVE IInv
  OBVIOUS
<1>1. Cardinality(Clients) \in Nat
  BY FS_CardinalityType, LobbyAssumption
<1> QED
  BY <1>1 DEF Init, IInv, Typing, OneSlotPerDescriptor, StarterIsDone, GameHasBoard,
              Slots, States

(* Steps of the clients, and of the updater's end, leave the slots alone.       *)
LEMMA Elsewhere ==
  ASSUME IInv, UNCHANGED <<known, state, initiator, board, updaters, fd>>,
         server' = "up" => server = "up"
  PROVE  IInv'
  BY DEF IInv, Typing, OneSlotPerDescriptor, StarterIsDone, GameHasBoard, Slots

(* Closing a descriptor, and forgetting one, keeps them apart.                  *)
LEMMA Apart ==
  ASSUME Typing, OneSlotPerDescriptor, NEW c \in Clients, NEW s \in DOMAIN known,
         \/ known' = known
         \/ known' = [known EXCEPT ![s] = 0],
         \/ fd' = fd
         \/ fd' = [fd EXCEPT ![c] = 0]
  PROVE  /\ OneSlotPerDescriptor'
         /\ fd' \in [Clients -> 0 .. Cardinality(Clients)]
         /\ known' \in Seq(0 .. Cardinality(Clients)) /\ Len(known') = Len(known)
<1>1. Cardinality(Clients) \in Nat
  BY FS_CardinalityType, LobbyAssumption
<1> DEFINE D == 0 .. Cardinality(Clients)
<1>0. 0 \in D /\ fd \in [Clients -> D]
  BY <1>1 DEF Typing
<1> HIDE DEF D
<1>2. fd' \in [Clients -> D]
  <2>1. CASE fd' = fd
    BY <1>0, <2>1
  <2>2. CASE fd' = [fd EXCEPT ![c] = 0]
    BY <1>0, <2>2
  <2> QED
    BY <2>1, <2>2
<1>3. \A d \in Clients : fd'[d] \in {0, fd[d]}
  BY DEF Typing
<1>4. known' \in Seq(0 .. Cardinality(Clients)) /\ Len(known') = Len(known)
  <2>1. CASE known' = known
    BY <2>1 DEF Typing
  <2>2. CASE known' = [known EXCEPT ![s] = 0]
    BY <1>1, <2>2 DEF Typing
  <2> QED
    BY <2>1, <2>2
<1>5. DOMAIN known' = DOMAIN known /\ \A t \in DOMAIN known : known'[t] \in {0, known[t]}
  BY <1>4 DEF Typing
<1>6. OneSlotPerDescriptor'
  BY <1>3, <1>5 DEF OneSlotPerDescriptor
<1> QED
  BY <1>2, <1>4, <1>6 DEF D

LEMMA AcceptStep == ASSUME IInv, NEW c \in Clients, Accept(c) PROVE IInv'
<1>1. PICK f \in FreeDescriptors : fd' = [fd EXCEPT ![c] = f]
  BY DEF Accept
<1>2. f \in 0 .. Cardinality(Clients) /\ \A d \in Clients : fd[d] # f
  BY <1>1, FS_CardinalityType, LobbyAssumption DEF FreeDescriptors
<1> QED
  BY <1>1, <1>2 DEF Accept, IInv, Typing, OneSlotPerDescriptor, StarterIsDone,
                    GameHasBoard, Slots, session, game, thread

LEMMA NewPlayerStep ==
  ASSUME IInv, server = "up", NEW c \in Clients, fd[c] # 0, NewPlayer(c)
  PROVE  IInv'
<1>1. /\ known \in Seq(0 .. Cardinality(Clients)) /\ state \in Seq(States)
      /\ Len(known) = Len(state) /\ fd[c] \in 0 .. Cardinality(Clients)
  BY DEF IInv, Typing
<1>2. /\ known' = Append(known, fd[c]) /\ state' = Append(state, "WAS_ASKED_FOR_NAME")
      /\ UNCHANGED <<fd, initiator, board, updaters>>
  BY DEF NewPlayer
<1>3. \A s \in DOMAIN known : known[s] # fd[c]
  BY DEF NewPlayer, SlotsOf
<1>4. "WAS_ASKED_FOR_NAME" \in States
  BY DEF States
<1>5. Typing'
  BY <1>1, <1>2, <1>4 DEF IInv, Typing
<1>6. OneSlotPerDescriptor'
  BY <1>1, <1>2, <1>3 DEF IInv, OneSlotPerDescriptor
<1>7. StarterIsDone'
  BY <1>1, <1>2 DEF IInv, StarterIsDone, Slots
<1>8. GameHasBoard'
  BY <1>1, <1>2 DEF IInv, GameHasBoard
<1> QED
  BY <1>5, <1>6, <1>7, <1>8 DEF IInv

LEMMA DisconnectStep ==
  ASSUME IInv, NEW c \in Clients, fd[c] # 0, SlotsOf(c) # {}, Disconnect(c), server = "up"
  PROVE  IInv'
<1>1. Slot(c) \in Slots /\ Slot(c) \in DOMAIN known
  BY SlotFound DEF IInv, Typing, Slots
<1>2. OneSlotPerDescriptor' /\ fd' \in [Clients -> 0 .. Cardinality(Clients)]
      /\ known' \in Seq(0 .. Cardinality(Clients)) /\ Len(known') = Len(known)
  BY <1>1, Apart DEF Disconnect, IInv
<1>3. /\ state' = [state EXCEPT ![Slot(c)] = "DISCONNECTED"]
      /\ UNCHANGED <<initiator, board, updaters>>
  BY DEF Disconnect
<1>4. "DISCONNECTED" \in States
  BY DEF States
<1> QED
  BY <1>1, <1>2, <1>3, <1>4 DEF IInv, Typing, Slots, StarterIsDone, GameHasBoard

(* getUserAck: only the first slot's acknowledgement creates the thread.        *)
LEMMA AckStep ==
  ASSUME IInv, server = "up", NEW c \in Clients, fd[c] # 0, GetUserAck(c)
  PROVE  IInv'
<1>1. SlotsOf(c) # {} /\ state[Slot(c)] = "WAITING_FOR_CLIENT_TO_ACK_GAME"
  BY DEF GetUserAck, Acknowledging, InState
<1>2. Slot(c) \in Slots /\ Slot(c) \in Nat \ {0}
  BY <1>1, SlotFound DEF IInv
<1>3. /\ \/ state' = [state EXCEPT ![Slot(c)] = "INSIDE_A_GAME"]
         \/ state' = state /\ server' = "exited"
      /\ UNCHANGED <<fd, known, initiator, board>>
  BY DEF GetUserAck
<1>4. "INSIDE_A_GAME" \in States
  BY DEF States
<1>5. Typing'
  <2>1. state' \in Seq(States) /\ Len(state') = Len(state)
    BY <1>2, <1>3, <1>4 DEF IInv, Typing, Slots
  <2>2. updaters' \in Nat
    BY DEF GetUserAck, IInv, Typing
  <2> QED
    BY <1>3, <2>1, <2>2 DEF IInv, Typing
<1>6. OneSlotPerDescriptor'
  BY <1>3 DEF IInv, OneSlotPerDescriptor
<1>7. StarterIsDone'
  <2>1. CASE initiator = Slot(c) - 1
    <3>1. Slot(c) = 1
      BY <1>2, <2>1 DEF IInv, Typing
    <3>2. updaters = 0
      BY <1>1, <3>1 DEF IInv, StarterIsDone
    <3>3. updaters' = 1
      BY <2>1, <3>2 DEF GetUserAck
    <3> QED
      BY <1>2, <1>3, <3>1, <3>3 DEF IInv, Typing, Slots, StarterIsDone
  <2>2. CASE initiator # Slot(c) - 1
    BY <1>2, <1>3, <2>2 DEF IInv, Typing, Slots, StarterIsDone, GetUserAck
  <2> QED
    BY <2>1, <2>2
<1>8. GameHasBoard'
  BY <1>1, <1>2, <1>3 DEF IInv, Typing, Slots, GameHasBoard
<1> QED
  BY <1>5, <1>6, <1>7, <1>8 DEF IInv

(* Every handler keeps the invariant.  Most move one slot to a state that the   *)
(* first slot is not in once it has started the game.                           *)
LEMMA HandlerStep ==
  ASSUME IInv, NEW c \in Clients, handle_player_event(c)
  PROVE  IInv'
<1>1. fd[c] # 0 /\ server = "up"
  BY DEF handle_player_event, Serving
<1>2. SlotsOf(c) # {} => Slot(c) \in Slots
  BY <1>1, SlotFound DEF IInv
<1>3. fd \in [Clients -> 0 .. Cardinality(Clients)] /\ OneSlotPerDescriptor
  BY DEF IInv, Typing
<1>4. ASSUME NEW st \in States \ {"WAITING_FOR_CLIENT_TO_ACK_GAME", "INSIDE_A_GAME"},
             NEW from, InState(c, from),
             from \cap {"INSIDE_A_GAME", "DEAD", "DISCONNECTED"} = {},
             state' = [state EXCEPT ![Slot(c)] = st],
             UNCHANGED <<known, fd, initiator, board, updaters>>
      PROVE  IInv'
  <2>1. Slot(c) \in Slots /\ state[Slot(c)] \in from
    BY <1>2, <1>4 DEF InState
  <2>2. OneSlotPerDescriptor'
    BY <1>3, <1>4 DEF OneSlotPerDescriptor
  <2>3. ~(Slot(c) = 1 /\ updaters # 0)
    BY <1>1, <1>4, <2>1 DEF IInv, StarterIsDone
  <2> QED
    BY <1>1, <1>3, <1>4, <2>1, <2>2, <2>3, OneSlotMoves
<1>5. States = {"DISCONNECTED", "WAS_ASKED_FOR_NAME", "WAITING_FOR_NAME",
                "WAITING_FOR_CHOICE", "WAITING_FOR_CLIENT_TO_ACK_GAME",
                "INSIDE_A_GAME", "DEAD"}
  BY DEF States
<1> DEFINE Asked == {"WAS_ASKED_FOR_NAME", "WAITING_FOR_NAME"}
<1>6. CASE NewPlayer(c) \/ OverrunTable(c)
  BY <1>1, <1>6, NewPlayerStep, Elsewhere DEF OverrunTable, session, game
<1>7. CASE NoName(c)
  <2>1. CASE UNCHANGED state
    BY <1>1, <1>7, <2>1, Elsewhere DEF NoName, game
  <2>2. CASE state' = [state EXCEPT ![Slot(c)] = "WAITING_FOR_NAME"]
    BY <1>4, <1>5, <1>7, <2>2 DEF NoName, game
  <2> QED
    BY <1>7, <2>1, <2>2 DEF NoName
<1>8. CASE ReadName(c)
  <2>1. CASE Disconnect(c)
    BY <1>1, <1>8, <2>1, DisconnectStep DEF ReadName, InState
  <2>2. CASE UNCHANGED <<known, state, fd, game>>
    BY <1>1, <2>2, Elsewhere DEF game
  <2>3. CASE /\ state' = [state EXCEPT ![Slot(c)] = "WAITING_FOR_CHOICE"]
             /\ UNCHANGED <<known, fd, game>>
    BY <1>4, <1>5, <1>8, <2>3 DEF ReadName, game
  <2> QED
    BY <1>8, <2>1, <2>2, <2>3 DEF ReadName
<1>9. CASE NoChoice(c)
  <2>1. CASE Disconnect(c)
    BY <1>1, <1>9, <2>1, DisconnectStep DEF NoChoice, Choosing, InState
  <2>2. CASE UNCHANGED <<known, state, fd, game>>
    BY <1>1, <2>2, Elsewhere DEF game
  <2> QED
    BY <1>9, <2>1, <2>2 DEF NoChoice
<1>10. CASE StartNewGame(c)
  <2>1. Slot(c) \in Slots /\ state[Slot(c)] = "WAITING_FOR_CHOICE"
    BY <1>2, <1>10 DEF StartNewGame, Choosing, InState
  <2>2. CASE started
    BY <1>1, <1>10, <2>2, Elsewhere DEF StartNewGame
  <2>3. CASE ~started
    <3>1. /\ state' = [state EXCEPT ![Slot(c)] = "WAITING_FOR_CLIENT_TO_ACK_GAME"]
          /\ initiator' = 0 /\ board' = TRUE
          /\ UNCHANGED <<fd, known, updaters>>
      BY <1>10, <2>3 DEF StartNewGame
    <3>2. Typing' /\ OneSlotPerDescriptor'
      BY <1>5, <2>1, <3>1 DEF IInv, Typing, Slots, OneSlotPerDescriptor
    <3>3. StarterIsDone'
      BY <1>1, <2>1, <3>1 DEF IInv, Typing, Slots, StarterIsDone
    <3> QED
      BY <3>1, <3>2, <3>3 DEF IInv, GameHasBoard
  <2> QED
    BY <2>2, <2>3
<1>11. CASE JoinExistingGame(c)
  <2>1. Slot(c) \in Slots /\ state[Slot(c)] = "WAITING_FOR_CHOICE"
    BY <1>2, <1>11 DEF JoinExistingGame, Choosing, InState
  <2>2. /\ state' = [state EXCEPT ![Slot(c)] = "WAITING_FOR_CLIENT_TO_ACK_GAME"]
        /\ UNCHANGED <<fd, known, initiator, board, updaters>>
        /\ ~board => server' = "crashed"
    BY <1>11 DEF JoinExistingGame, game
  <2>3. Typing' /\ OneSlotPerDescriptor'
    BY <1>5, <2>1, <2>2 DEF IInv, Typing, Slots, OneSlotPerDescriptor
  <2>4. StarterIsDone'
    BY <1>1, <2>1, <2>2 DEF IInv, Typing, Slots, StarterIsDone
  <2>5. GameHasBoard'
    BY <2>2 DEF GameHasBoard
  <2> QED
    BY <2>3, <2>4, <2>5 DEF IInv
<1>12. CASE WaitForOthers(c)
  BY <1>4, <1>5, <1>12 DEF WaitForOthers, Choosing, game
<1>13. CASE KickOut(c)
  <2>1. Slot(c) \in DOMAIN known
    BY <1>2, <1>13 DEF KickOut, Choosing, InState, IInv, Typing, Slots
  <2>2. /\ fd' = [fd EXCEPT ![c] = 0]
        /\ UNCHANGED <<known, state, initiator, board, updaters, server>>
    BY <1>13 DEF KickOut, session, game, thread
  <2>3. OneSlotPerDescriptor' /\ fd' \in [Clients -> 0 .. Cardinality(Clients)]
    BY <2>1, <2>2, Apart DEF IInv
  <2> QED
    BY <2>2, <2>3 DEF IInv, Typing, StarterIsDone, GameHasBoard, Slots
<1>14. CASE GetUserAck(c)
  BY <1>1, <1>14, AckStep
<1>15. CASE NoUserAck(c)
  BY <1>15, Elsewhere DEF NoUserAck, session, game
<1>16. CASE ReadMoves(c)
  BY <1>16, Elsewhere DEF ReadMoves, game, thread
<1>17. CASE NoMoves(c)
  <2>1. CASE Disconnect(c)
    BY <1>1, <1>17, <2>1, DisconnectStep DEF NoMoves, InState
  <2>2. CASE UNCHANGED <<known, state, fd, game>>
    BY <1>1, <2>2, Elsewhere DEF game
  <2> QED
    BY <1>17, <2>1, <2>2 DEF NoMoves
<1>18. CASE Ignore(c)
  BY <1>18, Elsewhere DEF Ignore, session, game, thread
<1> QED
  BY <1>6, <1>7, <1>8, <1>9, <1>10, <1>11, <1>12, <1>13, <1>14, <1>15, <1>16, <1>17,
     <1>18 DEF handle_player_event

(* A descriptor that is forgotten leads to no slot.                             *)
LEMMA ForgetStep ==
  ASSUME IInv, NEW c \in Clients, Forget(c)
  PROVE  /\ IInv' /\ Len(known') = Len(known)
         /\ UNCHANGED <<client, state, name, game, thread>>
<1>1. /\ known' = [known EXCEPT ![Slot(c)] = 0] /\ fd[c] # 0 /\ SlotsOf(c) # {}
      /\ UNCHANGED <<client, state, name, game, thread>>
  BY DEF Forget, InState
<1>2. Slot(c) \in DOMAIN known
  BY <1>1, SlotFound DEF IInv, Typing, Slots
<1>3. /\ OneSlotPerDescriptor' /\ fd' \in [Clients -> 0 .. Cardinality(Clients)]
      /\ known' \in Seq(0 .. Cardinality(Clients)) /\ Len(known') = Len(known)
  BY <1>1, <1>2, Apart DEF client, IInv
<1> QED
  BY <1>1, <1>3 DEF IInv, Typing, StarterIsDone, GameHasBoard, Slots, game, thread

(* The updater books every death on the first slot.                             *)
LEMMA CaughtStep == ASSUME IInv, Caught PROVE IInv'
<1>1. /\ 1 \in Slots /\ "DEAD" \in States
      /\ state' = [state EXCEPT ![1] = "DEAD"]
      /\ UNCHANGED <<fd, known, initiator, board, updaters, server>>
  BY DEF Caught, client, thread, IInv, Typing, Slots, States
<1>2. OneSlotPerDescriptor'
  BY <1>1 DEF IInv, OneSlotPerDescriptor
<1> QED
  BY <1>1, <1>2 DEF IInv, Typing, Slots, StarterIsDone, GameHasBoard

-----------------------------------------------------------------------------
(* The count of the players: the table bounds it away from its modulus.         *)
Alive  == {s \in Slots : state[s] # "DISCONNECTED"}

CountInv ==
    /\ stage \in [Clients -> {"away", "lobby", "playing", "gone"}]
    /\ \A c \in Clients : stage[c] = "away" => fd[c] = 0
    /\ alive \in 0 .. CountMod - 1
    /\ Len(known) <= MaxPlayers
    /\ AliveCount

LEMMA Counts ==
  ASSUME IInv
  PROVE  /\ CountMod \in Nat /\ MaxPlayers \in Nat /\ CountMod > MaxPlayers + 1
         /\ Len(known) \in Nat /\ Slots = 1 .. Len(known)
         /\ IsFiniteSet(Alive) /\ Cardinality(Alive) \in Nat /\ Cardinality(Alive) <= Len(known)
<1>1. CountMod \in Nat /\ MaxPlayers \in Nat /\ CountMod > MaxPlayers + 1
  BY LobbyAssumption
<1>2. Len(known) \in Nat /\ Slots = 1 .. Len(known)
  BY DEF IInv, Typing, Slots
<1>3. IsFiniteSet(Slots) /\ Cardinality(Slots) = Len(known)
  BY <1>2, FS_Interval
<1>4. Alive \subseteq Slots
  BY DEF Alive
<1> QED
  BY <1>1, <1>2, <1>3, <1>4, FS_Subset, FS_CardinalityType

(* An unsigned counter below its modulus goes one up or one down.               *)
LEMMA Modulo ==
  ASSUME NEW m \in Nat, NEW x \in Nat, x + 1 < m
  PROVE  /\ (x + 1) % m = x + 1
         /\ x # 0 => (x + m - 1) % m = x - 1
         /\ \A y \in Nat : y % m \in 0 .. m - 1
<1>1. (x + 1) % m = x + 1
  OBVIOUS
<1>2. \A y \in Nat : y % m \in 0 .. m - 1
  OBVIOUS
<1>3. ASSUME x # 0 PROVE (x + m - 1) % m = x - 1
  <2>1. x + m - 1 = m * 1 + (x - 1) /\ x - 1 \in 0 .. m - 1
    BY <1>3
  <2> QED BY <2>1
<1> QED
  BY <1>1, <1>2, <1>3

(* A step that makes no slot and takes no player out.                           *)
LEMMA CountUndisturbed ==
  ASSUME IInv, IInv', CountInv, UNCHANGED alive, UNCHANGED Alive, Len(known') = Len(known),
         \A s \in Slots : state[s] = "DEAD" => state'[s] = "DEAD",
         stage' \in [Clients -> {"away", "lobby", "playing", "gone"}],
         \A c \in Clients : stage'[c] = "away" => fd'[c] = 0
  PROVE  CountInv'
<1>1. Slots' = Slots
  <2>1. state' \in Seq(States) /\ Len(known') = Len(state')
    BY DEF IInv, Typing, States
  <2>2. Slots' = 1 .. Len(known')
    BY <2>1 DEF Slots
  <2> QED
    BY <2>2, Counts
<1>2. AliveCount'
  BY <1>1 DEF CountInv, AliveCount, Alive, Slots
<1> QED
  BY <1>2 DEF CountInv

(* addToKnownPlayers: one more slot, while there is one.                        *)
LEMMA CountIn ==
  ASSUME IInv, IInv', CountInv, NEW c \in Clients, fd[c] # 0, NewPlayer(c)
  PROVE  CountInv'
<1>1. /\ Len(known) < MaxPlayers /\ alive' = (alive + 1) % CountMod
      /\ known' = Append(known, fd[c]) /\ state' = Append(state, "WAS_ASKED_FOR_NAME")
      /\ UNCHANGED <<stage, fd>>
  BY DEF NewPlayer
<1>2. /\ known \in Seq(0 .. Cardinality(Clients)) /\ state \in Seq(States)
      /\ Len(known) = Len(state)
  BY DEF IInv, Typing
<1>3. Len(known') = Len(known) + 1 /\ Slots' = Slots \cup {Len(known) + 1}
  BY <1>1, <1>2 DEF Slots
<1>4. \A s \in Slots : state'[s] = state[s]
  BY <1>1, <1>2 DEF Slots
<1>5. state'[Len(known) + 1] = "WAS_ASKED_FOR_NAME"
  BY <1>1, <1>2
<1>8. Len(known') <= MaxPlayers
  BY <1>1, <1>3, Counts
<1>9. alive' \in 0 .. CountMod - 1
  BY <1>1, Counts, Modulo, LobbyAssumption DEF CountInv
<1>10. AliveCount'
  <2> SUFFICES ASSUME \A s \in Slots' : state'[s] # "DEAD" PROVE alive' = Cardinality(Alive')
    BY DEF AliveCount, Alive, Slots
  <2>1. alive = Cardinality(Alive)
    BY <1>3, <1>4 DEF CountInv, AliveCount, Alive, Slots
  <2>2. Alive' = Alive \cup {Len(known) + 1}
    BY <1>3, <1>4, <1>5 DEF Alive
  <2>3. Len(known) + 1 \notin Alive
    BY Counts DEF Alive
  <2>4. Cardinality(Alive') = Cardinality(Alive) + 1
    BY <2>2, <2>3, Counts, FS_AddElement
  <2>5. alive + 1 < CountMod /\ alive \in Nat
    BY <1>1, <2>1, Counts
  <2> QED
    BY <1>1, <2>1, <2>4, <2>5, Counts, Modulo
<1> QED
  BY <1>1, <1>8, <1>9, <1>10 DEF CountInv

(* handle_disconnected_player: one of the living less.                          *)
LEMMA CountOut ==
  ASSUME IInv, IInv', CountInv, NEW c \in Clients, fd[c] # 0, SlotsOf(c) # {}, Disconnect(c),
         state[Slot(c)] \notin {"DEAD", "DISCONNECTED"}, UNCHANGED stage
  PROVE  CountInv'
<1>1. /\ state' = [state EXCEPT ![Slot(c)] = "DISCONNECTED"]
      /\ known' = [known EXCEPT ![Slot(c)] = 0] /\ fd' = [fd EXCEPT ![c] = 0]
      /\ alive' = (alive + CountMod - 1) % CountMod
  BY DEF Disconnect
<1>2. /\ known \in Seq(0 .. Cardinality(Clients)) /\ state \in Seq(States)
      /\ Len(known) = Len(state) /\ fd \in [Clients -> 0 .. Cardinality(Clients)]
  BY DEF IInv, Typing
<1>3. Slot(c) \in Slots /\ known[Slot(c)] = fd[c]
  BY SlotFound DEF IInv
<1>4. Slots' = Slots /\ Len(known') = Len(known) /\ DOMAIN known = Slots /\ DOMAIN known' = Slots
  BY <1>1, <1>2 DEF Slots
<1>5. /\ state'[Slot(c)] = "DISCONNECTED" /\ fd'[c] = 0
      /\ \A s \in Slots \ {Slot(c)} : state'[s] = state[s] /\ known'[s] = known[s]
      /\ \A d \in Clients \ {c} : fd'[d] = fd[d]
  BY <1>1, <1>2, <1>3, <1>4 DEF Slots
<1>7. Len(known') <= MaxPlayers
  BY <1>4 DEF CountInv
<1>8. alive' \in 0 .. CountMod - 1
  <2>1. alive \in Nat /\ alive + CountMod - 1 \in Nat
    BY Counts DEF CountInv
  <2> QED
    BY <1>1, <2>1, Counts, Modulo
<1>9. AliveCount'
  <2> SUFFICES ASSUME \A s \in Slots : state'[s] # "DEAD" PROVE alive' = Cardinality(Alive')
    BY <1>4 DEF AliveCount, Alive, Slots
  <2>1. alive = Cardinality(Alive)
    BY <1>5 DEF CountInv, AliveCount, Alive, Slots
  <2>2. Alive' = Alive \ {Slot(c)} /\ Slot(c) \in Alive
    BY <1>3, <1>4, <1>5 DEF Alive
  <2>3. Cardinality(Alive') = Cardinality(Alive) - 1
    BY <2>2, Counts, FS_RemoveElement
  <2>4. alive # 0 /\ alive \in Nat /\ alive + 1 < CountMod
    BY <2>1, <2>2, Counts, FS_EmptySet DEF CountInv
  <2> QED
    BY <1>1, <2>1, <2>3, <2>4, Counts, Modulo
<1>10. \A d \in Clients : stage'[d] = "away" => fd'[d] = 0
  BY <1>5 DEF CountInv
<1> QED
  BY <1>7, <1>8, <1>9, <1>10 DEF CountInv

(* A step that at most moves one living player on, or lets a client change its  *)
(* stage without coming or returning.                                           *)
LEMMA CountMovesOn ==
  ASSUME IInv, IInv', CountInv, UNCHANGED <<known, fd, alive>>,
         stage' \in [Clients -> {"away", "lobby", "playing", "gone"}],
         \A d \in Clients : stage'[d] = "away" <=> stage[d] = "away",
         \/ UNCHANGED state
         \/ \E s \in Slots, st \in States \ {"DEAD", "DISCONNECTED"} :
              /\ state' = [state EXCEPT ![s] = st]
              /\ state[s] \notin {"DEAD", "DISCONNECTED"}
  PROVE  CountInv'
<1>2. UNCHANGED Alive /\ \A s \in Slots : state[s] = "DEAD" => state'[s] = "DEAD"
  <2>1. CASE UNCHANGED state
    BY <2>1 DEF Alive, Slots
  <2>2. ASSUME NEW s \in Slots, NEW st \in States \ {"DEAD", "DISCONNECTED"},
               state' = [state EXCEPT ![s] = st], state[s] \notin {"DEAD", "DISCONNECTED"}
        PROVE  UNCHANGED Alive /\ \A t \in Slots : state[t] = "DEAD" => state'[t] = "DEAD"
    BY <2>2 DEF Alive, Slots, IInv, Typing
  <2> QED
    BY <2>1, <2>2
<1>3. \A d \in Clients : stage'[d] = "away" => fd'[d] = 0
  BY DEF CountInv
<1> QED
  BY <1>2, <1>3, CountUndisturbed

LEMMA AcceptCount ==
  ASSUME IInv, IInv', CountInv, NEW c \in Clients, Accept(c)
  PROVE  CountInv'
<1>1. /\ stage[c] = "away" /\ stage' = [stage EXCEPT ![c] = "lobby"]
      /\ UNCHANGED <<known, state, alive>>
      /\ \A d \in Clients \ {c} : fd'[d] = fd[d]
  BY DEF Accept, session, game, IInv, Typing
<1>3. UNCHANGED Alive /\ \A s \in Slots : state[s] = "DEAD" => state'[s] = "DEAD"
  BY <1>1 DEF Alive, Slots
<1>4. /\ stage' \in [Clients -> {"away", "lobby", "playing", "gone"}]
      /\ \A d \in Clients : stage'[d] = "away" => fd'[d] = 0
  BY <1>1 DEF CountInv
<1> QED
  BY <1>1, <1>3, <1>4, CountUndisturbed

LEMMA HandlerCount ==
  ASSUME IInv, IInv', CountInv, NEW c \in Clients, handle_player_event(c)
  PROVE  CountInv'
<1>1. fd[c] # 0 /\ stage \in [Clients -> {"away", "lobby", "playing", "gone"}] /\ stage[c] # "away"
  BY DEF handle_player_event, CountInv
<1>2. SlotsOf(c) # {} => Slot(c) \in Slots
  BY <1>1, SlotFound DEF IInv
<1>3. \A st \in {"WAITING_FOR_NAME", "WAITING_FOR_CHOICE", "WAITING_FOR_CLIENT_TO_ACK_GAME",
                "INSIDE_A_GAME"} : st \in States \ {"DEAD", "DISCONNECTED"}
  BY DEF States
<1>4. ASSUME UNCHANGED <<stage, known, state, fd, alive>> PROVE CountInv'
  BY <1>1, <1>4, CountMovesOn
<1>5. ASSUME NEW from, InState(c, from), from \cap {"DEAD", "DISCONNECTED"} = {},
             UNCHANGED <<stage, known, fd, alive>>,
             NEW st \in States \ {"DEAD", "DISCONNECTED"},
             state' = [state EXCEPT ![Slot(c)] = st]
      PROVE  CountInv'
  <2>1. Slot(c) \in Slots /\ state[Slot(c)] \notin {"DEAD", "DISCONNECTED"}
    BY <1>2, <1>5 DEF InState
  <2> QED
    BY <1>1, <1>5, <2>1, CountMovesOn
<1>6. ASSUME NEW from, InState(c, from), from \cap {"DEAD", "DISCONNECTED"} = {},
             UNCHANGED stage, Disconnect(c)
      PROVE  CountInv'
  BY <1>1, <1>6, CountOut DEF InState
<1>7. CASE NewPlayer(c) \/ OverrunTable(c)
  BY <1>1, <1>4, <1>7, CountIn DEF OverrunTable, session, game
<1>8. CASE NoName(c)
  <2>1. CASE UNCHANGED state
    BY <1>4, <1>8, <2>1 DEF NoName, game
  <2>2. CASE state' = [state EXCEPT ![Slot(c)] = "WAITING_FOR_NAME"]
    BY <1>3, <1>5, <1>8, <2>2 DEF NoName, game
  <2> QED
    BY <1>8, <2>1, <2>2 DEF NoName
<1>9. CASE ReadName(c)
  <2>1. CASE Disconnect(c)
    BY <1>6, <1>9, <2>1 DEF ReadName
  <2>2. CASE UNCHANGED <<known, state, fd, game>>
    BY <1>4, <1>9, <2>2 DEF ReadName, game
  <2>3. CASE /\ state' = [state EXCEPT ![Slot(c)] = "WAITING_FOR_CHOICE"]
             /\ UNCHANGED <<known, fd, game>>
    BY <1>3, <1>5, <1>9, <2>3 DEF ReadName, game
  <2> QED
    BY <1>9, <2>1, <2>2, <2>3 DEF ReadName
<1>10. CASE NoChoice(c)
  <2>1. CASE Disconnect(c)
    BY <1>6, <1>10, <2>1 DEF NoChoice, Choosing
  <2>2. CASE UNCHANGED <<known, state, fd, game>>
    BY <1>4, <1>10, <2>2 DEF NoChoice, game
  <2> QED
    BY <1>10, <2>1, <2>2 DEF NoChoice
<1>11. CASE StartNewGame(c)
  <2>1. CASE started
    BY <1>4, <1>11, <2>1 DEF StartNewGame
  <2>2. CASE ~started
    BY <1>3, <1>5, <1>11, <2>2 DEF StartNewGame, Choosing
  <2> QED
    BY <2>1, <2>2
<1>12. CASE JoinExistingGame(c)
  BY <1>3, <1>5, <1>12 DEF JoinExistingGame, Choosing, game
<1>13. CASE WaitForOthers(c)
  BY <1>3, <1>5, <1>13 DEF WaitForOthers, Choosing, game
<1>14. CASE KickOut(c)
  <2>1. /\ fd' = [fd EXCEPT ![c] = 0] /\ stage' = [stage EXCEPT ![c] = "gone"]
        /\ UNCHANGED <<known, state, alive>>
    BY <1>14 DEF KickOut, session, game
  <2>2. fd \in [Clients -> 0 .. Cardinality(Clients)]
    BY DEF IInv, Typing
  <2>4. UNCHANGED Alive /\ \A s \in Slots : state[s] = "DEAD" => state'[s] = "DEAD"
    BY <2>1 DEF Alive, Slots
  <2>5. /\ stage' \in [Clients -> {"away", "lobby", "playing", "gone"}]
        /\ \A d \in Clients : stage'[d] = "away" => fd'[d] = 0
    BY <1>1, <2>1, <2>2 DEF CountInv
  <2> QED
    BY <2>1, <2>4, <2>5, CountUndisturbed
<1>15. CASE GetUserAck(c)
  BY <1>3, <1>4, <1>5, <1>15 DEF GetUserAck, Acknowledging
<1>16. CASE NoUserAck(c)
  BY <1>4, <1>16 DEF NoUserAck, session, game
<1>17. CASE ReadMoves(c)
  BY <1>4, <1>17 DEF ReadMoves, game
<1>18. CASE NoMoves(c)
  <2>1. CASE Disconnect(c)
    BY <1>6, <1>18, <2>1 DEF NoMoves
  <2>2. CASE UNCHANGED <<known, state, fd, game>>
    BY <1>4, <1>18, <2>2 DEF NoMoves, game
  <2> QED
    BY <1>18, <2>1, <2>2 DEF NoMoves
<1>19. CASE Ignore(c)
  BY <1>4, <1>19 DEF Ignore, session, game
<1> QED
  BY <1>7, <1>8, <1>9, <1>10, <1>11, <1>12, <1>13, <1>14, <1>15, <1>16, <1>17, <1>18, <1>19
  DEF handle_player_event

(* From the first death on the count is not claimed, only kept in its range.    *)
LEMMA CaughtCount == ASSUME IInv, IInv', CountInv, Caught PROVE CountInv'
<1>1. /\ state' = [state EXCEPT ![1] = "DEAD"] /\ 1 \in Slots
      /\ alive' = (alive + CountMod - 1) % CountMod
      /\ UNCHANGED <<stage, fd, known>>
  BY DEF Caught, client, IInv, Typing, Slots
<1>2. alive' \in 0 .. CountMod - 1
  <2>1. alive \in Nat /\ alive + CountMod - 1 \in Nat
    BY Counts DEF CountInv
  <2> QED
    BY <1>1, <2>1, Counts, Modulo
<1>3. 1 \in DOMAIN state' /\ state'[1] = "DEAD"
  BY <1>1 DEF IInv, Typing, Slots
<1>4. AliveCount'
  BY <1>3 DEF AliveCount
<1> QED
  BY <1>1, <1>2, <1>4 DEF CountInv

(* The invariant is inductive.                                                  *)
THEOREM Invariance == Spec => []IInv
<1>1. Init => IInv
  BY Initially
<1>2. IInv /\ [Next]_vars => IInv'
  <2> SUFFICES ASSUME IInv, [Next]_vars PROVE IInv'
    OBVIOUS
  <2>1. ASSUME NEW c \in Clients, Accept(c) PROVE IInv'
    BY <2>1, AcceptStep
  <2>2. ASSUME NEW c \in Clients, Answer(c) \/ SendMove(c) \/ Quit(c) PROVE IInv'
    BY <2>2, Elsewhere DEF Answer, SendName, SendChoice, SendAck, Reply, SendMove, Quit,
                           session, game, thread
  <2>3. ASSUME NEW c \in Clients, handle_player_event(c) PROVE IInv'
    BY <2>3, HandlerStep
  <2>7. ASSUME NEW c \in Clients, Forget(c) PROVE IInv'
    BY <2>7, ForgetStep
  <2>4. CASE Caught
    BY <2>4, CaughtStep
  <2>5. CASE Won \/ Joined
    BY <2>5, Elsewhere DEF Won, Joined, client, session, thread
  <2>6. CASE UNCHANGED vars
    BY <2>6, Elsewhere DEF vars, client, session, game, thread
  <2> QED
    BY <2>1, <2>2, <2>3, <2>4, <2>5, <2>6, <2>7 DEF Next
<1> QED
  BY <1>1, <1>2, PTL DEF Spec

(* However many clients come, go and are kicked out, no two slots share a       *)
(* descriptor and no two clients either: getPlayerIndex has one answer at most. *)
THEOREM SlotsAreDistinct == Spec => []OneSlotPerDescriptor
<1>1. IInv => OneSlotPerDescriptor
  BY DEF IInv
<1> QED
  BY <1>1, Invariance, PTL

(* Over all games of a server's life the updater thread is created once.        *)
THEOREM SingleUpdater == Spec => []OneUpdater
<1>1. IInv => OneUpdater
  BY DEF IInv, Typing, StarterIsDone, OneUpdater
<1> QED
  BY <1>1, Invariance, PTL

(* Who is in the game, or has been told of it, has a board.                     *)
THEOREM BoardBeforeGame == Spec => []GameHasBoard
<1>1. IInv => GameHasBoard
  BY DEF IInv
<1> QED
  BY <1>1, Invariance, PTL

(* The count keeps its range, and the table its length                          *)
(* (addToKnownPlayers, handle_disconnected_player, mark_as_dead).               *)
THEOREM Counting == Spec => []CountInv
<1>1. Init => CountInv
  <2> SUFFICES ASSUME Init PROVE CountInv
    OBVIOUS
  <2>1. Len(known) = 0 /\ DOMAIN state = {}
    BY DEF Init
  <2>2. AliveCount
    <3>1. {s \in DOMAIN state : state[s] # "DISCONNECTED"} = {}
      BY <2>1
    <3> QED
      BY <3>1, FS_EmptySet DEF Init, AliveCount
  <2> QED
    BY <2>1, <2>2, LobbyAssumption DEF Init, CountInv
<1>2. IInv /\ IInv' /\ CountInv /\ [Next]_vars => CountInv'
  <2> SUFFICES ASSUME IInv, IInv', CountInv, [Next]_vars PROVE CountInv'
    OBVIOUS
  <2>0. stage \in [Clients -> {"away", "lobby", "playing", "gone"}]
    BY DEF CountInv
  <2>1. ASSUME NEW c \in Clients, Accept(c) PROVE CountInv'
    BY <2>1, AcceptCount
  <2>2. ASSUME NEW c \in Clients, Answer(c) \/ SendMove(c) \/ Quit(c) PROVE CountInv'
    <3>1. UNCHANGED <<known, state, fd, alive>>
      BY <2>2 DEF Answer, SendName, SendChoice, SendAck, Reply, SendMove, Quit, session, game
    <3>2. /\ stage' \in [Clients -> {"away", "lobby", "playing", "gone"}]
          /\ \A d \in Clients : stage'[d] = "away" <=> stage[d] = "away"
      BY <2>0, <2>2 DEF Answer, SendName, SendChoice, SendAck, Reply, SendMove, Quit
    <3> QED
      BY <3>1, <3>2, CountMovesOn
  <2>3. ASSUME NEW c \in Clients, handle_player_event(c) PROVE CountInv'
    BY <2>3, HandlerCount
  <2>6. ASSUME NEW c \in Clients, Forget(c) PROVE CountInv'
    <3>1. Len(known') = Len(known) /\ UNCHANGED <<client, state, game>>
      BY <2>6, ForgetStep
    <3>2. UNCHANGED <<alive, stage, fd, state, Alive>>
      BY <3>1 DEF client, game, Alive, Slots
    <3> QED
      BY <2>0, <3>1, <3>2, CountUndisturbed DEF CountInv
  <2>4. CASE Caught
    BY <2>4, CaughtCount
  <2>5. CASE Won \/ Joined \/ UNCHANGED vars
    <3>1. UNCHANGED <<known, state, fd, alive, stage>>
      BY <2>5 DEF Won, Joined, vars, client, session, game
    <3> QED
      BY <2>0, <3>1, CountMovesOn
  <2> QED
    BY <2>1, <2>2, <2>3, <2>4, <2>5, <2>6 DEF Next
<1> QED
  BY <1>1, <1>2, Invariance, PTL DEF Spec

(* num_of_alive_players, by which the server decides that the game is over,     *)
(* agrees with the slots until somebody is killed on the board.                 *)
THEOREM PlayersAreCounted == Spec => []AliveCount
<1>1. CountInv => AliveCount
  BY DEF CountInv
<1> QED
  BY <1>1, Counting, PTL
-----------------------------------------------------------------------------
(* The conversation.  A client answers only what it was asked and moves only in *)
(* the game, so what the server reads is the answer to the question its slot is *)
(* at: read_name never takes a choice or a move for a name.                     *)
Naming   == {"WAS_ASKED_FOR_NAME", "WAITING_FOR_NAME"}
Prompts  == {"none", "name", "options", "started"}
Messages == {"name", "ack", "move"} \cup Choices
Names    == {"none", "name", "moves"}

Silent(c) == stage[c] # "playing" /\ prompt[c] = "none" /\ inbox[c] = <<>>

Answering(c, question, answers) ==
    /\ stage[c] # "playing" /\ prompt[c] \in {"none", question}
    /\ inbox[c] # <<>> => prompt[c] = "none" /\ \E a \in answers : inbox[c] = <<a>>

(* A new client has said nothing, even when it is taken for one that was kicked *)
(* out and left its slot behind.                                                *)
Talk(c) ==
    /\ stage[c] = "away" \/ (~Gone(c) /\ fd[c] # 0 /\ SlotsOf(c) = {}) => Silent(c)
    /\ fd[c] # 0 => \A s \in SlotsOf(c) :
         /\ state[s] \in Naming => Answering(c, "name", {"name"})
         /\ state[s] = "WAITING_FOR_CHOICE" => Answering(c, "options", Choices)

(* Nothing is ever read again from a client that is gone and has no event left: *)
(* one that was forgotten and then asked for its name may have left moves.      *)
Over(c) == Gone(c) /\ c \notin ready

ClientsTyped ==
    prompt \in [Clients -> Prompts] /\ inbox \in [Clients -> Seq(Messages)] /\ ready \subseteq Clients
NamesTyped == name \in Seq(Names) /\ Len(name) = Len(state)
ServerTyped ==
    /\ started \in BOOLEAN /\ board \in BOOLEAN /\ errno \in BOOLEAN
    /\ updater \in {"none", "running", "ended", "joined"}
    /\ main \in {"serving", "joining", "exited"} 
    /\ server \in {"up", "crashed", "exited", "overrun"}

TalkInv == /\ ClientsTyped /\ NamesTyped /\ ServerTyped
           /\ server = "up" => \A c \in Clients : Over(c) \/ Talk(c)

(* What every handler does to the client it serves.                             *)
LEMMA HandleTyped ==
  ASSUME ClientsTyped, NEW c \in Clients, NEW rest, NEW p \in Prompts, Handle(c, rest, p),
         \/ rest \in {<<>>, inbox[c]}
         \/ inbox[c] # <<>> /\ rest = Tail(inbox[c])
  PROVE  /\ ClientsTyped' /\ inbox'[c] = rest /\ prompt'[c] = p
         /\ \A d \in Clients : d # c => inbox'[d] = inbox[d] /\ prompt'[d] = prompt[d]
         /\ ready' = ready \ {c}
<1>1. inbox[c] \in Seq(Messages)
  BY DEF ClientsTyped
<1>2. rest \in Seq(Messages)
  <2>1. ASSUME NEW m \in Seq(Messages), m # <<>> PROVE Tail(m) \in Seq(Messages)
    BY <2>1
  <2>2. <<>> \in Seq(Messages)
    OBVIOUS
  <2>3. CASE rest \in {<<>>, inbox[c]}
    BY <1>1, <2>2, <2>3
  <2>4. CASE inbox[c] # <<>> /\ rest = Tail(inbox[c])
    BY <1>1, <2>1, <2>4
  <2> QED
    BY <2>3, <2>4
<1> QED
  BY <1>2 DEF ClientsTyped, Handle

(* What a handler does that disconnects its client.                             *)
LEMMA DisconnectTyped ==
  ASSUME ServerTyped, NEW c, Disconnect(c), errno' \in BOOLEAN
  PROVE  ServerTyped'
<1>1. CASE UNCHANGED <<started, updater, main, server>>
  BY <1>1 DEF ServerTyped, Disconnect
<1>2. CASE started' = FALSE /\ JoinUpdater
  <2>1. updater \in {"none", "running", "ended", "joined"}
    BY DEF ServerTyped
  <2>2. /\ updater' \in {updater, "joined"}
        /\ main' \in {main, "joining"} /\ server' \in {server, "crashed", "exited"}
    BY <1>2, <2>1 DEF JoinUpdater
  <2> QED
    BY <1>2, <2>2 DEF ServerTyped, Disconnect
<1>3. CASE server' = "crashed" /\ UNCHANGED <<started, updater, main>>
  BY <1>3 DEF ServerTyped, Disconnect
<1>4. CASE started' = FALSE /\ main' = "exited" /\ UNCHANGED <<updater, server>>
  BY <1>4 DEF ServerTyped, Disconnect
<1> QED
  BY <1>1, <1>2, <1>3, <1>4 DEF Disconnect

LEMMA ReadTyped == ASSUME ServerTyped, NEW c, ReadNothing(c) PROVE errno' \in BOOLEAN
BY DEF ServerTyped, ReadNothing

(* The slots of the others are not those of c.                                  *)
LEMMA OthersTalk ==
  ASSUME IInv, NEW c \in Clients, NEW d \in Clients, d # c, fd[c] # 0, Talk(d),
         stage'[d] = stage[d], prompt'[d] = prompt[d], inbox'[d] = inbox[d], fd'[d] = fd[d],
         \/ known' = Append(known, fd[c]) /\ \E st : state' = Append(state, st)
         \/ /\ SlotsOf(c) # {}
            /\ known' = known \/ known' = [known EXCEPT ![Slot(c)] = 0]
            /\ state' = state \/ \E st : state' = [state EXCEPT ![Slot(c)] = st]
  PROVE  Talk(d)'
<1>1. /\ known \in Seq(0 .. Cardinality(Clients)) /\ state \in Seq(States)
      /\ Len(known) = Len(state)
  BY DEF IInv, Typing
<1>2. CASE fd[d] = 0
  BY <1>2 DEF Talk, Silent
<1>3. CASE fd[d] # 0
  <2>1. fd[c] # fd[d]
    BY DEF IInv, OneSlotPerDescriptor
  <2>2. SlotsOf(d)' = SlotsOf(d) /\ \A s \in SlotsOf(d) : state'[s] = state[s]
    <3>1. CASE known' = Append(known, fd[c]) /\ \E st : state' = Append(state, st)
      <4>1. /\ DOMAIN known' = DOMAIN known \cup {Len(known) + 1} /\ known'[Len(known) + 1] = fd[c]
            /\ \A s \in DOMAIN known : known'[s] = known[s] /\ state'[s] = state[s]
        BY <1>1, <3>1
      <4> QED
        BY <2>1, <4>1 DEF SlotsOf
    <3>2. CASE /\ SlotsOf(c) # {}
               /\ known' = known \/ known' = [known EXCEPT ![Slot(c)] = 0]
               /\ state' = state \/ \E st : state' = [state EXCEPT ![Slot(c)] = st]
      <4>1. Slot(c) \in DOMAIN known /\ known[Slot(c)] = fd[c] /\ Slot(c) \in DOMAIN state
        BY <1>1, <3>2, SlotFound DEF IInv, Slots
      <4>2. /\ DOMAIN known' = DOMAIN known /\ known'[Slot(c)] \in {0, fd[c]}
            /\ \A s \in DOMAIN known : s # Slot(c) => known'[s] = known[s] /\ state'[s] = state[s]
        BY <1>1, <3>2, <4>1
      <4> QED
        BY <1>3, <2>1, <4>1, <4>2 DEF SlotsOf
    <3> QED
      BY <3>1, <3>2
  <2> QED
    BY <1>3, <2>2 DEF Talk, Silent, Answering, Gone
<1> QED
  BY <1>2, <1>3

(* What a handler leaves of the client it serves, when that stays connected.    *)
LEMMA SelfTalk ==
  ASSUME IInv, CountInv, NEW c \in Clients, fd[c] # 0, SlotsOf(c) # {},
         UNCHANGED <<known, stage>>, fd' = fd,
         state'[Slot(c)] \in Naming => Answering(c, "name", {"name"})',
         state'[Slot(c)] = "WAITING_FOR_CHOICE" => Answering(c, "options", Choices)'
  PROVE  Talk(c)'
<1>1. SlotsOf(c)' = SlotsOf(c)
  BY DEF SlotsOf
<1>2. Slot(c) \in DOMAIN known /\ known[Slot(c)] = fd[c]
  BY SlotFound DEF IInv, Typing, Slots
<1>3. \A s \in SlotsOf(c) : s = Slot(c)
  BY <1>2 DEF SlotsOf, IInv, OneSlotPerDescriptor
<1>4. stage'[c] # "away"
  BY DEF CountInv
<1> QED
  BY <1>1, <1>3, <1>4 DEF Talk

(* A handler for a client that has a slot.                                      *)
LEMMA Served ==
  ASSUME IInv, CountInv, TalkInv, server = "up", NEW c \in Clients, fd[c] # 0, SlotsOf(c) # {},
         NEW rest, NEW p \in Prompts, Handle(c, rest, p),
         \/ rest \in {<<>>, inbox[c]}
         \/ inbox[c] # <<>> /\ rest = Tail(inbox[c]),
         known' = known \/ known' = [known EXCEPT ![Slot(c)] = 0],
         state' = state \/ \E st : state' = [state EXCEPT ![Slot(c)] = st],
         name' = name \/ \E n \in Names : name' = [name EXCEPT ![Slot(c)] = n],
         fd' = fd \/ fd' = [fd EXCEPT ![c] = 0],
         stage' = stage \/ stage' = [stage EXCEPT ![c] = "gone"],
         ServerTyped',
         server' = "up" => fd'[c] = 0 \/ Talk(c)'
  PROVE  TalkInv'
<1>1. /\ ClientsTyped' /\ ready' = ready \ {c}
      /\ \A d \in Clients : d # c => inbox'[d] = inbox[d] /\ prompt'[d] = prompt[d]
  BY HandleTyped DEF TalkInv
<1>2. /\ fd \in [Clients -> 0 .. Cardinality(Clients)]
      /\ stage \in [Clients -> {"away", "lobby", "playing", "gone"}] /\ stage[c] # "away"
  BY DEF IInv, Typing, CountInv
<1>3. NamesTyped'
  <2>1. name \in Seq(Names) /\ Len(name) = Len(state) /\ state \in Seq(States)
        /\ Slot(c) \in DOMAIN state
    BY SlotFound DEF TalkInv, NamesTyped, IInv, Typing, Slots
  <2>2. Len(state') = Len(state)
    BY <2>1
  <2>3. name' \in Seq(Names) /\ Len(name') = Len(name)
    BY <2>1
  <2> QED
    BY <2>1, <2>2, <2>3 DEF NamesTyped
<1>4. ASSUME NEW d \in Clients, d # c PROVE (Over(d) \/ Talk(d))'
  <2>1. Over(d) \/ Talk(d)
    BY DEF TalkInv
  <2>2. stage'[d] = stage[d] /\ prompt'[d] = prompt[d] /\ inbox'[d] = inbox[d] /\ fd'[d] = fd[d]
    BY <1>1, <1>2, <1>4
  <2>3. Over(d) => Over(d)'
    BY <1>1, <2>2 DEF Over, Gone
  <2> QED
    BY <1>4, <2>1, <2>2, <2>3, OthersTalk
<1>5. fd'[c] = 0 => Talk(c)'
  <2>1. stage'[c] # "away"
    BY <1>2
  <2> QED
    BY <2>1 DEF Talk
<1> QED
  BY <1>1, <1>3, <1>4, <1>5 DEF TalkInv

LEMMA NewPlayerTalk ==
  ASSUME IInv, CountInv, TalkInv, server = "up", NEW c \in Clients, fd[c] # 0, NewPlayer(c)
  PROVE  TalkInv'
<1>1. /\ Handle(c, inbox[c], "name") /\ name' = Append(name, "none") /\ SlotsOf(c) = {}
      /\ known' = Append(known, fd[c]) /\ state' = Append(state, "WAS_ASKED_FOR_NAME")
      /\ UNCHANGED <<stage, fd, started, board, errno, updater, main>>
      /\ server' \in {"up", "crashed"}
  BY DEF NewPlayer, WriteTwice
<1>2. /\ known \in Seq(0 .. Cardinality(Clients)) /\ state \in Seq(States)
      /\ Len(known) = Len(state)
  BY DEF IInv, Typing
<1>3. /\ ClientsTyped' /\ inbox'[c] = inbox[c] /\ prompt'[c] = "name" /\ ready' = ready \ {c}
      /\ \A d \in Clients : d # c => inbox'[d] = inbox[d] /\ prompt'[d] = prompt[d]
  BY <1>1, HandleTyped DEF TalkInv, Prompts
<1>4. NamesTyped'
  <2>1. name \in Seq(Names) /\ Len(name) = Len(state) /\ "none" \in Names
    BY DEF TalkInv, NamesTyped, Names
  <2>2. name' \in Seq(Names) /\ Len(name') = Len(name) + 1
    BY <1>1, <2>1
  <2>3. Len(state') = Len(state) + 1
    BY <1>1, <1>2
  <2> QED
    BY <2>1, <2>2, <2>3 DEF NamesTyped
<1>5. ServerTyped'
  BY <1>1 DEF TalkInv, ServerTyped
<1>6. ASSUME NEW d \in Clients, d # c PROVE (Over(d) \/ Talk(d))'
  <2>1. Over(d) \/ Talk(d)
    BY DEF TalkInv
  <2>2. Over(d) => Over(d)'
    BY <1>1, <1>3 DEF Over, Gone
  <2> QED
    BY <1>1, <1>3, <1>6, <2>1, <2>2, OthersTalk
<1>7. (Over(c) \/ Talk(c))'
  <2>0. SUFFICES ASSUME ~Gone(c) PROVE Talk(c)'
    BY <1>1, <1>3 DEF Over, Gone
  <2>1. Silent(c) /\ stage[c] # "away"
    BY <1>1, <2>0 DEF TalkInv, Talk, Over, CountInv
  <2>2. /\ DOMAIN known' = DOMAIN known \cup {Len(known) + 1}
        /\ known'[Len(known) + 1] = fd[c] /\ state'[Len(known) + 1] = "WAS_ASKED_FOR_NAME"
        /\ \A s \in DOMAIN known : known'[s] = known[s]
    BY <1>1, <1>2
  <2>3. SlotsOf(c)' = {Len(known) + 1}
    BY <1>1, <2>2 DEF SlotsOf
  <2> QED
    BY <1>1, <1>3, <2>1, <2>2, <2>3 DEF Talk, Silent, Answering
<1> QED
  BY <1>3, <1>4, <1>5, <1>6, <1>7 DEF TalkInv

(* Every handler reads the answer to the question its client is at.             *)
LEMMA HandlerTalk ==
  ASSUME IInv, CountInv, TalkInv, NEW c \in Clients, handle_player_event(c)
  PROVE  TalkInv'
<1> USE DEF game, thread, session
<1>1. fd[c] # 0 /\ server = "up" /\ Talk(c)
  BY DEF handle_player_event, Serving, TalkInv, Over
<1>2. /\ ClientsTyped /\ NamesTyped /\ ServerTyped
      /\ {"none", "name", "options", "started", prompt[c]} \subseteq Prompts
      /\ {"name", "moves"} \subseteq Names
  BY DEF TalkInv, ClientsTyped, Prompts, Names
<1>3. ASSUME NEW states, InState(c, states)
      PROVE  /\ SlotsOf(c) # {} /\ state[Slot(c)] \in states /\ Slot(c) \in SlotsOf(c)
             /\ Slot(c) \in DOMAIN state /\ state \in Seq(States)
    BY <1>1, <1>3, SlotFound DEF InState, IInv, Slots, Typing, SlotsOf
<1>4. /\ fd \in [Clients -> 0 .. Cardinality(Clients)]
      /\ stage \in [Clients -> {"away", "lobby", "playing", "gone"}]
      /\ inbox \in [Clients -> Seq(Messages)] /\ prompt \in [Clients -> Prompts]
  BY <1>2 DEF IInv, Typing, CountInv, ClientsTyped
<1>5. ASSUME InState(c, Naming) PROVE Answering(c, "name", {"name"})
  BY <1>1, <1>3, <1>5 DEF Talk
<1>6. ASSUME Choosing(c) PROVE Answering(c, "options", Choices) /\ state[Slot(c)] = "WAITING_FOR_CHOICE"
  BY <1>1, <1>3, <1>6 DEF Talk, Choosing
<1>7. ASSUME SlotsOf(c) # {}, NEW p \in Prompts, Handle(c, <<>>, p), Disconnect(c), stage' = stage,
             name' = name \/ \E n \in Names : name' = [name EXCEPT ![Slot(c)] = n], errno' \in BOOLEAN
      PROVE  TalkInv'
  <2>1. ServerTyped'
    BY <1>2, <1>7, DisconnectTyped
  <2>2. /\ known' = [known EXCEPT ![Slot(c)] = 0] /\ fd' = [fd EXCEPT ![c] = 0]
        /\ state' = [state EXCEPT ![Slot(c)] = "DISCONNECTED"]
    BY <1>7 DEF Disconnect
  <2>3. fd'[c] = 0
    BY <1>4, <2>2
  <2> QED
    BY <1>1, <1>7, <2>1, <2>2, <2>3, Served
<1>8. /\ Naming = {"WAS_ASKED_FOR_NAME", "WAITING_FOR_NAME"}
      /\ \A p \in Prompts : \A rest : Handle(c, rest, p) => inbox'[c] = rest /\ prompt'[c] = p
  BY <1>4 DEF Naming, Handle
<1>9. CASE NewPlayer(c) \/ OverrunTable(c)
  <2>1. CASE OverrunTable(c)
    <3>1. /\ Handle(c, inbox[c], "name") /\ server' = "overrun"
          /\ UNCHANGED <<stage, fd, session, game, errno, main>>
      BY <2>1 DEF OverrunTable
    <3>2. ClientsTyped'
      BY <1>2, <3>1, HandleTyped
    <3>3. NamesTyped' /\ ServerTyped'
      BY <1>2, <3>1 DEF NamesTyped, ServerTyped
    <3> QED
      BY <3>1, <3>2, <3>3 DEF TalkInv
  <2> QED
    BY <1>1, <1>9, <2>1, NewPlayerTalk
<1>10. CASE NoName(c)
  <2>1. /\ InState(c, Naming) /\ inbox[c] = <<>> /\ Handle(c, <<>>, prompt[c])
        /\ UNCHANGED <<stage, fd, known, name, game, main>>
        /\ \/ server' = "exited" /\ UNCHANGED <<state, errno>>
           \/ /\ state' = [state EXCEPT ![Slot(c)] = "WAITING_FOR_NAME"]
              /\ errno' = TRUE /\ UNCHANGED server
    BY <1>8, <1>10 DEF NoName
  <2>2. ServerTyped'
    BY <1>2, <2>1 DEF ServerTyped
  <2>3. SlotsOf(c) # {} /\ Answering(c, "name", {"name"})
    BY <1>3, <1>5, <2>1
  <2>4. ASSUME server' = "up" PROVE Talk(c)'
    <3>1. state'[Slot(c)] = "WAITING_FOR_NAME"
      BY <1>3, <2>1, <2>4
    <3>2. Answering(c, "name", {"name"})'
      BY <1>2, <1>8, <2>1, <2>3 DEF Answering
    <3> QED
      BY <1>1, <2>1, <2>3, <3>1, <3>2, SelfTalk
  <2> QED
    BY <1>1, <1>2, <2>1, <2>2, <2>3, <2>4, Served
<1>11. CASE ReadName(c)
  <2>1. /\ InState(c, Naming) /\ inbox[c] # <<>> /\ Handle(c, <<>>, "options")
        /\ name' = [name EXCEPT ![Slot(c)] = inbox[c][1]] /\ stage' = stage
    BY <1>8, <1>11 DEF ReadName
  <2>2. SlotsOf(c) # {} /\ Answering(c, "name", {"name"})
    BY <1>3, <1>5, <2>1
  <2>3. inbox[c][1] \in Names
    BY <1>2, <2>1, <2>2 DEF Answering
  <2>4. CASE Disconnect(c) /\ ReadNothing(c)
    BY <1>2, <1>7, <2>1, <2>2, <2>3, <2>4, ReadTyped
  <2>5. CASE server' = "crashed" /\ UNCHANGED <<known, state, fd, game, main, errno>>
    <3>1. ServerTyped'
      BY <1>2, <2>5 DEF ServerTyped
    <3> QED
      BY <1>1, <1>2, <2>1, <2>2, <2>3, <2>5, <3>1, Served
  <2>6. CASE /\ state' = [state EXCEPT ![Slot(c)] = "WAITING_FOR_CHOICE"] /\ errno' = TRUE
             /\ UNCHANGED <<known, fd, game, main, server>>
    <3>1. ServerTyped'
      BY <1>2, <2>6 DEF ServerTyped
    <3>2. state'[Slot(c)] = "WAITING_FOR_CHOICE"
      BY <1>3, <2>1, <2>6
    <3>3. Answering(c, "options", Choices)'
      BY <1>2, <1>8, <2>1, <2>2 DEF Answering
    <3>4. Talk(c)'
      BY <1>1, <1>8, <2>1, <2>2, <2>6, <3>2, <3>3, SelfTalk
    <3> QED
      BY <1>1, <1>2, <2>1, <2>2, <2>3, <2>6, <3>1, <3>4, Served
  <2> QED
    BY <1>11, <2>4, <2>5, <2>6 DEF ReadName
<1>12. CASE NoChoice(c)
  <2>1. /\ Choosing(c) /\ inbox[c] = <<>> /\ Handle(c, <<>>, prompt[c]) /\ ReadNothing(c)
        /\ UNCHANGED <<stage, name>>
    BY <1>12 DEF NoChoice
  <2>2. SlotsOf(c) # {} /\ errno' \in BOOLEAN
    BY <1>2, <2>1, ReadTyped DEF Choosing, InState
  <2>3. CASE Disconnect(c)
    BY <1>2, <1>7, <2>1, <2>2, <2>3
  <2>4. CASE UNCHANGED <<known, state, fd, game, main, server>>
    <3>1. ServerTyped'
      BY <1>2, <2>2, <2>4 DEF ServerTyped
    <3>2. Answering(c, "options", Choices)' /\ state'[Slot(c)] = "WAITING_FOR_CHOICE"
      BY <1>2, <1>6, <1>8, <2>1, <2>4 DEF Answering
    <3>3. Talk(c)'
      BY <1>1, <1>8, <2>1, <2>2, <2>4, <3>2, SelfTalk
    <3> QED
      BY <1>1, <1>2, <2>1, <2>2, <2>4, <3>1, <3>3, Served
  <2> QED
    BY <1>12, <2>3, <2>4 DEF NoChoice
<1>13. ASSUME Choosing(c), inbox[c] # <<>>
       PROVE  /\ SlotsOf(c) # {} /\ stage[c] # "playing" /\ Tail(inbox[c]) = <<>>
              /\ Slot(c) \in DOMAIN state /\ state \in Seq(States)
  <2>1. \A a : Tail(<<a>>) = <<>>
    OBVIOUS
  <2>2. Answering(c, "options", Choices)
    BY <1>6, <1>13
  <2>3. stage[c] # "playing" /\ \E a \in Choices : inbox[c] = <<a>>
    BY <1>13, <2>2 DEF Answering
  <2> QED
    BY <1>3, <1>13, <2>1, <2>3 DEF Choosing
<1>14. CASE StartNewGame(c)
  <2>1. /\ Choosing(c) /\ inbox[c] # <<>>
        /\ UNCHANGED <<stage, fd, known, name, updater, errno, main>>
    BY <1>14 DEF StartNewGame
  <2>2. CASE started
    <3>1. Handle(c, Tail(inbox[c]), "none") /\ UNCHANGED <<state, started, board, server>>
      BY <1>14, <2>2 DEF StartNewGame
    <3>2. ServerTyped'
      BY <1>2, <2>1, <3>1 DEF ServerTyped
    <3>3. Answering(c, "options", Choices)' /\ state'[Slot(c)] = "WAITING_FOR_CHOICE"
      BY <1>2, <1>6, <1>8, <1>13, <2>1, <3>1 DEF Answering
    <3>4. Talk(c)'
      BY <1>1, <1>8, <1>13, <2>1, <3>1, <3>3, SelfTalk
    <3> QED
      BY <1>1, <1>2, <1>13, <2>1, <3>1, <3>2, <3>4, Served
  <2>3. CASE ~started
    <3>1. /\ Handle(c, Tail(inbox[c]), "started") /\ started' = TRUE /\ board' = TRUE
          /\ state' = [state EXCEPT ![Slot(c)] = "WAITING_FOR_CLIENT_TO_ACK_GAME"]
          /\ server' \in {"up", "crashed"}
      BY <1>14, <2>3 DEF StartNewGame, WriteTwice
    <3>2. ServerTyped'
      BY <1>2, <2>1, <3>1 DEF ServerTyped
    <3>3. state'[Slot(c)] = "WAITING_FOR_CLIENT_TO_ACK_GAME"
      BY <1>13, <2>1, <3>1
    <3>4. Talk(c)'
      BY <1>1, <1>8, <1>13, <2>1, <3>3, SelfTalk
    <3> QED
      BY <1>1, <1>2, <1>13, <2>1, <3>1, <3>2, <3>4, Served
  <2> QED
    BY <2>2, <2>3
<1>15. CASE JoinExistingGame(c)
  <2>1. /\ Choosing(c) /\ inbox[c] # <<>> /\ Handle(c, Tail(inbox[c]), "started")
        /\ UNCHANGED <<stage, fd, known, name, game, errno, main>>
        /\ state' = [state EXCEPT ![Slot(c)] = "WAITING_FOR_CLIENT_TO_ACK_GAME"]
        /\ server' \in {"up", "crashed"}
    BY <1>15 DEF JoinExistingGame, WriteTwice
  <2>2. ServerTyped'
    BY <1>2, <2>1 DEF ServerTyped
  <2>3. state'[Slot(c)] = "WAITING_FOR_CLIENT_TO_ACK_GAME"
    BY <1>13, <2>1
  <2>4. Talk(c)'
    BY <1>1, <1>8, <1>13, <2>1, <2>3, SelfTalk
  <2> QED
    BY <1>1, <1>2, <1>13, <2>1, <2>2, <2>4, Served
<1>16. CASE WaitForOthers(c)
  <2>1. /\ Choosing(c) /\ inbox[c] # <<>> /\ Handle(c, Tail(inbox[c]), "none")
        /\ UNCHANGED <<stage, fd, known, name, game, thread>>
        /\ state' = [state EXCEPT ![Slot(c)] = "WAITING_FOR_NAME"]
    BY <1>16 DEF WaitForOthers
  <2>2. ServerTyped'
    BY <1>2, <2>1 DEF ServerTyped
  <2>3. state'[Slot(c)] = "WAITING_FOR_NAME" /\ Answering(c, "name", {"name"})'
    BY <1>2, <1>8, <1>13, <2>1 DEF Answering
  <2>4. Talk(c)'
    BY <1>1, <1>8, <1>13, <2>1, <2>3, SelfTalk
  <2> QED
    BY <1>1, <1>2, <1>13, <2>1, <2>2, <2>4, Served
<1>17. CASE KickOut(c)
  <2>1. /\ Choosing(c) /\ Handle(c, <<>>, "none") /\ fd' = [fd EXCEPT ![c] = 0]
        /\ stage' = [stage EXCEPT ![c] = "gone"] /\ UNCHANGED <<session, game, thread>>
        /\ SlotsOf(c) # {}
    BY <1>17 DEF KickOut, Choosing, InState
  <2>2. ServerTyped' /\ fd'[c] = 0
    BY <1>2, <1>4, <2>1 DEF ServerTyped
  <2> QED
    BY <1>1, <1>2, <2>1, <2>2, Served
<1>18. ASSUME NEW rest, NEW p \in Prompts, Handle(c, rest, p),
              \/ rest \in {<<>>, inbox[c]}
              \/ inbox[c] # <<>> /\ rest = Tail(inbox[c]),
              SlotsOf(c) # {}, UNCHANGED <<stage, fd, known, started, board, main>>,
              server' \in {server, "exited"},
              state' = state \/ \E st : state' = [state EXCEPT ![Slot(c)] = st],
              name' = name \/ \E n \in Names : name' = [name EXCEPT ![Slot(c)] = n],
              state'[Slot(c)] \notin Naming \cup {"WAITING_FOR_CHOICE"},
              errno' \in BOOLEAN, updater' \in {updater, "running"}
       PROVE  TalkInv'
  <2>1. ServerTyped'
    BY <1>2, <1>18 DEF ServerTyped
  <2>2. Talk(c)'
    BY <1>1, <1>18, SelfTalk
  <2> QED
    BY <1>1, <1>18, <2>1, <2>2, Served
<1>19. errno \in BOOLEAN
  BY <1>2 DEF ServerTyped
<1>20. CASE GetUserAck(c)
  <2>1. InState(c, {"WAITING_FOR_CLIENT_TO_ACK_GAME"})
    BY <1>20 DEF GetUserAck, Acknowledging
  <2>2. /\ Handle(c, IF inbox[c] = <<>> THEN <<>> ELSE Tail(inbox[c]), prompt[c])
        /\ state' \in {state, [state EXCEPT ![Slot(c)] = "INSIDE_A_GAME"]}
        /\ updater' \in {updater, "running"} /\ server' \in {server, "exited"}
        /\ UNCHANGED <<stage, fd, known, name, started, board, errno, main>>
    BY <1>20 DEF GetUserAck
  <2>3. /\ SlotsOf(c) # {}
        /\ state'[Slot(c)] \in {"INSIDE_A_GAME", "WAITING_FOR_CLIENT_TO_ACK_GAME"}
    BY <1>3, <2>1, <2>2
  <2>4. /\ prompt[c] \in Prompts /\ errno' \in BOOLEAN
        /\ state' = state \/ \E st : state' = [state EXCEPT ![Slot(c)] = st]
        /\ state'[Slot(c)] \notin Naming \cup {"WAITING_FOR_CHOICE"}
    <3>1. prompt[c] \in Prompts
      BY <1>4
    <3>2. errno' \in BOOLEAN
      BY <1>19, <2>2
    <3>3. state' = state \/ \E st : state' = [state EXCEPT ![Slot(c)] = st]
      BY <2>2
    <3>4. state'[Slot(c)] \notin Naming \cup {"WAITING_FOR_CHOICE"}
      BY <1>8, <2>3
    <3> QED
      BY <3>1, <3>2, <3>3, <3>4
  <2>5. CASE inbox[c] = <<>>
    <3>1. Handle(c, <<>>, prompt[c])
      BY <2>2, <2>5
    <3> QED
      BY <1>18, <2>2, <2>3, <2>4, <3>1
  <2>6. CASE inbox[c] # <<>>
    <3>1. Handle(c, Tail(inbox[c]), prompt[c])
      BY <2>2, <2>6
    <3> QED
      BY <1>18, <2>2, <2>3, <2>4, <2>6, <3>1
  <2> QED
    BY <2>5, <2>6
<1>21. CASE NoUserAck(c)
  <2>1. InState(c, {"WAITING_FOR_CLIENT_TO_ACK_GAME"})
    BY <1>21 DEF NoUserAck, Acknowledging
  <2>2. /\ Handle(c, <<>>, prompt[c]) /\ ReadNothing(c)
        /\ UNCHANGED <<stage, fd, session, game, main, server>>
    BY <1>21 DEF NoUserAck
  <2>3. SlotsOf(c) # {} /\ state'[Slot(c)] = "WAITING_FOR_CLIENT_TO_ACK_GAME"
    BY <1>3, <2>1, <2>2
  <2> QED
    BY <1>2, <1>8, <1>18, <2>2, <2>3, ReadTyped
<1>22. CASE ReadMoves(c)
  <2>1. /\ InState(c, {"INSIDE_A_GAME"}) /\ Handle(c, <<>>, prompt[c])
        /\ name' = name \/ name' = [name EXCEPT ![Slot(c)] = "moves"]
        /\ UNCHANGED <<stage, fd, known, state, game, thread>>
    BY <1>22 DEF ReadMoves
  <2>2. SlotsOf(c) # {} /\ state'[Slot(c)] = "INSIDE_A_GAME"
    BY <1>3, <2>1
  <2> QED
    BY <1>2, <1>8, <1>18, <1>19, <2>1, <2>2
<1>23. CASE NoMoves(c)
  <2>1. /\ InState(c, {"INSIDE_A_GAME"}) /\ Handle(c, <<>>, prompt[c]) /\ ReadNothing(c)
        /\ UNCHANGED <<stage, name>>
    BY <1>23 DEF NoMoves
  <2>2. SlotsOf(c) # {} /\ state[Slot(c)] = "INSIDE_A_GAME" /\ errno' \in BOOLEAN
    BY <1>2, <1>3, <2>1, ReadTyped
  <2>3. CASE Disconnect(c)
    BY <1>2, <1>7, <2>1, <2>2, <2>3
  <2>4. CASE UNCHANGED <<known, state, fd, game, main, server>>
    BY <1>2, <1>8, <1>18, <2>1, <2>2, <2>4
  <2> QED
    BY <1>23, <2>3, <2>4 DEF NoMoves
<1>24. CASE Ignore(c)
  <2>1. /\ InState(c, {"DEAD", "DISCONNECTED"}) /\ Handle(c, inbox[c], prompt[c])
        /\ UNCHANGED <<stage, fd, session, game, thread>>
    BY <1>24 DEF Ignore
  <2>2. SlotsOf(c) # {} /\ state'[Slot(c)] \in {"DEAD", "DISCONNECTED"}
    BY <1>3, <2>1
  <2> QED
    BY <1>2, <1>8, <1>18, <1>19, <2>1, <2>2
<1> QED
  BY <1>9, <1>10, <1>11, <1>12, <1>14, <1>15, <1>16, <1>17, <1>20, <1>21, <1>22, <1>23, <1>24
  DEF handle_player_event

(* What clients do alone: they are served the rest of the time.                 *)
LEMMA ClientTalk ==
  ASSUME IInv, CountInv, TalkInv, NEW c \in Clients,
         Accept(c) \/ Answer(c) \/ SendMove(c) \/ Quit(c)
  PROVE  TalkInv'
<1> USE DEF game, thread, session
<1>1. /\ UNCHANGED <<session, game, thread>>
      /\ \A d \in Clients : d # c => /\ stage'[d] = stage[d] /\ fd'[d] = fd[d]
                                     /\ prompt'[d] = prompt[d] /\ inbox'[d] = inbox[d]
  BY DEF Accept, Answer, SendName, SendChoice, SendAck, Reply, SendMove, Quit,
         IInv, Typing, TalkInv, CountInv, ClientsTyped
<1>2. NamesTyped' /\ ServerTyped'
  BY <1>1 DEF TalkInv, NamesTyped, ServerTyped
<1>3. /\ stage \in [Clients -> {"away", "lobby", "playing", "gone"}] /\ ClientsTyped
      /\ fd \in [Clients -> 0 .. Cardinality(Clients)]
      /\ prompt \in [Clients -> Prompts] /\ inbox \in [Clients -> Seq(Messages)]
  BY DEF IInv, Typing, TalkInv, CountInv, ClientsTyped
<1>4. ASSUME NEW a \in Messages, inbox' = [inbox EXCEPT ![c] = Append(@, a)]
      PROVE  inbox' \in [Clients -> Seq(Messages)] /\ inbox'[c] = Append(inbox[c], a)
  BY <1>3, <1>4
<1>5. ASSUME NEW d \in Clients, d # c, Over(d) \/ Talk(d) PROVE (Over(d) \/ Talk(d))'
  <2>1. SlotsOf(d)' = SlotsOf(d)
    BY <1>1, <1>5 DEF SlotsOf
  <2>2. ready' \in {ready, ready \cup {c}}
    BY DEF Accept, Answer, SendName, SendChoice, SendAck, Reply, SendMove, Quit
  <2> QED
    BY <1>1, <1>5, <2>1, <2>2 DEF Talk, Silent, Answering, Over, Gone
<1>0. ~Gone(c)
  BY DEF Accept, Answer, SendName, SendChoice, SendAck, Reply, SendMove, Quit, Gone
<1>6. ASSUME fd' = fd PROVE SlotsOf(c)' = SlotsOf(c)
  BY <1>1, <1>6 DEF SlotsOf
<1>7. CASE Accept(c)
  <2>1. /\ stage' = [stage EXCEPT ![c] = "lobby"] /\ ready' = ready \cup {c}
        /\ UNCHANGED <<prompt, inbox>> /\ stage[c] = "away"
    BY <1>7 DEF Accept
  <2>2. ClientsTyped'
    BY <1>3, <2>1 DEF ClientsTyped
  <2>3. Talk(c) => Talk(c)'
    BY <1>3, <2>1 DEF Talk, Silent, Answering
  <2> QED
    BY <1>0, <1>1, <1>2, <1>5, <2>2, <2>3 DEF TalkInv, Over
<1>8. ASSUME NEW asked \in Prompts \ {"none"}, NEW a \in Messages, Reply(c, asked, a),
             asked = "name" => a = "name", asked = "options" => a \in Choices
      PROVE  TalkInv'
  <2>1. /\ stage[c] = "lobby" /\ prompt[c] = asked /\ ready' = ready \cup {c} /\ fd' = fd
        /\ inbox' = [inbox EXCEPT ![c] = Append(@, a)]
        /\ prompt' = [prompt EXCEPT ![c] = "none"]
        /\ stage' = IF asked = "started" THEN [stage EXCEPT ![c] = "playing"] ELSE stage
    BY <1>8 DEF Reply
  <2>2. ClientsTyped' /\ inbox'[c] = Append(inbox[c], a) /\ prompt'[c] = "none"
    BY <1>3, <1>4, <2>1 DEF ClientsTyped, Prompts
  <2>3. stage'[c] \in {"lobby", "playing"} /\ (stage'[c] = "playing" => asked = "started")
    BY <1>3, <2>1
  <2>4. ASSUME Talk(c) PROVE Talk(c)'
    <3>1. inbox[c] = <<>> => inbox'[c] = <<a>>
      BY <2>2
    <3> QED
      BY <1>1, <1>6, <1>8, <2>1, <2>2, <2>3, <2>4, <3>1
         DEF Talk, Silent, Answering, Naming, Gone
  <2> QED
    BY <1>0, <1>1, <1>2, <1>5, <2>2, <2>4 DEF TalkInv, Over
<1>9. CASE Answer(c)
  <2>1. /\ {"name", "options", "started"} \subseteq Prompts \ {"none"}
        /\ {"name", "ack"} \cup Choices \subseteq Messages
    BY DEF Prompts, Messages
  <2> QED
    BY <1>8, <1>9, <2>1 DEF Answer, SendName, SendChoice, SendAck
<1>10. CASE SendMove(c)
  <2>1. /\ stage[c] = "playing" /\ UNCHANGED <<stage, prompt, fd>> /\ ready' = ready \cup {c}
        /\ inbox' = [inbox EXCEPT ![c] = Append(@, "move")]
    BY <1>10 DEF SendMove
  <2>2. ClientsTyped'
    BY <1>3, <1>4, <2>1 DEF ClientsTyped, Messages
  <2>3. Talk(c) => Talk(c)'
    BY <1>1, <1>6, <2>1 DEF Talk, Silent, Answering, Gone
  <2> QED
    BY <1>0, <1>1, <1>2, <1>5, <2>2, <2>3 DEF TalkInv, Over
<1>11. CASE Quit(c)
  <2>1. /\ stage[c] # "away" /\ stage' = [stage EXCEPT ![c] = "gone"] /\ ready' = ready \cup {c}
        /\ UNCHANGED <<prompt, fd, inbox>>
    BY <1>11 DEF Quit
  <2>2. ClientsTyped'
    BY <1>3, <2>1 DEF ClientsTyped
  <2>3. Talk(c) => Talk(c)'
    BY <1>1, <1>3, <1>6, <2>1 DEF Talk, Silent, Answering, Gone
  <2> QED
    BY <1>0, <1>1, <1>2, <1>5, <2>2, <2>3 DEF TalkInv, Over
<1> QED
  BY <1>7, <1>9, <1>10, <1>11

(* The updater's steps and the join end conversations at most.                  *)
LEMMA ThreadTalk ==
  ASSUME IInv, TalkInv, Caught \/ Won \/ Joined PROVE TalkInv'
<1>1. /\ UNCHANGED <<client, known, name, board, errno>> /\ state \in Seq(States)
      /\ state' = state \/ (1 \in DOMAIN state /\ state' = [state EXCEPT ![1] = "DEAD"])
      /\ server' = server /\ started' \in {started, FALSE}
      /\ updater' \in {updater, "ended", "joined"} /\ main' \in {main, "serving"}
  <2>1. state \in Seq(States)
    BY DEF IInv, Typing
  <2>2. CASE Caught
    <3>1. 1 \in DOMAIN state
      BY <2>1, <2>2 DEF Caught
    <3>2. /\ UNCHANGED <<client, known, name, board, errno, main, server>>
          /\ state' = [state EXCEPT ![1] = "DEAD"]
          /\ started' \in {started, FALSE} /\ updater' \in {updater, "ended"}
      BY <2>2 DEF Caught, client, thread
    <3> QED
      BY <2>1, <3>1, <3>2
  <2>3. CASE Won \/ Joined
    BY <2>1, <2>3 DEF Won, Joined, client, session, thread
  <2> QED
    BY <2>2, <2>3
<1>2. Len(state') = Len(state) /\ \A s \in DOMAIN state : state'[s] \in {state[s], "DEAD"}
  BY <1>1
<1>3. ClientsTyped' /\ NamesTyped' /\ ServerTyped'
  BY <1>1, <1>2 DEF client, TalkInv, ClientsTyped, NamesTyped, ServerTyped
<1>4. ASSUME NEW c \in Clients, Over(c) \/ Talk(c) PROVE (Over(c) \/ Talk(c))'
  <2>1. SlotsOf(c)' = SlotsOf(c) /\ SlotsOf(c) \subseteq DOMAIN state
    BY <1>1 DEF SlotsOf, client, IInv, Typing
  <2> QED
    BY <1>1, <1>2, <1>4, <2>1 DEF client, Talk, Silent, Answering, Naming, Over, Gone
<1> QED
  BY <1>1, <1>3, <1>4 DEF TalkInv

LEMMA ForgetTalk ==
  ASSUME IInv, TalkInv, NEW c \in Clients, Forget(c) PROVE TalkInv'
<1>1. /\ fd[c] # 0 /\ SlotsOf(c) # {} /\ Gone(c) /\ server = "up"
      /\ known' = [known EXCEPT ![Slot(c)] = 0]
      /\ UNCHANGED <<client, state, name, game, thread>>
  BY DEF Forget, InState
<1>2. ClientsTyped' /\ NamesTyped' /\ ServerTyped'
  BY <1>1 DEF client, game, thread, TalkInv, ClientsTyped, NamesTyped, ServerTyped
<1>3. ASSUME NEW d \in Clients, d # c PROVE (Over(d) \/ Talk(d))'
  <2>1. /\ Over(d) \/ Talk(d)
        /\ UNCHANGED <<stage, prompt, inbox, fd, ready>>
    BY <1>1 DEF TalkInv, client
  <2> QED
    BY <1>1, <1>3, <2>1, OthersTalk DEF Over, Gone
<1>4. Talk(c)'
  <2>1. SlotsOf(c)' = {}
    <3>1. /\ Slot(c) \in DOMAIN known /\ known[Slot(c)] = fd[c]
          /\ known \in Seq(0 .. Cardinality(Clients))
      BY <1>1, SlotFound DEF IInv, Typing, Slots
    <3>2. \A s \in DOMAIN known : s # Slot(c) => known[s] # fd[c]
      BY <1>1, <3>1 DEF IInv, OneSlotPerDescriptor
    <3>3. DOMAIN known' = DOMAIN known /\ known'[Slot(c)] = 0
          /\ \A s \in DOMAIN known : s # Slot(c) => known'[s] = known[s]
      BY <1>1, <3>1
    <3> QED
      BY <1>1, <3>2, <3>3 DEF SlotsOf, client
  <2> QED
    BY <1>1, <2>1 DEF Talk, Gone, client
<1> QED
  BY <1>2, <1>3, <1>4 DEF TalkInv

(* What the server reads from a client is the answer to the question its slot   *)
(* is at (read_name, readChoice, getUserAck, wait_for_others), whoever comes,   *)
(* goes, is kicked out or gets the descriptor of one that was.                  *)
THEOREM Conversation == Spec => []TalkInv
<1>1. Init => TalkInv
  <2> SUFFICES ASSUME Init PROVE TalkInv
    OBVIOUS
  <2>1. <<>> \in Seq(Messages) /\ <<>> \in Seq(Names)
    OBVIOUS
  <2>2. ClientsTyped /\ NamesTyped /\ ServerTyped
    BY <2>1 DEF Init, ClientsTyped, NamesTyped, ServerTyped, Prompts
  <2>3. \A c \in Clients : Talk(c)
    BY DEF Init, Talk, Silent
  <2> QED
    BY <2>2, <2>3 DEF TalkInv
<1>2. IInv /\ CountInv /\ TalkInv /\ [Next]_vars => TalkInv'
  <2> SUFFICES ASSUME IInv, CountInv, TalkInv, [Next]_vars PROVE TalkInv'
    OBVIOUS
  <2>1. CASE UNCHANGED vars
    BY <2>1 DEF vars, client, session, game, thread, TalkInv, ClientsTyped, NamesTyped,
                ServerTyped, Talk, Silent, Answering, SlotsOf, Over, Gone
  <2> QED
    BY <2>1, ClientTalk, HandlerTalk, ForgetTalk, ThreadTalk DEF Next
<1> QED
  BY <1>1, <1>2, Invariance, Counting, PTL DEF Spec

(* The types of the sessions, for any number of clients: the counts stay within *)
(* their ranges, and what is stored for a name is one, or moves that came       *)
(* together, never a choice (read_name, handle_known_player).                   *)
THEOREM TypesAreOK == Spec => []TypeOK
<1>1. IInv /\ CountInv /\ TalkInv => TypeOK
  <2> SUFFICES ASSUME IInv, CountInv, TalkInv PROVE TypeOK
    OBVIOUS
  <2> QED
    BY DEF IInv, CountInv, TalkInv, Typing, ClientsTyped, NamesTyped, ServerTyped,
                Prompts, Messages, Names, TypeOK
<1> QED
  BY <1>1, Invariance, Counting, Conversation, PTL
=============================================================================
