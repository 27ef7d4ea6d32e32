----------------------------- MODULE GameLobby -----------------------------
(* The sessions of the multiplayer server (server/main.c): accept, the edge-    *)
(* triggered epoll loop, and handle_player_event with all it calls, which takes *)
(* a client from its name over its choice into the game and out again.  Moves   *)
(* and deaths are GameWorld's subject: here the updater thread only exists,     *)
(* marks player 0 as dead, and ends.  A client follows interactWithServer of    *)
(* client/main.c and may leave at any time.                                     *)
EXTENDS Integers, Sequences, FiniteSets

CONSTANTS Clients,
          Choices,      \* what clients answer: start, join, wait, or other than 1, 2, 3
          MaxPlayers,   \* MAX_NUM_OF_PLAYERS, the length of players_info
          MaxInbox,     \* moves that may wait unread
          CountMod      \* num_of_alive_players is counted modulo this

ASSUME LobbyAssumption ==
    /\ IsFiniteSet(Clients) /\ MaxPlayers \in Nat \ {0}
    /\ Choices \subseteq {"start", "join", "wait", "other"}
    /\ MaxInbox \in Nat \ {0}
    /\ CountMod \in Nat /\ CountMod > MaxPlayers + 1

VARIABLES
    stage,     \* the client's program: away, lobby, playing, gone
    prompt,    \* the message it has to answer: none, name, options, started
    inbox,     \* what it sent and the server has not read
    fd,        \* its descriptor in the server, 0 when there is none
    ready,     \* the clients for whose descriptor epoll will report an edge
    known,     \* known_players_fds, 0 for -1
    state,     \* players_info[].state
    name,      \* players_info[].name: none yet, a name, or moves taken for one
    alive,     \* num_of_alive_players
    started,   \* has_someone_started_a_game
    initiator, \* game_initiator_idx
    board,     \* p_board is not NULL
    updaters,  \* how often start_game created the updater thread
    updater,   \* the thread: none, running, ended, joined
    errno,     \* the main thread's errno is EAGAIN
    main,      \* the main thread: serving, joining, exited
    server     \* the process: up, crashed, exited, overrun (its table is full and
               \* it serves a client through players_info[-1])

client == <<stage, prompt, inbox, fd, ready>>
session == <<known, state, name>>
game == <<alive, started, initiator, board, updaters, updater>>
thread == <<errno, main, server>>
vars == <<client, session, game, thread>>

Init ==
    /\ stage = [c \in Clients |-> "away"] /\ prompt = [c \in Clients |-> "none"]
    /\ inbox = [c \in Clients |-> <<>>] /\ fd = [c \in Clients |-> 0] /\ ready = {}
    /\ known = <<>> /\ state = <<>> /\ name = <<>>
    /\ alive = 0 /\ started = FALSE /\ initiator = -1 /\ board = FALSE
    /\ updaters = 0 /\ updater = "none"
    /\ errno = FALSE /\ main = "serving" /\ server = "up"
-----------------------------------------------------------------------------
Serving == server = "up" /\ main = "serving"

\* Faulty variant: the last slot is not looked at.
SlotsOfShort(c) == {s \in 1 .. Len(known) - 1 : known[s] = fd[c]}

(* getPlayerIndex: the slots (counted from 1) of a descriptor.                  *)
SlotsOf(c) == {s \in DOMAIN known : known[s] = fd[c]}
Slot(c) == CHOOSE s \in SlotsOf(c) : \A t \in SlotsOf(c) : s <= t

(* epoll_setup: accept, O_NONBLOCK, EPOLL_CTL_ADD; the new socket is writable.  *)
(* The kernel hands out the lowest descriptor that is free.                     *)
FreeDescriptors == {f \in 1 .. Cardinality(Clients) : \A c \in Clients : fd[c] # f}

Accept(c) ==
    /\ Serving /\ stage[c] = "away"
    /\ \E f \in FreeDescriptors : /\ \A g \in FreeDescriptors : f <= g
                                  /\ fd' = [fd EXCEPT ![c] = f]
    /\ stage' = [stage EXCEPT ![c] = "lobby"]
    /\ ready' = ready \cup {c}
    /\ UNCHANGED <<prompt, inbox, session, game, thread>>

(* The client's side: it answers what it was asked, moves, or goes away.        *)
Reply(c, asked, answer) ==
    /\ stage[c] = "lobby" /\ prompt[c] = asked
    /\ inbox' = [inbox EXCEPT ![c] = Append(@, answer)]
    /\ prompt' = [prompt EXCEPT ![c] = "none"]
    /\ ready' = ready \cup {c}
    /\ stage' = IF asked = "started" THEN [stage EXCEPT ![c] = "playing"] ELSE stage
    /\ UNCHANGED <<fd, session, game, thread>>

SendName(c)   == Reply(c, "name", "name")
SendChoice(c) == \E n \in Choices : Reply(c, "options", n)
SendAck(c)    == Reply(c, "started", "ack")

SendMove(c) ==
    /\ stage[c] = "playing" /\ Len(inbox[c]) < MaxInbox
    /\ inbox' = [inbox EXCEPT ![c] = Append(@, "move")]
    /\ ready' = ready \cup {c}
    /\ UNCHANGED <<stage, prompt, fd, session, game, thread>>

Quit(c) ==
    /\ stage[c] \in {"lobby", "playing"}
    /\ stage' = [stage EXCEPT ![c] = "gone"]
    /\ ready' = ready \cup {c}
    /\ UNCHANGED <<prompt, inbox, fd, session, game, thread>>
-----------------------------------------------------------------------------
(* What the handlers have in common.  A handler consumes the edge; its client   *)
(* keeps rest unread and is sent the message p.                                 *)
Handle(c, rest, p) ==
    /\ ready' = ready \ {c}
    /\ inbox' = [inbox EXCEPT ![c] = rest]
    /\ prompt' = [prompt EXCEPT ![c] = p]

InState(c, states) == SlotsOf(c) # {} /\ state[Slot(c)] \in states
Gone(c) == stage[c] = "gone"

(* A read without data: EAGAIN, or the end, which leaves errno alone, or the    *)
(* reset, which sets it to another error.                                       *)
ReadNothing(c) == errno' \in IF Gone(c) THEN {errno, FALSE} ELSE {TRUE}

(* A second write to a client that is gone may raise SIGPIPE.                   *)
WriteTwice(c) == server' \in {"up"} \cup (IF Gone(c) THEN {"crashed"} ELSE {})

(* wait_for_updater_thread: pthread_join of a thread that never was, or was     *)
(* joined before, is undefined.                                                 *)
JoinUpdater ==
    CASE updater = "none"    -> server' = "crashed" /\ UNCHANGED <<main, updater>>
      [] updater = "running" -> main' = "joining" /\ UNCHANGED <<server, updater>>
      [] updater = "ended"   -> updater' = "joined" /\ UNCHANGED <<main, server>>
      [] updater = "joined"  -> server' \in {"crashed", "exited"} /\ UNCHANGED <<main, updater>>

\* Faulty variant: the player is not counted out.
DisconnectUncounted(c) ==
    /\ state' = [state EXCEPT ![Slot(c)] = "DISCONNECTED"]
    /\ known' = [known EXCEPT ![Slot(c)] = 0]
    /\ fd' = [fd EXCEPT ![c] = 0]
    /\ UNCHANGED <<game, main, server>>

(* handle_disconnected_player and, when check_game_over says so, the join; in   *)
(* the game, after a reset of the connection, the main thread's end instead.    *)
(* check_game_over reads the board to send it.                                  *)
Disconnect(c) ==
    /\ state' = [state EXCEPT ![Slot(c)] = "DISCONNECTED"]
    /\ known' = [known EXCEPT ![Slot(c)] = 0]
    /\ fd' = [fd EXCEPT ![c] = 0]
    /\ alive' = (alive + CountMod - 1) % CountMod
    /\ IF alive # 1 THEN UNCHANGED <<started, updater, main, server>>
       ELSE IF ~board THEN server' = "crashed" /\ UNCHANGED <<started, updater, main>>
       ELSE /\ started' = FALSE
            /\ \/ JoinUpdater
               \/ /\ state[Slot(c)] = "INSIDE_A_GAME"
                  /\ main' = "exited" /\ UNCHANGED <<updater, server>>
    /\ UNCHANGED <<initiator, board, updaters>>

(* A slot whose descriptor the server has forgotten keeps its state.            *)
SomeForgotten == \E s \in DOMAIN known :
    known[s] = 0 /\ state[s] \in {"INSIDE_A_GAME", "DEAD"}

(* handle_player_event for a descriptor that is in no slot: addToKnownPlayers   *)
(* and inquiryForPlayerName.  A client that was forgotten is taken for a new    *)
(* one, and asking a client that is gone again may raise SIGPIPE.               *)
NewPlayer(c) ==
    /\ SlotsOf(c) = {} /\ Len(known) < MaxPlayers
    /\ known' = Append(known, fd[c]) /\ state' = Append(state, "WAS_ASKED_FOR_NAME")
    /\ name' = Append(name, "none")
    /\ alive' = (alive + 1) % CountMod
    /\ Handle(c, inbox[c], "name")
    /\ IF SomeForgotten THEN WriteTwice(c) ELSE UNCHANGED server
    /\ UNCHANGED <<stage, fd, started, initiator, board, updaters, updater, errno, main>>

(* Slots are not used again.  When all are taken the code goes on with index    *)
(* -1: it asks for the name, reads it and stores both in front of players_info. *)
(* What that does is undefined, and the model ends.                             *)
OverrunTable(c) ==
    /\ SlotsOf(c) = {} /\ Len(known) = MaxPlayers
    /\ server' = "overrun"
    /\ Handle(c, inbox[c], "name")
    /\ UNCHANGED <<stage, fd, session, game, errno, main>>

(* read_name without a name: nothing to read, or the end of the connection,     *)
(* which is told from it by an errno that an earlier call has left behind,      *)
(* unless the connection was reset.                                             *)
NoName(c) ==
    /\ InState(c, {"WAS_ASKED_FOR_NAME", "WAITING_FOR_NAME"}) /\ inbox[c] = <<>>
    /\ \/ Gone(c) /\ server' = "exited" /\ UNCHANGED <<state, errno>>
       \/ /\ Gone(c) => errno
          /\ state' = [state EXCEPT ![Slot(c)] = "WAITING_FOR_NAME"]
          /\ errno' = TRUE /\ UNCHANGED server
    /\ Handle(c, <<>>, prompt[c])
    /\ UNCHANGED <<stage, fd, known, name, game, main>>

\* Faulty variant: the options are not sent.
ReadNameSilently(c) ==
    /\ InState(c, {"WAS_ASKED_FOR_NAME", "WAITING_FOR_NAME"}) /\ inbox[c] # <<>>
    /\ name' = [name EXCEPT ![Slot(c)] = inbox[c][1]]
    /\ Handle(c, <<>>, "none")
    /\ state' = [state EXCEPT ![Slot(c)] = "WAITING_FOR_CHOICE"]
    /\ UNCHANGED <<stage, known, fd, game, thread>>

(* read_name with a name; the options go out, and readChoice, which follows in  *)
(* the same event, finds nothing yet.  (If the client is gone: Disconnect.)     *)
ReadName(c) ==
    /\ InState(c, {"WAS_ASKED_FOR_NAME", "WAITING_FOR_NAME"}) /\ inbox[c] # <<>>
    /\ name' = [name EXCEPT ![Slot(c)] = inbox[c][1]]
    /\ Handle(c, <<>>, "options")
    /\ UNCHANGED stage
    /\ \/ /\ ~Gone(c)
          /\ state' = [state EXCEPT ![Slot(c)] = "WAITING_FOR_CHOICE"]
          /\ errno' = TRUE
          /\ UNCHANGED <<known, fd, game, main, server>>
       \/ Gone(c) /\ Disconnect(c) /\ ReadNothing(c)
       \/ Gone(c) /\ server' = "crashed" /\ UNCHANGED <<known, state, fd, game, main, errno>>

Choosing(c) == InState(c, {"WAITING_FOR_CHOICE"})

NoChoice(c) ==
    /\ Choosing(c) /\ inbox[c] = <<>>
    /\ Handle(c, <<>>, prompt[c]) /\ ReadNothing(c)
    /\ IF Gone(c) THEN Disconnect(c)
       ELSE UNCHANGED <<known, state, fd, game, main, server>>
    /\ UNCHANGED <<stage, name>>

\* Faulty variant: new_game is not called.
StartWithoutBoard(c) ==
    /\ Choosing(c) /\ inbox[c] # <<>> /\ inbox[c][1] = "start" /\ ~started
    /\ state' = [state EXCEPT ![Slot(c)] = "WAITING_FOR_CLIENT_TO_ACK_GAME"]
    /\ initiator' = 0
    /\ Handle(c, Tail(inbox[c]), "started")
    /\ UNCHANGED <<stage, fd, known, name, alive, started, board, updaters, updater, thread>>

(* START_NEW_GAME.  player->index, never set, makes player 0 the initiator.     *)
(* While a game is on, the answer is dropped.                                   *)
StartNewGame(c) ==
    /\ Choosing(c) /\ inbox[c] # <<>> /\ inbox[c][1] = "start"
    /\ IF started
       THEN /\ Handle(c, Tail(inbox[c]), "none")
            /\ UNCHANGED <<state, started, initiator, board, server>>
       ELSE /\ state' = [state EXCEPT ![Slot(c)] = "WAITING_FOR_CLIENT_TO_ACK_GAME"]
            /\ initiator' = 0 /\ board' = TRUE /\ started' = TRUE
            /\ Handle(c, Tail(inbox[c]), "started") /\ WriteTwice(c)
    /\ UNCHANGED <<stage, fd, known, name, alive, updaters, updater, errno, main>>

(* JOIN_EXISTING_GAME does not ask whether there is a game: GAME_STARTED goes   *)
(* out, and then the size of the board is read, through NULL if there is none.  *)
JoinExistingGame(c) ==
    /\ Choosing(c) /\ inbox[c] # <<>> /\ inbox[c][1] = "join"
    /\ state' = [state EXCEPT ![Slot(c)] = "WAITING_FOR_CLIENT_TO_ACK_GAME"]
    /\ Handle(c, Tail(inbox[c]), "started")
    /\ IF board THEN WriteTwice(c) ELSE server' = "crashed"
    /\ UNCHANGED <<stage, fd, known, name, game, errno, main>>

(* WAIT_FOR_OTHERS: wait_for_others stores the option's number, 3, as a state,  *)
(* where 3 is WAITING_FOR_NAME.                                                 *)
WaitForOthers(c) ==
    /\ Choosing(c) /\ inbox[c] # <<>> /\ inbox[c][1] = "wait"
    /\ state' = [state EXCEPT ![Slot(c)] = "WAITING_FOR_NAME"]
    /\ Handle(c, Tail(inbox[c]), "none")
    /\ UNCHANGED <<stage, fd, known, name, game, thread>>

(* Any other answer: the descriptor is closed, the slot keeps its number.       *)
KickOut(c) ==
    /\ Choosing(c) /\ inbox[c] # <<>> /\ inbox[c][1] = "other"
    /\ Handle(c, <<>>, "none")
    /\ fd' = [fd EXCEPT ![c] = 0] /\ stage' = [stage EXCEPT ![c] = "gone"]
    /\ UNCHANGED <<session, game, thread>>

Acknowledging(c) == InState(c, {"WAITING_FOR_CLIENT_TO_ACK_GAME"})

\* Faulty variant: everyone who acknowledges starts the game.
GetAnyAck(c) ==
    /\ Acknowledging(c) /\ inbox[c] # <<>>
    /\ Handle(c, Tail(inbox[c]), prompt[c])
    /\ state' = [state EXCEPT ![Slot(c)] = "INSIDE_A_GAME"]
    /\ updaters' = updaters + 1 /\ updater' = "running"
    /\ UNCHANGED <<stage, fd, known, name, alive, started, initiator, board, thread>>

(* getUserAck: one byte is read, and compared even if there was none because    *)
(* the client is gone.  start_game is the initiator's alone.  When              *)
(* put_player_on_board then draws no empty cell the server exits.               *)
GetUserAck(c) ==
    /\ Acknowledging(c) /\ (inbox[c] # <<>> \/ Gone(c))
    /\ Handle(c, IF inbox[c] = <<>> THEN <<>> ELSE Tail(inbox[c]), prompt[c])
    /\ IF initiator = Slot(c) - 1
       THEN updaters' = updaters + 1 /\ updater' = "running"
       ELSE UNCHANGED <<updaters, updater>>
    /\ \/ state' = [state EXCEPT ![Slot(c)] = "INSIDE_A_GAME"] /\ UNCHANGED server
       \/ server' = "exited" /\ UNCHANGED state
    /\ UNCHANGED <<stage, fd, known, name, alive, started, initiator, board, errno, main>>

NoUserAck(c) ==
    /\ Acknowledging(c) /\ inbox[c] = <<>>
    /\ Handle(c, <<>>, prompt[c]) /\ ReadNothing(c)
    /\ UNCHANGED <<stage, fd, session, game, main, server>>

(* handle_known_player: everything that is there is read at once; one byte is a *)
(* move, more are a name, none is the end.                                      *)
ReadMoves(c) ==
    /\ InState(c, {"INSIDE_A_GAME"}) /\ inbox[c] # <<>>
    /\ name' = IF Len(inbox[c]) = 1 THEN name ELSE [name EXCEPT ![Slot(c)] = "moves"]
    /\ Handle(c, <<>>, prompt[c])
    /\ UNCHANGED <<stage, fd, known, state, game, thread>>

NoMoves(c) ==
    /\ InState(c, {"INSIDE_A_GAME"}) /\ inbox[c] = <<>>
    /\ Handle(c, <<>>, prompt[c]) /\ ReadNothing(c)
    /\ IF Gone(c) THEN Disconnect(c)
       ELSE UNCHANGED <<known, state, fd, game, main, server>>
    /\ UNCHANGED <<stage, name>>

(* Players that are dead, or whose slot is, are not listened to.                *)
Ignore(c) ==
    /\ InState(c, {"DEAD", "DISCONNECTED"})
    /\ Handle(c, inbox[c], prompt[c])
    /\ UNCHANGED <<stage, fd, session, game, thread>>

handle_player_event(c) ==
    /\ Serving /\ c \in ready /\ fd[c] # 0
    /\ \/ NewPlayer(c) \/ OverrunTable(c) \/ NoName(c) \/ ReadName(c) \/ NoChoice(c)
       \/ StartNewGame(c) \/ JoinExistingGame(c) \/ WaitForOthers(c) \/ KickOut(c)
       \/ GetUserAck(c) \/ NoUserAck(c) \/ ReadMoves(c) \/ NoMoves(c) \/ Ignore(c)
-----------------------------------------------------------------------------
\* Faulty variant: a signed count.
CaughtSigned ==
    /\ server = "up" /\ updater = "running"
    /\ \E s \in DOMAIN state : state[s] \in {"INSIDE_A_GAME", "DISCONNECTED"}
    /\ state' = [state EXCEPT ![1] = "DEAD"]
    /\ alive' = alive - 1
    /\ IF alive = 1 THEN started' = FALSE /\ updater' = "ended"
       ELSE UNCHANGED <<started, updater>>
    /\ UNCHANGED <<client, known, name, initiator, board, updaters, thread>>

(* The updater thread.  Whoever is caught, mark_as_dead is told player 0; the   *)
(* body of a player that left is caught like the player.                        *)
Caught ==
    /\ server = "up" /\ updater = "running"
    /\ \E s \in DOMAIN state : state[s] \in {"INSIDE_A_GAME", "DISCONNECTED"}
    /\ state' = [state EXCEPT ![1] = "DEAD"]
    /\ alive' = (alive + CountMod - 1) % CountMod
    /\ IF alive = 1 THEN started' = FALSE /\ updater' = "ended"
       ELSE UNCHANGED <<started, updater>>
    /\ UNCHANGED <<client, known, name, initiator, board, updaters, thread>>

(* wonGame: the last coin is taken.                                             *)
Won ==
    /\ server = "up" /\ updater = "running"
    /\ \E s \in DOMAIN state : state[s] = "INSIDE_A_GAME"
    /\ started' = FALSE /\ updater' = "ended"
    /\ UNCHANGED <<client, session, alive, initiator, board, updaters, thread>>

(* send_game_updates_handler: the picture for a client that is gone may be      *)
(* told of a reset, and the server forgets the descriptor.  (Allowed at any     *)
(* time after the first picture, so that the last one, which either thread      *)
(* sends, is among them.  That the write may raise SIGPIPE is in GameWorld.)    *)
Forget(c) ==
    /\ server = "up" /\ updater # "none" /\ fd[c] # 0 /\ Gone(c)
    /\ InState(c, {"INSIDE_A_GAME", "DEAD"})
    /\ known' = [known EXCEPT ![Slot(c)] = 0]
    /\ UNCHANGED <<client, state, name, game, thread>>

(* The main thread's pthread_join returns.                                      *)
Joined ==
    /\ server = "up" /\ main = "joining" /\ updater = "ended"
    /\ main' = "serving" /\ updater' = "joined"
    /\ UNCHANGED <<client, session, alive, started, initiator, board, updaters,
                   errno, server>>

Answer(c) == SendName(c) \/ SendChoice(c) \/ SendAck(c)

Next == \/ \E c \in Clients : \/ Accept(c) \/ Answer(c) \/ SendMove(c) \/ Quit(c)
                              \/ handle_player_event(c) \/ Forget(c)
        \/ Caught \/ Won \/ Joined

Spec == Init /\ [][Next]_vars

(* The epoll loop serves every edge, and clients answer what they are asked.    *)
FairSpec == Spec /\ \A c \in Clients : WF_vars(handle_player_event(c)) /\ WF_vars(Answer(c))
-----------------------------------------------------------------------------
States == {"DISCONNECTED", "WAS_ASKED_FOR_NAME", "WAITING_FOR_NAME", "WAITING_FOR_CHOICE",
           "WAITING_FOR_CLIENT_TO_ACK_GAME", "INSIDE_A_GAME", "DEAD"}

TypeOK ==
    /\ stage \in [Clients -> {"away", "lobby", "playing", "gone"}]
    /\ prompt \in [Clients -> {"none", "name", "options", "started"}]
    /\ inbox \in [Clients -> Seq({"name", "ack", "move"} \cup Choices)]
    /\ fd \in [Clients -> 0 .. Cardinality(Clients)] /\ ready \subseteq Clients
    /\ known \in Seq(0 .. Cardinality(Clients))
    /\ state \in Seq(States) /\ name \in Seq({"none", "name", "moves"})
    /\ Len(known) = Len(state) /\ Len(name) = Len(state)
    /\ Len(known) <= MaxPlayers
    /\ alive \in 0 .. CountMod - 1 /\ initiator \in {-1, 0}
    /\ {started, board, errno} \subseteq BOOLEAN
    /\ updaters \in Nat /\ updater \in {"none", "running", "ended", "joined"}
    /\ main \in {"serving", "joining", "exited"}
    /\ server \in {"up", "crashed", "exited", "overrun"}

(* However often games begin and end, start_game makes one updater thread at    *)
(* most: two would move the monsters and arm the timer against each other.      *)
OneUpdater == updaters <= 1

(* The count that ends the game is the number of slots still alive, as long as  *)
(* nobody was killed on the board (addToKnownPlayers, mark_as_dead).            *)
AliveCount == (\A s \in DOMAIN state : state[s] # "DEAD") =>
    alive = Cardinality({s \in DOMAIN state : state[s] # "DISCONNECTED"})

(* Nobody is in the game, or on the way into it, without a board.               *)
GameHasBoard == server = "up" =>
    \A s \in DOMAIN state :
       state[s] \in {"WAITING_FOR_CLIENT_TO_ACK_GAME", "INSIDE_A_GAME"} => board

(* What getPlayerIndex finds is the only match: two slots never share a         *)
(* descriptor, and two clients never do.                                        *)
OneSlotPerDescriptor ==
    /\ \A s, t \in DOMAIN known : s # t /\ known[s] # 0 => known[s] # known[t]
    /\ \A c, d \in Clients : c # d /\ fd[c] # 0 => fd[c] # fd[d]

(* The edge trigger does not keep a newcomer waiting: a client that connects    *)
(* with a descriptor getPlayerIndex does not know, and stays, is shown its      *)
(* options, and whoever is told of the game gets into it (epoll_setup,          *)
(* handle_player_event).  Who is given the descriptor of a client that was      *)
(* kicked out is no newcomer to the server, see EverybodyIsServed.              *)
Down(c) == Gone(c) \/ ~Serving
NewcomersAreServed == \A c \in Clients :
    /\ (stage[c] = "lobby" /\ fd[c] # 0 /\ SlotsOf(c) = {}) ~> (prompt[c] = "options" \/ Down(c))
    /\ (prompt[c] = "started") ~> (InState(c, {"INSIDE_A_GAME", "DEAD"}) \/ Down(c))

------------------------------------------------------------------------------
(***************************************************************************)
(* What the documents say and the code does not keep.                      *)
(***************************************************************************)

(* protocol.md: "players connect to the server and decide between 3 options".   *)
(* A client that connects is new: its descriptor is not in a slot of another.   *)
FreshDescriptor == [][\A c \in Clients :
    stage[c] = "away" /\ stage'[c] = "lobby" => \A s \in DOMAIN known : known[s] # fd'[c]]_vars

(* The same line, as a promise: who connects and stays is shown the options.    *)
(* Who gets the descriptor of a client that was kicked out inherits its slot,   *)
(* which waits for a choice between options nobody has shown.                   *)
EverybodyIsServed == \A c \in Clients :
    (stage[c] = "lobby" /\ c \in ready /\ inbox[c] = <<>>) ~> (prompt[c] = "options" \/ Down(c))

(* design.md: clients can "logout at any time without crashing the server".     *)
ServerStaysUp == server = "up"

(* design.md: "Another thread/process will be in charge of pushing periodic     *)
(* game updates to the players who are registered to the current match".        *)
GameIsUpdated ==
    (/\ started /\ server = "up"
     /\ \E s \in DOMAIN state : state[s] = "INSIDE_A_GAME"
     /\ \A s \in DOMAIN state : state[s] # "WAITING_FOR_CLIENT_TO_ACK_GAME")
       => updater = "running"

(* "uses the new ready file descriptor until EAGAIN is returned" (main.c:1148): *)
(* once its event is served, nothing a client sent is left unread.              *)
ReadUntilEAGAIN == \A c \in Clients :
    fd[c] # 0 /\ c \notin ready /\ InState(c, States \ {"DEAD", "DISCONNECTED"}) /\ Serving
       => inbox[c] = <<>>

(* "user sent his/her name" (main.c:693): what is stored as a name is one.      *)
NamesAreNames == \A s \in DOMAIN name : name[s] # "moves"

(* "3. Wait for other players" (main.c:869): who waits is not asked to wait for *)
(* its own name again.                                                          *)
WaitersWait == [][\A s \in DOMAIN state :
    state[s] = "WAITING_FOR_CHOICE" => state'[s] # "WAITING_FOR_NAME"]_vars
=============================================================================
