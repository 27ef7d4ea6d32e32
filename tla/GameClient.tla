----------------------------- MODULE GameClient -----------------------------
(***************************************************************************)
(* The game client from GAME_STARTED to its end (client/main.c from        *)
(* startGameinClientSide, client/termios2.c).  Its threads: the main       *)
(* thread in send_move_commands, receiveUpdates (UpdateStream), and, for a *)
(* human, start_keyboard_listener.  A bot has no listener: the handler of  *)
(* SIGALRM chooses its moves, in whatever the interrupted thread was doing.*)
(* Main and whoever chooses the moves share currentMove under updates_lock *)
(* with the condition have_new_keystroke.                                  *)
(*                                                                         *)
(* A step is what a thread does between two points where another thread    *)
(* can make a difference.  isGameOver is written by receiveUpdates alone,  *)
(* just before it ends.                                                    *)
(***************************************************************************)
EXTENDS UpdateStream

CONSTANTS Keyboard,   \* the keys the user has, of those in KeyBytes
          MaxKeys,    \* bound: how many times the user presses one
          BotMoves    \* the directions that getrandom() gives

Directions == {"UP", "DOWN", "LEFT", "RIGHT"}
KeyBytes == [up    |-> <<"ESC", "[", "A">>,  down  |-> <<"ESC", "[", "B">>,
             right |-> <<"ESC", "[", "C">>,  left  |-> <<"ESC", "[", "D">>,
             End   |-> <<"ESC", "[", "F">>,  Esc   |-> <<"ESC">>,
             AltBracket |-> <<"ESC", "[">>,  other |-> <<"x">>]
Arrow == [A |-> "UP", B |-> "DOWN", C |-> "RIGHT", D |-> "LEFT"]

ASSUME ClientAssumption ==
    /\ Keyboard \subseteq DOMAIN KeyBytes /\ MaxKeys \in Nat
    /\ BotMoves \subseteq Directions

VARIABLES
  currentMove,      \* the move to be sent, "none" for -1
  last_sent_move,
  updates_lock,     \* its owner
  main,             \* where the main thread stands
  listener,         \* where the keyboard listener stands, "bot" if there is none
  tty,              \* the bytes typed and not read yet
  presses           \* how many keys the user has pressed

clientVars == <<currentMove, last_sent_move, updates_lock, main, listener, tty, presses>>
vars == <<streamVars, clientVars>>

Human      == listener # "bot"
isGameOver == reader = "ended"
Alive      == reader # "failed" /\ main \notin {"killed", "done"}

ClientInit ==
  /\ Init
  /\ currentMove = "none" /\ last_sent_move = "none"
  /\ updates_lock = "free"
  /\ main = "loop"
  /\ listener \in {"kbhit", "bot"}
  /\ tty = <<>> /\ presses = 0

Signal(at) == IF at = "asleep" THEN "woken" ELSE at  \* pthread_cond_signal
-----------------------------------------------------------------------------
(***************************************************************************)
(* send_move_commands, and the end of startGameinClientSide.               *)
(***************************************************************************)
TestGameOver ==
  /\ main = "loop"
  /\ main' = IF ~isGameOver THEN "lock" ELSE IF Human THEN "joinListener" ELSE "joinUpdates"
  /\ UNCHANGED <<currentMove, last_sent_move, updates_lock, listener, tty, presses>>

LockUpdates ==
  /\ main \in {"lock", "woken"}
  /\ updates_lock = "free"
  /\ updates_lock' = "main"
  /\ main' = "test"
  /\ UNCHANGED <<currentMove, last_sent_move, listener, tty, presses>>

\* The lock is held from here on, until the move is taken or pthread_cond_wait
\* releases it.
TestMove ==
  /\ main = "test"
  /\ IF currentMove = "none"
       THEN main' = "wait" /\ UNCHANGED <<currentMove, last_sent_move, updates_lock>>
       ELSE /\ last_sent_move' = currentMove
            /\ currentMove' = "none"
            /\ updates_lock' = "free"
            /\ main' = "write"
  /\ UNCHANGED <<listener, tty, presses>>

WaitForMove ==
  /\ main = "wait"
  /\ updates_lock' = "free"
  /\ main' = "asleep"
  /\ UNCHANGED <<currentMove, last_sent_move, listener, tty, presses>>

SpuriousWakeup ==
  /\ main = "asleep"
  /\ main' = "woken"
  /\ UNCHANGED <<currentMove, last_sent_move, updates_lock, listener, tty, presses>>

\* A write on a connection whose far end is gone raises SIGPIPE, the first one
\* perhaps not yet.
WriteMove ==
  /\ main = "write"
  /\ main' \in {"loop"} \union (IF Closed THEN {"killed"} ELSE {})
  /\ UNCHANGED <<currentMove, last_sent_move, updates_lock, listener, tty, presses>>

\* pthread_join of the listener, which pthread_cancel was called for (the
\* signals sent before only run its handler).
JoinListener ==
  /\ main = "joinListener"
  /\ listener = "ended"
  /\ main' = "joinUpdates"
  /\ UNCHANGED <<currentMove, last_sent_move, updates_lock, listener, tty, presses>>

JoinUpdates ==
  /\ main = "joinUpdates"
  /\ reader = "ended"
  /\ main' = "done"
  /\ UNCHANGED <<currentMove, last_sent_move, updates_lock, listener, tty, presses>>

Main == \/ TestGameOver \/ LockUpdates \/ TestMove \/ WaitForMove \/ WriteMove
        \/ JoinListener \/ JoinUpdates
-----------------------------------------------------------------------------
(***************************************************************************)
(* start_keyboard_listener.                                                *)
(***************************************************************************)
Press(k) ==
  /\ Human /\ presses < MaxKeys
  /\ presses' = presses + 1
  /\ tty' = tty \o KeyBytes[k]
  /\ UNCHANGED <<currentMove, last_sent_move, updates_lock, main, listener>>

\* kbhit() found a key; after the game the thread ends and signals nobody.
FirstByte ==
  /\ listener = "kbhit" /\ tty # <<>>
  /\ IF isGameOver
       THEN listener' = "ended" /\ UNCHANGED tty
       ELSE /\ tty' = Tail(tty)
            /\ listener' = IF Head(tty) = "ESC" THEN "second" ELSE "kbhit"
  /\ UNCHANGED <<currentMove, last_sent_move, updates_lock, main, presses>>

SecondByte ==
  /\ listener = "second" /\ tty # <<>>
  /\ tty' = Tail(tty)
  /\ listener' = IF Head(tty) = "[" THEN "lock" ELSE "kbhit"
  /\ UNCHANGED <<currentMove, last_sent_move, updates_lock, main, presses>>

\* Faulty variant: the lock is not taken.
ListenerLockForgotten ==
  /\ listener = "lock"
  /\ listener' = "third"
  /\ UNCHANGED <<currentMove, last_sent_move, updates_lock, main, tty, presses>>

ListenerLock ==
  /\ listener = "lock" /\ updates_lock = "free"
  /\ updates_lock' = "listener"
  /\ listener' = "third"
  /\ UNCHANGED <<currentMove, last_sent_move, main, tty, presses>>

\* The third byte is waited for with the lock held.  The key End ends the
\* thread; its STOPPED is taken modulo 4 later and sent as DOWN.
ThirdByte ==
  /\ listener = "third" /\ tty # <<>>
  /\ LET key == Head(tty)
     IN /\ currentMove' = CASE key \in DOMAIN Arrow -> Arrow[key]
                            [] key = "F"            -> "STOPPED"
                            [] OTHER                -> currentMove
        /\ listener' = IF key = "F" THEN "signalLast" ELSE "signal"
  /\ tty' = Tail(tty)
  /\ UNCHANGED <<last_sent_move, updates_lock, main, presses>>

\* Faulty variant: only the unlock.
ListenerUnlock ==
  /\ listener \in {"signal", "signalLast"}
  /\ updates_lock' = "free"
  /\ listener' = IF listener = "signal" THEN "kbhit" ELSE "ended"
  /\ UNCHANGED <<currentMove, last_sent_move, main, tty, presses>>

ListenerSignal ==
  /\ listener \in {"signal", "signalLast"}
  /\ main' = Signal(main)
  /\ updates_lock' = "free"
  /\ listener' = IF listener = "signal" THEN "kbhit" ELSE "ended"
  /\ UNCHANGED <<currentMove, last_sent_move, tty, presses>>

\* Faulty variant: without pthread_cancel the signals change nothing.
ListenerNotCancelled ==
  /\ main = "joinListener" /\ listener \in {"kbhit", "second", "third"}
  /\ UNCHANGED clientVars

\* Cancellation is deferred to select and read; updates_lock may stay locked.
ListenerCancelled ==
  /\ main = "joinListener" /\ listener \in {"kbhit", "second", "third"}
  /\ listener' = "ended"
  /\ UNCHANGED <<currentMove, last_sent_move, updates_lock, main, tty, presses>>

Listener == \/ FirstByte \/ SecondByte \/ ListenerLock \/ ThirdByte \/ ListenerSignal
            \/ ListenerCancelled
-----------------------------------------------------------------------------
(***************************************************************************)
(* timer_handler, the bot.  The timer runs until main disarms it.  The     *)
(* kernel interrupts the main thread, which may hold updates_lock: then    *)
(* the handler waits for the thread it has interrupted.                    *)
(***************************************************************************)
Armed == ~Human /\ main \notin {"joinUpdates", "done", "killed"}

BotChooses(cmd) ==
  /\ Armed /\ main # "stuck" /\ updates_lock = "free"
  /\ last_sent_move # cmd
  /\ currentMove' = cmd
  /\ main' = Signal(main)
  /\ UNCHANGED <<last_sent_move, updates_lock, listener, tty, presses>>

BotInterruptsOwner ==
  /\ Armed /\ updates_lock = "main"
  /\ main' = "stuck"
  /\ UNCHANGED <<currentMove, last_sent_move, updates_lock, listener, tty, presses>>

\* SIGALRM stays blocked in the handler that waits: the next one goes to the
\* other thread.
BotInterruptsUpdates ==
  /\ main = "stuck" /\ reader \notin {"ended", "stuck"}
  /\ reader' = "stuck"
  /\ UNCHANGED <<sent, got, frame, writer, torn, buf, clientVars>>

\* The moves are random: one that differs from the last is drawn in the end.
Bot == (\E cmd \in BotMoves : BotChooses(cmd)) \/ BotInterruptsOwner
-----------------------------------------------------------------------------
Updates == Alive /\ receiveUpdates /\ UNCHANGED clientVars
Stream  == Alive /\ Server /\ UNCHANGED clientVars
Threads == /\ Alive
           /\ Main \/ SpuriousWakeup \/ Listener \/ Bot \/ \E k \in Keyboard : Press(k)
           /\ UNCHANGED streamVars

Next == Stream \/ Updates \/ Threads \/ (Alive /\ BotInterruptsUpdates)

Spec == ClientInit /\ [][Next]_vars

\* The client's threads run; the bot's timer, which rings again and again, finds
\* the lock free in the end.  The server, the network and the user need not do
\* anything.
FairSpec ==
  /\ Spec
  /\ WF_vars(Updates)
  /\ WF_vars(Alive /\ Main /\ UNCHANGED streamVars)
  /\ WF_vars(Alive /\ Listener /\ UNCHANGED streamVars)
  /\ SF_vars(Alive /\ (\E cmd \in BotMoves : BotChooses(cmd)) /\ UNCHANGED streamVars)
-----------------------------------------------------------------------------
ClientTypeOK ==
  /\ currentMove \in Directions \union {"none", "STOPPED"}
  /\ last_sent_move \in Directions \union {"none", "STOPPED"}
  /\ updates_lock \in {"free", "main", "listener"}
  /\ main \in {"loop", "lock", "test", "wait", "asleep", "woken", "write", "stuck",
               "joinListener", "joinUpdates", "done", "killed"}
  /\ listener \in {"kbhit", "second", "lock", "third", "signal", "signalLast", "ended", "bot"}
  /\ presses \in 0 .. MaxKeys

TypeOK == StreamTypeOK /\ ClientTypeOK

\* No wakeup is lost: when the main thread sleeps on the condition although a
\* move is there, its signal is still to come from the listener that wrote it.
NoLostWakeup ==
  main = "asleep" /\ currentMove # "none"
    => listener \in {"signal", "signalLast"}

\* A move that was chosen is sent in the end, it or a later one that replaces
\* it, unless the game is over first, or a thread that waits keeps the lock:
\* the listener for the rest of a key, or a bot for itself.
Held == listener = "third" \/ main = "stuck"
ChosenMovesAreSent ==
  <>[]Held \/ (currentMove # "none" ~> currentMove = "none" \/ isGameOver \/ ~Alive)

\* After the game the client ends, unless the main thread waits for a human's
\* next move for good, spurious wakeups aside, or one of the two waits above
\* lasts.
WaitsForKey == Human /\ currentMove = "none" /\ main \in {"test", "wait", "asleep", "woken"}
ClientEnds ==
  <>isGameOver => <>(main = "done" \/ ~Alive) \/ <>[](Held \/ WaitsForKey)

-----------------------------------------------------------------------------
(***************************************************************************)
(* What the program says and does not keep.                                *)
(***************************************************************************)

\* "Game over, stopped receiving updates. press any key to exit." (main.c:267)
KeyEndsClient == isGameOver /\ tty # <<>> ~> main = "done" \/ ~Alive

\* The bot is a player for the whole game: its handler never waits for the thread
\* it has interrupted.
BotPlaysOn == main # "stuck"
=============================================================================
