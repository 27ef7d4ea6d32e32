---------------------------- MODULE UpdateStream ----------------------------
(***************************************************************************)
(* The pictures of the running game on one TCP connection: the server's    *)
(* send_game_updates_handler writes UPDATE_START, the cells of the board   *)
(* and UPDATE_END with three writes to a nonblocking socket; the client's  *)
(* thread receiveUpdates reads them back.                                  *)
(*                                                                         *)
(* TCP keeps the order of the bytes and nothing else.  A write to a full   *)
(* socket fails (EAGAIN), a write to one that is nearly full is cut short, *)
(* and a read returns what has arrived.  GAME_OVER is not here: the client *)
(* knows the byte, and the server never writes it.                         *)
(***************************************************************************)
EXTENDS Integers, Sequences

CONSTANTS Cells,   \* height * width of the board
          Cap,     \* bytes that fit between the two ends
          Frames   \* bound: the rounds of the updater thread

ASSUME StreamAssumption == Cells \in Nat \ {0} /\ Cap \in Nat \ {0} /\ Frames \in Nat

\* A byte is a marker, or a cell that is told apart by the frame it is of.
UPDATE_START == -1
UPDATE_END   == -2
Nul          == 0
Byte         == {UPDATE_START, UPDATE_END} \union 1 .. Frames

VARIABLES
  sent,     \* all the bytes that went into the connection
  got,      \* how many of them the client has read
  frame,    \* the number of the frame that is or was last written
  writer,   \* where the updater thread stands, or how the sending ended
  torn,     \* auxiliary: what has gone wrong with a message so far
  reader,   \* where the thread receiveUpdates stands
  buf       \* its buffer, as far as the protocol uses it

streamVars == <<sent, got, frame, writer, torn, reader, buf>>

Unread == Len(sent) - got
Free   == Cap - Unread
Lesser(m, n) == IF m < n THEN m ELSE n

Init ==
  /\ sent = <<>> /\ got = 0
  /\ frame = 0 /\ writer = "idle"
  /\ torn = {}
  /\ reader = "poll"
  /\ buf = [i \in 1 .. Cells |-> Nul]
-----------------------------------------------------------------------------
(***************************************************************************)
(* The server.                                                             *)
(***************************************************************************)

\* A frame whose START does not fit is left out as a whole.
WriteStart ==
  /\ writer = "idle" /\ frame < Frames
  /\ frame' = frame + 1
  /\ IF Free = 0
       THEN UNCHANGED <<sent, writer>>
       ELSE sent' = Append(sent, UPDATE_START) /\ writer' = "board"
  /\ UNCHANGED <<got, torn, reader, buf>>

\* Only a negative result makes the server give the frame up; a number of
\* bytes that is too small does not.
WriteBoard ==
  /\ writer = "board"
  /\ LET n == Lesser(Free, Cells)
     IN IF n = 0
          THEN writer' = "idle" /\ torn' = torn \union {"dropped"} /\ UNCHANGED sent
          ELSE /\ sent' = sent \o [i \in 1 .. n |-> frame]
               /\ torn' = IF n < Cells THEN torn \union {"cut"} ELSE torn
               /\ writer' = "end"
  /\ UNCHANGED <<got, frame, reader, buf>>

WriteEnd ==
  /\ writer = "end"
  /\ IF Free = 0
       THEN torn' = torn \union {"dropped"} /\ UNCHANGED sent
       ELSE sent' = Append(sent, UPDATE_END) /\ UNCHANGED torn
  /\ writer' = "idle"
  /\ UNCHANGED <<got, frame, reader, buf>>

\* stop_updates: the timer is disarmed and no more pictures come, while the
\* connection stays open.
StopUpdates ==
  /\ writer = "idle"
  /\ writer' = "silent"
  /\ UNCHANGED <<sent, got, frame, torn, reader, buf>>

\* The server's process ends, or the connection breaks.
Close ==
  /\ writer # "closed"
  /\ writer' = "closed"
  /\ UNCHANGED <<sent, got, frame, torn, reader, buf>>

Server == WriteStart \/ WriteBoard \/ WriteEnd \/ StopUpdates \/ Close
-----------------------------------------------------------------------------
(***************************************************************************)
(* receiveUpdates.  On a closed connection a read returns nothing (0 or    *)
(* -1), at the latest when all bytes are read; the results are not tested. *)
(***************************************************************************)
Closed == writer = "closed"

\* Faulty variant: the thread takes it for granted that a message begins here.
PollReadyUnsynced ==
  /\ reader = "poll"
  /\ Unread > 0 \/ Closed
  /\ reader' = "board"
  /\ UNCHANGED <<sent, got, frame, writer, torn, buf>>

PollReady ==
  /\ reader = "poll"
  /\ Unread > 0 \/ Closed
  /\ reader' = "sync"
  /\ UNCHANGED <<sent, got, frame, writer, torn, buf>>

\* Faulty variant: nothing comes of the timeout.
PollTimeoutIgnored ==
  /\ reader = "poll"
  /\ Unread = 0 /\ ~Closed
  /\ UNCHANGED streamVars

\* Nothing came for three seconds: isGameOver, and the thread ends.
PollTimeout ==
  /\ reader = "poll"
  /\ Unread = 0 /\ ~Closed
  /\ reader' = "ended"
  /\ UNCHANGED <<sent, got, frame, writer, torn, buf>>

\* Byte by byte up to an UPDATE_START.  When buf[0] is read for the first time
\* it is never UPDATE_START: it is Nul, or the UPDATE_END of the message before.
\* At the end of a closed connection the loop spins and changes nothing.
ReadSync ==
  /\ reader = "sync" /\ Unread > 0
  /\ got' = got + 1
  /\ buf' = [buf EXCEPT ![1] = sent[got + 1]]
  /\ reader' = IF sent[got + 1] = UPDATE_START THEN "board" ELSE "sync"
  /\ UNCHANGED <<sent, frame, writer, torn>>

\* One read for the whole board.  What it does not fill keeps its old bytes,
\* and the picture is printed before the message is checked.
ReadBoard ==
  /\ reader = "board"
  /\ \/ \E n \in 1 .. Lesser(Unread, Cells) :
          /\ got' = got + n
          /\ buf' = [i \in 1 .. Cells |-> IF i <= n THEN sent[got + i] ELSE buf[i]]
          /\ torn' = IF n < Cells THEN torn \union {"shortRead"} ELSE torn
     \/ Closed /\ UNCHANGED <<got, buf, torn>>
  /\ reader' = "end"
  /\ UNCHANGED <<sent, frame, writer>>

\* Faulty variant: the byte behind the board is read and not looked at.
ReadEndUnchecked ==
  /\ reader = "end"
  /\ Unread > 0
  /\ got' = got + 1
  /\ buf' = [buf EXCEPT ![1] = sent[got + 1]]
  /\ reader' = "poll"
  /\ UNCHANGED <<sent, frame, writer, torn>>

\* "Something wrong... exiting" ends the client's process, all threads.
ReadEnd ==
  /\ reader = "end"
  /\ \/ /\ Unread > 0
        /\ got' = got + 1
        /\ buf' = [buf EXCEPT ![1] = sent[got + 1]]
     \/ Closed /\ UNCHANGED <<got, buf>>
  /\ reader' = IF buf'[1] = UPDATE_END THEN "poll" ELSE "failed"
  /\ UNCHANGED <<sent, frame, writer, torn>>

receiveUpdates == PollReady \/ PollTimeout \/ ReadSync \/ ReadBoard \/ ReadEnd
-----------------------------------------------------------------------------
StreamTypeOK ==
  /\ sent \in Seq(Byte) /\ got \in 0 .. Len(sent)
  /\ frame \in 0 .. Frames
  /\ writer \in {"idle", "board", "end", "silent", "closed"}
  /\ torn \subseteq {"dropped", "cut", "shortRead"}
  /\ reader \in {"poll", "sync", "board", "end", "ended", "failed", "stuck"}
  /\ buf \in [1 .. Cells -> Byte \union {Nul}]

\* A picture that passes the check of its last byte is one frame, whole and
\* with no cell of another one, unless a write of a board was cut short; even
\* when other writes were dropped or reads were short.
OneFrame == \E k \in 1 .. Frames : \A i \in 1 .. Cells : buf[i] = k

AcceptsWholePictures ==
  [][reader = "end" /\ reader' = "poll" /\ "cut" \notin torn => OneFrame]_streamVars

\* "Something wrong" is really wrong: the client gives up only when a write was
\* dropped or cut, a read was short, or the connection is closed.
FailsOnlyWhenTorn == reader = "failed" => torn # {} \/ Closed

\* When pictures cease on an open connection, the thread takes it for the end of
\* the game, unless a message was left unfinished before.
SilenceEndsUpdates ==
  writer = "silent" /\ torn = {} ~> reader \in {"ended", "failed", "stuck"} \/ Closed

\* The timeout is there "to detect a game over / disconnection" (README.md:80):
\* a closed connection ends the thread.
ClosedEndsUpdates == Closed ~> reader \in {"ended", "failed", "stuck"}
=============================================================================
