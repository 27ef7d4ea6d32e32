------------------------- MODULE GameClient_proofs -------------------------
(***************************************************************************)
(* The game client and the framing of the pictures it reads, for boards,   *)
(* sockets and numbers of frames of any size, any keys, and any moves of a *)
(* bot.  First what the steps of server and reader keep (UpdateStream),    *)
(* then the threads of the client, then the theorems.                      *)
(***************************************************************************)
EXTENDS GameClient, TLAPS

\* While no write of a board was cut short, an END stands behind a whole frame.
WholeAt(e) ==
  /\ Cells < e
  /\ \E k \in 1 .. Frames : \A j \in e - Cells .. e - 1 : sent[j] = k

WholeFrames ==
  "cut" \notin torn =>
    /\ \A e \in 1 .. Len(sent) : sent[e] = UPDATE_END => WholeAt(e)
    /\ writer = "end" => /\ Cells <= Len(sent)
                         /\ \A j \in Len(sent) - Cells + 1 .. Len(sent) : sent[j] = frame

\* While nothing went wrong at all, a START is followed by its END in the right
\* place, when the message is not still being written.
EndsAt(s) ==
  \/ s + Cells + 1 <= Len(sent) /\ sent[s + Cells + 1] = UPDATE_END
  \/ writer = "board" /\ s = Len(sent)
  \/ writer = "end" /\ s = Len(sent) - Cells
  \/ Closed

StartsEnd ==
  torn = {} => \A s \in 1 .. Len(sent) : sent[s] = UPDATE_START => EndsAt(s)

\* What the reader has read since the last START.
ReadSince(n) ==
  /\ n < got /\ sent[got - n] = UPDATE_START
  /\ \A i \in 1 .. n : buf[i] = sent[got - n + i]
  /\ n = 0 => buf[1] = UPDATE_START
  /\ torn = {} /\ ~Closed => n = Cells

ReaderPlace ==
  /\ reader = "board" => 0 < got /\ sent[got] = UPDATE_START /\ buf[1] = UPDATE_START
  /\ reader = "end" => \E n \in 0 .. Cells : ReadSince(n)

FrameBegun == writer \in {"board", "end"} => frame # 0

\* The socket holds no more than it can.
Fits == Unread <= Cap

StreamInv ==
  /\ StreamTypeOK
  /\ Fits
  /\ FrameBegun
  /\ WholeFrames
  /\ StartsEnd
  /\ ReaderPlace
  /\ FailsOnlyWhenTorn

LEMMA StreamInit == Init => StreamInv
  BY StreamAssumption
  DEF Init, StreamInv, StreamTypeOK, FrameBegun, WholeFrames, StartsEnd, ReaderPlace,
      FailsOnlyWhenTorn, Byte, Nul, Fits, Unread
-----------------------------------------------------------------------------
(***************************************************************************)
(* The server's steps.                                                     *)
(***************************************************************************)

\* The markers are no cells.
LEMMA Markers == /\ UPDATE_START = -1 /\ UPDATE_END = -2 /\ Nul = 0
                 /\ UPDATE_START \in Byte /\ UPDATE_END \in Byte
                 /\ 1 .. Frames \subseteq Byte /\ Byte \subseteq Int
  BY StreamAssumption DEF UPDATE_START, UPDATE_END, Nul, Byte

\* The reader's facts are about bytes that are there: appending changes none.
LEMMA ReaderUndisturbed ==
  ASSUME StreamInv, NEW t \in Seq(Byte), sent' = sent \o t,
         UNCHANGED <<got, reader, buf>>, torn \subseteq torn', Closed => Closed'
  PROVE  ReaderPlace' /\ FailsOnlyWhenTorn'
<1> USE DEF StreamInv, StreamTypeOK
<1>1. \A i \in 1 .. got : sent'[i] = sent[i]
  OBVIOUS
<1>2. ReaderPlace'
  <2>1. ASSUME NEW n \in 0 .. Cells, ReadSince(n) PROVE ReadSince(n)'
    <3>1. \A i \in 1 .. n : got - n + i \in 1 .. got
      BY <2>1, StreamAssumption DEF ReadSince
    <3>2. got - n \in 1 .. got
      BY <2>1, StreamAssumption DEF ReadSince
    <3>3. sent'[got - n] = sent[got - n] /\ \A i \in 1 .. n : sent'[got - n + i] = sent[got - n + i]
      BY <1>1, <3>1, <3>2
    <3> QED BY <2>1, <3>3 DEF ReadSince
  <2> QED BY <1>1, <2>1 DEF ReaderPlace
<1>3. FailsOnlyWhenTorn'
  BY DEF FailsOnlyWhenTorn
<1> QED BY <1>2, <1>3

\* Nor does it disturb a frame that is there.
LEMMA FrameUndisturbed ==
  ASSUME StreamTypeOK, NEW e \in 1 .. Len(sent), WholeAt(e),
         \A i \in 1 .. Len(sent) : sent'[i] = sent[i]
  PROVE  WholeAt(e)'
<1>1. PICK k \in 1 .. Frames : \A j \in e - Cells .. e - 1 : sent[j] = k
  BY DEF WholeAt
<1>2. e - Cells .. e - 1 \subseteq 1 .. Len(sent)
  BY StreamAssumption DEF WholeAt, StreamTypeOK
<1> QED BY <1>1, <1>2 DEF WholeAt

LEMMA WriteStartStep == StreamInv /\ WriteStart => StreamInv'
<1> SUFFICES ASSUME StreamInv, WriteStart PROVE StreamInv'
  OBVIOUS
<1> USE StreamAssumption, Markers DEF StreamInv, WriteStart
<1>1. StreamTypeOK' /\ FrameBegun' /\ Fits'
  BY DEF StreamTypeOK, FrameBegun, Fits, Free, Unread
<1>2. CASE UNCHANGED <<sent, writer>>
  BY <1>1, <1>2 DEF ReaderPlace, ReadSince, FailsOnlyWhenTorn, Closed, WholeFrames, WholeAt,
                    StartsEnd, EndsAt
<1>3. CASE sent' = Append(sent, UPDATE_START) /\ writer' = "board"
  <2>1. /\ sent' = sent \o <<UPDATE_START>> /\ <<UPDATE_START>> \in Seq(Byte)
        /\ Len(sent') = Len(sent) + 1 /\ sent'[Len(sent) + 1] = UPDATE_START
        /\ \A i \in 1 .. Len(sent) : sent'[i] = sent[i]
    BY <1>3 DEF StreamTypeOK
  <2>2. ReaderPlace' /\ FailsOnlyWhenTorn'
    BY <1>3, <2>1, ReaderUndisturbed DEF Closed
  <2>3. ASSUME "cut" \notin torn', NEW e \in 1 .. Len(sent'), sent'[e] = UPDATE_END
        PROVE  WholeAt(e)'
    <3>1. e \in 1 .. Len(sent) /\ sent[e] = UPDATE_END
      BY <2>1, <2>3 DEF StreamTypeOK
    <3>2. WholeAt(e)
      BY <3>1, <2>3 DEF WholeFrames
    <3> QED BY <2>1, <3>1, <3>2, FrameUndisturbed
  <2>4. ASSUME torn' = {}, NEW s \in 1 .. Len(sent'), sent'[s] = UPDATE_START
        PROVE  EndsAt(s)'
    BY <1>3, <2>1, <2>4 DEF StartsEnd, EndsAt, Closed, StreamTypeOK
  <2> QED BY <1>1, <1>3, <2>2, <2>3, <2>4 DEF WholeFrames, StartsEnd
<1> QED BY <1>2, <1>3

LEMMA WriteBoardStep == StreamInv /\ WriteBoard => StreamInv'
<1> SUFFICES ASSUME StreamInv, WriteBoard PROVE StreamInv'
  OBVIOUS
<1> USE StreamAssumption, Markers DEF StreamInv
<1> DEFINE n == Lesser(Free, Cells)
<1>1. CASE n = 0
  <2>1. /\ writer' = "idle" /\ torn' = torn \union {"dropped"}
        /\ UNCHANGED <<sent, got, frame, reader, buf>>
    BY <1>1 DEF WriteBoard
  <2>2. torn' # {} /\ "dropped" \in torn'
    BY <2>1
  <2>3. StreamTypeOK' /\ FrameBegun' /\ Fits'
    BY <2>1 DEF StreamTypeOK, FrameBegun, Fits, Unread
  <2>4. WholeFrames' /\ StartsEnd'
    BY <2>1, <2>2 DEF WholeFrames, WholeAt, StartsEnd
  <2>5. ReaderPlace' /\ FailsOnlyWhenTorn'
    BY <2>1, <2>2 DEF ReaderPlace, ReadSince, FailsOnlyWhenTorn
  <2> QED BY <2>3, <2>4, <2>5
<1>2. CASE n # 0
  <2> DEFINE t == [i \in 1 .. n |-> frame]
  <2>1. /\ writer = "board" /\ writer' = "end" /\ sent' = sent \o t
        /\ torn' = (IF n < Cells THEN torn \union {"cut"} ELSE torn)
        /\ UNCHANGED <<got, frame, reader, buf>>
    BY <1>2 DEF WriteBoard
  <2>2. n \in 1 .. Cells /\ n <= Cap - Unread
    BY <1>2 DEF Lesser, Free, Unread, StreamTypeOK, Fits
  <2>3. frame \in 1 .. Frames /\ frame \in Byte
    BY <2>1 DEF FrameBegun, StreamTypeOK
  <2>4. t \in Seq(Byte) /\ Len(t) = n
    BY <2>2, <2>3
  <2> HIDE DEF n
  <2>5. /\ sent' \in Seq(Byte) /\ Len(sent') = Len(sent) + n
        /\ \A i \in 1 .. Len(sent) : sent'[i] = sent[i]
        /\ \A i \in Len(sent) + 1 .. Len(sent') : sent'[i] = frame
    BY <2>1, <2>2, <2>4 DEF StreamTypeOK
  <2>6. StreamTypeOK' /\ FrameBegun' /\ Fits'
    BY <2>1, <2>2, <2>3, <2>5 DEF StreamTypeOK, FrameBegun, Fits, Unread
  <2>7. ReaderPlace' /\ FailsOnlyWhenTorn'
    BY <2>1, <2>4, ReaderUndisturbed DEF Closed
  <2>8. WholeFrames'
    <3> SUFFICES ASSUME "cut" \notin torn' PROVE WholeFrames'
      BY DEF WholeFrames
    <3>1. n = Cells /\ "cut" \notin torn
      BY <2>1, <2>2
    <3>2. ASSUME NEW e \in 1 .. Len(sent'), sent'[e] = UPDATE_END PROVE WholeAt(e)'
      <4>1. e \in 1 .. Len(sent) /\ sent[e] = UPDATE_END
        BY <2>2, <2>3, <2>5, <3>2 DEF StreamTypeOK
      <4>2. WholeAt(e)
        BY <3>1, <4>1 DEF WholeFrames
      <4> QED BY <2>5, <4>1, <4>2, FrameUndisturbed
    <3> QED BY <2>1, <2>5, <3>1, <3>2 DEF WholeFrames, StreamTypeOK
  <2>9. StartsEnd'
    <3> SUFFICES ASSUME torn' = {}, NEW s \in 1 .. Len(sent'), sent'[s] = UPDATE_START
                 PROVE  EndsAt(s)'
      BY DEF StartsEnd
    <3>1. n = Cells /\ torn = {}
      <4>1. "cut" \notin torn'
        OBVIOUS
      <4>2. ASSUME n < Cells PROVE FALSE
        <5>1. torn' = torn \union {"cut"}
          BY <2>1, <4>2
        <5> QED BY <4>1, <5>1
      <4>3. torn' = torn
        BY <2>1, <4>2
      <4> QED BY <2>2, <4>2, <4>3
    <3>2. s \in 1 .. Len(sent) /\ sent[s] = UPDATE_START
      BY <2>2, <2>3, <2>5 DEF StreamTypeOK
    <3>3. (s + Cells + 1 <= Len(sent) /\ sent[s + Cells + 1] = UPDATE_END) \/ s = Len(sent)
      BY <2>1, <3>1, <3>2 DEF StartsEnd, EndsAt, Closed
    <3>4. CASE s = Len(sent)
      BY <2>1, <2>5, <3>1, <3>4 DEF EndsAt, StreamTypeOK
    <3>5. CASE s + Cells + 1 <= Len(sent) /\ sent[s + Cells + 1] = UPDATE_END
      <4>1. s + Cells + 1 \in 1 .. Len(sent) /\ s + Cells + 1 <= Len(sent')
        BY <2>2, <2>5, <3>5 DEF StreamTypeOK
      <4> QED BY <2>5, <3>5, <4>1 DEF EndsAt
    <3> QED BY <3>3, <3>4, <3>5
  <2> QED BY <2>6, <2>7, <2>8, <2>9
<1> QED BY <1>1, <1>2

LEMMA WriteEndStep == StreamInv /\ WriteEnd => StreamInv'
<1> SUFFICES ASSUME StreamInv, WriteEnd PROVE StreamInv'
  OBVIOUS
<1> USE StreamAssumption, Markers DEF StreamInv
<1>1. writer = "end" /\ writer' = "idle" /\ UNCHANGED <<got, frame, reader, buf>>
  BY DEF WriteEnd
<1>2. CASE UNCHANGED sent /\ torn' = torn \union {"dropped"}
  <2>1. StreamTypeOK' /\ FrameBegun' /\ Fits'
    BY <1>1, <1>2 DEF StreamTypeOK, FrameBegun, Fits, Unread
  <2>2. torn' # {}
    BY <1>2
  <2>3. WholeFrames' /\ StartsEnd' /\ ReaderPlace' /\ FailsOnlyWhenTorn'
    BY <1>1, <1>2, <2>2 DEF ReaderPlace, ReadSince, FailsOnlyWhenTorn, WholeFrames, WholeAt,
                            StartsEnd
  <2> QED BY <2>1, <2>3
<1>3. CASE Free # 0 /\ sent' = Append(sent, UPDATE_END) /\ UNCHANGED torn
  <2>1. /\ sent' = sent \o <<UPDATE_END>> /\ <<UPDATE_END>> \in Seq(Byte)
        /\ Len(sent') = Len(sent) + 1 /\ sent'[Len(sent) + 1] = UPDATE_END
        /\ \A i \in 1 .. Len(sent) : sent'[i] = sent[i]
    BY <1>3 DEF StreamTypeOK
  <2>2. ReaderPlace' /\ FailsOnlyWhenTorn'
    BY <1>1, <1>3, <2>1, ReaderUndisturbed DEF Closed
  <2>5. StreamTypeOK' /\ FrameBegun' /\ Fits'
    BY <1>1, <1>3, <2>1 DEF StreamTypeOK, FrameBegun, Fits, Free, Unread
  <2>3. ASSUME "cut" \notin torn', NEW e \in 1 .. Len(sent'), sent'[e] = UPDATE_END
        PROVE  WholeAt(e)'
    <3>1. CASE e \in 1 .. Len(sent)
      <4>1. sent[e] = UPDATE_END
        BY <2>1, <2>3, <3>1
      <4>2. WholeAt(e)
        BY <1>3, <3>1, <4>1, <2>3 DEF WholeFrames
      <4> QED BY <2>1, <3>1, <4>2, FrameUndisturbed
    <3>2. CASE e = Len(sent) + 1
      <4>1. /\ Cells <= Len(sent) /\ frame \in 1 .. Frames
            /\ \A j \in Len(sent) - Cells + 1 .. Len(sent) : sent[j] = frame
        BY <1>1, <1>3, <2>3 DEF WholeFrames, FrameBegun, StreamTypeOK
      <4>2. \A j \in e - Cells .. e - 1 : sent'[j] = frame
        BY <2>1, <3>2, <4>1 DEF StreamTypeOK
      <4> QED BY <3>2, <4>1, <4>2 DEF WholeAt, StreamTypeOK
    <3> QED BY <2>1, <3>1, <3>2 DEF StreamTypeOK
  <2>4. ASSUME torn' = {}, NEW s \in 1 .. Len(sent'), sent'[s] = UPDATE_START
        PROVE  EndsAt(s)'
    <3>1. s \in 1 .. Len(sent) /\ sent[s] = UPDATE_START
      BY <2>1, <2>4 DEF StreamTypeOK
    <3>2. \/ s + Cells + 1 <= Len(sent) /\ sent[s + Cells + 1] = UPDATE_END
          \/ s = Len(sent) - Cells
      BY <1>1, <1>3, <2>4, <3>1 DEF StartsEnd, EndsAt, Closed
    <3> QED BY <2>1, <3>1, <3>2 DEF EndsAt, StreamTypeOK
  <2> QED BY <1>1, <2>5, <2>2, <2>3, <2>4 DEF WholeFrames, StartsEnd
<1> QED BY <1>2, <1>3 DEF WriteEnd

\* The sender stops: nothing it has sent changes, and what it left unfinished is
\* excused by Closed.
LEMMA SenderStops == StreamInv /\ (StopUpdates \/ Close) => StreamInv'
<1> SUFFICES ASSUME StreamInv, StopUpdates \/ Close PROVE StreamInv'
  OBVIOUS
<1> USE DEF StreamInv
<1>1. /\ (writer = "idle" /\ writer' = "silent") \/ writer' = "closed"
      /\ UNCHANGED <<sent, got, frame, torn, reader, buf>>
  BY DEF StopUpdates, Close
<1>2. StreamTypeOK' /\ FrameBegun' /\ Fits'
  BY <1>1 DEF StreamTypeOK, FrameBegun, Fits, Unread
<1>3. WholeFrames'
  BY <1>1 DEF WholeFrames, WholeAt
<1>4. StartsEnd'
  BY <1>1 DEF StartsEnd, EndsAt, Closed
<1>5. ReaderPlace' /\ FailsOnlyWhenTorn'
  BY <1>1 DEF ReaderPlace, ReadSince, FailsOnlyWhenTorn, Closed
<1> QED BY <1>2, <1>3, <1>4, <1>5
-----------------------------------------------------------------------------
(***************************************************************************)
(* The reader's steps.                                                     *)
(***************************************************************************)

\* What was sent stays as it is while the reader moves; torn may grow.
LEMMA SenderUndisturbed ==
  ASSUME StreamInv, UNCHANGED <<sent, frame, writer>>, torn \subseteq torn'
  PROVE  FrameBegun' /\ WholeFrames' /\ StartsEnd'
BY DEF StreamInv, FrameBegun, WholeFrames, WholeAt, StartsEnd, EndsAt, Closed

LEMMA PollStep == StreamInv /\ (PollReady \/ PollTimeout) => StreamInv'
BY SenderUndisturbed
DEF StreamInv, PollReady, PollTimeout, StreamTypeOK, Fits, Unread, ReaderPlace, FailsOnlyWhenTorn

LEMMA ReadSyncStep == StreamInv /\ ReadSync => StreamInv'
<1> SUFFICES ASSUME StreamInv, ReadSync PROVE StreamInv'
  OBVIOUS
<1> USE StreamAssumption, Markers DEF StreamInv, ReadSync
<1>1. got + 1 \in 1 .. Len(sent) /\ sent[got + 1] \in Byte
  BY DEF Unread, StreamTypeOK
<1>2. StreamTypeOK' /\ Fits'
  BY <1>1 DEF StreamTypeOK, Fits, Unread
<1>3. ReaderPlace' /\ FailsOnlyWhenTorn'
  BY <1>1 DEF ReaderPlace, FailsOnlyWhenTorn, StreamTypeOK
<1> QED BY <1>2, <1>3, SenderUndisturbed

LEMMA ReadBoardStep == StreamInv /\ ReadBoard => StreamInv'
<1> SUFFICES ASSUME StreamInv, ReadBoard PROVE StreamInv'
  OBVIOUS
<1> USE StreamAssumption, Markers DEF StreamInv
<1>1. /\ reader = "board" /\ reader' = "end" /\ UNCHANGED <<sent, frame, writer>>
      /\ 0 < got /\ sent[got] = UPDATE_START /\ buf[1] = UPDATE_START
  BY DEF ReadBoard, ReaderPlace
<1>2. FailsOnlyWhenTorn'
  BY <1>1 DEF FailsOnlyWhenTorn
<1>3. CASE Closed /\ UNCHANGED <<got, buf, torn>>
  <2>1. ReadSince(0)'
    BY <1>1, <1>3 DEF ReadSince, Closed, StreamTypeOK
  <2>2. ReaderPlace'
    BY <1>1, <2>1 DEF ReaderPlace
  <2>3. StreamTypeOK' /\ Fits'
    BY <1>1, <1>3 DEF StreamTypeOK, Fits, Unread
  <2> QED BY <1>1, <1>2, <1>3, <2>2, <2>3, SenderUndisturbed
<1>4. ASSUME NEW n \in 1 .. Lesser(Unread, Cells),
             got' = got + n,
             buf' = [i \in 1 .. Cells |-> IF i <= n THEN sent[got + i] ELSE buf[i]],
             torn' = IF n < Cells THEN torn \union {"shortRead"} ELSE torn
      PROVE  StreamInv'
  <2>1. n \in 1 .. Cells /\ got + n <= Len(sent)
    BY DEF Lesser, Unread, StreamTypeOK
  <2>2. \A i \in 1 .. n : sent[got + i] \in Byte
    BY <2>1 DEF StreamTypeOK
  <2>3. StreamTypeOK' /\ Fits'
    BY <1>1, <1>4, <2>1, <2>2 DEF StreamTypeOK, Fits, Unread
  <2>4. ReadSince(n)'
    <3>1. got' - n = got /\ \A i \in 1 .. n : buf'[i] = sent[got + i]
      BY <1>4, <2>1 DEF StreamTypeOK
    <3>2. torn' = {} /\ ~Closed' => n = Cells
      <4>1. ASSUME torn' = {}, n < Cells PROVE FALSE
        <5>1. "shortRead" \in torn'
          BY <1>4, <4>1
        <5> QED BY <4>1, <5>1
      <4> QED BY <2>1, <4>1
    <3>3. n < got' /\ sent'[got' - n] = UPDATE_START
      BY <1>1, <1>4, <2>1, <3>1 DEF StreamTypeOK
    <3>4. \A i \in 1 .. n : buf'[i] = sent'[got' - n + i]
      BY <1>1, <3>1
    <3>5. n # 0
      BY <2>1
    <3> QED BY <3>2, <3>3, <3>4, <3>5 DEF ReadSince
  <2>5. ReaderPlace'
    BY <1>1, <2>1, <2>4 DEF ReaderPlace
  <2> QED BY <1>1, <1>2, <1>4, <2>3, <2>5, SenderUndisturbed
<1> QED BY <1>3, <1>4 DEF ReadBoard

\* The byte that ends a picture, when the reader reads it.
LEMMA NextEnds ==
  ASSUME StreamInv, NEW n \in 0 .. Cells, ReadSince(n), 0 < Unread
  PROVE  /\ torn = {} /\ ~Closed => sent[got + 1] = UPDATE_END
         /\ "cut" \notin torn /\ sent[got + 1] = UPDATE_END
              => n = Cells /\ \E k \in 1 .. Frames : \A i \in 1 .. Cells : buf[i] = k
<1> USE StreamAssumption, Markers DEF StreamInv, ReadSince
<1>1. /\ got + 1 \in 1 .. Len(sent) /\ got - n \in 1 .. Len(sent)
  BY DEF Unread, StreamTypeOK
<1>2. ASSUME torn = {}, ~Closed PROVE sent[got + 1] = UPDATE_END
  <2>1. n = Cells /\ EndsAt(got - n)
    BY <1>1, <1>2 DEF StartsEnd
  <2>2. got - n + Cells + 1 = got + 1 /\ got - n # Len(sent) /\ got - n # Len(sent) - Cells
    BY <1>1, <2>1 DEF StreamTypeOK
  <2> QED BY <1>2, <2>1, <2>2 DEF EndsAt
<1>3. ASSUME "cut" \notin torn, sent[got + 1] = UPDATE_END
      PROVE  n = Cells /\ \E k \in 1 .. Frames : \A i \in 1 .. Cells : buf[i] = k
  <2>1. PICK k \in 1 .. Frames : \A j \in got + 1 - Cells .. got : sent[j] = k
    BY <1>1, <1>3 DEF WholeFrames, WholeAt, StreamTypeOK
  <2>2. ~(n < Cells)
    <3> SUFFICES ASSUME n < Cells PROVE FALSE
      OBVIOUS
    <3>1. got - n \in got + 1 - Cells .. got
      BY DEF StreamTypeOK
    <3> QED BY <2>1, <3>1
  <2>3. \A i \in 1 .. Cells : buf[i] = k
    BY <1>1, <2>1, <2>2 DEF StreamTypeOK
  <2> QED BY <2>2, <2>3
<1> QED BY <1>2, <1>3

LEMMA ReadEndStep == StreamInv /\ ReadEnd => StreamInv'
<1> SUFFICES ASSUME StreamInv, ReadEnd PROVE StreamInv'
  OBVIOUS
<1> USE StreamAssumption, Markers DEF StreamInv
<1>1. PICK n \in 0 .. Cells : ReadSince(n)
  BY DEF ReadEnd, ReaderPlace
<1>2. /\ reader' = (IF buf'[1] = UPDATE_END THEN "poll" ELSE "failed")
      /\ UNCHANGED <<sent, frame, writer, torn>>
  BY DEF ReadEnd
<1>3. ReaderPlace'
  BY <1>2 DEF ReaderPlace
<1>4. CASE Unread > 0 /\ got' = got + 1 /\ buf' = [buf EXCEPT ![1] = sent[got + 1]]
  <2>1. got + 1 \in 1 .. Len(sent) /\ sent[got + 1] \in Byte
    BY <1>4 DEF Unread, StreamTypeOK
  <2>2. StreamTypeOK' /\ Fits'
    BY <1>2, <1>4, <2>1 DEF StreamTypeOK, Fits, Unread
  <2>3. buf'[1] = sent[got + 1]
    BY <1>4 DEF StreamTypeOK
  <2>4. FailsOnlyWhenTorn'
    BY <1>1, <1>2, <1>4, <2>3, NextEnds DEF FailsOnlyWhenTorn, Closed, Unread
  <2> QED BY <1>2, <1>3, <2>2, <2>4, SenderUndisturbed
<1>5. CASE Closed /\ UNCHANGED <<got, buf>>
  <2>1. StreamTypeOK' /\ Fits' /\ FailsOnlyWhenTorn'
    BY <1>2, <1>5 DEF StreamTypeOK, Fits, Unread, FailsOnlyWhenTorn, Closed
  <2> QED BY <1>2, <1>3, <2>1, SenderUndisturbed
<1> QED BY <1>4, <1>5 DEF ReadEnd

\* A picture that is accepted is whole.  At a connection that is closed nothing is
\* read, and buf[1], a START or a byte behind one, is no END.
LEMMA AcceptedIsWhole ==
  StreamInv /\ ReadEnd /\ reader' = "poll" /\ "cut" \notin torn => OneFrame
<1> SUFFICES ASSUME StreamInv, ReadEnd, reader' = "poll", "cut" \notin torn PROVE OneFrame
  OBVIOUS
<1> USE StreamAssumption, Markers DEF StreamInv
<1>1. PICK n \in 0 .. Cells : ReadSince(n)
  BY DEF ReadEnd, ReaderPlace
<1>2. buf'[1] = UPDATE_END
  BY DEF ReadEnd
<1>3. CASE Unread > 0 /\ got' = got + 1 /\ buf' = [buf EXCEPT ![1] = sent[got + 1]]
  <2>1. sent[got + 1] = UPDATE_END
    BY <1>2, <1>3 DEF StreamTypeOK
  <2> QED BY <1>1, <1>3, <2>1, NextEnds DEF OneFrame, Unread
<1>4. CASE Closed /\ UNCHANGED <<got, buf>>
  <2>1. buf[1] = UPDATE_END
    BY <1>2, <1>4
  <2>2. n # 0 /\ got - n + 1 \in 1 .. Len(sent) /\ sent[got - n + 1] = UPDATE_END
    BY <1>1, <2>1 DEF ReadSince, StreamTypeOK
  <2>3. WholeAt(got - n + 1)
    BY <2>2 DEF WholeFrames
  <2>4. \E k \in 1 .. Frames : sent[got - n] = k
    BY <2>3 DEF WholeAt, StreamTypeOK
  <2> QED BY <1>1, <2>4 DEF ReadSince
<1> QED BY <1>3, <1>4 DEF ReadEnd

\* Every step on the connection keeps the invariant.
LEMMA StreamStep == StreamInv /\ (Server \/ receiveUpdates) => StreamInv'
BY WriteStartStep, WriteBoardStep, WriteEndStep, SenderStops, PollStep, ReadSyncStep, ReadBoardStep,
   ReadEndStep
DEF Server, receiveUpdates

\* So does whatever leaves the connection alone, or holds its reader up.
LEMMA StreamStutter ==
  ASSUME StreamInv, UNCHANGED <<sent, got, frame, writer, torn, buf>>, reader' \in {reader, "stuck"}
  PROVE  StreamInv'
BY SenderUndisturbed
DEF StreamInv, StreamTypeOK, Fits, Unread, ReaderPlace, ReadSince, FailsOnlyWhenTorn, Closed
-----------------------------------------------------------------------------
\* Who holds updates_lock stands where the code holds it.  The listener that is
\* cancelled while it waits for its third byte leaves it locked.
LockDiscipline ==
  /\ updates_lock = "main" <=> main \in {"test", "wait", "stuck"}
  /\ listener \in {"third", "signal", "signalLast"} => updates_lock = "listener"

\* The main thread goes to sleep on a test that is still true.
SleepsOnNoMove == main = "wait" => currentMove = "none"

ThreadsInv == ClientTypeOK /\ LockDiscipline /\ SleepsOnNoMove /\ NoLostWakeup

ClientInv == StreamInv /\ ThreadsInv
-----------------------------------------------------------------------------
(***************************************************************************)
(* The threads that share currentMove.                                     *)
(***************************************************************************)
LEMMA MainStep == ThreadsInv /\ (Main \/ SpuriousWakeup) => ThreadsInv'
<1> SUFFICES ASSUME ThreadsInv, Main \/ SpuriousWakeup PROVE ThreadsInv'
  OBVIOUS
<1> USE DEF ThreadsInv, ClientTypeOK, LockDiscipline, SleepsOnNoMove, NoLostWakeup
<1>1. CASE TestGameOver
  BY <1>1 DEF TestGameOver
<1>2. CASE LockUpdates
  BY <1>2 DEF LockUpdates
<1>3. CASE TestMove
  BY <1>3 DEF TestMove
<1>4. CASE WaitForMove
  BY <1>4 DEF WaitForMove
<1>5. CASE WriteMove
  BY <1>5 DEF WriteMove
<1>6. CASE JoinListener
  BY <1>6 DEF JoinListener
<1>7. CASE JoinUpdates
  BY <1>7 DEF JoinUpdates
<1>8. CASE SpuriousWakeup
  BY <1>8 DEF SpuriousWakeup
<1> QED BY <1>1, <1>2, <1>3, <1>4, <1>5, <1>6, <1>7, <1>8 DEF Main

LEMMA ListenerStep == ThreadsInv /\ Listener => ThreadsInv'
<1> SUFFICES ASSUME ThreadsInv, Listener PROVE ThreadsInv'
  OBVIOUS
<1> USE DEF ThreadsInv, ClientTypeOK, LockDiscipline, SleepsOnNoMove, NoLostWakeup
<1>1. CASE FirstByte
  BY <1>1 DEF FirstByte
<1>2. CASE SecondByte
  BY <1>2 DEF SecondByte
<1>3. CASE ListenerLock
  BY <1>3 DEF ListenerLock
<1>4. CASE ThirdByte
  <2>1. currentMove' \in Directions \union {"none", "STOPPED"}
    BY <1>4 DEF ThirdByte, Arrow, Directions
  <2>2. listener' \in {"signal", "signalLast"} /\ UNCHANGED <<last_sent_move, updates_lock, main, presses>>
    BY <1>4 DEF ThirdByte
  <2>3. main # "wait"
    BY <1>4 DEF ThirdByte
  <2> QED BY <2>1, <2>2, <2>3, <1>4 DEF ThirdByte
<1>5. CASE ListenerSignal
  BY <1>5 DEF ListenerSignal, Signal
<1>6. CASE ListenerCancelled
  BY <1>6 DEF ListenerCancelled
<1> QED BY <1>1, <1>2, <1>3, <1>4, <1>5, <1>6 DEF Listener

LEMMA BotStep == ThreadsInv /\ Bot => ThreadsInv'
<1> SUFFICES ASSUME ThreadsInv, Bot PROVE ThreadsInv'
  OBVIOUS
<1> USE DEF ThreadsInv, ClientTypeOK, LockDiscipline, SleepsOnNoMove, NoLostWakeup
<1>1. ASSUME NEW cmd \in BotMoves, BotChooses(cmd) PROVE ThreadsInv'
  BY <1>1, ClientAssumption DEF BotChooses, Signal
<1>2. CASE BotInterruptsOwner
  BY <1>2 DEF BotInterruptsOwner
<1> QED BY <1>1, <1>2 DEF Bot

LEMMA PressStep == ASSUME ThreadsInv, NEW k \in Keyboard, Press(k) PROVE ThreadsInv'
BY ClientAssumption
DEF Press, ThreadsInv, ClientTypeOK, LockDiscipline, SleepsOnNoMove, NoLostWakeup

LEMMA ThreadsStutter == ThreadsInv /\ UNCHANGED clientVars => ThreadsInv'
BY DEF clientVars, ThreadsInv, ClientTypeOK, LockDiscipline, SleepsOnNoMove, NoLostWakeup
-----------------------------------------------------------------------------
\* The invariant of the whole client: framing, types, who holds the lock, and that
\* no wakeup is lost.
THEOREM Invariance == Spec => []ClientInv
<1>1. ClientInit => ClientInv
  BY StreamInit, ClientAssumption
  DEF ClientInit, ClientInv, ThreadsInv, ClientTypeOK, LockDiscipline, SleepsOnNoMove, NoLostWakeup
<1>2. ClientInv /\ [Next]_vars => ClientInv'
  <2> SUFFICES ASSUME ClientInv, [Next]_vars PROVE ClientInv'
    OBVIOUS
  <2> USE DEF ClientInv
  <2>1. CASE Stream \/ Updates
    BY <2>1, StreamStep, ThreadsStutter DEF Stream, Updates
  <2>2. CASE Threads
    <3>1. StreamInv'
      BY <2>2, StreamStutter DEF Threads, streamVars
    <3>2. ThreadsInv'
      BY <2>2, MainStep, ListenerStep, BotStep, PressStep DEF Threads
    <3> QED BY <3>1, <3>2
  <2>3. CASE BotInterruptsUpdates
    BY <2>3, StreamStutter, ThreadsStutter DEF BotInterruptsUpdates, clientVars
  <2>4. CASE UNCHANGED vars
    BY <2>4, StreamStutter, ThreadsStutter DEF vars, streamVars, clientVars
  <2> QED BY <2>1, <2>2, <2>3, <2>4 DEF Next
<1> QED BY <1>1, <1>2, PTL DEF Spec

\* The variables keep their types.
THEOREM TypeCorrect == Spec => []TypeOK
<1>1. ClientInv => TypeOK
  BY DEF ClientInv, ThreadsInv, StreamInv, TypeOK
<1> QED BY <1>1, Invariance, PTL

\* The condition variable is used right (termios2.c:61, main.c:65-71 and 277-290):
\* a main thread that sleeps although a move is there is about to be woken.
THEOREM NoWakeupLost == Spec => []NoLostWakeup
<1>1. ClientInv => NoLostWakeup
  BY DEF ClientInv, ThreadsInv
<1> QED BY <1>1, Invariance, PTL

\* updates_lock has one owner, which stands in a section that holds it.
THEOREM LockHasOneOwner == Spec => []LockDiscipline
<1>1. ClientInv => LockDiscipline
  BY DEF ClientInv, ThreadsInv
<1> QED BY <1>1, Invariance, PTL

\* The client exits with "Something wrong" (main.c:257) only when a message was
\* dropped, cut short or read in parts, or the connection is closed.
THEOREM GivesUpForAReason == Spec => []FailsOnlyWhenTorn
<1>1. ClientInv => FailsOnlyWhenTorn
  BY DEF ClientInv, StreamInv
<1> QED BY <1>1, Invariance, PTL

\* What the client accepts behind the check of main.c:257 is one whole frame, as
\* long as the server's writes of a board were not cut short.
THEOREM PicturesAreWhole == Spec => AcceptsWholePictures
<1> DEFINE Accepts == reader = "end" /\ reader' = "poll" /\ "cut" \notin torn => OneFrame
<1>1. ClientInv /\ [Next]_vars => [Accepts]_streamVars
  <2> SUFFICES ASSUME ClientInv, [Next]_vars, reader = "end", reader' = "poll", "cut" \notin torn
               PROVE  OneFrame
    OBVIOUS
  <2>1. receiveUpdates
    BY DEF Next, Stream, Updates, Threads, BotInterruptsUpdates, vars, streamVars,
           Server, WriteStart, WriteBoard, WriteEnd, StopUpdates, Close
  <2>2. ReadEnd
    BY <2>1 DEF receiveUpdates, PollReady, PollTimeout, ReadSync, ReadBoard
  <2> QED BY <2>2, AcceptedIsWhole DEF ClientInv
<1> QED BY <1>1, Invariance, PTL DEF Spec, AcceptsWholePictures
=============================================================================
