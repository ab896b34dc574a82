---------------------------- MODULE MessageTalker ----------------------------
(***************************************************************************)
(* SensorInterface, AudioSink and AudioSource (source/                     *)
(* sensor_interface_impl.h, audio_sink_impl.h, audio_source_impl.h): the   *)
(* same talker thread three times.  It connects, sends the user id, reads  *)
(* control messages of one fixed size and calls back.  An application      *)
(* thread writes data to the talker's socket (sensor, audio sink); the     *)
(* audio source's callback reads from it what follows a kData message.     *)
(*                                                                         *)
(* A message travels in two parts, because a stream may be cut anywhere.   *)
(***************************************************************************)
EXTENDS Integers, Sequences

CONSTANTS
  Objects,   \* the classes an object may be of
  MaxParts,  \* bound on what waits in the socket when a message is begun
  MaxConns   \* bound on the connections

ASSUME TalkerAssumption ==
  /\ Objects \subseteq {"sensor", "audio_sink", "audio_source"}
  /\ MaxParts \in Nat
  /\ MaxConns \in Nat

VARIABLES
  object, user_id,   \* what was constructed; they never change
  should_continue,   \* cleared by the destructor
  talker,            \* program counter of vhal_talker_thread_
  msg,               \* the message the talker has read
  pcm,               \* what the last ReadDataPacket read
  sock,              \* the connection
  stream,            \* the parts the talker can read
  owed,              \* the parts the server is still writing
  conn,              \* number of the connection
  greeted,           \* how many user ids the server has on it
  first,             \* what the server was sent first on it
  streaming,         \* a callback has asked the application for data
  sender             \* the application's thread in SendDataPacket

fixed == <<object, user_id>>
netVars == <<sock, stream, owed, conn, greeted, first>>
appVars == <<streaming, sender>>
vars == <<object, user_id, should_continue, talker, msg, pcm, sock, stream, owed, conn,
          greeted, first, streaming, sender>>

Parts(kind) == << <<kind, 1>>, <<kind, 2>> >>
Part == {"ctrl", "unknown", "data", "pcm"} \X {1, 2}

TypeOK ==
  /\ object \in Objects
  /\ user_id \in {"none", "negative", "valid"}
  /\ should_continue \in BOOLEAN
  /\ talker \in {"while", "user_id", "poll", "recv", "callback", "payload", "done"}
  /\ msg = <<>> \/ msg \in Part \X Part
  /\ pcm \in Seq(Part)
  /\ sock \in {"closed", "up", "peer_closed"}
  /\ stream \in Seq(Part) /\ owed \in Seq(Part)
  /\ conn \in 0..MaxConns
  /\ greeted \in Nat
  /\ first \in {"none", "user_id", "data"}
  /\ streaming \in BOOLEAN
  /\ sender \in {"idle", "checked"}

\* The user id is -1 ("none"), another negative number, or a valid one.
Init ==
  /\ object \in Objects
  /\ user_id \in {"none", "negative", "valid"}
  /\ should_continue = TRUE /\ talker = "while" /\ msg = <<>> /\ pcm = <<>>
  /\ sock = "closed" /\ stream = <<>> /\ owed = <<>> /\ conn = 0
  /\ greeted = 0 /\ first = "none"
  /\ streaming = FALSE /\ sender = "idle"

-----------------------------------------------------------------------------
(* The socket clients: a unix socket for sensors, TCP for audio.            *)

Close == sock' = "closed" /\ stream' = <<>> /\ owed' = <<>>
         /\ UNCHANGED <<conn, greeted, first>>

\* What is sent to a peer that has closed is lost, or refused.
Hear(what) ==
  /\ first' = IF sock = "up" /\ first = "none" THEN what ELSE first
  /\ greeted' = IF sock = "up" /\ what = "user_id" THEN greeted + 1 ELSE greeted

\* What Recv returns when a message is asked for.  The TCP client waits for all
\* of it, the unix client for anything; both return at the end of the stream.
Received == SubSeq(stream, 1, IF Len(stream) < 2 THEN Len(stream) ELSE 2)
Whole == Len(Received) = 2
RecvReturns ==
  \/ Whole
  \/ sock = "peer_closed"
  \/ object = "sensor" /\ stream # <<>>

-----------------------------------------------------------------------------
(* The talker thread.                                                       *)

\* sendStreamerUserId tests user_id >= 0, the audio classes test user_id != -1.
SendsUserId == user_id = "valid" \/ (user_id = "negative" /\ object # "sensor")

TalkerWhile ==
  /\ talker = "while"
  /\ \/ /\ ~should_continue
        /\ talker' = "done"
        /\ UNCHANGED netVars
     \/ /\ should_continue
        /\ sock = "closed"
        /\ \/ UNCHANGED <<netVars, talker>>
           \/ /\ conn < MaxConns
              /\ sock' = "up" /\ conn' = conn + 1
              /\ stream' = <<>> /\ owed' = <<>> /\ greeted' = 0 /\ first' = "none"
              /\ talker' = "user_id"
  /\ UNCHANGED <<fixed, should_continue, msg, pcm, appVars>>

\* Mutant: the VHAL is told who we are on the first connection only.
GreetsFirstConnection ==
  /\ talker = "user_id"
  /\ IF SendsUserId /\ conn = 1 THEN Hear("user_id") ELSE UNCHANGED <<first, greeted>>
  /\ talker' = "poll"
  /\ UNCHANGED <<fixed, should_continue, msg, pcm, sock, stream, owed, conn, appVars>>

\* Mutant: the user id is left out.
GreetsNever ==
  /\ talker = "user_id"
  /\ talker' = "poll"
  /\ UNCHANGED <<fixed, should_continue, msg, pcm, netVars, appVars>>

TalkerUserId ==
  /\ talker = "user_id"
  /\ IF SendsUserId THEN Hear("user_id") ELSE UNCHANGED <<first, greeted>>
  /\ talker' = "poll"
  /\ UNCHANGED <<fixed, should_continue, msg, pcm, sock, stream, owed, conn, appVars>>

\* The condition of do ... while, which "continue" goes to as well.
Again == talker' = IF should_continue THEN "poll" ELSE "while"

\* poll() times out, or reports POLLIN, or a failure without POLLIN.
TalkerPoll ==
  /\ talker = "poll"
  /\ \/ /\ sock = "up" /\ stream = <<>>
        /\ Again
        /\ UNCHANGED netVars
     \/ /\ stream # <<>> \/ sock = "peer_closed"
        /\ talker' = "recv"
        /\ UNCHANGED netVars
     \/ /\ stream = <<>> /\ sock = "peer_closed"
        /\ Close
        /\ talker' = "while"
  /\ UNCHANGED <<fixed, should_continue, msg, pcm, appVars>>

\* The callback is for the sensor types IsValidCtrlPacket knows; the audio
\* classes pass on every message.
Accepted(m) == m[1][1] # "unknown"

TakeMessage ==
  /\ stream' = SubSeq(stream, Len(Received) + 1, Len(stream))
  /\ msg' = Received
  /\ IF Accepted(msg') THEN talker' = "callback" ELSE Again
  /\ UNCHANGED <<sock, owed, conn, greeted, first>>

\* Mutant: the length read is not compared with the size of a message.
ShortReadTaken ==
  /\ talker = "recv"
  /\ RecvReturns
  /\ \/ stream # <<>> /\ TakeMessage
     \/ stream = <<>> /\ Close /\ talker' = "while" /\ UNCHANGED msg
  /\ UNCHANGED <<fixed, should_continue, pcm, appVars>>

\* Mutant: after a short read the talker polls the same connection again.
ShortReadKept ==
  /\ talker = "recv"
  /\ RecvReturns
  /\ \/ Whole /\ TakeMessage
     \/ /\ ~Whole
        /\ stream' = <<>>
        /\ Again
        /\ UNCHANGED <<msg, sock, owed, conn, greeted, first>>
  /\ UNCHANGED <<fixed, should_continue, pcm, appVars>>

TalkerRecv ==
  /\ talker = "recv"
  /\ RecvReturns
  /\ \/ Whole /\ TakeMessage
     \/ ~Whole /\ Close /\ talker' = "while" /\ UNCHANGED msg
  /\ UNCHANGED <<fixed, should_continue, pcm, appVars>>

\* The application's callback: it starts to stream, or reads the payload that
\* kData announces (examples/audio_playback_client.cc).
Callback ==
  /\ talker = "callback"
  /\ IF msg[1][1] = "data"
     THEN talker' = "payload" /\ UNCHANGED streaming
     ELSE streaming' = TRUE /\ Again
  /\ UNCHANGED <<fixed, should_continue, msg, pcm, netVars, sender>>

ReadDataPacket ==
  /\ talker = "payload"
  /\ RecvReturns
  /\ pcm' = Received
  /\ stream' = SubSeq(stream, Len(Received) + 1, Len(stream))
  /\ Again
  /\ UNCHANGED <<fixed, should_continue, msg, sock, owed, conn, greeted, first,
                 appVars>>

-----------------------------------------------------------------------------
(* The application.                                                         *)

\* The sensor's SendDataPacket returns when it is not connected.
CheckConnected ==
  /\ object = "sensor" /\ streaming /\ should_continue
  /\ sender = "idle"
  /\ sock # "closed"
  /\ sender' = "checked"
  /\ UNCHANGED <<fixed, should_continue, talker, msg, pcm, netVars, streaming>>

\* The Send of SendDataPacket, on the connection there is by now.
SendDataPacket ==
  /\ \/ object = "sensor" /\ sender = "checked"
     \/ object = "audio_sink" /\ streaming /\ should_continue
  /\ Hear("data")
  /\ sender' = "idle"
  /\ UNCHANGED <<fixed, should_continue, talker, msg, pcm, sock, stream, owed,
                 conn, streaming>>

\* The destructor, called when no other call is in flight, joins the talker.
Destroy ==
  /\ should_continue /\ sender = "idle"
  /\ should_continue' = FALSE
  /\ UNCHANGED <<fixed, talker, msg, pcm, netVars, appVars>>

Terminated == talker = "done" /\ UNCHANGED vars

-----------------------------------------------------------------------------
(* The VHAL.                                                                *)

Messages ==
  CASE object = "sensor"       -> {Parts("ctrl"), Parts("unknown")}
    [] object = "audio_sink"   -> {Parts("ctrl")}
    [] object = "audio_source" -> {Parts("ctrl"), Parts("data") \o Parts("pcm")}

ServerMessage ==
  /\ sock = "up"
  /\ owed = <<>> /\ Len(stream) < MaxParts
  /\ owed' \in Messages
  /\ UNCHANGED <<fixed, should_continue, talker, msg, pcm, sock, stream, conn,
                 greeted, first, appVars>>

ServerPart ==
  /\ owed # <<>>
  /\ stream' = Append(stream, Head(owed))
  /\ owed' = Tail(owed)
  /\ UNCHANGED <<fixed, should_continue, talker, msg, pcm, sock, conn, greeted,
                 first, appVars>>

ServerCloses ==
  /\ sock = "up" /\ conn < MaxConns
  /\ sock' = "peer_closed" /\ owed' = <<>>
  /\ UNCHANGED <<fixed, should_continue, talker, msg, pcm, stream, conn, greeted,
                 first, appVars>>

-----------------------------------------------------------------------------
TalkerStep == TalkerWhile \/ TalkerUserId \/ TalkerPoll \/ TalkerRecv \/ Callback
              \/ ReadDataPacket

Next ==
  \/ TalkerStep
  \/ CheckConnected \/ SendDataPacket \/ Destroy
  \/ ServerMessage \/ ServerPart \/ ServerCloses
  \/ Terminated

Spec == Init /\ [][Next]_vars

\* Threads that can run do; the VHAL listens, and finishes a message it began.
FairSpec ==
  /\ Spec
  /\ WF_vars(TalkerStep)
  /\ WF_vars(TalkerWhile /\ sock' = "up")
  /\ WF_vars(ServerPart)

-----------------------------------------------------------------------------
(* Properties.                                                              *)

\* However the stream is cut, a callback is given one whole message of the VHAL,
\* and ReadDataPacket reads from the start of the payload that belongs to it.
CallbackWhole ==
  /\ talker \in {"callback", "payload"} => msg \in {Parts("ctrl"), Parts("data")}
  /\ pcm = SubSeq(Parts("pcm"), 1, Len(pcm))

\* On every connection on which the talker reads, the VHAL has been told the
\* user id once, or not at all if there is none to tell; and the outer loop, which
\* would tell it again, is not entered with a connection that is open.
GreetedOnce ==
  /\ sock = "up" /\ talker \notin {"while", "user_id"} =>
       greeted = (IF SendsUserId THEN 1 ELSE 0)
  /\ talker = "while" /\ should_continue => sock = "closed"

\* Data comes ahead of the user id only on a renewed connection, where the
\* application is streaming already: on the first one the callback that asks
\* for data comes after the user id.
DataAheadOfUserId == SendsUserId /\ first = "data" => conn > 1

\* A connection the VHAL has closed is made again, or the object is being
\* destroyed; then the talker ends and the destructor's join returns.
Reconnects ==
  /\ sock = "peer_closed" ~> (sock = "up" \/ ~should_continue)
  /\ ~should_continue ~> talker = "done"
=============================================================================
