------------------------- MODULE MessageTalkerProofs -------------------------
(***************************************************************************)
(* What the talker of SensorInterface, AudioSink and AudioSource keeps for *)
(* any number of connections and any amount of data in the socket, proved  *)
(* with TLAPS.                                                             *)
(***************************************************************************)
EXTENDS MessageTalker, SequenceTheorems, TLAPS

-----------------------------------------------------------------------------
(* The user id.                                                             *)

\* The VHAL is told once, after the connection is made and before it is read.
GreetingInv ==
  /\ talker = "while" /\ should_continue => sock = "closed"
  /\ talker = "user_id" => greeted = 0
  /\ talker # "user_id" /\ sock = "up" => greeted = (IF SendsUserId THEN 1 ELSE 0)

\* On the first connection the application streams after a callback only, so
\* after the user id.
FirstInv ==
  /\ conn = 0 => sock = "closed" /\ ~streaming /\ first = "none" /\ talker \in {"while", "done"}
  /\ conn = 1 /\ talker = "user_id" => ~streaming /\ first = "none"
  /\ conn = 1 /\ SendsUserId /\ sock = "up" /\ talker # "user_id" => first = "user_id"
  /\ conn = 1 /\ SendsUserId => first # "data"
  /\ sender = "checked" => streaming

\* The user id goes out once on a connection that the talker reads, on every
\* one of them, and the outer loop is not entered with an open connection.
THEOREM Greeted == Spec => []GreetedOnce
<1>1. Init => GreetingInv
  BY DEF Init, GreetingInv
<1>2. GreetingInv /\ [Next]_vars => GreetingInv'
  <2> SUFFICES ASSUME GreetingInv, [Next]_vars
               PROVE  GreetingInv'
    OBVIOUS
  <2>0. SendsUserId' = SendsUserId
    BY DEF Next, TalkerStep, TalkerWhile, TalkerUserId, TalkerPoll, TalkerRecv, Callback,
           ReadDataPacket, CheckConnected, SendDataPacket, Destroy, ServerMessage, ServerPart,
           ServerCloses, Terminated, vars, fixed, SendsUserId
  <2>1. CASE TalkerWhile
    BY <2>0, <2>1 DEF GreetingInv, TalkerWhile, netVars
  <2>2. CASE TalkerUserId
    BY <2>0, <2>2 DEF GreetingInv, TalkerUserId, Hear
  <2>3. CASE TalkerPoll
    BY <2>0, <2>3 DEF GreetingInv, TalkerPoll, Again, Close, netVars
  <2>4. CASE TalkerRecv
    BY <2>0, <2>4 DEF GreetingInv, TalkerRecv, TakeMessage, Again, Close
  <2>5. CASE Callback
    BY <2>0, <2>5 DEF GreetingInv, Callback, Again, netVars
  <2>6. CASE ReadDataPacket
    BY <2>0, <2>6 DEF GreetingInv, ReadDataPacket, Again
  <2>7. CASE SendDataPacket
    BY <2>0, <2>7 DEF GreetingInv, SendDataPacket, Hear
  <2>8. CASE CheckConnected \/ Destroy \/ ServerMessage \/ ServerPart \/ ServerCloses
    BY <2>0, <2>8 DEF GreetingInv, CheckConnected, Destroy, ServerMessage, ServerPart,
                      ServerCloses, netVars
  <2>9. CASE UNCHANGED vars
    BY <2>0, <2>9 DEF GreetingInv, vars
  <2> QED  BY <2>1, <2>2, <2>3, <2>4, <2>5, <2>6, <2>7, <2>8, <2>9 DEF Next, TalkerStep, Terminated
<1>3. GreetingInv => GreetedOnce
  BY DEF GreetingInv, GreetedOnce
<1> QED  BY <1>1, <1>2, <1>3, PTL DEF Spec

\* Data comes ahead of the user id only on a connection that was renewed.
THEOREM UserIdFirst == Spec => []DataAheadOfUserId
<1> DEFINE Counted == conn \in Nat
<1>1. Init => Counted /\ FirstInv
  BY DEF Init, FirstInv
<1>2. Counted /\ FirstInv /\ [Next]_vars => (Counted /\ FirstInv)'
  <2> SUFFICES ASSUME conn \in Nat, FirstInv, [Next]_vars
               PROVE  conn' \in Nat /\ FirstInv'
    OBVIOUS
  <2>0. SendsUserId' = SendsUserId
    BY DEF Next, TalkerStep, TalkerWhile, TalkerUserId, TalkerPoll, TalkerRecv, Callback,
           ReadDataPacket, CheckConnected, SendDataPacket, Destroy, ServerMessage, ServerPart,
           ServerCloses, Terminated, vars, fixed, SendsUserId
  <2>1. CASE TalkerWhile
    <3>1. CASE UNCHANGED netVars
      BY <2>0, <2>1, <3>1 DEF FirstInv, TalkerWhile, netVars, appVars
    <3>2. CASE sock' = "up" /\ conn' = conn + 1 /\ first' = "none" /\ talker' = "user_id"
      <4>1. UNCHANGED <<streaming, sender>>
        BY <2>1 DEF TalkerWhile, appVars
      <4>2. conn' # 0 /\ (conn' = 1 => ~streaming)
        BY <3>2 DEF FirstInv
      <4> QED  BY <2>0, <3>2, <4>1, <4>2 DEF FirstInv
    <3> QED  BY <2>1, <3>1, <3>2 DEF TalkerWhile
  <2>2. CASE TalkerUserId
    BY <2>0, <2>2 DEF FirstInv, TalkerUserId, Hear, appVars
  <2>3. CASE TalkerPoll
    BY <2>0, <2>3 DEF FirstInv, TalkerPoll, Again, Close, netVars, appVars
  <2>4. CASE TalkerRecv
    BY <2>0, <2>4 DEF FirstInv, TalkerRecv, TakeMessage, Again, Close, appVars
  <2>5. CASE Callback
    BY <2>0, <2>5 DEF FirstInv, Callback, Again, netVars
  <2>6. CASE ReadDataPacket
    BY <2>0, <2>6 DEF FirstInv, ReadDataPacket, Again, appVars
  <2>7. CASE SendDataPacket
    BY <2>0, <2>7 DEF FirstInv, SendDataPacket, Hear
  <2>8. CASE CheckConnected \/ Destroy \/ ServerMessage \/ ServerPart \/ ServerCloses
    BY <2>0, <2>8 DEF FirstInv, CheckConnected, Destroy, ServerMessage, ServerPart,
                      ServerCloses, netVars, appVars
  <2>9. CASE UNCHANGED vars
    BY <2>0, <2>9 DEF FirstInv, vars
  <2> QED  BY <2>1, <2>2, <2>3, <2>4, <2>5, <2>6, <2>7, <2>8, <2>9 DEF Next, TalkerStep, Terminated
<1>3. Counted /\ FirstInv => DataAheadOfUserId
  BY DEF FirstInv, DataAheadOfUserId
<1> QED  BY <1>1, <1>2, <1>3, PTL DEF Spec

-----------------------------------------------------------------------------
(* The messages.                                                            *)

\* The kinds of message, the first parts of one, and its last.
Kind == {"ctrl", "unknown", "data"}
Starts(p) == p[1] \in Kind /\ p[2] = 1
Ends(p) == p[1] # "data" /\ p[2] = 2

\* What may come behind a part.
Follows(p, q) ==
  IF p[2] = 1 THEN q = <<p[1], 2>>
  ELSE IF p[1] = "data" THEN q = <<"pcm", 1>>
  ELSE Starts(q)

\* The stream is at the payload of the message that was read last.
AtPayload == talker = "payload" \/ (talker = "callback" /\ msg[1][1] = "data")

\* All the VHAL has sent, or is about to, and the talker has not read.
Unread == stream \o owed

\* Parts that follow each other.
Chained(s) == \A i \in 1..(Len(s) - 1) : Follows(s[i], s[i + 1])

\* Only the audio source is sent data.
DataForSource(s) == \A i \in 1..Len(s) : s[i][1] = "data" => object = "audio_source"

\* Unread parts follow each other, from the place the talker expects them to;
\* only the VHAL's close cuts them short.
FramedInv ==
  /\ Chained(Unread)
  /\ DataForSource(Unread)
  /\ Unread # <<>> => IF AtPayload THEN Unread[1] = <<"pcm", 1>> ELSE Starts(Unread[1])
  /\ sock = "up" => IF Unread = <<>> THEN ~AtPayload ELSE Ends(Unread[Len(Unread)])
  /\ sock # "up" => owed = <<>>
  /\ AtPayload => object = "audio_source"

MessageInv == TypeOK /\ FramedInv /\ CallbackWhole

\* What Recv takes from the stream, and what it leaves.
LEMMA ReceivedFacts ==
  ASSUME stream \in Seq(Part)
  PROVE  LET k == Len(Received)
             rest == SubSeq(stream, k + 1, Len(stream))
         IN  /\ Received \in Seq(Part)
             /\ k = IF Len(stream) < 2 THEN Len(stream) ELSE 2
             /\ k \in Nat
             /\ \A i \in 1..k : Received[i] = stream[i]
             /\ rest \in Seq(Part) /\ Len(rest) = Len(stream) - k
             /\ \A i \in 1..Len(rest) : rest[i] = stream[i + k]
<1> DEFINE k == IF Len(stream) < 2 THEN Len(stream) ELSE 2
<1>1. Len(stream) \in Nat /\ k \in Nat /\ k <= Len(stream)
  BY LenProperties
<1>2. \A i \in 1..Len(stream) : stream[i] \in Part
  BY ElementOfSeq
<1>3. /\ Received \in Seq(Part) /\ Len(Received) = k
      /\ \A i \in 1..k : Received[i] = stream[i]
  <2>1. \A i \in 1..k : stream[i] \in Part
    BY <1>1, <1>2
  <2>2. Received = SubSeq(stream, 1, k)
    BY DEF Received
  <2> HIDE DEF k
  <2> QED  BY <1>1, <2>1, <2>2, SubSeqProperties
<1> HIDE DEF k
<1>4. LET rest == SubSeq(stream, k + 1, Len(stream))
      IN  /\ rest \in Seq(Part) /\ Len(rest) = Len(stream) - k
          /\ \A i \in 1..Len(rest) : rest[i] = stream[i + k]
  <2>1. \A i \in (k + 1)..Len(stream) : stream[i] \in Part
    BY <1>1, <1>2
  <2> QED  BY <1>1, <2>1, SubSeqProperties
<1> QED  BY <1>1, <1>3, <1>4 DEF k

\* A sequence of two is the pair of its elements.
LEMMA PairSeq ==
  ASSUME NEW S, NEW s \in Seq(S), Len(s) = 2
  PROVE  s = <<s[1], s[2]>> /\ s[1] \in S /\ s[2] \in S
<1>1. s[1] \in S /\ s[2] \in S
  BY ElementOfSeq
<1>2. /\ <<s[1], s[2]>> \in Seq(S) /\ Len(<<s[1], s[2]>>) = 2
      /\ <<s[1], s[2]>>[1] = s[1] /\ <<s[1], s[2]>>[2] = s[2]
  BY <1>1
<1>3. \A i \in 1..2 : s[i] = <<s[1], s[2]>>[i]
  BY <1>2
<1> QED  BY <1>1, <1>2, <1>3, SeqEqual

\* What is left of chained parts is chained.
LEMMA DropChained ==
  ASSUME NEW s \in Seq(Part), NEW t \in Seq(Part), NEW k \in Nat, k <= Len(s),
         Len(t) = Len(s) - k, \A i \in 1..Len(t) : t[i] = s[i + k],
         Chained(s), DataForSource(s)
  PROVE  /\ Chained(t) /\ DataForSource(t)
         /\ t # <<>> /\ k # 0 => Follows(s[k], t[1])
         /\ t # <<>> => s # <<>> /\ t[Len(t)] = s[Len(s)]
<1>1. Len(s) \in Nat /\ Len(t) \in Nat /\ (t # <<>> => Len(t) # 0) /\ (s = <<>> => Len(s) = 0)
  BY LenProperties, EmptySeq
<1>2. Chained(t)
  <2> SUFFICES ASSUME NEW i \in 1..(Len(t) - 1) PROVE Follows(t[i], t[i + 1])
    BY DEF Chained
  <2>1. i + k \in 1..(Len(s) - 1) /\ i \in 1..Len(t) /\ i + 1 \in 1..Len(t) /\ (i + 1) + k = (i + k) + 1
    BY <1>1
  <2>2. Follows(s[i + k], s[(i + k) + 1])
    BY <2>1 DEF Chained
  <2> QED  BY <2>1, <2>2
<1>3. DataForSource(t)
  <2> SUFFICES ASSUME NEW i \in 1..Len(t), t[i][1] = "data" PROVE object = "audio_source"
    BY DEF DataForSource
  <2>1. i + k \in 1..Len(s)
    BY <1>1
  <2> QED  BY <2>1 DEF DataForSource
<1>4. ASSUME t # <<>>, k # 0 PROVE Follows(s[k], t[1])
  <2>1. k \in 1..(Len(s) - 1) /\ 1 \in 1..Len(t) /\ 1 + k = k + 1
    BY <1>1, <1>4
  <2> QED  BY <2>1 DEF Chained
<1>5. ASSUME t # <<>> PROVE s # <<>> /\ t[Len(t)] = s[Len(s)]
  <2>1. Len(t) \in 1..Len(t) /\ Len(t) + k = Len(s) /\ Len(s) # 0
    BY <1>1, <1>5
  <2> QED  BY <1>1, <2>1
<1> QED  BY <1>2, <1>3, <1>4, <1>5

\* The parts of two sequences joined.
LEMMA Joined ==
  ASSUME NEW s \in Seq(Part), NEW o \in Seq(Part)
  PROVE  /\ s \o o \in Seq(Part) /\ Len(s \o o) = Len(s) + Len(o)
         /\ Len(s) \in Nat /\ Len(o) \in Nat
         /\ \A i \in 1..Len(s) : (s \o o)[i] = s[i]
         /\ \A i \in 1..Len(o) : (s \o o)[Len(s) + i] = o[i]
         /\ o = <<>> => s \o o = s
<1>1. Len(s) \in Nat /\ Len(o) \in Nat
  BY LenProperties
<1>2. /\ s \o o \in Seq(Part) /\ Len(s \o o) = Len(s) + Len(o)
      /\ \A i \in 1..(Len(s) + Len(o)) :
           (s \o o)[i] = IF i <= Len(s) THEN s[i] ELSE o[i - Len(s)]
  BY ConcatProperties
<1>3. o = <<>> => s \o o = s
  BY ConcatEmptySeq
<1>4. \A i \in 1..Len(s) : (s \o o)[i] = s[i]
  BY <1>1, <1>2
<1>5. ASSUME NEW i \in 1..Len(o) PROVE (s \o o)[Len(s) + i] = o[i]
  <2>1. /\ Len(s) + i \in 1..(Len(s) + Len(o)) /\ ~(Len(s) + i <= Len(s))
        /\ (Len(s) + i) - Len(s) = i
    BY <1>1
  <2> QED  BY <1>2, <2>1
<1> QED  BY <1>1, <1>2, <1>3, <1>4, <1>5

\* Dropping parts in front of a sequence drops them in front of what it is
\* joined to.
LEMMA DropJoined ==
  ASSUME NEW s \in Seq(Part), NEW t \in Seq(Part), NEW o \in Seq(Part), NEW k \in Nat,
         k <= Len(s), Len(t) = Len(s) - k, \A i \in 1..Len(t) : t[i] = s[i + k]
  PROVE  /\ Len(t \o o) = Len(s \o o) - k
         /\ \A i \in 1..Len(t \o o) : (t \o o)[i] = (s \o o)[i + k]
<1>1. /\ Len(s \o o) = Len(s) + Len(o) /\ Len(s) \in Nat /\ Len(o) \in Nat
      /\ \A i \in 1..Len(s) : (s \o o)[i] = s[i]
      /\ \A i \in 1..Len(o) : (s \o o)[Len(s) + i] = o[i]
  BY Joined
<1>2. /\ Len(t \o o) = Len(t) + Len(o) /\ Len(t) \in Nat
      /\ \A i \in 1..Len(t) : (t \o o)[i] = t[i]
      /\ \A i \in 1..Len(o) : (t \o o)[Len(t) + i] = o[i]
  BY Joined
<1>3. ASSUME NEW i \in 1..Len(t \o o) PROVE (t \o o)[i] = (s \o o)[i + k]
  <2>1. CASE i <= Len(t)
    <3>1. i \in 1..Len(t)
      BY <1>2, <2>1
    <3>2. i + k \in 1..Len(s)
      BY <1>1, <3>1
    <3> QED  BY <1>1, <1>2, <3>1, <3>2
  <2>2. CASE ~(i <= Len(t))
    <3> DEFINE j == i - Len(t)
    <3>1. j \in 1..Len(o) /\ Len(t) + j = i /\ Len(s) + j = i + k
      BY <1>1, <1>2, <2>2
    <3> HIDE DEF j
    <3>2. (t \o o)[Len(t) + j] = o[j] /\ (s \o o)[Len(s) + j] = o[j]
      BY <1>1, <1>2, <3>1
    <3> QED  BY <3>1, <3>2
  <2> QED  BY <2>1, <2>2
<1> QED  BY <1>1, <1>2, <1>3

\* What a read takes from the unread parts, and what it leaves of them.
LEMMA ReadTakes ==
  ASSUME stream \in Seq(Part), owed \in Seq(Part), UNCHANGED owed,
         stream' = SubSeq(stream, Len(Received) + 1, Len(stream))
  PROVE  LET k == Len(Received)
         IN  /\ k \in Nat /\ k <= Len(Unread)
             /\ Unread' \in Seq(Part) /\ Unread \in Seq(Part)
             /\ stream' \in Seq(Part)
             /\ Len(Unread') = Len(Unread) - k
             /\ \A i \in 1..Len(Unread') : Unread'[i] = Unread[i + k]
             /\ \A i \in 1..k : Received[i] = Unread[i]
<1> DEFINE k == Len(Received)
           rest == SubSeq(stream, k + 1, Len(stream))
<1>1. /\ k \in Nat /\ k <= Len(stream) /\ Len(stream) \in Nat
      /\ \A i \in 1..k : Received[i] = stream[i]
      /\ rest \in Seq(Part) /\ Len(rest) = Len(stream) - k
      /\ \A i \in 1..Len(rest) : rest[i] = stream[i + k]
  BY ReceivedFacts, LenProperties
<1>2. Unread = stream \o owed /\ Unread' = rest \o owed
  BY DEF Unread
<1>22. stream' = rest
  OBVIOUS
<1> HIDE DEF k, rest
<1>3. /\ Len(rest \o owed) = Len(stream \o owed) - k
      /\ \A i \in 1..Len(rest \o owed) : (rest \o owed)[i] = (stream \o owed)[i + k]
  BY <1>1, DropJoined
<1>4. /\ stream \o owed \in Seq(Part) /\ Len(stream \o owed) = Len(stream) + Len(owed)
      /\ Len(owed) \in Nat
      /\ \A i \in 1..Len(stream) : (stream \o owed)[i] = stream[i]
      /\ rest \o owed \in Seq(Part)
  BY <1>1, Joined
<1>5. k <= Len(stream \o owed) /\ \A i \in 1..k : Received[i] = (stream \o owed)[i]
  BY <1>1, <1>4
<1>6. /\ k \in Nat /\ k <= Len(Unread)
      /\ Unread' \in Seq(Part) /\ Unread \in Seq(Part) /\ stream' \in Seq(Part)
      /\ Len(Unread') = Len(Unread) - k
      /\ \A i \in 1..Len(Unread') : Unread'[i] = Unread[i + k]
      /\ \A i \in 1..k : Received[i] = Unread[i]
  BY <1>1, <1>2, <1>22, <1>3, <1>4, <1>5
<1> QED  BY <1>6 DEF k

\* The server moves a part from what it owes to the stream: what is unread
\* stays the same.
LEMMA PartMoves ==
  ASSUME stream \in Seq(Part), owed \in Seq(Part), owed # <<>>,
         stream' = Append(stream, Head(owed)), owed' = Tail(owed)
  PROVE  Unread' = Unread /\ stream' \in Seq(Part) /\ owed' \in Seq(Part)
<1>1. /\ Head(owed) \in Part /\ Head(owed) = owed[1] /\ owed' \in Seq(Part)
      /\ Len(owed') = Len(owed) - 1 /\ \A i \in 1..Len(owed') : owed'[i] = owed[i + 1]
      /\ Len(owed) \in Nat \ {0}
  BY HeadTailProperties, EmptySeq
<1>2. /\ stream' \in Seq(Part) /\ Len(stream') = Len(stream) + 1 /\ Len(stream) \in Nat
      /\ \A i \in 1..Len(stream) : stream'[i] = stream[i]
      /\ stream'[Len(stream) + 1] = owed[1]
  BY <1>1, AppendProperties, LenProperties
<1>3. /\ Unread \in Seq(Part) /\ Len(Unread) = Len(stream) + Len(owed)
      /\ \A i \in 1..Len(stream) : Unread[i] = stream[i]
      /\ \A i \in 1..Len(owed) : Unread[Len(stream) + i] = owed[i]
  BY Joined DEF Unread
<1>4. /\ Unread' \in Seq(Part) /\ Len(Unread') = Len(stream') + Len(owed')
      /\ \A i \in 1..Len(stream') : Unread'[i] = stream'[i]
      /\ \A i \in 1..Len(owed') : Unread'[Len(stream') + i] = owed'[i]
  BY <1>1, <1>2, Joined DEF Unread
<1>5. Len(Unread') = Len(Unread)
  BY <1>1, <1>2, <1>3, <1>4
<1>6. ASSUME NEW i \in 1..Len(Unread') PROVE Unread'[i] = Unread[i]
  <2>1. CASE i <= Len(stream)
    <3>1. i \in 1..Len(stream) /\ i \in 1..Len(stream')
      BY <1>2, <2>1, <1>4
    <3> QED  BY <1>2, <1>3, <1>4, <3>1
  <2>2. CASE i = Len(stream) + 1
    <3>1. i \in 1..Len(stream') /\ 1 \in 1..Len(owed)
      BY <1>1, <1>2, <2>2
    <3> QED  BY <1>2, <1>3, <1>4, <2>2, <3>1
  <2>3. CASE i > Len(stream) + 1
    <3> DEFINE j == i - Len(stream')
    <3>1. /\ j \in 1..Len(owed') /\ j + 1 \in 1..Len(owed)
          /\ Len(stream') + j = i /\ Len(stream) + (j + 1) = i
      BY <1>1, <1>2, <1>4, <2>3
    <3> HIDE DEF j
    <3>2. Unread'[Len(stream') + j] = owed[j + 1] /\ Unread[Len(stream) + (j + 1)] = owed[j + 1]
      BY <1>1, <1>3, <1>4, <3>1
    <3> QED  BY <3>1, <3>2
  <2> QED  BY <1>1, <1>2, <1>4, <2>1, <2>2, <2>3
<1>7. Unread' = Unread
  BY <1>3, <1>4, <1>5, <1>6, SeqEqual
<1> QED  BY <1>1, <1>2, <1>7

\* A message of the VHAL is made of parts that follow each other, from a first
\* one to a last one.
LEMMA MessageParts ==
  ASSUME object \in Objects, NEW m \in Messages
  PROVE  /\ m \in Seq(Part) /\ Len(m) \in Nat \ {0}
         /\ Starts(m[1]) /\ Ends(m[Len(m)])
         /\ Chained(m) /\ DataForSource(m)
<1>0. \A k \in {"ctrl", "unknown", "data", "pcm"} :
        /\ Parts(k) \in Seq(Part) /\ Len(Parts(k)) = 2
        /\ Parts(k)[1] = <<k, 1>> /\ Parts(k)[2] = <<k, 2>>
  BY DEF Parts, Part
<1>1. CASE m \in {Parts("ctrl"), Parts("unknown")}
  <2>1. PICK k \in {"ctrl", "unknown"} : m = Parts(k)
    BY <1>1
  <2>2. /\ m \in Seq(Part) /\ Len(m) = 2 /\ m[1] = <<k, 1>> /\ m[2] = <<k, 2>>
    BY <1>0, <2>1
  <2>3. Starts(m[1]) /\ Ends(m[2]) /\ Follows(m[1], m[2])
    BY <2>2 DEF Starts, Ends, Kind, Follows
  <2>4. Chained(m)
    <3>1. \A i \in 1..(2 - 1) : i = 1
      OBVIOUS
    <3> QED  BY <2>2, <2>3, <3>1 DEF Chained
  <2>5. DataForSource(m)
    <3>1. \A i \in 1..2 : m[i][1] = k
      BY <2>2
    <3> QED  BY <2>2, <3>1 DEF DataForSource
  <2> QED  BY <2>2, <2>3, <2>4, <2>5
<1>2. CASE object = "audio_source" /\ m = Parts("data") \o Parts("pcm")
  <2>0. /\ Parts("data") \in Seq(Part) /\ Len(Parts("data")) = 2
        /\ Parts("data")[1] = <<"data", 1>> /\ Parts("data")[2] = <<"data", 2>>
        /\ Parts("pcm") \in Seq(Part) /\ Len(Parts("pcm")) = 2
        /\ Parts("pcm")[1] = <<"pcm", 1>> /\ Parts("pcm")[2] = <<"pcm", 2>>
    BY <1>0
  <2>1. /\ m \in Seq(Part) /\ Len(m) = 4
        /\ \A i \in 1..2 : m[i] = Parts("data")[i]
        /\ \A i \in 1..2 : m[2 + i] = Parts("pcm")[i]
    <3> DEFINE d == Parts("data")
               q == Parts("pcm")
    <3>1. d \in Seq(Part) /\ q \in Seq(Part) /\ Len(d) = 2 /\ Len(q) = 2 /\ m = d \o q
      BY <1>2, <2>0
    <3> HIDE DEF d, q
    <3>2. /\ m \in Seq(Part) /\ Len(m) = Len(d) + Len(q)
          /\ \A i \in 1..Len(d) : m[i] = d[i]
          /\ \A i \in 1..Len(q) : m[Len(d) + i] = q[i]
      BY <3>1, Joined
    <3>3. /\ m \in Seq(Part) /\ Len(m) = 4
          /\ \A i \in 1..2 : m[i] = d[i]
          /\ \A i \in 1..2 : m[2 + i] = q[i]
      BY <3>1, <3>2
    <3> QED  BY <3>3 DEF d, q
  <2>2. /\ m[1] = <<"data", 1>> /\ m[2] = <<"data", 2>>
        /\ m[3] = <<"pcm", 1>> /\ m[4] = <<"pcm", 2>>
    <3>1. m[2 + 1] = <<"pcm", 1>> /\ m[2 + 2] = <<"pcm", 2>>
      BY <2>0, <2>1
    <3> QED  BY <2>0, <2>1, <3>1
  <2>3. Follows(m[1], m[2]) /\ Follows(m[2], m[3]) /\ Follows(m[3], m[4])
    BY <2>2 DEF Follows
  <2>4. Chained(m)
    <3>1. \A i \in 1..(4 - 1) : Follows(m[i], m[i + 1])
      BY <2>3
    <3> QED  BY <2>1, <3>1 DEF Chained
  <2>5. Starts(m[1]) /\ Ends(m[4])
    BY <2>2 DEF Starts, Ends, Kind
  <2> QED  BY <1>2, <2>1, <2>4, <2>5 DEF DataForSource
<1>3. object \in {"sensor", "audio_sink", "audio_source"}
  BY TalkerAssumption DEF TalkerAssumption
<1> QED  BY <1>1, <1>2, <1>3 DEF Messages

\* A message behind whole messages.
LEMMA JoinChained ==
  ASSUME NEW s \in Seq(Part), NEW m \in Seq(Part), Len(m) # 0,
         Chained(s), DataForSource(s), Chained(m), DataForSource(m),
         s # <<>> => Ends(s[Len(s)]), Starts(m[1])
  PROVE  /\ Chained(s \o m) /\ DataForSource(s \o m) /\ s \o m # <<>>
         /\ (s \o m)[Len(s \o m)] = m[Len(m)]
         /\ (s \o m)[1] = IF s = <<>> THEN m[1] ELSE s[1]
<1> DEFINE u == s \o m
<1>1. /\ u \in Seq(Part) /\ Len(u) = Len(s) + Len(m) /\ Len(s) \in Nat /\ Len(m) \in Nat
      /\ \A i \in 1..Len(s) : u[i] = s[i]
      /\ \A i \in 1..Len(m) : u[Len(s) + i] = m[i]
  BY Joined
<1>11. (s = <<>> => Len(s) = 0) /\ (s # <<>> => Len(s) # 0) /\ (u = <<>> => Len(u) = 0)
  BY <1>1, EmptySeq
<1> HIDE DEF u
<1>2. Chained(u)
  <2> SUFFICES ASSUME NEW i \in 1..(Len(u) - 1) PROVE Follows(u[i], u[i + 1])
    BY DEF Chained
  <2>1. CASE i < Len(s)
    <3>1. i \in 1..Len(s) /\ i + 1 \in 1..Len(s) /\ i \in 1..(Len(s) - 1)
      BY <1>1, <2>1
    <3> QED  BY <1>1, <3>1 DEF Chained
  <2>2. CASE i = Len(s)
    <3>1. i \in 1..Len(s) /\ 1 \in 1..Len(m) /\ i + 1 = Len(s) + 1 /\ s # <<>>
      BY <1>1, <1>11, <2>2
    <3>2. u[i] = s[Len(s)] /\ u[i + 1] = m[1]
      BY <1>1, <2>2, <3>1
    <3> QED  BY <3>1, <3>2 DEF Follows, Ends
  <2>3. CASE i > Len(s)
    <3> DEFINE j == i - Len(s)
    <3>1. /\ j \in 1..(Len(m) - 1) /\ j \in 1..Len(m) /\ j + 1 \in 1..Len(m)
          /\ i = Len(s) + j /\ i + 1 = Len(s) + (j + 1)
      BY <1>1, <2>3
    <3> HIDE DEF j
    <3>2. u[i] = m[j] /\ u[i + 1] = m[j + 1]
      BY <1>1, <3>1
    <3>3. Follows(m[j], m[j + 1])
      BY <3>1 DEF Chained
    <3> QED  BY <3>2, <3>3
  <2> QED  BY <1>1, <2>1, <2>2, <2>3
<1>3. DataForSource(u)
  <2> SUFFICES ASSUME NEW i \in 1..Len(u), u[i][1] = "data" PROVE object = "audio_source"
    BY DEF DataForSource
  <2>1. CASE i <= Len(s)
    <3>1. i \in 1..Len(s)
      BY <1>1, <2>1
    <3> QED  BY <1>1, <3>1 DEF DataForSource
  <2>2. CASE ~(i <= Len(s))
    <3> DEFINE j == i - Len(s)
    <3>1. j \in 1..Len(m) /\ i = Len(s) + j
      BY <1>1, <2>2
    <3> HIDE DEF j
    <3>2. u[i] = m[j]
      BY <1>1, <3>1
    <3> QED  BY <3>1, <3>2 DEF DataForSource
  <2> QED  BY <2>1, <2>2
<1>4. u # <<>> /\ u[Len(u)] = m[Len(m)]
  <2>1. Len(m) \in 1..Len(m) /\ Len(u) = Len(s) + Len(m) /\ Len(u) # 0
    BY <1>1
  <2> QED  BY <1>1, <1>11, <2>1
<1>5. u[1] = IF s = <<>> THEN m[1] ELSE s[1]
  <2>1. CASE s = <<>>
    <3>1. 1 \in 1..Len(m) /\ Len(s) + 1 = 1
      BY <1>1, <1>11, <2>1
    <3> QED  BY <1>1, <2>1, <3>1
  <2>2. CASE s # <<>>
    <3>1. 1 \in 1..Len(s)
      BY <1>1, <1>11, <2>2
    <3> QED  BY <1>1, <2>2, <3>1
  <2> QED  BY <2>1, <2>2
<1> QED  BY <1>2, <1>3, <1>4, <1>5 DEF u

\* The place in the stream, and what is unread, untouched.
LEMMA SameFrame ==
  ASSUME FramedInv, Unread' = Unread, AtPayload' = AtPayload, UNCHANGED <<object, sock>>,
         sock # "up" => UNCHANGED owed
  PROVE  FramedInv'
BY DEF FramedInv, Chained, DataForSource

\* Nothing unread, on a connection that is new, or none.
LEMMA EmptyFrame ==
  ASSUME stream' = <<>>, owed' = <<>>, talker' \in {"while", "user_id"}
  PROVE  FramedInv'
<1>1. Unread' = <<>> /\ Len(<<>>) = 0
  BY ConcatEmptySeq, EmptySeq DEF Unread
<1>2. ~AtPayload'
  BY DEF AtPayload
<1>3. Chained(Unread)' /\ DataForSource(Unread)'
  BY <1>1 DEF Chained, DataForSource
<1> QED  BY <1>1, <1>2, <1>3 DEF FramedInv

\* The steps that read nothing.
LEMMA QuietKeeps ==
  ASSUME MessageInv,
         \/ TalkerWhile \/ TalkerUserId \/ TalkerPoll \/ Callback
         \/ CheckConnected \/ SendDataPacket \/ Destroy \/ UNCHANGED vars
  PROVE  MessageInv'
<1>0. TypeOK /\ FramedInv /\ CallbackWhole
  BY DEF MessageInv
<1>00. MaxConns \in Nat
  BY TalkerAssumption DEF TalkerAssumption
<1>1. UNCHANGED <<object, user_id, msg, pcm>>
  BY DEF TalkerWhile, TalkerUserId, TalkerPoll, Callback, CheckConnected, SendDataPacket, Destroy,
         vars, fixed
<1>2. /\ talker' \in {"while", "user_id", "poll", "recv", "callback", "payload", "done"}
      /\ should_continue' \in BOOLEAN /\ streaming' \in BOOLEAN /\ sender' \in {"idle", "checked"}
      /\ sock' \in {"closed", "up", "peer_closed"} /\ first' \in {"none", "user_id", "data"}
  BY <1>0 DEF TypeOK, TalkerWhile, TalkerUserId, TalkerPoll, Callback, CheckConnected,
              SendDataPacket, Destroy, vars, netVars, appVars, Again, Close, Hear
<1>3. conn' \in 0..MaxConns /\ greeted' \in Nat
  <2>1. conn \in 0..MaxConns /\ greeted \in Nat
    BY <1>0 DEF TypeOK
  <2>2. conn' = conn \/ (conn < MaxConns /\ conn' = conn + 1)
    BY DEF TalkerWhile, TalkerUserId, TalkerPoll, Callback, CheckConnected, SendDataPacket,
           Destroy, vars, netVars, Close
  <2>3. greeted' \in {greeted, greeted + 1, 0}
    BY DEF TalkerWhile, TalkerUserId, TalkerPoll, Callback, CheckConnected, SendDataPacket,
           Destroy, vars, netVars, Close, Hear
  <2> QED  BY <1>00, <2>1, <2>2, <2>3
<1>4. UNCHANGED <<stream, owed>> \/ (stream' = <<>> /\ owed' = <<>>)
  BY DEF TalkerWhile, TalkerUserId, TalkerPoll, Callback, CheckConnected, SendDataPacket, Destroy,
         vars, netVars, Close
<1>5. stream' \in Seq(Part) /\ owed' \in Seq(Part)
  BY <1>0, <1>4, EmptySeq DEF TypeOK
<1>6. TypeOK'
  BY <1>0, <1>1, <1>2, <1>3, <1>5 DEF TypeOK
<1>7. \/ stream' = <<>> /\ owed' = <<>> /\ talker' \in {"while", "user_id"}
      \/ UNCHANGED <<stream, owed, sock>> /\ (AtPayload' <=> AtPayload)
  <2>1. CASE TalkerWhile
    BY <2>1 DEF TalkerWhile, netVars, AtPayload
  <2>2. CASE TalkerUserId
    BY <2>2 DEF TalkerUserId, AtPayload
  <2>3. CASE TalkerPoll
    BY <2>3 DEF TalkerPoll, netVars, Close, Again, AtPayload
  <2>4. CASE Callback
    BY <1>1, <2>4 DEF Callback, netVars, Again, AtPayload
  <2>5. CASE CheckConnected \/ SendDataPacket \/ Destroy \/ UNCHANGED vars
    BY <1>1, <2>5 DEF CheckConnected, SendDataPacket, Destroy, vars, netVars, AtPayload
  <2> QED  BY <2>1, <2>2, <2>3, <2>4, <2>5
<1>8. FramedInv'
  <2>1. CASE stream' = <<>> /\ owed' = <<>> /\ talker' \in {"while", "user_id"}
    BY <2>1, EmptyFrame
  <2>2. CASE UNCHANGED <<stream, owed, sock>> /\ (AtPayload' <=> AtPayload)
    <3>1. Unread' = Unread /\ AtPayload' = AtPayload
      BY <2>2 DEF Unread, AtPayload
    <3> QED  BY <1>0, <1>1, <2>2, <3>1, SameFrame
  <2> QED  BY <1>7, <2>1, <2>2
<1>9. talker' \in {"callback", "payload"} => talker \in {"callback", "payload"}
  BY DEF TalkerWhile, TalkerUserId, TalkerPoll, Callback, CheckConnected, SendDataPacket, Destroy,
         vars, Again
<1> QED  BY <1>0, <1>1, <1>6, <1>8, <1>9 DEF MessageInv, CallbackWhole

\* What begins like a payload is a prefix of one.
LEMMA PcmPrefix ==
  ASSUME NEW s \in Seq(Part), Len(s) <= 2, \A i \in 1..Len(s) : s[i] = Parts("pcm")[i]
  PROVE  s = SubSeq(Parts("pcm"), 1, Len(s))
<1> DEFINE t == SubSeq(Parts("pcm"), 1, Len(s))
<1>1. Len(s) \in Nat
  BY LenProperties
<1>2. \A i \in 1..Len(s) : Parts("pcm")[i] \in Part
  BY <1>1, ElementOfSeq
<1>3. t \in Seq(Part) /\ Len(t) = Len(s) /\ \A i \in 1..Len(s) : t[i] = Parts("pcm")[i]
  BY <1>1, <1>2, SubSeqProperties
<1> HIDE DEF t
<1>4. \A i \in 1..Len(s) : s[i] = t[i]
  BY <1>3
<1> QED  BY <1>3, <1>4, SeqEqual DEF t

\* The first two unread parts, where a message or a payload begins.
LEMMA FirstTwo ==
  ASSUME Unread \in Seq(Part), Len(Unread) >= 2, FramedInv
  PROVE  \E kd \in {"ctrl", "unknown", "data", "pcm"} :
           /\ Unread[1] = <<kd, 1>> /\ Unread[2] = <<kd, 2>>
           /\ AtPayload => kd = "pcm"
           /\ ~AtPayload => kd \in Kind
<1>1. Len(Unread) \in Nat /\ 1 \in 1..Len(Unread) /\ 1 \in 1..(Len(Unread) - 1) /\ Unread # <<>>
  BY LenProperties, EmptySeq
<1>2. Unread[1] \in Part
  BY <1>1, ElementOfSeq
<1>3. Follows(Unread[1], Unread[1 + 1])
  BY <1>1 DEF FramedInv, Chained
<1>4. IF AtPayload THEN Unread[1] = <<"pcm", 1>> ELSE Starts(Unread[1])
  BY <1>1 DEF FramedInv
<1>5. Unread[1][2] = 1 /\ (AtPayload => Unread[1][1] = "pcm") /\ (~AtPayload => Unread[1][1] \in Kind)
  BY <1>4 DEF Starts
<1>6. Unread[1] = <<Unread[1][1], 1>> /\ Unread[1][1] \in {"ctrl", "unknown", "data", "pcm"}
  BY <1>2, <1>5 DEF Part
<1>7. Unread[2] = <<Unread[1][1], 2>>
  BY <1>3, <1>5 DEF Follows
<1> QED  BY <1>5, <1>6, <1>7

\* A message that was read whole leaves the stream at the start of another
\* one, or of its payload.
LEMMA RecvKeeps ==
  ASSUME MessageInv, TalkerRecv
  PROVE  MessageInv'
<1>0. TypeOK /\ FramedInv /\ CallbackWhole
  BY DEF MessageInv
<1>00. stream \in Seq(Part) /\ owed \in Seq(Part)
  BY <1>0 DEF TypeOK
<1>1. talker = "recv" /\ UNCHANGED <<object, user_id, should_continue, pcm, streaming, sender>>
  BY DEF TalkerRecv, fixed, appVars
<1>2. CASE ~Whole /\ Close /\ talker' = "while" /\ UNCHANGED msg
  <2>1. FramedInv'
    BY <1>2, EmptyFrame DEF Close
  <2>2. TypeOK'
    BY <1>0, <1>1, <1>2, EmptySeq DEF TypeOK, Close
  <2> QED  BY <1>0, <1>1, <1>2, <2>1, <2>2 DEF MessageInv, CallbackWhole
<1>3. CASE Whole /\ TakeMessage
  <2>1. /\ stream' = SubSeq(stream, Len(Received) + 1, Len(stream)) /\ msg' = Received
        /\ UNCHANGED <<sock, owed, conn, greeted, first>>
        /\ IF Accepted(msg') THEN talker' = "callback" ELSE talker' \in {"poll", "while"}
    BY <1>3 DEF TakeMessage, Again
  <2>2. /\ Len(Received) = 2 /\ 2 <= Len(Unread)
        /\ Unread' \in Seq(Part) /\ Unread \in Seq(Part) /\ stream' \in Seq(Part)
        /\ Len(Unread') = Len(Unread) - 2
        /\ \A i \in 1..Len(Unread') : Unread'[i] = Unread[i + 2]
        /\ \A i \in 1..2 : Received[i] = Unread[i]
    BY <1>00, <1>3, <2>1, ReadTakes DEF Whole
  <2>3. ~AtPayload
    BY <1>1 DEF AtPayload
  <2>4. PICK kd \in Kind : Unread[1] = <<kd, 1>> /\ Unread[2] = <<kd, 2>>
    BY <1>0, <2>2, <2>3, FirstTwo DEF Kind
  <2>5. msg' = <<<<kd, 1>>, <<kd, 2>>>>
    <3>1. Received \in Seq(Part)
      BY <1>00, ReceivedFacts
    <3>2. Received = <<Received[1], Received[2]>>
      BY <2>2, <3>1, PairSeq
    <3>3. Received[1] = <<kd, 1>> /\ Received[2] = <<kd, 2>>
      BY <2>2, <2>4
    <3> QED  BY <2>1, <3>2, <3>3
  <2>6. msg' = Parts(kd) /\ msg'[1][1] = kd /\ msg' \in Part \X Part
    BY <2>5 DEF Parts, Part, Kind
  <2>7. /\ kd = "unknown" => talker' \in {"poll", "while"}
        /\ kd # "unknown" => talker' = "callback"
    BY <2>1, <2>6 DEF Accepted
  <2>8. AtPayload' <=> kd = "data"
    BY <2>6, <2>7 DEF AtPayload
  <2>9. TypeOK'
    <3>1. talker' \in {"while", "user_id", "poll", "recv", "callback", "payload", "done"}
      BY <2>7
    <3> QED  BY <1>0, <1>1, <2>1, <2>2, <2>6, <3>1 DEF TypeOK
  <2>10. CallbackWhole'
    BY <1>0, <1>1, <2>6, <2>7 DEF CallbackWhole, Kind
  <2>11. /\ Chained(Unread') /\ DataForSource(Unread')
         /\ Unread' # <<>> => Follows(Unread[2], Unread'[1])
         /\ Unread' # <<>> => Unread # <<>> /\ Unread'[Len(Unread')] = Unread[Len(Unread)]
    <3>1. Chained(Unread) /\ DataForSource(Unread)
      BY <1>0 DEF FramedInv
    <3>2. PICK k \in Nat : k = 2
      OBVIOUS
    <3>3. /\ k <= Len(Unread) /\ Len(Unread') = Len(Unread) - k
          /\ \A i \in 1..Len(Unread') : Unread'[i] = Unread[i + k]
      BY <2>2, <3>2
    <3>4. /\ Chained(Unread') /\ DataForSource(Unread')
          /\ Unread' # <<>> /\ k # 0 => Follows(Unread[k], Unread'[1])
          /\ Unread' # <<>> => Unread # <<>> /\ Unread'[Len(Unread')] = Unread[Len(Unread)]
      BY <2>2, <3>1, <3>3, DropChained
    <3> QED  BY <3>2, <3>4
  <2>12. Unread' # <<>> => IF AtPayload' THEN Unread'[1] = <<"pcm", 1>> ELSE Starts(Unread'[1])
    BY <2>4, <2>8, <2>11 DEF Follows
  <2>13. sock = "up" => IF Unread' = <<>> THEN ~AtPayload' ELSE Ends(Unread'[Len(Unread')])
    <3>1. Len(Unread) \in Nat /\ (Unread' = <<>> => Len(Unread) = 2) /\ Unread # <<>>
      BY <2>2, LenProperties, EmptySeq
    <3>2. sock = "up" => Ends(Unread[Len(Unread)])
      BY <1>0, <3>1 DEF FramedInv
    <3>3. sock = "up" /\ Unread' = <<>> => kd # "data"
      <4>1. sock = "up" /\ Unread' = <<>> => Ends(<<kd, 2>>)
        BY <2>4, <3>1, <3>2
      <4> QED  BY <4>1 DEF Ends
    <3> QED  BY <2>8, <2>11, <3>2, <3>3
  <2>14. AtPayload' => object = "audio_source"
    <3>1. 1 \in 1..Len(Unread)
      BY <2>2, LenProperties
    <3> QED  BY <1>0, <2>4, <2>8, <3>1 DEF FramedInv, DataForSource
  <2>15. FramedInv'
    <3>1. Chained(Unread)' /\ DataForSource(Unread)'
      BY <1>1, <2>11 DEF Chained, DataForSource
    <3>2. sock # "up" => owed = <<>>
      BY <1>0 DEF FramedInv
    <3> QED  BY <1>1, <2>1, <2>12, <2>13, <2>14, <3>1, <3>2 DEF FramedInv, Starts, Ends
  <2> QED  BY <2>9, <2>10, <2>15 DEF MessageInv
<1> QED  BY <1>2, <1>3 DEF TalkerRecv

\* A payload that was read leaves the stream at the start of a message.
LEMMA PayloadKeeps ==
  ASSUME MessageInv, ReadDataPacket
  PROVE  MessageInv'
<1>0. TypeOK /\ FramedInv /\ CallbackWhole
  BY DEF MessageInv
<1>00. stream \in Seq(Part) /\ owed \in Seq(Part)
  BY <1>0 DEF TypeOK
<1>1. /\ talker = "payload" /\ talker' \in {"poll", "while"} /\ pcm' = Received
      /\ stream' = SubSeq(stream, Len(Received) + 1, Len(stream))
      /\ UNCHANGED <<object, user_id, should_continue, msg, sock, owed, conn, greeted, first,
                     streaming, sender>>
  BY DEF ReadDataPacket, fixed, appVars, Again
<1>2. AtPayload /\ ~AtPayload' /\ object = "audio_source"
  <2>1. AtPayload /\ ~AtPayload'
    BY <1>1 DEF AtPayload
  <2> QED  BY <1>0, <2>1 DEF FramedInv
<1>3. Whole \/ sock = "peer_closed"
  BY <1>2 DEF ReadDataPacket, RecvReturns
<1> DEFINE k == Len(Received)
<1>4. /\ k \in Nat /\ k <= Len(Unread)
      /\ Unread' \in Seq(Part) /\ Unread \in Seq(Part) /\ stream' \in Seq(Part)
      /\ Len(Unread') = Len(Unread) - k
      /\ \A i \in 1..Len(Unread') : Unread'[i] = Unread[i + k]
      /\ \A i \in 1..k : Received[i] = Unread[i]
  BY <1>00, <1>1, ReadTakes
<1>5. /\ Received \in Seq(Part) /\ k = IF Len(stream) < 2 THEN Len(stream) ELSE 2
  BY <1>00, ReceivedFacts
<1>6. Len(Unread) \in Nat /\ Len(stream) \in Nat /\ (Unread = <<>> => Len(Unread) = 0)
  BY <1>00, <1>4, LenProperties, EmptySeq
<1>66. Whole <=> k = 2
  BY DEF Whole
<1> HIDE DEF k
<1>7. /\ Chained(Unread') /\ DataForSource(Unread')
      /\ Unread' # <<>> /\ k # 0 => Follows(Unread[k], Unread'[1])
      /\ Unread' # <<>> => Unread # <<>> /\ Unread'[Len(Unread')] = Unread[Len(Unread)]
  <2>1. Chained(Unread) /\ DataForSource(Unread)
    BY <1>0 DEF FramedInv
  <2> QED  BY <1>4, <2>1, DropChained
<1>8. sock = "peer_closed" => owed = <<>> /\ Unread = stream
  <2>1. sock = "peer_closed" => owed = <<>>
    BY <1>0 DEF FramedInv
  <2> QED  BY <1>00, <2>1, Joined DEF Unread
<1>9. k = 2 => Unread[1] = <<"pcm", 1>> /\ Unread[2] = <<"pcm", 2>>
  BY <1>0, <1>2, <1>4, FirstTwo
<1>10. k # 0 => Unread[1] = <<"pcm", 1>>
  BY <1>0, <1>2, <1>4, <1>6 DEF FramedInv
<1>11. k <= 2 /\ \A i \in 1..k : Received[i] = Parts("pcm")[i]
  <2>0. k \in Nat /\ k <= 2
    BY <1>4, <1>5, <1>6
  <2>1. k \in {0, 1, 2}
    BY <2>0
  <2>2. Parts("pcm")[1] = <<"pcm", 1>> /\ Parts("pcm")[2] = <<"pcm", 2>>
    BY DEF Parts
  <2>3. ASSUME NEW i \in 1..k PROVE Unread[i] = Parts("pcm")[i]
    <3>1. i = 1 \/ (i = 2 /\ k = 2)
      BY <2>1
    <3> QED  BY <1>9, <1>10, <2>1, <2>2, <3>1
  <2> QED  BY <1>4, <2>1, <2>3
<1>12. pcm' = SubSeq(Parts("pcm"), 1, Len(pcm')) /\ pcm' \in Seq(Part)
  BY <1>1, <1>5, <1>11, PcmPrefix DEF k
<1>13. k # 2 => Unread' = <<>>
  <2>1. k # 2 => k = Len(stream) /\ sock = "peer_closed"
    BY <1>3, <1>5, <1>66
  <2>2. k # 2 => Len(Unread') = 0
    BY <1>4, <1>6, <1>8, <2>1
  <2> QED  BY <1>4, <2>2, EmptySeq
<1>14. Unread' # <<>> => Starts(Unread'[1])
  BY <1>7, <1>9, <1>13 DEF Follows
<1>15. sock = "up" /\ Unread' # <<>> => Ends(Unread'[Len(Unread')])
  BY <1>0, <1>7 DEF FramedInv
<1>16. FramedInv'
  <2>1. Chained(Unread)' /\ DataForSource(Unread)'
    BY <1>1, <1>7 DEF Chained, DataForSource
  <2>2. sock # "up" => owed = <<>>
    BY <1>0 DEF FramedInv
  <2> QED  BY <1>1, <1>2, <1>14, <1>15, <2>1, <2>2 DEF FramedInv, Starts, Ends
<1>17. TypeOK'
  <2>1. talker' \in {"while", "user_id", "poll", "recv", "callback", "payload", "done"}
    BY <1>1
  <2> QED  BY <1>0, <1>1, <1>4, <1>12, <2>1 DEF TypeOK
<1>18. CallbackWhole'
  BY <1>1, <1>12 DEF CallbackWhole
<1> QED  BY <1>16, <1>17, <1>18 DEF MessageInv

\* The VHAL begins a message behind whole ones, writes it part by part, and may
\* close the connection at any point of it.
LEMMA ServerKeeps ==
  ASSUME MessageInv, ServerMessage \/ ServerPart \/ ServerCloses
  PROVE  MessageInv'
<1>0. TypeOK /\ FramedInv /\ CallbackWhole
  BY DEF MessageInv
<1>00. stream \in Seq(Part) /\ owed \in Seq(Part) /\ object \in Objects
  BY <1>0 DEF TypeOK
<1>1. UNCHANGED <<object, user_id, should_continue, talker, msg, pcm, conn, greeted, first,
                  streaming, sender>>
  BY DEF ServerMessage, ServerPart, ServerCloses, fixed, appVars
<1>2. AtPayload' <=> AtPayload
  BY <1>1 DEF AtPayload
<1>3. CallbackWhole'
  BY <1>0, <1>1 DEF CallbackWhole
<1>4. ASSUME stream' \in Seq(Part), owed' \in Seq(Part)
      PROVE  TypeOK'
  <2>1. sock' \in {"closed", "up", "peer_closed"}
    BY <1>0 DEF TypeOK, ServerMessage, ServerPart, ServerCloses
  <2> QED  BY <1>0, <1>1, <1>4, <2>1 DEF TypeOK
<1>5. CASE ServerMessage
  <2>1. sock = "up" /\ UNCHANGED <<sock, stream>> /\ owed = <<>> /\ owed' \in Messages
    BY <1>5 DEF ServerMessage
  <2>2. Unread = stream
    BY <1>00, <2>1, Joined DEF Unread
  <2> DEFINE m == owed'
  <2>3. /\ m \in Seq(Part) /\ Len(m) # 0 /\ Starts(m[1]) /\ Ends(m[Len(m)])
        /\ Chained(m) /\ DataForSource(m)
    BY <1>00, <2>1, MessageParts
  <2>4. Unread' = stream \o m
    BY <2>1 DEF Unread
  <2>5. /\ Chained(stream) /\ DataForSource(stream)
        /\ stream # <<>> => Ends(stream[Len(stream)])
        /\ stream = <<>> => ~AtPayload
        /\ stream # <<>> => IF AtPayload THEN stream[1] = <<"pcm", 1>> ELSE Starts(stream[1])
        /\ AtPayload => object = "audio_source"
    BY <1>0, <2>1, <2>2 DEF FramedInv
  <2> HIDE DEF m
  <2>6. /\ Chained(stream \o m) /\ DataForSource(stream \o m) /\ stream \o m # <<>>
        /\ (stream \o m)[Len(stream \o m)] = m[Len(m)]
        /\ (stream \o m)[1] = IF stream = <<>> THEN m[1] ELSE stream[1]
    BY <1>00, <2>3, <2>5, JoinChained
  <2>7. /\ Chained(Unread') /\ DataForSource(Unread') /\ Unread' # <<>>
        /\ Ends(Unread'[Len(Unread')])
        /\ IF AtPayload THEN Unread'[1] = <<"pcm", 1>> ELSE Starts(Unread'[1])
    BY <2>3, <2>4, <2>5, <2>6
  <2>8. FramedInv'
    <3>1. Chained(Unread)' /\ DataForSource(Unread)'
      BY <1>1, <2>7 DEF Chained, DataForSource
    <3> QED  BY <1>1, <1>2, <2>1, <2>5, <2>7, <3>1 DEF FramedInv, Starts, Ends
  <2> QED  BY <1>00, <1>3, <1>4, <2>1, <2>3, <2>8 DEF MessageInv, m
<1>6. CASE ServerPart
  <2>1. /\ owed # <<>> /\ UNCHANGED sock
        /\ stream' = Append(stream, Head(owed)) /\ owed' = Tail(owed)
    BY <1>6 DEF ServerPart
  <2>2. Unread' = Unread /\ stream' \in Seq(Part) /\ owed' \in Seq(Part)
    BY <1>00, <2>1, PartMoves
  <2>3. sock = "up"
    BY <1>0, <2>1 DEF FramedInv
  <2>4. AtPayload' = AtPayload
    BY <1>1 DEF AtPayload
  <2>5. FramedInv'
    BY <1>0, <1>1, <2>1, <2>2, <2>3, <2>4, SameFrame
  <2> QED  BY <1>3, <1>4, <2>2, <2>5 DEF MessageInv
<1>7. CASE ServerCloses
  <2>1. sock = "up" /\ sock' = "peer_closed" /\ owed' = <<>> /\ UNCHANGED stream
    BY <1>7 DEF ServerCloses
  <2>2. Unread' = stream /\ <<>> \in Seq(Part)
    BY <1>00, <2>1, ConcatEmptySeq, EmptySeq DEF Unread
  <2>3. /\ Unread \in Seq(Part) /\ Len(Unread) = Len(stream) + Len(owed)
        /\ Len(stream) \in Nat /\ Len(owed) \in Nat
        /\ \A i \in 1..Len(stream) : Unread[i] = stream[i]
    BY <1>00, Joined DEF Unread
  <2>33. (Unread = <<>> => Len(Unread) = 0) /\ (stream # <<>> => Len(stream) # 0)
    BY <1>00, EmptySeq
  <2>4. Chained(stream)
    <3> SUFFICES ASSUME NEW i \in 1..(Len(stream) - 1) PROVE Follows(stream[i], stream[i + 1])
      BY DEF Chained
    <3>1. i \in 1..Len(stream) /\ i + 1 \in 1..Len(stream) /\ i \in 1..(Len(Unread) - 1)
      BY <2>3
    <3>2. Follows(Unread[i], Unread[i + 1])
      BY <1>0, <3>1 DEF FramedInv, Chained
    <3> QED  BY <2>3, <3>1, <3>2
  <2>5. DataForSource(stream)
    <3> SUFFICES ASSUME NEW i \in 1..Len(stream), stream[i][1] = "data" PROVE object = "audio_source"
      BY DEF DataForSource
    <3>1. i \in 1..Len(Unread) /\ Unread[i] = stream[i]
      BY <2>3
    <3> QED  BY <1>0, <3>1 DEF FramedInv, DataForSource
  <2>6. stream # <<>> => IF AtPayload THEN stream[1] = <<"pcm", 1>> ELSE Starts(stream[1])
    <3>1. stream # <<>> => Unread # <<>> /\ Unread[1] = stream[1]
      BY <2>3, <2>33
    <3> QED  BY <1>0, <3>1 DEF FramedInv
  <2>7. FramedInv'
    <3>1. Chained(Unread)' /\ DataForSource(Unread)'
      BY <1>1, <2>1, <2>2, <2>4, <2>5 DEF Chained, DataForSource
    <3>2. AtPayload => object = "audio_source"
      BY <1>0 DEF FramedInv
    <3> QED  BY <1>1, <1>2, <2>1, <2>2, <2>6, <3>1, <3>2 DEF FramedInv, Starts
  <2> QED  BY <1>00, <1>3, <1>4, <2>1, <2>2, <2>7 DEF MessageInv
<1> QED  BY <1>5, <1>6, <1>7

\* The invariant the next two theorems rest on.
THEOREM MessagesFramed == Spec => []MessageInv
<1>1. Init => MessageInv
  <2> SUFFICES ASSUME Init PROVE MessageInv
    OBVIOUS
  <2>1. MaxConns \in Nat
    BY TalkerAssumption DEF TalkerAssumption
  <2>2. TypeOK
    <3>1. <<>> \in Seq(Part) /\ 0 \in 0..MaxConns
      BY <2>1, EmptySeq
    <3> QED  BY <3>1 DEF Init, TypeOK
  <2>3. Unread = <<>> /\ Len(<<>>) = 0
    BY ConcatEmptySeq, EmptySeq DEF Init, Unread
  <2>4. ~AtPayload
    BY DEF Init, AtPayload
  <2>5. Chained(Unread) /\ DataForSource(Unread)
    BY <2>3 DEF Chained, DataForSource
  <2>6. FramedInv
    BY <2>3, <2>4, <2>5 DEF Init, FramedInv
  <2>7. pcm = SubSeq(Parts("pcm"), 1, Len(pcm))
    BY <2>3, SubSeqEmpty DEF Init
  <2> QED  BY <2>2, <2>6, <2>7 DEF Init, MessageInv, CallbackWhole
<1>2. MessageInv /\ [Next]_vars => MessageInv'
  BY QuietKeeps, RecvKeeps, PayloadKeeps, ServerKeeps DEF Next, TalkerStep, Terminated
<1> QED  BY <1>1, <1>2, PTL DEF Spec

\* Every variable keeps its type.
THEOREM TypeCorrect == Spec => []TypeOK
<1>1. MessageInv => TypeOK
  BY DEF MessageInv
<1> QED  BY <1>1, MessagesFramed, PTL

\* However the stream is cut, a callback is given one whole message, and
\* ReadDataPacket reads from the start of the payload that belongs to it.
THEOREM CallbacksWhole == Spec => []CallbackWhole
<1>1. MessageInv => CallbackWhole
  BY DEF MessageInv
<1> QED  BY <1>1, MessagesFramed, PTL
=============================================================================
