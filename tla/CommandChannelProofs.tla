------------------------- MODULE CommandChannelProofs -------------------------
(***************************************************************************)
(* What CommandChannel keeps for every set of services, every sequence of  *)
(* lengths they announce and every buffer size, proved with TLAPS.         *)
(***************************************************************************)
EXTENDS CommandChannel, SequenceTheorems, TLAPS

-----------------------------------------------------------------------------
(* Type correctness, and a buffer that holds the body.                      *)

\* A length that was accepted has passed the check of its range.
LengthChecked ==
  \A c \in Channel : talker[c] \in {"resize", "recv", "body", "callback"} =>
    msg_length[c] \in 1..MaxSize

BufferInv == TypeOK /\ LengthChecked /\ BodyFits

\* Every step of the system, sorted by who takes it.
LEMMA Steps ==
  ASSUME Next
  PROVE  \/ \E c \in Channel : TalkerStep(c)
         \/ \E c \in Channel : SendLength(c) \/ ServerLength(c) \/ ServerBody(c) \/ ServerClose(c)
         \/ SendPayload \/ Destroy \/ Join \/ UNCHANGED vars
BY DEF Next, Terminated

\* What the head and the tail of a sequence are made of.
LEMMA HeadTail ==
  ASSUME NEW S, NEW s \in Seq(S), s # <<>>
  PROVE  Head(s) \in S /\ Tail(s) \in Seq(S)
OBVIOUS

\* A packet carries a natural number.
LEMMA PacketLength ==
  ASSUME TypeOK, NEW c \in Channel, inbox[c] # <<>>
  PROVE  Head(inbox[c])[2] \in Nat
<1>1. inbox[c] \in Seq({"len", "body"} \X Nat)
  BY DEF TypeOK
<1>2. Head(inbox[c]) \in {"len", "body"} \X Nat
  BY <1>1, HeadTail
<1> QED  BY <1>2

\* The bounds are naturals, and an initial vector is within them.
LEMMA Bounds ==
  MaxSize \in Nat /\ MaxConns \in Nat /\ InitialSize \in 1..MaxSize
BY ChannelAssumption DEF ChannelAssumption

\* The vector of a channel, and its size.
LEMMA BufTyped == \A c \in Channel : Buf(c) \in Buffer
BY DEF Buf, Buffer

\* The vector that a talker receives into has a size within its bounds.
LEMMA SizeTyped ==
  ASSUME TypeOK, NEW c \in Channel
  PROVE  size[Buf(c)] \in 1..MaxSize
<1>1. size[Buf(c)] \in InitialSize..MaxSize
  BY BufTyped DEF TypeOK
<1> QED  BY <1>1, Bounds

\* Reading from a connection, closing and opening it keep the types of what
\* belongs to the connection.
LEMMA NetTyped ==
  ASSUME TypeOK, NEW c \in Channel, Recv(c) \/ Close(c) \/ Connect(c)
  PROVE  /\ sock' \in [Channel -> {"down", "up", "peer_closed"}]
         /\ inbox' \in [Channel -> Seq({"len", "body"} \X Nat)]
         /\ half' \in [Channel -> Nat]
         /\ conn' \in [Channel -> 0..MaxConns]
         /\ expect' \in [Channel -> {"length", "payload", "broken"}]
<1>1. CASE Recv(c)
  <2>0. inbox[c] # <<>> /\ inbox[c] \in Seq({"len", "body"} \X Nat)
    BY <1>1 DEF Recv, TypeOK
  <2>1. Tail(inbox[c]) \in Seq({"len", "body"} \X Nat)
    BY <2>0, HeadTail
  <2>2. inbox' \in [Channel -> Seq({"len", "body"} \X Nat)]
    BY <1>1, <2>1 DEF Recv, TypeOK
  <2> QED  BY <1>1, <2>2 DEF Recv, TypeOK
<1>2. CASE Close(c)
  <2>1. inbox' \in [Channel -> Seq({"len", "body"} \X Nat)]
    BY <1>2 DEF Close, TypeOK
  <2> QED  BY <1>2, <2>1 DEF Close, TypeOK
<1>3. CASE Connect(c)
  <2>0. conn \in [Channel -> 0..MaxConns]
    BY DEF TypeOK
  <2>1. conn' \in [Channel -> 0..MaxConns]
    BY <1>3, <2>0, Bounds DEF Connect, netVars
  <2> QED  BY <1>3, <2>1 DEF Connect, TypeOK, netVars
<1> QED  BY <1>1, <1>2, <1>3

\* A talker's step keeps the types, the checked length and the room.
LEMMA TalkerFits ==
  ASSUME BufferInv, NEW c \in Channel, TalkerStep(c)
  PROVE  BufferInv'
<1>0. TypeOK /\ LengthChecked /\ BodyFits
  BY DEF BufferInv
<1>1. CASE TalkerWhile(c)
  <2>1. PICK pc \in {"while", "poll", "done"} : Go(c, pc)
    BY <1>1 DEF TalkerWhile
  <2>2. UNCHANGED <<should_continue, dtor, msg_length, data, size, content, sender>>
    BY <1>1 DEF TalkerWhile, bufVars
  <2>3. UNCHANGED netVars \/ Connect(c)
    BY <1>1 DEF TalkerWhile
  <2>4. TypeOK'
    BY <1>0, <2>1, <2>2, <2>3, NetTyped DEF TypeOK, Go, netVars
  <2> QED  BY <1>0, <2>1, <2>2, <2>4 DEF BufferInv, LengthChecked, BodyFits, Go, TypeOK
<1>2. CASE TalkerPoll(c)
  <2>1. PICK pc \in {"while", "poll", "length"} : Go(c, pc)
    BY <1>2 DEF TalkerPoll, Again
  <2>2. UNCHANGED <<should_continue, dtor, msg_length, data, size, content, sender, netVars>>
    BY <1>2 DEF TalkerPoll, bufVars
  <2>4. TypeOK'
    BY <1>0, <2>1, <2>2 DEF TypeOK, Go, netVars
  <2> QED  BY <1>0, <2>1, <2>2, <2>4 DEF BufferInv, LengthChecked, BodyFits, Go, TypeOK
<1>3. CASE TalkerLength(c)
  <2>1. PICK pc \in {"while", "resize"} : Go(c, pc) /\ (pc = "resize" => LengthOk(msg_length'[c]))
    BY <1>3 DEF TalkerLength
  <2>2. UNCHANGED <<should_continue, dtor, data, size, content, sender>>
    BY <1>3 DEF TalkerLength
  <2>3. Recv(c) \/ Close(c)
    BY <1>3 DEF TalkerLength
  <2>4. inbox[c] # <<>> => Head(inbox[c])[2] \in Nat
    BY <1>0, PacketLength
  <2>5. msg_length' \in [Channel -> Nat] /\ \A d \in Channel : d # c => msg_length'[d] = msg_length[d]
    BY <1>0, <1>3, <2>4 DEF TalkerLength, TypeOK
  <2>6. TypeOK'
    BY <1>0, <2>1, <2>2, <2>3, <2>5, NetTyped DEF TypeOK, Go
  <2>7. LengthChecked'
    <3>1. pc = "resize" => msg_length'[c] \in 1..MaxSize
      BY <2>1, <2>5, Bounds DEF LengthOk
    <3>2. talker'[c] = pc /\ \A d \in Channel : d # c => talker'[d] = talker[d]
      BY <1>0, <2>1 DEF Go, TypeOK
    <3> QED  BY <1>0, <2>1, <2>5, <3>1, <3>2 DEF LengthChecked
  <2>8. BodyFits'
    BY <1>0, <2>1, <2>2, <2>5 DEF BodyFits, Go, TypeOK
  <2> QED  BY <2>6, <2>7, <2>8 DEF BufferInv
<1>4. CASE TalkerResize(c)
  <2>1. Go(c, "recv") /\ UNCHANGED <<should_continue, dtor, msg_length, data, content, sender, netVars>>
    BY <1>4 DEF TalkerResize
  <2>2. msg_length[c] \in 1..MaxSize
    BY <1>0, <1>4 DEF LengthChecked, TalkerResize
  <2>3. /\ size' \in [Buffer -> InitialSize..MaxSize]
        /\ msg_length[c] <= size'[Buf(c)]
        /\ \A b \in Buffer : size[b] <= size'[b]
    <3>1. size \in [Buffer -> InitialSize..MaxSize] /\ Buf(c) \in Buffer
      BY <1>0, BufTyped DEF TypeOK
    <3>2. size' = [size EXCEPT ![Buf(c)] = IF msg_length[c] > @ THEN msg_length[c] ELSE @]
      BY <1>4 DEF TalkerResize
    <3> QED  BY <2>2, <3>1, <3>2, Bounds
  <2>4. TypeOK'
    BY <1>0, <2>1, <2>3 DEF TypeOK, Go, netVars
  <2>5. LengthChecked'
    BY <1>0, <2>1, <2>2 DEF LengthChecked, Go, TypeOK
  <2>6. ASSUME NEW d \in Channel, talker'[d] \in {"recv", "body", "callback"}
        PROVE  msg_length'[d] \in 1..MaxSize /\ msg_length'[d] <= size'[Buf(d)]
    <3>1. CASE d = c
      BY <2>1, <2>2, <2>3, <3>1
    <3>2. CASE d # c
      <4>1. talker[d] \in {"recv", "body", "callback"}
        BY <1>0, <2>1, <2>6, <3>2 DEF Go, TypeOK
      <4>2. msg_length[d] \in 1..MaxSize /\ msg_length[d] <= size[Buf(d)]
        BY <1>0, <4>1 DEF BodyFits
      <4>3. Buf(d) \in Buffer /\ size[Buf(d)] \in InitialSize..MaxSize /\ size'[Buf(d)] \in InitialSize..MaxSize
        BY <1>0, <2>3, BufTyped DEF TypeOK
      <4> QED  BY <2>1, <2>3, <4>2, <4>3, ChannelAssumption DEF ChannelAssumption
    <3> QED  BY <3>1, <3>2
  <2> QED  BY <2>4, <2>5, <2>6 DEF BufferInv, BodyFits
<1>5. CASE TalkerRecv(c)
  <2>1. Go(c, "body") /\ UNCHANGED <<should_continue, dtor, msg_length, size, content, sender, netVars>>
    BY <1>5 DEF TalkerRecv
  <2>2. data' \in [Channel -> 0..MaxSize]
    <3>0. size[Buf(c)] \in 1..MaxSize
      BY <1>0, SizeTyped
    <3>1. data \in [Channel -> 0..MaxSize]
      BY <1>0 DEF TypeOK
    <3>2. data' = [data EXCEPT ![c] = size[Buf(c)]]
      BY <1>5 DEF TalkerRecv
    <3> QED  BY <3>0, <3>1, <3>2
  <2>3. TypeOK'
    BY <1>0, <2>1, <2>2 DEF TypeOK, Go, netVars
  <2>4. talker[c] = "recv"
    BY <1>5 DEF TalkerRecv
  <2> QED  BY <1>0, <2>1, <2>3, <2>4 DEF BufferInv, LengthChecked, BodyFits, Go, TypeOK
<1>6. CASE TalkerBody(c)
  <2>1. PICK pc \in {"while", "callback"} : Go(c, pc)
    BY <1>6 DEF TalkerBody
  <2>2. UNCHANGED <<should_continue, dtor, msg_length, size, sender>>
    BY <1>6 DEF TalkerBody
  <2>3. Recv(c) \/ Close(c)
    BY <1>6 DEF TalkerBody
  <2>4. data' \in [Channel -> 0..MaxSize]
    <3>0. size[Buf(c)] \in 1..MaxSize
      BY <1>0, SizeTyped
    <3>1. data \in [Channel -> 0..MaxSize]
      BY <1>0 DEF TypeOK
    <3>2. data' = data \/ data' = [data EXCEPT ![c] = size[Buf(c)]]
      BY <1>6 DEF TalkerBody
    <3> QED  BY <3>0, <3>1, <3>2
  <2>5. inbox[c] # <<>> => Head(inbox[c])[2] \in Nat
    BY <1>0, PacketLength
  <2>6. content' \in [Buffer -> (Channel \cup {"none"}) \X Nat]
    <3>1. content \in [Buffer -> (Channel \cup {"none"}) \X Nat]
      BY <1>0 DEF TypeOK
    <3>2. \/ content' = content
          \/ /\ inbox[c] # <<>>
             /\ content' = [content EXCEPT ![Buf(c)] = <<c, Head(inbox[c])[2]>>]
      BY <1>6 DEF TalkerBody, Recv
    <3> QED  BY <2>5, <3>1, <3>2, BufTyped
  <2>7. TypeOK'
    BY <1>0, <2>1, <2>2, <2>3, <2>4, <2>6, NetTyped DEF TypeOK, Go
  <2>8. talker[c] = "body"
    BY <1>6 DEF TalkerBody
  <2> QED  BY <1>0, <2>1, <2>2, <2>7, <2>8 DEF BufferInv, LengthChecked, BodyFits, Go, TypeOK
<1>7. CASE TalkerCallback(c)
  <2>1. PICK pc \in {"while", "poll"} : Go(c, pc)
    BY <1>7 DEF TalkerCallback, Again
  <2>2. UNCHANGED <<should_continue, dtor, msg_length, data, size, content, sender, netVars>>
    BY <1>7 DEF TalkerCallback, bufVars
  <2>3. TypeOK'
    BY <1>0, <2>1, <2>2 DEF TypeOK, Go, netVars
  <2> QED  BY <1>0, <2>1, <2>2, <2>3 DEF BufferInv, LengthChecked, BodyFits, Go, TypeOK
<1> QED  BY <1>1, <1>2, <1>3, <1>4, <1>5, <1>6, <1>7 DEF TalkerStep

\* So does a step of a service or of the application.
LEMMA OthersFit ==
  ASSUME BufferInv, NEW c \in Channel,
         SendLength(c) \/ ServerLength(c) \/ ServerBody(c) \/ ServerClose(c)
  PROVE  BufferInv'
<1>0. TypeOK /\ LengthChecked /\ BodyFits
  BY DEF BufferInv
<1>1. UNCHANGED <<should_continue, dtor, talker, msg_length, data, size, content, conn>>
  BY DEF SendLength, ServerLength, ServerBody, ServerClose, bufVars
<1>2. sock' \in [Channel -> {"down", "up", "peer_closed"}]
  <2>1. sock \in [Channel -> {"down", "up", "peer_closed"}]
    BY <1>0 DEF TypeOK
  <2>2. sock' = sock \/ sock' = [sock EXCEPT ![c] = "peer_closed"]
    BY DEF SendLength, ServerLength, ServerBody, ServerClose
  <2> QED  BY <2>1, <2>2
<1>3. sender' \in [pc : {"idle", "payload"}, ch : Channel, conn : Nat]
  <2>1. sender \in [pc : {"idle", "payload"}, ch : Channel, conn : Nat] /\ conn[c] \in Nat
    BY <1>0, Bounds DEF TypeOK
  <2>2. \/ sender' = sender \/ sender' = [sender EXCEPT !.pc = "idle"]
        \/ sender' = [pc |-> "payload", ch |-> c, conn |-> conn[c]]
    BY DEF SendLength, ServerLength, ServerBody, ServerClose, Idle
  <2> QED  BY <2>1, <2>2
<1>4. expect' \in [Channel -> {"length", "payload", "broken"}]
  <2>1. expect \in [Channel -> {"length", "payload", "broken"}]
    BY <1>0 DEF TypeOK
  <2>2. expect' = expect \/ Deliver(c, "length", "payload")
    BY DEF SendLength, ServerLength, ServerBody, ServerClose
  <2> QED  BY <2>1, <2>2 DEF Deliver
<1>5. half' \in [Channel -> Nat] /\ inbox' \in [Channel -> Seq({"len", "body"} \X Nat)]
  <2>0. half \in [Channel -> Nat] /\ inbox \in [Channel -> Seq({"len", "body"} \X Nat)]
    BY <1>0 DEF TypeOK
  <2>1. CASE SendLength(c) \/ ServerClose(c)
    BY <2>0, <2>1 DEF SendLength, ServerClose
  <2>2. ASSUME NEW p \in {"len", "body"} \X Nat
        PROVE  Append(inbox[c], p) \in Seq({"len", "body"} \X Nat)
    BY <2>0
  <2>3. CASE ServerLength(c)
    <3>1. PICK n \in Lengths : /\ inbox' = [inbox EXCEPT ![c] = Append(@, <<"len", n>>)]
                               /\ half' = [half EXCEPT ![c] = n]
      BY <2>3 DEF ServerLength
    <3>2. n \in Nat
      BY ChannelAssumption DEF ChannelAssumption
    <3>3. Append(inbox[c], <<"len", n>>) \in Seq({"len", "body"} \X Nat)
      BY <2>2, <3>2
    <3> QED  BY <2>0, <3>1, <3>2, <3>3
  <2>4. CASE ServerBody(c)
    <3>1. /\ inbox' = [inbox EXCEPT ![c] = Append(@, <<"body", half[c]>>)]
          /\ half' = [half EXCEPT ![c] = 0]
      BY <2>4 DEF ServerBody
    <3>2. Append(inbox[c], <<"body", half[c]>>) \in Seq({"len", "body"} \X Nat)
      BY <2>0, <2>2
    <3> QED  BY <2>0, <3>1, <3>2
  <2> QED  BY <2>1, <2>3, <2>4
<1>6. TypeOK'
  BY <1>0, <1>1, <1>2, <1>3, <1>4, <1>5 DEF TypeOK
<1> QED  BY <1>0, <1>1, <1>6 DEF BufferInv, LengthChecked, BodyFits

\* And one of the second Send, the destructor and its joins.
LEMMA RestFits ==
  ASSUME BufferInv, SendPayload \/ Destroy \/ Join \/ UNCHANGED vars
  PROVE  BufferInv'
<1>0. TypeOK /\ LengthChecked /\ BodyFits
  BY DEF BufferInv
<1>1. UNCHANGED <<talker, msg_length, data, size, content, conn, sock, inbox, half>>
  BY DEF SendPayload, Destroy, Join, bufVars, netVars, vars
<1>2. sender' \in [pc : {"idle", "payload"}, ch : Channel, conn : Nat]
  BY <1>0 DEF TypeOK, SendPayload, Destroy, Join, vars, Idle
<1>3. expect' \in [Channel -> {"length", "payload", "broken"}]
  BY <1>0 DEF TypeOK, SendPayload, Destroy, Join, vars, netVars, Deliver
<1>4. should_continue' \in BOOLEAN /\ dtor' \in Channel \cup {"no", "done"}
  BY <1>0 DEF TypeOK, SendPayload, Destroy, Join, vars, Channel
<1>5. TypeOK'
  BY <1>0, <1>1, <1>2, <1>3, <1>4 DEF TypeOK
<1> QED  BY <1>0, <1>1, <1>5 DEF BufferInv, LengthChecked, BodyFits

\* The invariant the next three theorems rest on.
THEOREM BuffersKept == Spec => []BufferInv
<1>1. Init => BufferInv
  <2> SUFFICES ASSUME Init PROVE BufferInv
    OBVIOUS
  <2>1. size \in [Buffer -> InitialSize..MaxSize]
    BY Bounds DEF Init
  <2>2. data \in [Channel -> 0..MaxSize] /\ conn \in [Channel -> 0..MaxConns]
    BY Bounds DEF Init
  <2>3. TypeOK
    BY <2>1, <2>2 DEF Init, TypeOK, Channel
  <2> QED  BY <2>3 DEF Init, BufferInv, LengthChecked, BodyFits
<1>2. BufferInv /\ [Next]_vars => BufferInv'
  <2> SUFFICES ASSUME BufferInv, [Next]_vars PROVE BufferInv'
    OBVIOUS
  <2> QED  BY Steps, TalkerFits, OthersFit, RestFits
<1> QED  BY <1>1, <1>2, PTL DEF Spec

\* Every variable keeps its type: no vector outgrows CMD_CHANNEL_MSG_SIZE_MAX,
\* whatever lengths the services announce.
THEOREM TypeCorrect == Spec => []TypeOK
<1>1. BufferInv => TypeOK
  BY DEF BufferInv
<1> QED  BY <1>1, BuffersKept, PTL

\* A talker that waits for a body has room for all of it in its vector,
\* although another talker may resize that vector meanwhile.
THEOREM BodyHasRoom == Spec => []BodyFits
<1>1. BufferInv => BodyFits
  BY DEF BufferInv
<1> QED  BY <1>1, BuffersKept, PTL

-----------------------------------------------------------------------------
(* The framing of what the application sends.                               *)

\* A service waits for a payload only from the call that sent it the length.
PayloadOwed ==
  \A c \in Channel :
    /\ sock[c] = "down" => expect[c] = "length"
    /\ sock[c] = "up" /\ expect[c] = "payload" => sender.pc = "payload" /\ sender.ch = c

\* A call that is between its Sends, on a connection that expects a length,
\* began on an earlier connection.
LengthOnEarlier ==
  sender.pc = "payload" =>
    /\ sender.conn <= conn[sender.ch]
    /\ sock[sender.ch] = "up" /\ expect[sender.ch] = "length" =>
         sender.conn < conn[sender.ch]

FramingInv == PayloadOwed /\ LengthOnEarlier

\* A service loses step only in the second Send, and then on a connection that
\* is newer than the one the length went to.
FramingStep ==
  \A c \in Channel : expect[c] # "broken" /\ expect'[c] = "broken" =>
    sender.pc = "payload" /\ sender.ch = c /\ sender.conn < conn[c]

\* What a talker's step can do to its connection.
LEMMA TalkerNet ==
  ASSUME NEW c \in Channel, TalkerStep(c)
  PROVE  /\ UNCHANGED <<sender, should_continue, dtor>>
         /\ \/ UNCHANGED <<sock, conn, expect>>
            \/ Close(c)
            \/ /\ sock[c] = "down"
               /\ sock' = [sock EXCEPT ![c] = "up"]
               /\ conn' = [conn EXCEPT ![c] = @ + 1]
               /\ UNCHANGED expect
BY DEF TalkerStep, TalkerWhile, TalkerPoll, TalkerLength, TalkerResize, TalkerRecv, TalkerBody,
       TalkerCallback, Connect, Recv, Connected, netVars

\* A talker's steps lose the framing only where they reconnect.
LEMMA TalkerFraming ==
  ASSUME TypeOK, FramingInv, NEW c \in Channel, TalkerStep(c)
  PROVE  FramingInv' /\ FramingStep
<1>1. UNCHANGED sender
  BY TalkerNet
<1>2. /\ sender.ch \in Channel /\ sender.conn \in Nat
      /\ \A d \in Channel : conn[d] \in Nat
  BY Bounds DEF TypeOK
<1>3. CASE UNCHANGED <<sock, conn, expect>>
  BY <1>1, <1>3 DEF FramingInv, FramingStep, PayloadOwed, LengthOnEarlier
<1>4. CASE Close(c)
  BY <1>1, <1>2, <1>4 DEF FramingInv, FramingStep, PayloadOwed, LengthOnEarlier, Close, TypeOK
<1>5. CASE /\ sock[c] = "down"
           /\ sock' = [sock EXCEPT ![c] = "up"]
           /\ conn' = [conn EXCEPT ![c] = @ + 1]
           /\ UNCHANGED expect
  <2>0. sock \in [Channel -> {"down", "up", "peer_closed"}] /\ conn \in [Channel -> 0..MaxConns]
    BY DEF TypeOK
  <2>1. PayloadOwed' /\ FramingStep
    BY <1>1, <1>5, <2>0 DEF FramingInv, FramingStep, PayloadOwed
  <2>2. /\ \A d \in Channel : conn[d] <= conn'[d]
        /\ conn[c] < conn'[c]
        /\ \A d \in Channel : d # c => sock'[d] = sock[d] /\ conn'[d] = conn[d]
    BY <1>2, <1>5, <2>0
  <2>3. LengthOnEarlier'
    <3> SUFFICES ASSUME sender.pc = "payload"
                 PROVE  /\ sender.conn <= conn'[sender.ch]
                        /\ sock'[sender.ch] = "up" /\ expect[sender.ch] = "length" =>
                             sender.conn < conn'[sender.ch]
      BY <1>1, <1>5 DEF LengthOnEarlier
    <3>1. sender.conn <= conn[sender.ch]
      BY DEF FramingInv, LengthOnEarlier
    <3>2. conn'[sender.ch] \in Nat
      BY <1>2, <1>5 DEF TypeOK
    <3>3. CASE sender.ch = c
      BY <1>2, <2>2, <3>1, <3>2, <3>3
    <3>4. CASE sender.ch # c
      BY <1>2, <2>2, <3>4 DEF FramingInv, LengthOnEarlier
    <3> QED  BY <3>3, <3>4
  <2> QED  BY <2>1, <2>3 DEF FramingInv
<1> QED  BY <1>3, <1>4, <1>5, TalkerNet

\* Sending a length and what the services do never loses it.
LEMMA OthersFraming ==
  ASSUME TypeOK, FramingInv, NEW c \in Channel,
         SendLength(c) \/ ServerLength(c) \/ ServerBody(c) \/ ServerClose(c)
  PROVE  FramingInv' /\ FramingStep
<1>2. /\ sender.ch \in Channel /\ sender.conn \in Nat
      /\ \A d \in Channel : conn[d] \in Nat
  BY Bounds DEF TypeOK
<1>3. CASE ServerLength(c) \/ ServerBody(c)
  BY <1>3 DEF ServerLength, ServerBody, FramingInv, FramingStep, PayloadOwed, LengthOnEarlier
<1>4. CASE ServerClose(c)
  BY <1>2, <1>4 DEF ServerClose, FramingInv, FramingStep, PayloadOwed, LengthOnEarlier, TypeOK
<1>5. CASE SendLength(c)
  <2>1. sender.pc = "idle" /\ UNCHANGED <<sock, conn>> /\ Deliver(c, "length", "payload")
    BY <1>5 DEF SendLength
  <2>0. /\ sender \in [pc : {"idle", "payload"}, ch : Channel, conn : Nat]
        /\ expect \in [Channel -> {"length", "payload", "broken"}]
    BY DEF TypeOK
  <2>2. \/ sock[c] # "up" /\ sender'.pc = "idle"
        \/ sock[c] # "down" /\ sender' = [pc |-> "payload", ch |-> c, conn |-> conn[c]]
    BY <2>0, <1>5 DEF SendLength, Idle, Connected
  <2>3. /\ \A d \in Channel : d # c => expect'[d] = expect[d]
        /\ sock[c] # "up" => expect'[c] = expect[c]
        /\ sock[c] = "up" /\ expect[c] = "length" => expect'[c] = "payload"
        /\ sock[c] = "up" /\ expect[c] # "length" => expect'[c] = "broken"
    BY <2>0, <2>1 DEF Deliver
  <2>4. \A d \in Channel : sock[d] = "up" => expect[d] # "payload"
    BY <2>1 DEF FramingInv, PayloadOwed
  <2>5. FramingStep
    BY <2>0, <2>3, <2>4 DEF FramingStep
  <2>6. PayloadOwed'
    BY <2>1, <2>2, <2>3, <2>4 DEF FramingInv, PayloadOwed
  <2>7. LengthOnEarlier'
    BY <1>2, <2>1, <2>2, <2>3 DEF LengthOnEarlier
  <2> QED  BY <2>5, <2>6, <2>7 DEF FramingInv
<1> QED  BY <1>3, <1>4, <1>5

\* Nor do the payload that follows, the destructor and its joins.
LEMMA RestFraming ==
  ASSUME TypeOK, FramingInv, SendPayload \/ Destroy \/ Join \/ UNCHANGED vars
  PROVE  FramingInv' /\ FramingStep
<1>1. CASE Destroy \/ Join \/ UNCHANGED vars
  BY <1>1 DEF Destroy, Join, vars, netVars, FramingInv, FramingStep, PayloadOwed, LengthOnEarlier
<1>2. CASE SendPayload
  <2>1. /\ sender.pc = "payload" /\ UNCHANGED <<sock, conn>>
        /\ Deliver(sender.ch, "payload", "length")
    BY <1>2 DEF SendPayload
  <2>2. sender'.pc = "idle" /\ sender.ch \in Channel
    BY <1>2 DEF SendPayload, Idle, TypeOK
  <2>3. /\ \A d \in Channel : d # sender.ch => expect'[d] = expect[d]
        /\ sock[sender.ch] # "up" => expect' = expect
        /\ sock[sender.ch] = "up" => expect'[sender.ch] \in {"length", "broken"}
        /\ expect'[sender.ch] = "broken" /\ expect[sender.ch] # "broken" =>
             sock[sender.ch] = "up" /\ expect[sender.ch] = "length"
    BY <2>1, <2>2 DEF Deliver, TypeOK
  <2>4. FramingStep
    BY <2>1, <2>2, <2>3 DEF FramingStep, FramingInv, LengthOnEarlier
  <2>5. PayloadOwed'
    BY <2>1, <2>2, <2>3 DEF PayloadOwed, FramingInv
  <2>6. LengthOnEarlier'
    BY <2>2 DEF LengthOnEarlier
  <2> QED  BY <2>4, <2>5, <2>6 DEF FramingInv
<1> QED  BY <1>1, <1>2

\* A service loses step with SendDataPacket only if the talker renewed the
\* connection between the two Sends: any other interleaving of the talkers, the
\* services and the application keeps lengths and payloads in step.
THEOREM FramingKept == Spec => FramingLostOnlyByReconnect
<1>1. Init => FramingInv
  BY DEF Init, FramingInv, PayloadOwed, LengthOnEarlier
<1>2. TypeOK /\ FramingInv /\ [Next]_vars => FramingInv' /\ FramingStep
  BY Steps, TalkerFraming, OthersFraming, RestFraming
<1>3. TypeOK /\ FramingInv /\ [Next]_vars => [FramingStep]_vars
  BY <1>2
<1> QED  BY <1>1, <1>2, <1>3, TypeCorrect, PTL DEF Spec, FramingLostOnlyByReconnect, FramingStep

-----------------------------------------------------------------------------
(* The framing of what a service sends, and the bytes a callback is given.  *)

\* What is left to read begins with a length.
AtBoundary(c) ==
  \/ inbox[c] = <<>> /\ half[c] = 0
  \/ \E n \in Lengths : /\ inbox[c] = <<<<"len", n>>>>
                        /\ half[c] = n \/ (half[c] = 0 /\ sock[c] = "peer_closed")
  \/ \E n \in Lengths : /\ inbox[c] = <<<<"len", n>>, <<"body", n>>>>
                        /\ half[c] = 0

\* What is left to read is the body whose length was read, if it comes at all.
InMessage(c) ==
  \/ /\ inbox[c] = <<>>
     /\ half[c] = msg_length[c] \/ (half[c] = 0 /\ sock[c] = "peer_closed")
  \/ inbox[c] = <<<<"body", msg_length[c]>>>> /\ half[c] = 0

Framed(c) ==
  /\ talker[c] \in {"resize", "recv", "body"} => InMessage(c)
  /\ talker[c] \notin {"resize", "recv", "body"} => AtBoundary(c)
  /\ sock[c] = "down" => talker[c] \in {"while", "done"}
  /\ c \notin Reachable => sock[c] = "down"

StreamInv == \A c \in Channel : Framed(c)

\* No two services that listen receive into the same vector.
NoSharing == \A c, d \in Reachable : Buf(c) = Buf(d) => c = d

\* The pointer a recv() was given is into the vector as it is now.
PointerValid ==
  \A c \in Channel : talker[c] = "body" => data[c] = size[Buf(c)]

MessageInv == PointerValid /\ CallbackSeesItsMessage

\* Short sequences, taken from and added to.
LEMMA ShortSeqs ==
  ASSUME NEW x, NEW y
  PROVE  /\ <<x>> # <<>> /\ <<x, y>> # <<>> /\ <<x>> # <<x, y>>
         /\ Head(<<x>>) = x /\ Tail(<<x>>) = <<>>
         /\ Head(<<x, y>>) = x /\ Tail(<<x, y>>) = <<y>>
         /\ Append(<<>>, x) = <<x>> /\ Append(<<x>>, y) = <<x, y>>
<1>1. <<x>> # <<>> /\ <<x, y>> # <<>>
  OBVIOUS
<1>2. Head(<<x>>) = x /\ Head(<<x, y>>) = x
  OBVIOUS
<1>3. Tail(<<x>>) = <<>>
  OBVIOUS
<1>4. Tail(<<x, y>>) = <<y>>
  OBVIOUS
<1>5. Append(<<>>, x) = <<x>>
  OBVIOUS
<1>6. Append(<<x>>, y) = <<x, y>>
  <2>1. <<x>> \in Seq({x, y}) /\ Len(<<x>>) = 1 /\ <<x>>[1] = x
    OBVIOUS
  <2>2. /\ Append(<<x>>, y) \in Seq({x, y}) /\ Len(Append(<<x>>, y)) = 2
        /\ Append(<<x>>, y)[1] = x /\ Append(<<x>>, y)[2] = y
    BY <2>1, AppendProperties
  <2>3. <<x, y>> \in Seq({x, y}) /\ Len(<<x, y>>) = 2 /\ <<x, y>>[1] = x /\ <<x, y>>[2] = y
    OBVIOUS
  <2>4. \A i \in 1..2 : Append(<<x>>, y)[i] = <<x, y>>[i]
    BY <2>2, <2>3
  <2> QED  BY <2>2, <2>3, <2>4, SeqEqual
<1>7. <<x>> # <<x, y>>
  OBVIOUS
<1> QED  BY <1>1, <1>2, <1>3, <1>4, <1>5, <1>6, <1>7

\* A channel nobody touches stays framed.
LEMMA FramedKept ==
  ASSUME NEW c \in Channel, Framed(c),
         /\ talker'[c] = talker[c] /\ sock'[c] = sock[c] /\ inbox'[c] = inbox[c]
         /\ half'[c] = half[c] /\ msg_length'[c] = msg_length[c]
  PROVE  Framed(c)'
BY DEF Framed, AtBoundary, InMessage

\* Closing a connection forgets what was left to read.
LEMMA CloseFrames ==
  ASSUME TypeOK, NEW c \in Channel, Close(c), Go(c, "while")
  PROVE  Framed(c)'
<1>1. talker'[c] = "while" /\ sock'[c] = "down" /\ inbox'[c] = <<>> /\ half'[c] = 0
  BY DEF Close, Go, TypeOK
<1> QED  BY <1>1 DEF Framed, AtBoundary

\* The talker of a channel reads whole messages.
LEMMA TalkerFramed ==
  ASSUME BufferInv, NEW c \in Channel, Framed(c), TalkerStep(c)
  PROVE  Framed(c)'
<1>0. TypeOK /\ LengthChecked
  BY DEF BufferInv
<1>00. /\ talker \in [Channel -> {"while", "poll", "length", "resize", "recv", "body",
                                   "callback", "done"}]
       /\ msg_length \in [Channel -> Nat]
       /\ sock \in [Channel -> {"down", "up", "peer_closed"}]
       /\ inbox \in [Channel -> Seq({"len", "body"} \X Nat)]
       /\ half \in [Channel -> Nat]
  BY <1>0 DEF TypeOK
<1>1. CASE TalkerWhile(c)
  <2>1. UNCHANGED <<inbox, half, msg_length>>
    BY <1>1 DEF TalkerWhile, Connect, netVars, bufVars
  <2>2. /\ talker[c] = "while" /\ talker'[c] \in {"while", "poll", "done"}
        /\ \/ sock'[c] = sock[c]
           \/ sock[c] = "down" /\ sock'[c] = "up" /\ c \in Reachable
        /\ sock'[c] = "down" => talker'[c] \in {"while", "done"}
    BY <1>00, <1>1 DEF TalkerWhile, Go, Connect, Connected, netVars
  <2> QED  BY <2>1, <2>2 DEF Framed, AtBoundary
<1>2. CASE TalkerPoll(c) \/ TalkerCallback(c)
  <2>1. UNCHANGED <<sock, inbox, half, msg_length>>
    BY <1>2 DEF TalkerPoll, TalkerCallback, netVars, bufVars
  <2>2. talker[c] \in {"poll", "callback"} /\ talker'[c] \in {"while", "poll", "length"}
    BY <1>00, <1>2 DEF TalkerPoll, TalkerCallback, Go, Again
  <2> QED  BY <2>1, <2>2 DEF Framed, AtBoundary
<1>3. CASE TalkerLength(c)
  <2>1. CASE Close(c) /\ Go(c, "while")
    BY <1>0, <2>1, CloseFrames
  <2>2. CASE inbox[c] # <<>> /\ Recv(c) /\ Go(c, "resize")
    <3>1. /\ talker[c] = "length" /\ talker'[c] = "resize" /\ UNCHANGED <<sock, half>>
          /\ inbox'[c] = Tail(inbox[c]) /\ msg_length'[c] = Head(inbox[c])[2]
      BY <1>00, <1>3, <2>2 DEF TalkerLength, Go, Recv, RecvShort
    <3>2. sock[c] # "down" /\ AtBoundary(c)
      BY <3>1 DEF Framed
    <3>3. PICK n \in Lengths :
            \/ /\ inbox[c] = <<<<"len", n>>>>
               /\ half[c] = n \/ (half[c] = 0 /\ sock[c] = "peer_closed")
            \/ inbox[c] = <<<<"len", n>>, <<"body", n>>>> /\ half[c] = 0
      BY <2>2, <3>2 DEF AtBoundary
    <3>4. Head(inbox[c]) = <<"len", n>>
      BY <3>3, ShortSeqs
    <3>5. msg_length'[c] = n
      BY <3>1, <3>4
    <3>6. inbox[c] = <<<<"len", n>>>> => inbox'[c] = <<>>
      BY <3>1, ShortSeqs
    <3>7. inbox[c] = <<<<"len", n>>, <<"body", n>>>> => inbox'[c] = <<<<"body", n>>>>
      BY <3>1, ShortSeqs
    <3>8. InMessage(c)'
      BY <3>1, <3>3, <3>5, <3>6, <3>7 DEF InMessage
    <3> QED  BY <3>1, <3>2, <3>8 DEF Framed
  <2> QED  BY <1>3, <2>1, <2>2 DEF TalkerLength
<1>4. CASE TalkerResize(c) \/ TalkerRecv(c)
  <2>1. UNCHANGED <<sock, inbox, half, msg_length>>
    BY <1>4 DEF TalkerResize, TalkerRecv, netVars
  <2>2. talker[c] \in {"resize", "recv"} /\ talker'[c] \in {"recv", "body"}
    BY <1>00, <1>4 DEF TalkerResize, TalkerRecv, Go
  <2> QED  BY <2>1, <2>2 DEF Framed, InMessage
<1>5. CASE TalkerBody(c)
  <2>1. CASE Close(c) /\ Go(c, "while")
    BY <1>0, <2>1, CloseFrames
  <2>2. CASE Recv(c) /\ Go(c, "callback")
    <3>1. /\ talker[c] = "body" /\ talker'[c] = "callback" /\ UNCHANGED <<sock, half>>
          /\ inbox[c] # <<>> /\ inbox'[c] = Tail(inbox[c])
      BY <1>00, <1>5, <2>2 DEF TalkerBody, Go, Recv
    <3>2. inbox'[c] = <<>> /\ half'[c] = 0 /\ sock[c] # "down"
      BY <3>1, ShortSeqs DEF Framed, InMessage
    <3> QED  BY <3>1, <3>2 DEF Framed, AtBoundary
  <2> QED  BY <1>5, <2>1, <2>2 DEF TalkerBody
<1> QED  BY <1>1, <1>2, <1>3, <1>4, <1>5 DEF TalkerStep

\* A service sends whole messages, until it closes the connection.
LEMMA ServerFramed ==
  ASSUME BufferInv, NEW c \in Channel, Framed(c),
         ServerLength(c) \/ ServerBody(c) \/ ServerClose(c)
  PROVE  Framed(c)'
<1>0. TypeOK /\ LengthChecked
  BY DEF BufferInv
<1>00. /\ sock \in [Channel -> {"down", "up", "peer_closed"}]
       /\ inbox \in [Channel -> Seq({"len", "body"} \X Nat)]
       /\ half \in [Channel -> Nat]
  BY <1>0 DEF TypeOK
<1>1. UNCHANGED <<talker, msg_length>> /\ sock[c] = "up"
  BY DEF ServerLength, ServerBody, ServerClose, bufVars
<1>2. talker[c] \in {"resize", "recv", "body"} => msg_length[c] \in 1..MaxSize
  BY <1>0 DEF LengthChecked
<1>3. CASE ServerLength(c)
  <2>1. PICK n \in Lengths : inbox'[c] = Append(inbox[c], <<"len", n>>) /\ half'[c] = n
    BY <1>00, <1>3 DEF ServerLength
  <2>2. half[c] = 0 /\ inbox[c] = <<>> /\ UNCHANGED sock
    BY <1>3 DEF ServerLength
  <2>3. talker[c] \notin {"resize", "recv", "body"}
    BY <1>1, <1>2, <2>2, ShortSeqs DEF Framed, InMessage
  <2>4. inbox'[c] = <<<<"len", n>>>>
    BY <2>1, <2>2, ShortSeqs
  <2> QED  BY <1>1, <2>1, <2>2, <2>3, <2>4 DEF Framed, AtBoundary
<1>4. CASE ServerBody(c)
  <2>1. /\ half[c] # 0 /\ half'[c] = 0 /\ UNCHANGED sock
        /\ inbox'[c] = Append(inbox[c], <<"body", half[c]>>)
    BY <1>00, <1>4 DEF ServerBody
  <2>2. CASE talker[c] \in {"resize", "recv", "body"}
    <3>1. inbox[c] = <<>> /\ half[c] = msg_length[c]
      BY <1>1, <2>1, <2>2 DEF Framed, InMessage
    <3>2. inbox'[c] = <<<<"body", msg_length[c]>>>>
      BY <2>1, <3>1, ShortSeqs
    <3> QED  BY <1>1, <2>1, <2>2, <3>2 DEF Framed, InMessage
  <2>3. CASE talker[c] \notin {"resize", "recv", "body"}
    <3>1. half[c] \in Lengths /\ inbox[c] = <<<<"len", half[c]>>>>
      BY <1>1, <2>1, <2>3 DEF Framed, AtBoundary
    <3>2. inbox'[c] = <<<<"len", half[c]>>, <<"body", half[c]>>>>
      BY <2>1, <3>1, ShortSeqs
    <3> QED  BY <1>1, <2>1, <2>3, <3>1, <3>2 DEF Framed, AtBoundary
  <2> QED  BY <2>2, <2>3
<1>5. CASE ServerClose(c)
  <2>1. sock'[c] = "peer_closed" /\ half'[c] = 0 /\ UNCHANGED inbox
    BY <1>00, <1>5 DEF ServerClose
  <2> QED  BY <1>1, <2>1 DEF Framed, AtBoundary, InMessage
<1> QED  BY <1>3, <1>4, <1>5

\* Streams stay framed on every channel.
LEMMA StreamKept ==
  ASSUME BufferInv, StreamInv, [Next]_vars
  PROVE  StreamInv'
<1>0. TypeOK
  BY DEF BufferInv
<1>00. /\ talker \in [Channel -> {"while", "poll", "length", "resize", "recv", "body",
                                   "callback", "done"}]
       /\ msg_length \in [Channel -> Nat]
       /\ sock \in [Channel -> {"down", "up", "peer_closed"}]
       /\ inbox \in [Channel -> Seq({"len", "body"} \X Nat)]
       /\ half \in [Channel -> Nat]
  BY <1>0 DEF TypeOK
<1>1. ASSUME NEW d \in Channel, TalkerStep(d)
      PROVE  StreamInv'
  <2>1. Framed(d)'
    BY <1>1, TalkerFramed DEF StreamInv
  <2>2. ASSUME NEW c \in Channel, c # d
        PROVE  /\ talker'[c] = talker[c] /\ sock'[c] = sock[c] /\ inbox'[c] = inbox[c]
               /\ half'[c] = half[c] /\ msg_length'[c] = msg_length[c]
    BY <1>00, <1>1, <2>2
    DEF TalkerStep, TalkerWhile, TalkerPoll, TalkerLength, TalkerResize, TalkerRecv, TalkerBody,
        TalkerCallback, Go, Again, Connect, Close, Recv, netVars, bufVars
  <2>3. ASSUME NEW c \in Channel
        PROVE  Framed(c)'
    BY <2>1, <2>2, FramedKept DEF StreamInv
  <2> QED  BY <2>3 DEF StreamInv
<1>2. ASSUME NEW d \in Channel, ServerLength(d) \/ ServerBody(d) \/ ServerClose(d)
      PROVE  StreamInv'
  <2>1. Framed(d)'
    BY <1>2, ServerFramed DEF StreamInv
  <2>2. ASSUME NEW c \in Channel, c # d
        PROVE  /\ talker'[c] = talker[c] /\ sock'[c] = sock[c] /\ inbox'[c] = inbox[c]
               /\ half'[c] = half[c] /\ msg_length'[c] = msg_length[c]
    BY <1>00, <1>2, <2>2 DEF ServerLength, ServerBody, ServerClose, bufVars
  <2>3. ASSUME NEW c \in Channel
        PROVE  Framed(c)'
    BY <2>1, <2>2, FramedKept DEF StreamInv
  <2> QED  BY <2>3 DEF StreamInv
<1>3. ASSUME UNCHANGED <<talker, sock, inbox, half, msg_length>>
      PROVE  StreamInv'
  BY <1>3, FramedKept DEF StreamInv
<1>4. ASSUME NEW c \in Channel, SendLength(c)
      PROVE  StreamInv'
  BY <1>3, <1>4 DEF SendLength, bufVars
<1>5. SendPayload \/ Destroy \/ Join \/ UNCHANGED vars => StreamInv'
  BY <1>3 DEF SendPayload, Destroy, Join, vars, bufVars, netVars
<1> QED  BY <1>1, <1>2, <1>4, <1>5, Steps

\* A talker that is past its poll belongs to a service that listens.
LEMMA BusyListens ==
  ASSUME StreamInv, NEW c \in Channel, talker[c] \notin {"while", "done"}
  PROVE  c \in Reachable
BY DEF StreamInv, Framed

\* With a vector for itself, a talker hands out what it received.
LEMMA TalkerMessage ==
  ASSUME BufferInv, StreamInv, NoSharing, MessageInv, NEW d \in Channel, TalkerStep(d)
  PROVE  MessageInv'
<1>0. TypeOK
  BY DEF BufferInv
<1>00. /\ talker \in [Channel -> {"while", "poll", "length", "resize", "recv", "body",
                                   "callback", "done"}]
       /\ msg_length \in [Channel -> Nat]
       /\ data \in [Channel -> 0..MaxSize]
       /\ size \in [Buffer -> InitialSize..MaxSize]
       /\ content \in [Buffer -> (Channel \cup {"none"}) \X Nat]
  BY <1>0 DEF TypeOK
<1>1. \A c \in Channel : c # d =>
        talker'[c] = talker[c] /\ data'[c] = data[c] /\ msg_length'[c] = msg_length[c]
  BY <1>00
  DEF TalkerStep, TalkerWhile, TalkerPoll, TalkerLength, TalkerResize, TalkerRecv, TalkerBody,
      TalkerCallback, Go, Again, bufVars
<1>2. \A c \in Channel : c # d /\ talker[c] \in {"body", "callback"} =>
        size'[Buf(c)] = size[Buf(c)] /\ content'[Buf(c)] = content[Buf(c)]
  <2> SUFFICES ASSUME NEW c \in Channel, c # d, talker[c] \in {"body", "callback"}
               PROVE  size'[Buf(c)] = size[Buf(c)] /\ content'[Buf(c)] = content[Buf(c)]
    OBVIOUS
  <2>1. CASE talker[d] \in {"while", "done"}
    BY <2>1
    DEF TalkerStep, TalkerWhile, TalkerPoll, TalkerLength, TalkerResize, TalkerRecv, TalkerBody,
        TalkerCallback, bufVars
  <2>2. CASE talker[d] \notin {"while", "done"}
    <3>1. Buf(c) # Buf(d)
      BY <2>2, BusyListens DEF NoSharing
    <3>2. Buf(c) \in Buffer /\ Buf(d) \in Buffer
      BY BufTyped
    <3>3. size' = size \/ \E n : size' = [size EXCEPT ![Buf(d)] = n]
      BY DEF TalkerStep, TalkerWhile, TalkerPoll, TalkerLength, TalkerResize, TalkerRecv,
             TalkerBody, TalkerCallback, bufVars
    <3>4. content' = content \/ \E m : content' = [content EXCEPT ![Buf(d)] = m]
      BY DEF TalkerStep, TalkerWhile, TalkerPoll, TalkerLength, TalkerResize, TalkerRecv,
             TalkerBody, TalkerCallback, bufVars
    <3> QED  BY <1>00, <3>1, <3>2, <3>3, <3>4
  <2> QED  BY <2>1, <2>2
<1>3. /\ talker'[d] = "body" => data'[d] = size'[Buf(d)]
      /\ talker'[d] = "callback" =>
           data'[d] = size'[Buf(d)] /\ content'[Buf(d)] = <<d, msg_length'[d]>>
  <2>1. CASE TalkerWhile(d) \/ TalkerPoll(d) \/ TalkerLength(d) \/ TalkerResize(d) \/ TalkerCallback(d)
    BY <1>00, <2>1
    DEF TalkerWhile, TalkerPoll, TalkerLength, TalkerResize, TalkerCallback, Go, Again
  <2>2. CASE TalkerRecv(d)
    BY <1>00, <2>2 DEF TalkerRecv, Go
  <2>3. CASE TalkerBody(d)
    <3>1. CASE Go(d, "while")
      BY <1>00, <3>1 DEF Go
    <3>2. CASE Recv(d) /\ Go(d, "callback")
      <4>1. /\ talker[d] = "body" /\ talker'[d] = "callback" /\ inbox[d] # <<>>
            /\ UNCHANGED <<size, msg_length>>
        BY <1>00, <2>3, <3>2 DEF TalkerBody, Go, Recv
      <4>2. data[d] = size[Buf(d)]
        BY <4>1 DEF MessageInv, PointerValid
      <4>3. inbox[d] = <<<<"body", msg_length[d]>>>>
        BY <4>1 DEF StreamInv, Framed, InMessage
      <4>4. Head(inbox[d]) = <<"body", msg_length[d]>>
        BY <4>3, ShortSeqs
      <4>5. /\ content' = [content EXCEPT ![Buf(d)] = <<d, Head(inbox[d])[2]>>]
            /\ data' = [data EXCEPT ![d] = size[Buf(d)]]
        BY <1>00, <2>3, <4>1, <4>2 DEF TalkerBody, Go, RecvShort
      <4>6. content'[Buf(d)] = <<d, msg_length[d]>>
        BY <1>00, <4>4, <4>5, BufTyped
      <4> QED  BY <1>00, <4>1, <4>5, <4>6
    <3> QED  BY <2>3, <3>1, <3>2 DEF TalkerBody
  <2> QED  BY <2>1, <2>2, <2>3 DEF TalkerStep
<1>4. PointerValid'
  BY <1>1, <1>2, <1>3 DEF MessageInv, PointerValid
<1>5. CallbackSeesItsMessage'
  BY <1>1, <1>2, <1>3 DEF MessageInv, CallbackSeesItsMessage
<1> QED  BY <1>4, <1>5 DEF MessageInv

\* Where no two services that listen share a vector, a callback reads the
\* message it was told of, whatever the other talkers receive meanwhile.  (The
\* Aic Command and the File Transfer talker do share one: there
\* CommandChannel_shared.cfg has the counterexample.)
THEOREM CallbacksSeeTheirMessage == Spec /\ NoSharing => []CallbackSeesItsMessage
<1>1. Init => StreamInv /\ MessageInv
  BY DEF Init, StreamInv, Framed, AtBoundary, MessageInv, PointerValid, CallbackSeesItsMessage
<1>2. BufferInv /\ StreamInv /\ NoSharing /\ MessageInv /\ [Next]_vars => MessageInv'
  <2> SUFFICES ASSUME BufferInv, StreamInv, NoSharing, MessageInv, [Next]_vars
               PROVE  MessageInv'
    OBVIOUS
  <2>1. ASSUME UNCHANGED <<talker, data, size, content, msg_length>>
        PROVE  MessageInv'
    BY <2>1 DEF MessageInv, PointerValid, CallbackSeesItsMessage
  <2>2. ASSUME NEW c \in Channel,
               SendLength(c) \/ ServerLength(c) \/ ServerBody(c) \/ ServerClose(c)
        PROVE  MessageInv'
    BY <2>1, <2>2 DEF SendLength, ServerLength, ServerBody, ServerClose, bufVars
  <2>3. SendPayload \/ Destroy \/ Join \/ UNCHANGED vars => MessageInv'
    BY <2>1 DEF SendPayload, Destroy, Join, vars, bufVars
  <2> QED  BY <2>2, <2>3, Steps, TalkerMessage
<1>3. NoSharing => NoSharing'
  BY DEF NoSharing, Buf
<1>4. BufferInv /\ StreamInv /\ [Next]_vars => StreamInv'
  BY StreamKept
<1>5. MessageInv => CallbackSeesItsMessage
  BY DEF MessageInv
<1> QED  BY <1>1, <1>2, <1>3, <1>4, <1>5, BuffersKept, PTL DEF Spec
=============================================================================
