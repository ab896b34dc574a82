---------------------------- MODULE VideoSinkProofs ----------------------------
(***************************************************************************)
(* What the camera client keeps however its three threads and the server   *)
(* interleave, for a socket of any size, proved with TLAPS.                *)
(***************************************************************************)
EXTENDS VideoSink, SequenceTheorems, TLAPS

-----------------------------------------------------------------------------
(* The invariants.                                                          *)

Token == Header \cup {"body"}

\* The headers a body comes behind.
WithBody == Answer \cup {"CAMERA_CONFIG"}

\* Bodies come behind the headers that announce them, and nowhere else.
Chained(s) == \A i \in 1..(Len(s) - 1) : s[i] \in WithBody <=> s[i + 1] = "body"

\* The talker reads a body exactly where there is one; the server sends what it
\* has announced before anything else, unless the connection is cut.
StreamInv ==
  /\ Chained(inbox)
  /\ inbox # <<>> => (inbox[1] = "body" <=> talker = "body")
  /\ sock = "up" => IF inbox = <<>> THEN half <=> talker = "body"
                    ELSE half <=> inbox[Len(inbox)] \in WithBody
  /\ half => sock = "up"

\* No answer is owed, under way, or in the talker's hands.
NoneInbox(s) == \A i \in 1..Len(s) : s[i] \notin Answer
InHand == talker = "body" /\ header \in Answer
NoAnswer == pending = <<>> /\ NoneInbox(inbox) /\ ~InHand

\* One answer is, the one that was asked for.
OneInbox(s, a) ==
  \E i \in 1..Len(s) : s[i] = a /\ \A j \in 1..Len(s) : j # i => s[j] \notin Answer
OneAnswer ==
  \/ pending = <<call>> /\ NoneInbox(inbox) /\ ~InHand
  \/ pending = <<>> /\ OneInbox(inbox, call) /\ ~InHand
  \/ pending = <<>> /\ NoneInbox(inbox) /\ InHand /\ header = call

\* A request is answered once, and only while its call is in progress.
AnswersInv ==
  /\ NoAnswer \/ (caller \in {"lock", "wait"} /\ OneAnswer)
  /\ caller = "woken" => answer = call
  /\ caller = "send_info" => call = "ACK"

\* The answer is stored before its caller is woken.
StoredInv ==
  /\ caller = "woken" /\ call = "CAPABILITY" => capability = "received" \/ renewed
  /\ result = "default" => renewed

SinkInv == TypeOK /\ StreamInv /\ AnswersInv /\ StoredInv

-----------------------------------------------------------------------------
(* Tokens read from the front, and added at the back.                       *)

\* A stream from which its first token was read.
LEMMA TailTokens ==
  ASSUME NEW s \in Seq(Token), s # <<>>
  PROVE  /\ Head(s) = s[1] /\ Head(s) \in Token /\ Tail(s) \in Seq(Token)
         /\ Len(s) \in Nat \ {0} /\ Len(Tail(s)) = Len(s) - 1
         /\ \A i \in 1..Len(Tail(s)) : Tail(s)[i] = s[i + 1]
         /\ Tail(s) = <<>> => Len(s) = 1
         /\ Tail(s) # <<>> => Len(s) > 1 /\ Tail(s)[1] = s[2]
                               /\ Tail(s)[Len(Tail(s))] = s[Len(s)]
<1> DEFINE t == Tail(s)
<1>1. /\ Head(s) = s[1] /\ Head(s) \in Token /\ t \in Seq(Token)
      /\ Len(s) \in Nat \ {0} /\ Len(t) = Len(s) - 1
      /\ \A i \in 1..Len(t) : t[i] = s[i + 1]
  BY HeadTailProperties, EmptySeq
<1> HIDE DEF t
<1>2. t = <<>> => Len(s) = 1
  BY <1>1, EmptySeq
<1>3. ASSUME t # <<>>
      PROVE  Len(s) > 1 /\ t[1] = s[2] /\ t[Len(t)] = s[Len(s)]
  <2>1. Len(t) \in Nat \ {0}
    BY <1>1, <1>3, EmptySeq
  <2>2. 1 \in 1..Len(t) /\ Len(t) \in 1..Len(t) /\ Len(t) + 1 = Len(s) /\ Len(s) > 1
    BY <1>1, <2>1
  <2>3. t[1] = s[1 + 1] /\ t[Len(t)] = s[Len(t) + 1]
    BY <1>1, <2>2
  <2> QED  BY <2>2, <2>3
<1> QED  BY <1>1, <1>2, <1>3 DEF t

\* It stays chained, and a body is next exactly behind a header with one.
LEMMA TailChained ==
  ASSUME NEW s \in Seq(Token), s # <<>>, Chained(s)
  PROVE  /\ Chained(Tail(s))
         /\ Tail(s) # <<>> => (s[1] \in WithBody <=> Tail(s)[1] = "body")
<1> DEFINE t == Tail(s)
<1>1. /\ t \in Seq(Token) /\ Len(s) \in Nat \ {0} /\ Len(t) = Len(s) - 1
      /\ \A i \in 1..Len(t) : t[i] = s[i + 1]
      /\ t # <<>> => Len(s) > 1 /\ t[1] = s[2]
  BY TailTokens
<1> HIDE DEF t
<1>2. Chained(t)
  <2> SUFFICES ASSUME NEW i \in 1..(Len(t) - 1)
               PROVE  t[i] \in WithBody <=> t[i + 1] = "body"
    BY DEF Chained
  <2>1. i \in 1..Len(t) /\ i + 1 \in 1..Len(t) /\ i + 1 \in 1..(Len(s) - 1)
    BY <1>1
  <2>2. s[i + 1] \in WithBody <=> s[(i + 1) + 1] = "body"
    BY <2>1 DEF Chained
  <2> QED  BY <1>1, <2>1, <2>2
<1>3. t # <<>> => (s[1] \in WithBody <=> t[1] = "body")
  <2>1. t # <<>> => 1 \in 1..(Len(s) - 1)
    BY <1>1
  <2>2. t # <<>> => (s[1] \in WithBody <=> s[1 + 1] = "body")
    BY <2>1 DEF Chained
  <2> QED  BY <1>1, <2>2
<1> QED  BY <1>2, <1>3 DEF t

\* The answers in it.
LEMMA TailAnswers ==
  ASSUME NEW s \in Seq(Token), s # <<>>
  PROVE  /\ NoneInbox(s) => NoneInbox(Tail(s)) /\ s[1] \notin Answer
         /\ \A a \in Answer : OneInbox(s, a) =>
              \/ s[1] = a /\ NoneInbox(Tail(s))
              \/ s[1] \notin Answer /\ OneInbox(Tail(s), a)
<1> DEFINE t == Tail(s)
<1>1. /\ t \in Seq(Token) /\ Len(s) \in Nat \ {0} /\ Len(t) = Len(s) - 1
      /\ \A i \in 1..Len(t) : t[i] = s[i + 1]
  BY TailTokens
<1> HIDE DEF t
<1>2. \A i \in 1..Len(t) : i + 1 \in 1..Len(s)
  BY <1>1
<1>3. NoneInbox(s) => NoneInbox(t) /\ s[1] \notin Answer
  <2>1. 1 \in 1..Len(s)
    BY <1>1
  <2> QED  BY <1>1, <1>2, <2>1 DEF NoneInbox
<1>4. ASSUME NEW a \in Answer, OneInbox(s, a)
      PROVE  \/ s[1] = a /\ NoneInbox(t)
             \/ s[1] \notin Answer /\ OneInbox(t, a)
  <2>1. PICK i \in 1..Len(s) : s[i] = a /\ \A j \in 1..Len(s) : j # i => s[j] \notin Answer
    BY <1>4 DEF OneInbox
  <2>2. CASE i = 1
    <3>1. \A j \in 1..Len(t) : j + 1 # i
      BY <1>1, <2>2
    <3> QED  BY <1>1, <1>2, <2>1, <2>2, <3>1 DEF NoneInbox
  <2>3. CASE i # 1
    <3>1. i - 1 \in 1..Len(t) /\ (i - 1) + 1 = i /\ 1 \in 1..Len(s)
      BY <1>1, <2>3
    <3>2. t[i - 1] = a
      BY <1>1, <2>1, <3>1
    <3>3. ASSUME NEW j \in 1..Len(t), j # i - 1 PROVE t[j] \notin Answer
      <4>1. j + 1 # i
        BY <1>1, <3>3
      <4> QED  BY <1>1, <1>2, <2>1, <4>1
    <3>4. OneInbox(t, a)
      BY <3>1, <3>2, <3>3 DEF OneInbox
    <3> QED  BY <2>1, <2>3, <3>1, <3>4
  <2> QED  BY <2>2, <2>3
<1> QED  BY <1>3, <1>4 DEF t

\* A stream to which a token was sent.
LEMMA AppendTokens ==
  ASSUME NEW s \in Seq(Token), NEW x \in Token
  PROVE  /\ Append(s, x) \in Seq(Token) /\ Append(s, x) # <<>>
         /\ Len(s) \in Nat /\ Len(Append(s, x)) = Len(s) + 1
         /\ \A i \in 1..Len(s) : Append(s, x)[i] = s[i]
         /\ Append(s, x)[Len(s) + 1] = x
         /\ Append(s, x)[Len(Append(s, x))] = x
         /\ s = <<>> => Append(s, x)[1] = x
         /\ s # <<>> => Append(s, x)[1] = s[1] /\ Len(s) \in 1..Len(s)
<1> DEFINE t == Append(s, x)
<1>1. /\ t \in Seq(Token) /\ Len(s) \in Nat /\ Len(t) = Len(s) + 1
      /\ \A i \in 1..Len(s) : t[i] = s[i]
      /\ t[Len(s) + 1] = x
  BY AppendProperties, LenProperties
<1> HIDE DEF t
<1>2. t # <<>>
  BY <1>1, EmptySeq
<1>3. s = <<>> => t[1] = x
  <2>1. s = <<>> => Len(s) + 1 = 1
    BY EmptySeq
  <2> QED  BY <1>1, <2>1
<1>4. s # <<>> => t[1] = s[1] /\ Len(s) \in 1..Len(s)
  <2>1. s # <<>> => Len(s) \in Nat \ {0}
    BY EmptySeq
  <2> QED  BY <1>1, <2>1
<1> QED  BY <1>1, <1>2, <1>3, <1>4 DEF t

\* It stays chained if bodies are sent where they are announced.
LEMMA AppendChained ==
  ASSUME NEW s \in Seq(Token), NEW x \in Token, Chained(s),
         s # <<>> => (s[Len(s)] \in WithBody <=> x = "body")
  PROVE  Chained(Append(s, x))
<1> DEFINE t == Append(s, x)
<1>1. /\ Len(s) \in Nat /\ Len(t) = Len(s) + 1
      /\ \A i \in 1..Len(s) : t[i] = s[i]
      /\ t[Len(s) + 1] = x
  BY AppendTokens
<1> HIDE DEF t
<1>2. Chained(t)
  <2> SUFFICES ASSUME NEW i \in 1..(Len(t) - 1)
               PROVE  t[i] \in WithBody <=> t[i + 1] = "body"
    BY DEF Chained
  <2>1. i \in 1..Len(s)
    BY <1>1
  <2>2. CASE i = Len(s)
    <3>1. s # <<>>
      BY <2>1, EmptySeq
    <3> QED  BY <1>1, <2>1, <2>2, <3>1
  <2>3. CASE i # Len(s)
    <3>1. i + 1 \in 1..Len(s) /\ i \in 1..(Len(s) - 1)
      BY <1>1, <2>1, <2>3
    <3> QED  BY <1>1, <2>1, <3>1 DEF Chained
  <2> QED  BY <2>2, <2>3
<1> QED  BY <1>2 DEF t

\* The answers in it.
LEMMA AppendAnswers ==
  ASSUME NEW s \in Seq(Token), NEW x \in Token
  PROVE  /\ NoneInbox(s) /\ x \notin Answer => NoneInbox(Append(s, x))
         /\ NoneInbox(s) => OneInbox(Append(s, x), x)
         /\ \A a \in Answer : OneInbox(s, a) /\ x \notin Answer => OneInbox(Append(s, x), a)
<1> DEFINE t == Append(s, x)
<1>1. /\ Len(s) \in Nat /\ Len(t) = Len(s) + 1
      /\ \A i \in 1..Len(s) : t[i] = s[i]
      /\ t[Len(s) + 1] = x
  BY AppendTokens
<1> HIDE DEF t
<1>2. \A i \in 1..Len(t) : i \in 1..Len(s) \/ i = Len(s) + 1
  BY <1>1
<1>22. Len(s) + 1 \in 1..Len(t) /\ (\A i \in 1..Len(s) : i \in 1..Len(t) /\ i # Len(s) + 1)
  BY <1>1
<1>3. NoneInbox(s) /\ x \notin Answer => NoneInbox(t)
  BY <1>1, <1>2 DEF NoneInbox
<1>4. NoneInbox(s) => OneInbox(t, x)
  BY <1>1, <1>2, <1>22 DEF NoneInbox, OneInbox
<1>5. ASSUME NEW a \in Answer, OneInbox(s, a), x \notin Answer
      PROVE  OneInbox(t, a)
  <2>1. PICK i \in 1..Len(s) : s[i] = a /\ \A j \in 1..Len(s) : j # i => s[j] \notin Answer
    BY <1>5 DEF OneInbox
  <2>2. t[i] = a /\ i \in 1..Len(t)
    BY <1>1, <1>22, <2>1
  <2>3. \A j \in 1..Len(t) : j # i => t[j] \notin Answer
    BY <1>1, <1>2, <1>5, <2>1
  <2> QED  BY <2>2, <2>3 DEF OneInbox
<1> QED  BY <1>3, <1>4, <1>5 DEF t

\* The stream of a new connection.
LEMMA EmptyTokens ==
  /\ <<>> \in Seq(Token) /\ Chained(<<>>) /\ NoneInbox(<<>>) /\ <<>> \in Seq(Answer)
<1>1. Len(<<>>) = 0 /\ <<>> \in Seq(Token) /\ <<>> \in Seq(Answer)
  BY EmptySeq
<1> QED  BY <1>1 DEF Chained, NoneInbox

-----------------------------------------------------------------------------
(* Every step keeps the invariant.                                          *)

\* All but the sequences and the header keep their types in any step.
LEMMA SimpleTypes ==
  ASSUME TypeOK, [Next]_vars, inbox' \in Seq(Token), pending' \in Seq(Answer), header' \in Header
  PROVE  TypeOK'
<1> DEFINE Rest ==
      /\ should_continue \in BOOLEAN /\ half \in BOOLEAN /\ renewed \in BOOLEAN
      /\ talker \in {"while", "user_header", "user_id", "watch", "poll", "header", "body", "done"}
      /\ sock \in {"closed", "unconnected", "up", "peer_closed"}
      /\ expect \in {"header", "user_id", "info", "frame", "broken"}
      /\ caller \in {"idle", "send", "send_info", "lock", "wait", "woken"}
      /\ call \in Answer
      /\ answer \in Answer \cup {"none"}
      /\ result \in {"none", "capability", "default", "true", "failure"}
      /\ capability \in {"default", "received"}
      /\ data \in {"idle", "payload"}
<1>0. Rest
  BY DEF TypeOK
<1>00. SUFFICES Rest'
  BY DEF TypeOK, Token
<1>1. CASE TalkerWhile
  BY <1>0, <1>1 DEF TalkerWhile, Connect, sockVars, callVars
<1>2. CASE TalkerUserId \/ TalkerWatch
  BY <1>0, <1>2 DEF TalkerUserId, TalkerWatch, SendHeader, SendPayload, sockVars, callVars
<1>3. CASE TalkerPoll
  BY <1>0, <1>3 DEF TalkerPoll, Again, Close, sockVars, callVars
<1>4. CASE TalkerHeader
  BY <1>0, <1>4 DEF TalkerHeader, RecvFails, Again, Close, callVars
<1>5. CASE TalkerBody
  BY <1>0, <1>5 DEF TalkerBody, RecvFails, Again, Close, Notify, callVars
<1>6. CASE Call
  BY <1>0, <1>6 DEF Call, sockVars
<1>7. CASE CallSend \/ CallSendInfo
  BY <1>0, <1>7 DEF CallSend, CallSendInfo, SendHeader, SendPayload, CallFails
<1>8. CASE CallWait \/ CallReturns
  BY <1>0, <1>8 DEF CallWait, CallReturns, sockVars
<1>9. CASE SendDataPacket
  BY <1>0, <1>9 DEF SendDataPacket, SendHeader, SendPayload, callVars
<1>10. CASE Destroy \/ UNCHANGED vars
  BY <1>0, <1>10 DEF Destroy, vars, sockVars, callVars
<1>11. CASE ServerAnswer \/ ServerCommand \/ ServerBody \/ ServerClose
  BY <1>0, <1>11 DEF ServerAnswer, ServerCommand, ServerBody, ServerClose, callVars
<1> HIDE DEF Rest
<1> QED
  BY <1>1, <1>2, <1>3, <1>4, <1>5, <1>6, <1>7, <1>8, <1>9, <1>10, <1>11
  DEF Next, TalkerStep, CallStep, ServerStep, Terminated

\* A connection is made or closed: nothing is under way any more.
LEMMA ResetKeeps ==
  ASSUME SinkInv, [Next]_vars, Connect \/ Close, talker' # "body",
         UNCHANGED <<callVars, capability>>, UNCHANGED header
  PROVE  SinkInv'
<1>0. TypeOK /\ AnswersInv /\ StoredInv
  BY DEF SinkInv
<1>1. inbox' = <<>> /\ half' = FALSE /\ pending' = <<>>
  BY DEF Connect, Close
<1>2. inbox' \in Seq(Token) /\ Chained(inbox') /\ NoneInbox(inbox') /\ pending' \in Seq(Answer)
  BY <1>1, EmptyTokens
<1>3. TypeOK'
  BY <1>0, <1>2, SimpleTypes DEF TypeOK
<1>4. StreamInv'
  <2>1. Chained(inbox)'
    BY <1>2 DEF Chained
  <2> QED  BY <1>1, <2>1 DEF StreamInv
<1>5. NoAnswer'
  BY <1>1, <1>2 DEF NoAnswer, NoneInbox, InHand
<1>6. AnswersInv'
  BY <1>0, <1>5 DEF AnswersInv, callVars
<1>7. StoredInv'
  BY <1>0 DEF StoredInv, callVars
<1> QED  BY <1>3, <1>4, <1>6, <1>7 DEF SinkInv

\* Neither the socket's contents nor the talker's place in them move.
LEMMA StreamSame ==
  ASSUME StreamInv, UNCHANGED <<sock, inbox, half>>, talker' = "body" <=> talker = "body"
  PROVE  StreamInv'
BY DEF StreamInv, Chained

\* A step that leaves stream, server, header and call alone moves no answer.
LEMMA AnswersSame ==
  ASSUME UNCHANGED <<inbox, pending, header, call>>, talker' = "body" <=> talker = "body"
  PROVE  (NoAnswer => NoAnswer') /\ (OneAnswer => OneAnswer')
BY DEF NoAnswer, OneAnswer, NoneInbox, OneInbox, InHand

\* The talker's steps that read nothing.
LEMMA TalkerQuiet ==
  ASSUME SinkInv, TalkerWhile \/ TalkerUserId \/ TalkerWatch \/ TalkerPoll
  PROVE  SinkInv'
<1>0. TypeOK /\ StreamInv /\ AnswersInv /\ StoredInv
  BY DEF SinkInv
<1>1. [Next]_vars
  BY DEF Next, TalkerStep
<1>2. talker # "body" /\ talker' # "body" /\ UNCHANGED <<header, caller, call, answer, result>>
  BY DEF TalkerWhile, TalkerUserId, TalkerWatch, TalkerPoll, Again, callVars
<1>3. CASE Connect /\ TalkerWhile
  BY <1>1, <1>2, <1>3, ResetKeeps DEF TalkerWhile
<1>4. CASE Close /\ TalkerPoll
  BY <1>1, <1>2, <1>4, ResetKeeps DEF TalkerPoll
<1>5. CASE UNCHANGED <<sock, inbox, half, pending>>
  <2>1. TypeOK'
    BY <1>0, <1>1, <1>2, <1>5, SimpleTypes DEF TypeOK, Token
  <2>2. StreamInv'
    BY <1>0, <1>2, <1>5, StreamSame
  <2>3. AnswersInv'
    BY <1>0, <1>2, <1>5, AnswersSame DEF AnswersInv
  <2>4. \/ UNCHANGED <<capability, renewed>>
        \/ renewed' = (renewed \/ caller = "woken")
    BY DEF TalkerWhile, TalkerUserId, TalkerWatch, TalkerPoll, callVars
  <2>5. StoredInv'
    BY <1>0, <1>2, <2>4 DEF StoredInv
  <2> QED  BY <2>1, <2>2, <2>3, <2>5 DEF SinkInv
<1> QED
  BY <1>3, <1>4, <1>5 DEF TalkerWhile, TalkerUserId, TalkerWatch, TalkerPoll, sockVars

\* A token is read.
LEMMA StreamRead ==
  ASSUME StreamInv, inbox \in Seq(Token), inbox # <<>>, inbox' = Tail(inbox),
         UNCHANGED <<sock, half>>, talker' = "body" <=> inbox[1] \in WithBody
  PROVE  StreamInv'
<1>1. /\ Len(inbox) \in Nat \ {0}
      /\ Tail(inbox) = <<>> => Len(inbox) = 1
      /\ Tail(inbox) # <<>> => Len(inbox) > 1 /\ Tail(inbox)[1] = inbox[2]
                                /\ Tail(inbox)[Len(Tail(inbox))] = inbox[Len(inbox)]
  BY TailTokens
<1>2. /\ Chained(Tail(inbox))
      /\ Tail(inbox) # <<>> => (inbox[1] \in WithBody <=> Tail(inbox)[1] = "body")
  BY TailChained DEF StreamInv
<1>3. Chained(inbox)'
  BY <1>2 DEF Chained
<1>4. inbox' # <<>> => (inbox'[1] = "body" <=> talker' = "body")
  BY <1>2
<1>5. sock = "up" => (half <=> inbox[Len(inbox)] \in WithBody)
  BY DEF StreamInv
<1>6. sock' = "up" => IF inbox' = <<>> THEN half' <=> talker' = "body"
                      ELSE half' <=> inbox'[Len(inbox')] \in WithBody
  <2>1. CASE inbox' = <<>>
    <3>1. Len(inbox) = 1
      BY <1>1, <2>1
    <3> QED  BY <1>5, <2>1, <3>1
  <2>2. CASE inbox' # <<>>
    <3>1. inbox'[Len(inbox')] = inbox[Len(inbox)]
      BY <1>1, <2>2
    <3> QED  BY <1>5, <2>2, <3>1
  <2> QED  BY <2>1, <2>2
<1>7. half' => sock' = "up"
  BY DEF StreamInv
<1> QED  BY <1>3, <1>4, <1>6, <1>7 DEF StreamInv

\* The talker reads a header.
LEMMA HeaderKeeps ==
  ASSUME SinkInv, TalkerHeader
  PROVE  SinkInv'
<1>0. TypeOK /\ StreamInv /\ AnswersInv /\ StoredInv
  BY DEF SinkInv
<1>00. inbox \in Seq(Token) /\ call \in Answer
  BY <1>0 DEF TypeOK, Token
<1>1. [Next]_vars
  BY DEF Next, TalkerStep
<1>2. talker = "header" /\ UNCHANGED <<caller, call, answer, result, renewed, capability>>
  BY DEF TalkerHeader, callVars
<1>3. CASE RecvFails /\ UNCHANGED header
  <2>1. talker' # "body" /\ Close
    BY <1>3 DEF RecvFails, Again
  <2> QED  BY <1>1, <1>2, <1>3, <2>1, ResetKeeps DEF callVars
<1>4. CASE /\ inbox # <<>> /\ header' = Head(inbox) /\ inbox' = Tail(inbox)
           /\ IF Head(inbox) = "OTHER" THEN Again ELSE talker' = "body"
           /\ UNCHANGED <<sock, half, expect, pending>>
  <2>1. Head(inbox) = inbox[1] /\ inbox[1] \in Token /\ Tail(inbox) \in Seq(Token)
    BY <1>00, <1>4, TailTokens
  <2>2. inbox[1] # "body"
    BY <1>0, <1>2, <1>4 DEF StreamInv
  <2>3. inbox[1] \in Header /\ (inbox[1] # "OTHER" <=> inbox[1] \in WithBody)
    BY <2>1, <2>2 DEF Token, Header, WithBody, Answer
  <2>4. talker' = "body" <=> inbox[1] \in WithBody
    BY <1>4, <2>1, <2>3 DEF Again
  <2>5. TypeOK'
    <3>1. pending' \in Seq(Answer)
      BY <1>0, <1>4 DEF TypeOK
    <3> QED  BY <1>0, <1>1, <1>4, <2>1, <2>3, <3>1, SimpleTypes
  <2>6. StreamInv'
    BY <1>0, <1>00, <1>4, <2>4, StreamRead
  <2>7. InHand' <=> inbox[1] \in Answer
    BY <1>4, <2>1, <2>4 DEF InHand, WithBody
  <2>8. ~InHand
    BY <1>2 DEF InHand
  <2>9. /\ NoneInbox(inbox) => NoneInbox(Tail(inbox)) /\ inbox[1] \notin Answer
        /\ OneInbox(inbox, call) =>
             \/ inbox[1] = call /\ NoneInbox(Tail(inbox))
             \/ inbox[1] \notin Answer /\ OneInbox(Tail(inbox), call)
    BY <1>00, <1>4, TailAnswers
  <2>10. NoAnswer => NoAnswer'
    BY <1>4, <2>7, <2>9 DEF NoAnswer, NoneInbox
  <2>11. OneAnswer => OneAnswer'
    <3>1. CASE pending = <<call>> /\ NoneInbox(inbox)
      BY <1>2, <1>4, <2>7, <2>9, <3>1 DEF OneAnswer, NoneInbox
    <3>2. CASE pending = <<>> /\ inbox[1] = call /\ NoneInbox(Tail(inbox))
      BY <1>00, <1>2, <1>4, <2>1, <2>7, <3>2 DEF OneAnswer, NoneInbox
    <3>3. CASE pending = <<>> /\ inbox[1] \notin Answer /\ OneInbox(Tail(inbox), call)
      BY <1>2, <1>4, <2>7, <3>3 DEF OneAnswer, OneInbox
    <3> QED  BY <2>8, <2>9, <3>1, <3>2, <3>3 DEF OneAnswer
  <2>12. AnswersInv'
    BY <1>0, <1>2, <2>10, <2>11 DEF AnswersInv
  <2>13. StoredInv'
    BY <1>0, <1>2 DEF StoredInv
  <2> QED  BY <2>5, <2>6, <2>12, <2>13 DEF SinkInv
<1> QED  BY <1>3, <1>4 DEF TalkerHeader

\* The talker reads a body, and wakes the call that its answer is for.
LEMMA BodyKeeps ==
  ASSUME SinkInv, TalkerBody
  PROVE  SinkInv'
<1>0. TypeOK /\ StreamInv /\ AnswersInv /\ StoredInv
  BY DEF SinkInv
<1>00. inbox \in Seq(Token) /\ call \in Answer
  BY <1>0 DEF TypeOK, Token
<1>1. [Next]_vars
  BY DEF Next, TalkerStep
<1>2. talker = "body" /\ talker' # "body" /\ UNCHANGED header
  BY DEF TalkerBody, RecvFails, Again
<1>3. CASE RecvFails /\ UNCHANGED <<callVars, capability>>
  <2>1. Close
    BY <1>3 DEF RecvFails
  <2> QED  BY <1>1, <1>2, <1>3, <2>1, ResetKeeps
<1>4. CASE /\ inbox # <<>> /\ inbox' = Tail(inbox) /\ UNCHANGED <<sock, half, expect, pending>>
           /\ UNCHANGED <<call, result, renewed>>
           /\ \/ /\ header \in Answer
                 /\ answer' = header
                 /\ capability' = IF header = "CAPABILITY" THEN "received" ELSE capability
                 /\ Notify
              \/ /\ header = "CAMERA_CONFIG"
                 /\ UNCHANGED <<caller, answer, capability>>
  <2>1. Tail(inbox) \in Seq(Token)
    BY <1>00, <1>4, TailTokens
  <2>2. inbox[1] = "body" /\ inbox[1] \notin WithBody
    BY <1>0, <1>2, <1>4 DEF StreamInv, WithBody, Answer
  <2>3. TypeOK'
    <3>1. pending' \in Seq(Answer) /\ header' \in Header
      BY <1>0, <1>2, <1>4 DEF TypeOK
    <3> QED  BY <1>0, <1>1, <1>4, <2>1, <3>1, SimpleTypes
  <2>4. StreamInv'
    BY <1>0, <1>00, <1>2, <1>4, <2>2, StreamRead
  <2>5. ~InHand'
    BY <1>2 DEF InHand
  <2>6. /\ NoneInbox(inbox) => NoneInbox(Tail(inbox))
        /\ OneInbox(inbox, call) => OneInbox(Tail(inbox), call)
    BY <1>00, <1>4, <2>2, TailAnswers DEF WithBody
  <2>7. NoAnswer => NoAnswer'
    BY <1>4, <2>5, <2>6 DEF NoAnswer, NoneInbox
  <2>8. CASE header \in Answer
    <3>1. caller \in {"lock", "wait"} /\ pending = <<>> /\ NoneInbox(inbox) /\ header = call
      BY <1>0, <1>2, <2>8 DEF AnswersInv, NoAnswer, OneAnswer, InHand
    <3>2. NoAnswer'
      BY <1>4, <2>5, <2>6, <3>1 DEF NoAnswer, NoneInbox
    <3>3. answer' = call /\ (header = "CAPABILITY" => capability' = "received")
      BY <1>4, <2>8, <3>1 DEF Answer
    <3>33. caller' # "send_info"
      BY <1>4, <3>1 DEF Notify
    <3>4. AnswersInv'
      BY <1>4, <3>2, <3>3, <3>33 DEF AnswersInv
    <3>5. StoredInv'
      BY <1>0, <1>4, <3>1, <3>3 DEF StoredInv
    <3> QED  BY <2>3, <2>4, <3>4, <3>5 DEF SinkInv
  <2>9. CASE header \notin Answer
    <3>1. UNCHANGED <<caller, answer, capability>> /\ ~InHand
      BY <1>4, <2>9 DEF InHand
    <3>2. OneAnswer => OneAnswer'
      BY <1>4, <2>5, <2>6, <3>1 DEF OneAnswer, NoneInbox, OneInbox
    <3>3. AnswersInv'
      BY <1>0, <1>4, <2>7, <3>1, <3>2 DEF AnswersInv
    <3>4. StoredInv'
      BY <1>0, <1>4, <3>1 DEF StoredInv
    <3> QED  BY <2>3, <2>4, <3>3, <3>4 DEF SinkInv
  <2> QED  BY <2>8, <2>9
<1> QED  BY <1>3, <1>4 DEF TalkerBody, callVars

\* A request: the server owes an answer to a call that goes on to wait for it.
LEMMA SendKeeps ==
  ASSUME SinkInv, CallSend \/ CallSendInfo
  PROVE  SinkInv'
<1>0. TypeOK /\ StreamInv /\ AnswersInv /\ StoredInv
  BY DEF SinkInv
<1>00. call \in Answer /\ pending \in Seq(Answer)
  BY <1>0 DEF TypeOK
<1>1. [Next]_vars
  BY DEF Next, CallStep
<1>2. /\ caller \in {"send", "send_info"} /\ caller' \in {"idle", "send_info", "lock"}
      /\ UNCHANGED <<talker, header, sock, inbox, half, call, answer, renewed, capability>>
      /\ result' = "failure" \/ result' = result
  BY DEF CallSend, CallSendInfo, CallFails
<1>3. caller' = "send_info" => call = "ACK"
  BY DEF CallSend, CallSendInfo, CallFails
<1>4. NoAnswer
  BY <1>0, <1>2 DEF AnswersInv
<1>5. \/ pending' = pending
      \/ pending' = Append(pending, call) /\ caller' = "lock"
  <2>1. CASE CallSend
    BY <1>00, <2>1 DEF CallSend, Owe, SendMayFail, CallFails, Answer
  <2>2. CASE CallSendInfo
    <3>1. call = "ACK"
      BY <1>0, <2>2 DEF AnswersInv, CallSendInfo
    <3> QED  BY <2>2, <3>1 DEF CallSendInfo, Owe, SendMayFail
  <2> QED  BY <2>1, <2>2
<1>6. \/ pending' = <<>>
      \/ pending' = <<call>> /\ caller' = "lock"
  BY <1>4, <1>5 DEF NoAnswer
<1>7. NoneInbox(inbox)' /\ ~InHand'
  BY <1>2, <1>4 DEF NoAnswer, NoneInbox, InHand
<1>8. NoAnswer' \/ (caller' = "lock" /\ OneAnswer')
  BY <1>2, <1>6, <1>7 DEF NoAnswer, OneAnswer
<1>9. AnswersInv'
  BY <1>2, <1>3, <1>8 DEF AnswersInv
<1>10. StreamInv'
  BY <1>0, <1>2, StreamSame
<1>11. StoredInv'
  BY <1>0, <1>2 DEF StoredInv
<1>12. TypeOK'
  <2>0. <<call>> \in Seq(Answer) /\ <<>> \in Seq(Answer)
    BY <1>00, EmptyTokens
  <2>1. pending' \in Seq(Answer)
    BY <1>6, <2>0
  <2>2. inbox' \in Seq(Token) /\ header' \in Header
    BY <1>0, <1>2 DEF TypeOK, Token
  <2> QED  BY <1>0, <1>1, <2>1, <2>2, SimpleTypes
<1> QED  BY <1>9, <1>10, <1>11, <1>12 DEF SinkInv

\* The rest of a call, frames, and the destructor.
LEMMA ApplicationKeeps ==
  ASSUME SinkInv, Call \/ CallWait \/ CallReturns \/ SendDataPacket \/ Destroy \/ UNCHANGED vars
  PROVE  SinkInv'
<1>0. TypeOK /\ StreamInv /\ AnswersInv /\ StoredInv
  BY DEF SinkInv
<1>1. [Next]_vars
  BY DEF Next, CallStep
<1>2. UNCHANGED <<talker, header, sock, inbox, half, pending, capability>>
  BY DEF Call, CallWait, CallReturns, SendDataPacket, Destroy, vars, sockVars
<1>3. TypeOK'
  <2>1. inbox' \in Seq(Token) /\ header' \in Header /\ pending' \in Seq(Answer)
    BY <1>0, <1>2 DEF TypeOK, Token
  <2> QED  BY <1>0, <1>1, <2>1, SimpleTypes
<1>4. StreamInv'
  BY <1>0, <1>2, StreamSame
<1>5. NoAnswer => NoAnswer'
  BY <1>2 DEF NoAnswer, NoneInbox, InHand
<1>6. AnswersInv'
  <2>1. CASE Call
    BY <1>0, <1>5, <2>1 DEF AnswersInv, Call
  <2>2. CASE CallReturns
    BY <1>0, <1>5, <2>2 DEF AnswersInv, CallReturns
  <2>3. CASE CallWait \/ SendDataPacket \/ Destroy \/ UNCHANGED vars
    <3>1. /\ UNCHANGED <<call, answer>>
          /\ UNCHANGED caller \/ (caller = "lock" /\ caller' = "wait")
      BY <2>3 DEF CallWait, SendDataPacket, Destroy, vars, callVars
    <3>2. OneAnswer => OneAnswer'
      BY <1>2, <3>1, AnswersSame
    <3> QED  BY <1>0, <1>5, <3>1, <3>2 DEF AnswersInv
  <2> QED  BY <2>1, <2>2, <2>3
<1>7. StoredInv'
  <2>1. CASE Call
    BY <2>1 DEF StoredInv, Call
  <2>2. CASE CallReturns
    <3>1. caller' = "idle" /\ UNCHANGED renewed /\ caller = "woken"
      BY <2>2 DEF CallReturns
    <3>2. result' = "default" => call # "ACK" /\ capability # "received"
      BY <2>2 DEF CallReturns
    <3>3. call = "ACK" \/ call = "CAPABILITY"
      BY <1>0 DEF TypeOK, Answer
    <3> QED  BY <1>0, <3>1, <3>2, <3>3 DEF StoredInv
  <2>3. CASE CallWait \/ SendDataPacket \/ Destroy \/ UNCHANGED vars
    BY <1>0, <2>3 DEF StoredInv, CallWait, SendDataPacket, Destroy, vars, callVars
  <2> QED  BY <2>1, <2>2, <2>3
<1> QED  BY <1>3, <1>4, <1>6, <1>7 DEF SinkInv

\* A token is sent.
LEMMA StreamSent ==
  ASSUME StreamInv, inbox \in Seq(Token), NEW x \in Token, inbox' = Append(inbox, x),
         sock = "up", UNCHANGED <<sock, talker>>, half <=> x = "body",
         half' <=> x \in WithBody, half' \in BOOLEAN
  PROVE  StreamInv'
<1>1. /\ Append(inbox, x) # <<>>
      /\ Append(inbox, x)[Len(Append(inbox, x))] = x
      /\ inbox = <<>> => Append(inbox, x)[1] = x
      /\ inbox # <<>> => Append(inbox, x)[1] = inbox[1]
  BY AppendTokens
<1>2. IF inbox = <<>> THEN half <=> talker = "body" ELSE half <=> inbox[Len(inbox)] \in WithBody
  BY DEF StreamInv
<1>3. Chained(Append(inbox, x))
  <2>1. inbox # <<>> => (inbox[Len(inbox)] \in WithBody <=> x = "body")
    BY <1>2
  <2> QED  BY <2>1, AppendChained DEF StreamInv
<1>4. Chained(inbox)'
  BY <1>3 DEF Chained
<1>5. inbox'[1] = "body" <=> talker' = "body"
  BY <1>1, <1>2 DEF StreamInv
<1>6. inbox' # <<>> /\ (half' <=> inbox'[Len(inbox')] \in WithBody)
  BY <1>1
<1> QED  BY <1>4, <1>5, <1>6 DEF StreamInv

\* The server answers, commands, and closes.
LEMMA ServerKeeps ==
  ASSUME SinkInv, ServerAnswer \/ ServerCommand \/ ServerBody \/ ServerClose
  PROVE  SinkInv'
<1>0. TypeOK /\ StreamInv /\ AnswersInv /\ StoredInv
  BY DEF SinkInv
<1>00. inbox \in Seq(Token) /\ call \in Answer /\ half \in BOOLEAN /\ pending \in Seq(Answer)
  BY <1>0 DEF TypeOK, Token
<1>1. [Next]_vars
  BY DEF Next, ServerStep
<1>2. UNCHANGED <<talker, header, caller, call, answer, result, renewed, capability>>
  BY DEF ServerAnswer, ServerCommand, ServerBody, ServerClose, callVars
<1>3. StoredInv'
  BY <1>0, <1>2 DEF StoredInv
<1>4. ASSUME inbox' \in Seq(Token), pending' \in Seq(Answer) PROVE TypeOK'
  BY <1>0, <1>1, <1>2, <1>4, SimpleTypes DEF TypeOK
<1>5. CASE ServerAnswer
  <2>1. /\ sock = "up" /\ ~half /\ half' = TRUE /\ UNCHANGED sock /\ pending # <<>>
        /\ inbox' = Append(inbox, Head(pending)) /\ pending' = Tail(pending)
    BY <1>5 DEF ServerAnswer
  <2>2. caller \in {"lock", "wait"} /\ pending = <<call>> /\ NoneInbox(inbox) /\ ~InHand
    BY <1>0, <2>1 DEF AnswersInv, NoAnswer, OneAnswer
  <2>3. Head(pending) = call /\ Tail(pending) = <<>>
    BY <2>2
  <2>4. call \in Token /\ call # "body" /\ call \in WithBody
    BY <1>00 DEF Token, Header, WithBody, Answer
  <2>5. inbox' \in Seq(Token) /\ OneInbox(inbox', call)
    BY <1>00, <2>1, <2>2, <2>3, <2>4, AppendTokens, AppendAnswers
  <2>6. StreamInv'
    <3>1. half' <=> call \in WithBody
      BY <2>1, <2>4
    <3> QED  BY <1>0, <1>00, <1>2, <2>1, <2>3, <2>4, <3>1, StreamSent
  <2>7. OneAnswer'
    BY <1>2, <2>1, <2>2, <2>3, <2>5 DEF OneAnswer, OneInbox, InHand
  <2>8. AnswersInv'
    BY <1>0, <1>2, <2>2, <2>7 DEF AnswersInv
  <2> QED  BY <1>3, <1>4, <2>1, <2>3, <2>5, <2>6, <2>8, EmptyTokens DEF SinkInv
<1>6. CASE ServerCommand \/ ServerBody
  <2>1. PICK x \in {"CAMERA_CONFIG", "OTHER", "body"} :
          /\ inbox' = Append(inbox, x) /\ UNCHANGED <<sock, pending>>
          /\ half <=> x = "body"
          /\ half' <=> x = "CAMERA_CONFIG"
          /\ half' \in BOOLEAN
          /\ sock = "up" \/ half
    <3>1. CASE ServerBody
      BY <3>1 DEF ServerBody
    <3>2. CASE ServerCommand /\ inbox' = Append(inbox, "CAMERA_CONFIG") /\ half' = TRUE
      BY <3>2 DEF ServerCommand
    <3>3. CASE ServerCommand /\ inbox' = Append(inbox, "OTHER") /\ UNCHANGED half
      BY <1>00, <3>3 DEF ServerCommand
    <3> QED  BY <1>6, <3>1, <3>2, <3>3 DEF ServerCommand
  <2>2. sock = "up"
    BY <1>0, <2>1 DEF StreamInv
  <2>3. x \in Token /\ x \notin Answer /\ (x = "CAMERA_CONFIG" <=> x \in WithBody)
    BY DEF Token, Header, WithBody, Answer
  <2>4. StreamInv'
    BY <1>0, <1>00, <1>2, <2>1, <2>2, <2>3, StreamSent
  <2>5. /\ inbox' \in Seq(Token)
        /\ NoneInbox(inbox) => NoneInbox(inbox')
        /\ OneInbox(inbox, call) => OneInbox(inbox', call)
    BY <1>00, <2>1, <2>3, AppendTokens, AppendAnswers
  <2>6. InHand' <=> InHand
    BY <1>2 DEF InHand
  <2>7. NoAnswer => NoAnswer'
    BY <2>1, <2>5, <2>6 DEF NoAnswer, NoneInbox
  <2>8. OneAnswer => OneAnswer'
    BY <1>2, <2>1, <2>5, <2>6 DEF OneAnswer, NoneInbox, OneInbox
  <2>9. AnswersInv'
    BY <1>0, <1>2, <2>7, <2>8 DEF AnswersInv
  <2> QED  BY <1>00, <1>3, <1>4, <2>1, <2>4, <2>5, <2>9 DEF SinkInv
<1>7. CASE ServerClose
  <2>1. sock' = "peer_closed" /\ half' = FALSE /\ UNCHANGED <<inbox, pending>>
    BY <1>7 DEF ServerClose
  <2>2. StreamInv'
    BY <1>0, <1>2, <2>1 DEF StreamInv, Chained
  <2>3. AnswersInv'
    BY <1>0, <1>2, <2>1, AnswersSame DEF AnswersInv
  <2> QED  BY <1>00, <1>3, <1>4, <2>1, <2>2, <2>3 DEF SinkInv
<1> QED  BY <1>5, <1>6, <1>7

-----------------------------------------------------------------------------
(* The theorems.                                                            *)

\* The invariant the next three theorems rest on.
THEOREM SinkKept == Spec => []SinkInv
<1>1. Init => SinkInv
  <2> SUFFICES ASSUME Init PROVE SinkInv
    OBVIOUS
  <2>1. TypeOK
    BY EmptyTokens DEF Init, TypeOK, Token, Answer, Header
  <2>2. StreamInv
    BY EmptyTokens DEF Init, StreamInv
  <2>3. AnswersInv
    BY EmptyTokens DEF Init, AnswersInv, NoAnswer, InHand
  <2>4. StoredInv
    BY DEF Init, StoredInv
  <2> QED  BY <2>1, <2>2, <2>3, <2>4 DEF SinkInv
<1>2. SinkInv /\ [Next]_vars => SinkInv'
  BY TalkerQuiet, HeaderKeeps, BodyKeeps, SendKeeps, ApplicationKeeps, ServerKeeps
  DEF Next, TalkerStep, CallStep, ServerStep, Terminated
<1> QED  BY <1>1, <1>2, PTL DEF Spec

\* Every variable keeps its type; in particular the talker never takes a body
\* for a header.
THEOREM TypeCorrect == Spec => []TypeOK
<1>1. SinkInv => TypeOK
  BY DEF SinkInv
<1> QED  BY <1>1, SinkKept, PTL

\* A call that wakes up has had its own answer, and a call that is over leaves
\* none behind that could wake the next one.
THEOREM AnswersMatch == Spec => []WokenByItsAnswer
<1>1. SinkInv => WokenByItsAnswer
  <2> SUFFICES ASSUME SinkInv PROVE WokenByItsAnswer
    OBVIOUS
  <2>1. caller = "woken" => answer = call
    BY DEF SinkInv, AnswersInv
  <2>2. caller = "idle" => pending = <<>> /\ NoneInbox(inbox)
    BY DEF SinkInv, AnswersInv, NoAnswer
  <2>3. DOMAIN inbox = 1..Len(inbox)
    BY LenProperties DEF SinkInv, TypeOK
  <2> QED  BY <2>1, <2>2, <2>3 DEF WokenByItsAnswer, NoneInbox
<1> QED  BY <1>1, SinkKept, PTL

\* GetCameraCapabilty returns an object the VHAL did not fill in only when the
\* talker made a fresh one while the call was in progress.
THEOREM DefaultsExplained == Spec => []DefaultOnlyAfterReconnect
<1>1. SinkInv => DefaultOnlyAfterReconnect
  BY DEF SinkInv, StoredInv, DefaultOnlyAfterReconnect
<1> QED  BY <1>1, SinkKept, PTL
=============================================================================
