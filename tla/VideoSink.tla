------------------------------ MODULE VideoSink ------------------------------
(***************************************************************************)
(* VideoSink (source/video_sink_impl.h): the camera client.  A talker      *)
(* thread keeps the connection to the camera VHAL, and reads its packets;  *)
(* an application thread calls GetCameraCapabilty and SetCameraCapabilty,  *)
(* which send a request and wait on a condition variable for the talker to *)
(* meet the answer; another one streams frames with SendDataPacket.        *)
(*                                                                         *)
(* All three write to one socket with no lock between them, one Send for a *)
(* header and one for its payload.  The server side keeps what it parses   *)
(* next ("expect"), and the requests it has not answered.                  *)
(***************************************************************************)
EXTENDS Naturals, Sequences

CONSTANTS
  HasUserId,     \* the sink was built with a user_id (not -1)
  Threads,       \* the application's threads: "caller", "data" or both
  ServerCloses,  \* the server may close a connection
  PartialReads,  \* recv() may return a part of a packet
  MaxInbox       \* bound: tokens in the socket when a call or command is added

ASSUME SinkAssumption ==
  /\ {HasUserId, ServerCloses, PartialReads} \subseteq BOOLEAN
  /\ Threads \subseteq {"caller", "data"}
  /\ MaxInbox \in Nat

VARIABLES
  should_continue, \* cleared by the destructor
  talker,          \* program counter of vhal_talker_thread_
  header,          \* talker: cmd_header.type
  sock,            \* socket_client_: fd_, connected_ and the peer
  inbox,           \* what the talker can read: header types and bodies
  half,            \* the server has sent a header whose body is to come
  expect,          \* what the server parses next; "broken": it has lost step
  pending,         \* the answers the server owes
  caller,          \* program counter of the thread in Get/SetCameraCapabilty
  call,            \* the answer that call asks for
  answer,          \* the last answer the talker has met since the call began
  result,          \* what the last call returned
  renewed,         \* history: *cmd_capability_ was replaced after the answer to the last call
  capability,      \* contents of *cmd_capability_
  data             \* program counter of the thread in SendDataPacket

sockVars == <<sock, inbox, half, expect, pending>>
callVars == <<caller, call, answer, result, renewed>>
vars == <<should_continue, talker, header, sockVars, callVars, capability, data>>

Answer == {"CAPABILITY", "ACK"}
Header == Answer \cup {"CAMERA_CONFIG", "OTHER"}

TypeOK ==
  /\ should_continue \in BOOLEAN
  /\ talker \in {"while", "user_header", "user_id", "watch", "poll", "header", "body",
                 "done"}
  /\ header \in Header
  /\ sock \in {"closed", "unconnected", "up", "peer_closed"}
  /\ inbox \in Seq(Header \cup {"body"})
  /\ half \in BOOLEAN
  /\ expect \in {"header", "user_id", "info", "frame", "broken"}
  /\ pending \in Seq(Answer)
  /\ caller \in {"idle", "send", "send_info", "lock", "wait", "woken"}
  /\ call \in Answer
  /\ answer \in Answer \cup {"none"}
  /\ result \in {"none", "capability", "default", "true", "failure"}
  /\ renewed \in BOOLEAN
  /\ capability \in {"default", "received"}
  /\ data \in {"idle", "payload"}

\* The constructor starts the talker.
Init ==
  /\ should_continue = TRUE
  /\ talker = "while" /\ header = "OTHER"
  /\ sock = "closed" /\ inbox = <<>> /\ half = FALSE
  /\ expect = "header" /\ pending = <<>>
  /\ caller = "idle" /\ call = "ACK" /\ answer = "none" /\ result = "none"
  /\ renewed = FALSE
  /\ capability = "default"
  /\ data = "idle"

-----------------------------------------------------------------------------
(* The socket and the server behind it.                                     *)

Connected == sock \in {"up", "peer_closed"}

Connect ==
  /\ sock' \in {"up", "unconnected"}
  /\ inbox' = <<>> /\ half' = FALSE /\ expect' = "header" /\ pending' = <<>>

Close ==
  /\ sock' = "closed"
  /\ inbox' = <<>> /\ half' = FALSE /\ expect' = "header" /\ pending' = <<>>

\* Send delivers a header that announces a payload of kind p ("header": none),
\* or the payload p itself, to a server that is parsing.
SendHeader(p) ==
  IF sock # "up" THEN UNCHANGED expect
  ELSE expect' = IF expect = "header" THEN p ELSE "broken"

SendPayload(p) ==
  IF sock # "up" THEN UNCHANGED expect
  ELSE expect' = IF expect = p THEN "header" ELSE "broken"

\* What is sent to a peer that has closed is refused, or accepted and lost.
SendMayFail == sock # "up"

\* A request the server understood will be answered.
Owe(a) == pending' = IF sock = "up" /\ expect' = "header"
                     THEN Append(pending, a) ELSE pending

ServerAnswer ==
  /\ sock = "up"
  /\ ~half
  /\ pending # <<>>
  /\ inbox' = Append(inbox, Head(pending))
  /\ pending' = Tail(pending)
  /\ half' = TRUE
  /\ UNCHANGED <<should_continue, talker, header, sock, expect, callVars, capability, data>>

\* CAMERA_CONFIG opens or closes the camera; OTHER is a type the client ignores.
ServerCommand ==
  /\ sock = "up"
  /\ ~half
  /\ Len(inbox) < MaxInbox
  /\ \/ inbox' = Append(inbox, "CAMERA_CONFIG") /\ half' = TRUE
     \/ inbox' = Append(inbox, "OTHER") /\ UNCHANGED half
  /\ UNCHANGED <<should_continue, talker, header, sock, expect, pending, callVars,
                 capability, data>>

ServerBody ==
  /\ half
  /\ inbox' = Append(inbox, "body")
  /\ half' = FALSE
  /\ UNCHANGED <<should_continue, talker, header, sock, expect, pending, callVars,
                 capability, data>>

ServerClose ==
  /\ ServerCloses
  /\ sock = "up"
  /\ sock' = "peer_closed"
  /\ half' = FALSE
  /\ UNCHANGED <<should_continue, talker, header, inbox, expect, pending, callVars,
                 capability, data>>

-----------------------------------------------------------------------------
(* The talker thread.                                                       *)

TalkerWhile ==
  /\ talker = "while"
  /\ \/ /\ ~should_continue
        /\ talker' = "done"
        /\ UNCHANGED sockVars
     \/ /\ should_continue
        /\ Connected
        /\ talker' = "watch"
        /\ UNCHANGED sockVars
     \/ /\ should_continue
        /\ ~Connected
        /\ Connect
        /\ talker' = CASE sock' # "up" -> "while"
                       [] HasUserId    -> "user_header"
                       [] OTHER        -> "watch"
  /\ UNCHANGED <<should_continue, header, callVars, capability, data>>

TalkerUserId ==
  /\ \/ /\ talker = "user_header"
        /\ SendHeader("user_id")
        /\ talker' = "user_id"
     \/ /\ talker = "user_id"
        /\ SendPayload("user_id")
        /\ talker' = "watch"
  /\ UNCHANGED <<should_continue, header, sock, inbox, half, pending, callVars,
                 capability, data>>

\* fds[0].fd is taken once for the loop that follows.
TalkerWatch ==
  /\ talker = "watch"
  /\ capability' = "default"
  /\ renewed' = (renewed \/ caller = "woken")
  /\ talker' = "poll"
  /\ UNCHANGED <<should_continue, header, sockVars, caller, call, answer, result, data>>

\* The condition of do ... while, which "continue" goes to as well.
Again == talker' = IF should_continue THEN "poll" ELSE "while"

\* Mutant: an fd that is closed already counts as idle.
PollIgnoresClosed ==
  /\ talker = "poll"
  /\ \/ /\ inbox # <<>> \/ sock = "peer_closed"
        /\ talker' = "header"
     \/ /\ inbox = <<>> /\ sock # "peer_closed"
        /\ Again
  /\ UNCHANGED <<should_continue, header, sockVars, callVars, capability, data>>

\* The fd is readable when there is data or the peer has closed; once the
\* talker has closed it itself, poll() answers POLLNVAL.
TalkerPoll ==
  /\ talker = "poll"
  /\ \/ /\ Connected
        /\ inbox # <<>> \/ sock = "peer_closed"
        /\ talker' = "header"
        /\ UNCHANGED sockVars
     \/ /\ sock = "up"
        /\ inbox = <<>>
        /\ Again
        /\ UNCHANGED sockVars
     \/ /\ ~Connected
        /\ Close
        /\ talker' = "while"
  /\ UNCHANGED <<should_continue, header, callVars, capability, data>>

\* Recv comes back short: the peer has closed and everything it sent is read,
\* or a part of a packet was there (MSG_WAITALL does not get through to recv()).
RecvFails ==
  /\ IF inbox = <<>> THEN sock = "peer_closed" ELSE PartialReads
  /\ Close
  /\ Again

\* Mutant: a body is expected behind a header of any type.
HeaderWithBody ==
  /\ talker = "header"
  /\ \/ RecvFails /\ UNCHANGED header
     \/ /\ inbox # <<>>
        /\ header' = IF Head(inbox) = "OTHER" THEN "CAMERA_CONFIG" ELSE Head(inbox)
        /\ inbox' = Tail(inbox)
        /\ talker' = "body"
        /\ UNCHANGED <<sock, half, expect, pending>>
  /\ UNCHANGED <<should_continue, callVars, capability, data>>

TalkerHeader ==
  /\ talker = "header"
  /\ \/ RecvFails /\ UNCHANGED header
     \/ /\ inbox # <<>>
        /\ header' = Head(inbox)
        /\ inbox' = Tail(inbox)
        /\ IF Head(inbox) = "OTHER" THEN Again ELSE talker' = "body"
        /\ UNCHANGED <<sock, half, expect, pending>>
  /\ UNCHANGED <<should_continue, callVars, capability, data>>

\* wait_api_data.notify_one(), with mutex_ not held: only a waiter is woken.
Notify == caller' = IF caller = "wait" THEN "woken" ELSE caller

\* Mutant: every packet wakes the caller.
NotifyAlways ==
  /\ talker = "body"
  /\ inbox # <<>>
  /\ inbox' = Tail(inbox)
  /\ Again
  /\ Notify
  /\ UNCHANGED <<should_continue, header, sock, half, expect, pending, call, answer,
                 result, renewed, capability, data>>

\* Mutant: the caller is woken, and the capability not kept.
NotifyOnly ==
  /\ talker = "body"
  /\ inbox # <<>>
  /\ inbox' = Tail(inbox)
  /\ Again
  /\ header \in Answer
  /\ answer' = header
  /\ Notify
  /\ UNCHANGED <<should_continue, header, sock, half, expect, pending, call, result,
                 renewed, capability, data>>

\* handle_ack, handle_capability, handle_cmd (whose callback is the
\* application's own business).
TalkerBody ==
  /\ talker = "body"
  /\ \/ /\ RecvFails
        /\ UNCHANGED <<callVars, capability>>
     \/ /\ inbox # <<>>
        /\ inbox' = Tail(inbox)
        /\ Again
        /\ \/ /\ header \in Answer
              /\ answer' = header
              /\ capability' = IF header = "CAPABILITY" THEN "received" ELSE capability
              /\ Notify
              /\ UNCHANGED <<call, result, renewed>>
           \/ /\ header = "CAMERA_CONFIG"
              /\ UNCHANGED <<callVars, capability>>
        /\ UNCHANGED <<sock, half, expect, pending>>
  /\ UNCHANGED <<should_continue, header, data>>

-----------------------------------------------------------------------------
(* The application.  It makes a call "after successful connection".         *)

Call ==
  /\ "caller" \in Threads
  /\ caller = "idle"
  /\ should_continue
  /\ Connected
  /\ Len(pending) + Len(inbox) <= MaxInbox
  /\ \E a \in Answer :
       /\ call' = a
       /\ caller' = "send"
  /\ answer' = "none" /\ result' = "none" /\ renewed' = FALSE
  /\ UNCHANGED <<should_continue, talker, header, sockVars, capability, data>>

CallFails == caller' = "idle" /\ result' = "failure"

\* The request: a bare header for Get, a header and the camera infos for Set.
CallSend ==
  /\ caller = "send"
  /\ SendHeader(IF call = "ACK" THEN "info" ELSE "header")
  /\ IF call = "CAPABILITY" THEN Owe("CAPABILITY") ELSE UNCHANGED pending
  /\ \/ SendMayFail /\ CallFails
     \/ /\ Connected
        /\ caller' = IF call = "ACK" THEN "send_info" ELSE "lock"
        /\ UNCHANGED result
  /\ UNCHANGED <<should_continue, talker, header, sock, inbox, half, call, answer,
                 renewed, capability, data>>

CallSendInfo ==
  /\ caller = "send_info"
  /\ SendPayload("info")
  /\ Owe("ACK")
  /\ \/ SendMayFail /\ CallFails
     \/ Connected /\ caller' = "lock" /\ UNCHANGED result
  /\ UNCHANGED <<should_continue, talker, header, sock, inbox, half, call, answer,
                 renewed, capability, data>>

\* Lock mutex_, which nobody else ever takes, and wait with no predicate.
CallWait ==
  /\ caller = "lock"
  /\ caller' = "wait"
  /\ UNCHANGED <<should_continue, talker, header, sockVars, call, answer, result,
                 renewed, capability, data>>

CallReturns ==
  /\ caller = "woken"
  /\ caller' = "idle"
  /\ result' = CASE call = "ACK"             -> "true"
                 [] capability = "received"  -> "capability"
                 [] OTHER                    -> "default"
  /\ UNCHANGED <<should_continue, talker, header, sockVars, call, answer, renewed, capability,
                 data>>

\* SendDataPacket: header, then payload, unless a Send fails.
SendDataPacket ==
  /\ "data" \in Threads
  /\ \/ /\ data = "idle"
        /\ should_continue
        /\ SendHeader("frame")
        /\ \/ SendMayFail /\ data' = "idle"
           \/ Connected /\ data' = "payload"
     \/ /\ data = "payload"
        /\ SendPayload("frame")
        /\ data' = "idle"
  /\ UNCHANGED <<should_continue, talker, header, sock, inbox, half, pending, callVars,
                 capability>>

\* The destructor, called when no other call is in flight, joins the talker.
Destroy ==
  /\ should_continue
  /\ caller = "idle" /\ data = "idle"
  /\ should_continue' = FALSE
  /\ UNCHANGED <<talker, header, sockVars, callVars, capability, data>>

Terminated == talker = "done" /\ UNCHANGED vars

-----------------------------------------------------------------------------
TalkerStep == TalkerWhile \/ TalkerUserId \/ TalkerWatch \/ TalkerPoll
              \/ TalkerHeader \/ TalkerBody
CallStep == CallSend \/ CallSendInfo \/ CallWait \/ CallReturns
ServerStep == ServerAnswer \/ ServerBody

Next ==
  \/ TalkerStep
  \/ Call \/ CallStep \/ SendDataPacket \/ Destroy
  \/ ServerStep \/ ServerCommand \/ ServerClose
  \/ Terminated

Spec == Init /\ [][Next]_vars

\* Threads that can run do; the server listens, and answers what it owes.
FairSpec ==
  /\ Spec
  /\ WF_vars(TalkerStep)
  /\ WF_vars(TalkerWhile /\ sock' = "up")
  /\ WF_vars(CallStep)
  /\ WF_vars(ServerAnswer)
  /\ WF_vars(ServerBody)

-----------------------------------------------------------------------------
(***************************************************************************)
(* A call that wakes up has had its own answer, and a call that is over    *)
(* leaves no answer behind that could wake the next one: CAPABILITY wakes  *)
(* GetCameraCapabilty, ACK wakes SetCameraCapabilty, nothing else does     *)
(* (for one caller, and a condition variable that never wakes by itself).  *)
(***************************************************************************)
WokenByItsAnswer ==
  /\ caller = "woken" => answer = call
  /\ caller = "idle" /\ sock = "up" =>
       pending = <<>> /\ \A i \in DOMAIN inbox : inbox[i] \notin Answer

(***************************************************************************)
(* A connection that the server closed is made again, or the object is     *)
(* being destroyed: the talker finds its way out of the inner loop though  *)
(* that goes on polling an fd it has closed.  When the object is being     *)
(* destroyed, the talker ends and the destructor's join returns.           *)
(***************************************************************************)
Reconnects ==
  /\ sock = "peer_closed" ~> (sock = "up" \/ ~should_continue)
  /\ ~should_continue ~> talker = "done"

(***************************************************************************)
(* "@return camera_capability_t which provides vhal capabilites / @return  *)
(* NULL on failure" (video_sink.h): a call of GetCameraCapabilty returns,  *)
(* here with a server that answers every request and closes nothing.       *)
(***************************************************************************)
CallsReturn == caller = "send" ~> caller = "idle"

(***************************************************************************)
(* GetCameraCapabilty returns an object the VHAL did not fill in only when *)
(* the call was answered, and the talker lost the connection and made a    *)
(* fresh *cmd_capability_ on the next one, before the caller it had woken  *)
(* read it.  A connection made at any other time, the first one too, does  *)
(* not excuse it: however packets are torn and calls of the two kinds      *)
(* follow each other, an answer is stored before its caller is woken.      *)
(***************************************************************************)
DefaultOnlyAfterReconnect == result = "default" => renewed
=============================================================================
