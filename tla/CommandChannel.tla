---------------------------- MODULE CommandChannel ----------------------------
(***************************************************************************)
(* CommandChannelInterface (source/command_channel_interface_impl.h):      *)
(* three talker threads, one per service (Activity Monitor, Aic Command,   *)
(* File Transfer), each with its TCP connection.  A message is a length    *)
(* and as many bytes; a talker receives the bytes into a vector and hands  *)
(* a pointer into it to the callback.  The Aic Command and the File        *)
(* Transfer talker receive into the same vector, acs_client_buf_.          *)
(*                                                                         *)
(* SendDataPacket runs on an application thread and writes a length and a  *)
(* payload with two Sends, on the connection the talker may be renewing.   *)
(***************************************************************************)
EXTENDS Naturals, Sequences

CONSTANTS
  Reachable,     \* the services that listen
  MaxSize,       \* CMD_CHANNEL_MSG_SIZE_MAX
  InitialSize,   \* size of a fresh buffer
  Lengths,       \* the lengths a service may announce, bad ones too
  Sends,         \* the channels the application sends on
  Closing,       \* the services that may close their connection
  MaxConns       \* bound on the connections per service that end in "up"

Channel == {"ams", "acs", "ftc"}

ASSUME ChannelAssumption ==
  /\ Reachable \subseteq Channel
  /\ Sends \subseteq Channel
  /\ MaxSize \in Nat
  /\ InitialSize \in 1..MaxSize
  /\ Lengths \subseteq Nat
  /\ Closing \subseteq Channel
  /\ MaxConns \in Nat

VARIABLES
  should_continue, \* cleared by the destructor
  dtor,            \* the talker the destructor joins, "no" or "done"
  talker,          \* program counter of each talker thread
  msg_length,      \* its local
  data,            \* the size of the vector its pointer was taken from
  size,            \* size of each vector
  content,         \* what was last received into it: <<channel, length>>
  sock,            \* each connection
  inbox,           \* what each talker can read: <<"len", n>> and <<"body", n>>
  half,            \* the service has announced a body it has not sent
  conn,            \* number of the current connection
  expect,          \* what the service parses next
  sender           \* the application thread: idle, or between its two Sends

netVars == <<sock, inbox, half, conn, expect>>
bufVars == <<msg_length, data, size, content>>
vars == <<should_continue, dtor, talker, msg_length, data, size, content, sock, inbox,
          half, conn, expect, sender>>

Buffer == {"ams_client_buf", "acs_client_buf"}

\* Mutant: one vector serves every talker.
OneBuffer(c) == "acs_client_buf"

\* The vector each talker receives into.
Buf(c) == IF c = "ams" THEN "ams_client_buf" ELSE "acs_client_buf"

TypeOK ==
  /\ should_continue \in BOOLEAN
  /\ dtor \in Channel \cup {"no", "done"}
  /\ talker \in [Channel -> {"while", "poll", "length", "resize", "recv", "body",
                             "callback", "done"}]
  /\ msg_length \in [Channel -> Nat]
  /\ data \in [Channel -> 0..MaxSize]
  /\ size \in [Buffer -> InitialSize..MaxSize]
  /\ content \in [Buffer -> (Channel \cup {"none"}) \X Nat]
  /\ sock \in [Channel -> {"down", "up", "peer_closed"}]
  /\ inbox \in [Channel -> Seq({"len", "body"} \X Nat)]
  /\ half \in [Channel -> Nat]
  /\ conn \in [Channel -> 0..MaxConns]
  /\ expect \in [Channel -> {"length", "payload", "broken"}]
  /\ sender \in [pc : {"idle", "payload"}, ch : Channel, conn : Nat]

Init ==
  /\ should_continue = TRUE /\ dtor = "no"
  /\ talker = [c \in Channel |-> "while"]
  /\ msg_length = [c \in Channel |-> 0]
  /\ data = [c \in Channel |-> 0]
  /\ size = [b \in Buffer |-> InitialSize]
  /\ content = [b \in Buffer |-> <<"none", 0>>]
  /\ sock = [c \in Channel |-> "down"]
  /\ inbox = [c \in Channel |-> <<>>]
  /\ half = [c \in Channel |-> 0]
  /\ conn = [c \in Channel |-> 0]
  /\ expect = [c \in Channel |-> "length"]
  /\ sender = [pc |-> "idle", ch |-> "ams", conn |-> 0]

-----------------------------------------------------------------------------
(* The connection.                                                          *)

Connected(c) == sock[c] # "down"

\* connect() succeeds, or leaves the socket unconnected.
Connect(c) ==
  \/ UNCHANGED netVars
  \/ /\ c \in Reachable
     /\ conn[c] < MaxConns
     /\ sock' = [sock EXCEPT ![c] = "up"]
     /\ conn' = [conn EXCEPT ![c] = @ + 1]
     /\ UNCHANGED <<inbox, half, expect>>

Close(c) ==
  /\ sock' = [sock EXCEPT ![c] = "down"]
  /\ inbox' = [inbox EXCEPT ![c] = <<>>]
  /\ half' = [half EXCEPT ![c] = 0]
  /\ expect' = [expect EXCEPT ![c] = "length"]
  /\ UNCHANGED conn

\* Recv loops until it has everything; it comes back short when the peer has
\* closed and nothing is left to read.
RecvShort(c) == sock[c] = "peer_closed" /\ inbox[c] = <<>>

Recv(c) ==
  /\ inbox[c] # <<>>
  /\ inbox' = [inbox EXCEPT ![c] = Tail(@)]
  /\ UNCHANGED <<sock, half, conn, expect>>

-----------------------------------------------------------------------------
(* A talker thread.                                                         *)

Go(c, pc) == talker' = [talker EXCEPT ![c] = pc]

\* Mutant: do ... while (true).
AgainForever(c) == Go(c, "poll")

\* The condition of do ... while.
Again(c) == Go(c, IF should_continue THEN "poll" ELSE "while")

TalkerWhile(c) ==
  /\ talker[c] = "while"
  /\ IF ~should_continue THEN Go(c, "done") /\ UNCHANGED netVars
     ELSE IF Connected(c) THEN Go(c, "poll") /\ UNCHANGED netVars
     ELSE Connect(c) /\ Go(c, IF sock'[c] = "up" THEN "poll" ELSE "while")
  /\ UNCHANGED <<should_continue, dtor, bufVars, sender>>

\* One second without input, or input (a close is readable too).
TalkerPoll(c) ==
  /\ talker[c] = "poll"
  /\ \/ inbox[c] = <<>> /\ sock[c] = "up" /\ Again(c)
     \/ (inbox[c] # <<>> \/ sock[c] = "peer_closed") /\ Go(c, "length")
  /\ UNCHANGED <<should_continue, dtor, bufVars, netVars, sender>>

\* Mutant: a length is only checked for its sign.
AnyPositive(n) == n > 0

LengthOk(n) == n > 0 /\ n <= MaxSize

\* Mutant: a connection that failed is left to the poll loop.
LengthNoClose(c) ==
  /\ talker[c] = "length"
  /\ \/ /\ RecvShort(c)
        /\ Again(c)
        /\ UNCHANGED <<netVars, msg_length>>
     \/ /\ Recv(c)
        /\ msg_length' = [msg_length EXCEPT ![c] = Head(inbox[c])[2]]
        /\ Go(c, IF LengthOk(msg_length'[c]) THEN "resize" ELSE "while")
  /\ UNCHANGED <<should_continue, dtor, data, size, content, sender>>

TalkerLength(c) ==
  /\ talker[c] = "length"
  /\ \/ /\ RecvShort(c)
        /\ Close(c) /\ Go(c, "while")
        /\ UNCHANGED msg_length
     \/ /\ inbox[c] # <<>>
        /\ msg_length' = [msg_length EXCEPT ![c] = Head(inbox[c])[2]]
        /\ IF LengthOk(msg_length'[c]) THEN Recv(c) /\ Go(c, "resize")
           ELSE Close(c) /\ Go(c, "while")
  /\ UNCHANGED <<should_continue, dtor, data, size, content, sender>>

\* Mutant: the initial size is taken to do for every message.
NoResize(c) ==
  /\ talker[c] = "resize"
  /\ Go(c, "recv")
  /\ UNCHANGED <<should_continue, dtor, bufVars, netVars, sender>>

\* A vector that has to grow is moved; it never shrinks.
TalkerResize(c) ==
  /\ talker[c] = "resize"
  /\ size' = [size EXCEPT ![Buf(c)] = IF msg_length[c] > @ THEN msg_length[c] ELSE @]
  /\ Go(c, "recv")
  /\ UNCHANGED <<should_continue, dtor, msg_length, data, content, netVars, sender>>

\* &buf[0] is evaluated, then recv() blocks with it.
TalkerRecv(c) ==
  /\ talker[c] = "recv"
  /\ data' = [data EXCEPT ![c] = size[Buf(c)]]
  /\ Go(c, "body")
  /\ UNCHANGED <<should_continue, dtor, msg_length, size, content, netVars, sender>>

\* The bytes land where the pointer points, which is the vector only if it has
\* not moved.  command_channel_msg.data is taken from the vector anew.
TalkerBody(c) ==
  /\ talker[c] = "body"
  /\ \/ /\ RecvShort(c)
        /\ Close(c) /\ Go(c, "while")
        /\ UNCHANGED <<content, data>>
     \/ /\ Recv(c)
        /\ content' = IF data[c] = size[Buf(c)]
                      THEN [content EXCEPT ![Buf(c)] = <<c, Head(inbox[c])[2]>>]
                      ELSE content
        /\ data' = [data EXCEPT ![c] = size[Buf(c)]]
        /\ Go(c, "callback")
  /\ UNCHANGED <<should_continue, dtor, msg_length, size, sender>>

\* callback_ reads data_size bytes behind the pointer, and returns.
TalkerCallback(c) ==
  /\ talker[c] = "callback"
  /\ Again(c)
  /\ UNCHANGED <<should_continue, dtor, bufVars, netVars, sender>>

-----------------------------------------------------------------------------
(* The application.                                                         *)

\* Send delivers to an open connection; to one the peer has closed it fails or
\* is lost; without one it fails.
Deliver(c, what, next) ==
  expect' = IF sock[c] = "up"
            THEN [expect EXCEPT ![c] = IF @ = what THEN next ELSE "broken"]
            ELSE expect

Idle == [sender EXCEPT !.pc = "idle"]

\* Mutant: the payload goes first.
PayloadFirst(c) ==
  /\ c \in Sends
  /\ sender.pc = "idle"
  /\ should_continue
  /\ Deliver(c, "payload", "length")
  /\ sender' = [pc |-> "payload", ch |-> c, conn |-> conn[c]]
  /\ UNCHANGED <<should_continue, dtor, talker, bufVars, sock, inbox, half, conn>>

SendLength(c) ==
  /\ c \in Sends
  /\ sender.pc = "idle"
  /\ should_continue
  /\ Deliver(c, "length", "payload")
  /\ \/ sock[c] # "up" /\ sender' = Idle
     \/ Connected(c) /\ sender' = [pc |-> "payload", ch |-> c, conn |-> conn[c]]
  /\ UNCHANGED <<should_continue, dtor, talker, bufVars, sock, inbox, half, conn>>

SendPayload ==
  /\ sender.pc = "payload"
  /\ Deliver(sender.ch, "payload", "length")
  /\ sender' = Idle
  /\ UNCHANGED <<should_continue, dtor, talker, bufVars, sock, inbox, half, conn>>

\* The destructor, with no call in flight, and its three joins.
Destroy ==
  /\ should_continue
  /\ sender.pc = "idle"
  /\ should_continue' = FALSE
  /\ dtor' = "ams"
  /\ UNCHANGED <<talker, bufVars, netVars, sender>>

Join ==
  /\ dtor \in Channel
  /\ talker[dtor] = "done"
  /\ dtor' = CASE dtor = "ams" -> "acs" [] dtor = "acs" -> "ftc" [] OTHER -> "done"
  /\ UNCHANGED <<should_continue, talker, bufVars, netVars, sender>>

-----------------------------------------------------------------------------
(* The services.                                                            *)

ServerLength(c) ==
  /\ sock[c] = "up" /\ half[c] = 0 /\ inbox[c] = <<>>
  /\ \E n \in Lengths :
       /\ inbox' = [inbox EXCEPT ![c] = Append(@, <<"len", n>>)]
       /\ half' = [half EXCEPT ![c] = n]
  /\ UNCHANGED <<should_continue, dtor, talker, bufVars, sock, conn, expect, sender>>

ServerBody(c) ==
  /\ sock[c] = "up" /\ half[c] # 0
  /\ inbox' = [inbox EXCEPT ![c] = Append(@, <<"body", half[c]>>)]
  /\ half' = [half EXCEPT ![c] = 0]
  /\ UNCHANGED <<should_continue, dtor, talker, bufVars, sock, conn, expect, sender>>

ServerClose(c) ==
  /\ c \in Closing
  /\ sock[c] = "up"
  /\ sock' = [sock EXCEPT ![c] = "peer_closed"]
  /\ half' = [half EXCEPT ![c] = 0]
  /\ UNCHANGED <<should_continue, dtor, talker, bufVars, inbox, conn, expect, sender>>

Terminated == dtor = "done" /\ UNCHANGED vars

-----------------------------------------------------------------------------
TalkerStep(c) ==
  \/ TalkerWhile(c) \/ TalkerPoll(c) \/ TalkerLength(c) \/ TalkerResize(c)
  \/ TalkerRecv(c) \/ TalkerBody(c) \/ TalkerCallback(c)

Next ==
  \/ \E c \in Channel :
       \/ TalkerStep(c) \/ SendLength(c)
       \/ ServerLength(c) \/ ServerBody(c) \/ ServerClose(c)
  \/ SendPayload \/ Destroy \/ Join \/ Terminated

Spec == Init /\ [][Next]_vars

\* The threads run, a service that listens is reached in the end, and it sends
\* the body it has announced.
FairSpec ==
  /\ Spec
  /\ \A c \in Channel : WF_vars(TalkerStep(c))
  /\ \A c \in Reachable :
       /\ WF_vars(TalkerWhile(c) /\ sock'[c] = "up")
       /\ WF_vars(ServerBody(c))
  /\ WF_vars(SendPayload)
  /\ WF_vars(Join)

-----------------------------------------------------------------------------
(* Properties.                                                              *)

\* While the callback of a talker runs, the pointer it was given is into the
\* vector as it is now, and the bytes there are the message whose type and
\* length the callback was told, although the other talkers receive at the
\* same time.
CallbackSeesItsMessage ==
  \A c \in Channel : talker[c] = "callback" =>
    /\ data[c] = size[Buf(c)]
    /\ content[Buf(c)] = <<c, msg_length[c]>>

\* A talker that waits for a body has room for all of it.
BodyFits ==
  \A c \in Channel : talker[c] \in {"recv", "body", "callback"} =>
    msg_length[c] \in 1..MaxSize /\ msg_length[c] <= size[Buf(c)]

\* A service loses step with SendDataPacket only if the talker renewed the
\* connection between the two Sends, so that the payload opened the new one.
FramingLostOnlyByReconnect ==
  [][\A c \in Channel : expect[c] # "broken" /\ expect'[c] = "broken" =>
       sender.pc = "payload" /\ sender.ch = c /\ sender.conn < conn[c]]_vars

\* A connection the service closed is made again (within MaxConns), or the
\* object is destroyed.
Reconnects ==
  \A c \in Closing :
    sock[c] = "peer_closed" ~> sock[c] = "up" \/ ~should_continue \/ conn[c] = MaxConns

\* The destructor's three joins return.
DestroyReturns == ~should_continue ~> dtor = "done"

\* command_channel_interface.h on MsgType: kFileTransfer "Represents message or
\* command that interacts with FileTransferService", kAicCommand one of the
\* AicCommandService: the data that comes with the type is of that service.
TypeMatchesData ==
  \A c \in Channel : talker[c] = "callback" => content[Buf(c)][1] = c
=============================================================================
