------------------------------- MODULE AicEmu -------------------------------
(***************************************************************************)
(* The AiC emulator (aic-emu/): it takes the event log that the HWC client *)
(* recorded of a session with the real server, waits for a client on the   *)
(* socket, and plays the server's side of that session to it.              *)
(*                                                                         *)
(* The model first records a log, with the operators of ProfileLog, while  *)
(* a legal server talks to the recording client; then it runs the          *)
(* emulator's main() over the log, every call on the socket and on the     *)
(* device a step of its own, against a client that does what HwcReceiver   *)
(* does with each message and may go away at any time.                     *)
(*                                                                         *)
(* The words of the stream towards the emulator are kept one by one, each  *)
(* marked whether a reply begins with it, since the emulator reads it by   *)
(* sizes of its own.  The other direction is kept by messages: one is in   *)
(* "sent" once its last part is written.                                   *)
(***************************************************************************)
EXTENDS ProfileLog, FiniteSets

CONSTANTS
  Faults,       \* whether system calls of the emulator may fail
  ClipFrames,   \* the frames in the content file
  MaxEvents,    \* bound: messages recorded, and sent by the client's user
  MaxServers,   \* bound: servers the recording client is restarted for
  MaxExtra      \* bound: messages sent by the client's user

ASSUME FaultsAssumption == Faults \in BOOLEAN
ASSUME ClipAssumption == ClipFrames \in Nat \ {0}
ASSUME BoundsAssumption == MaxEvents \in Nat /\ MaxServers \in Nat \ {0} /\ MaxExtra \in Nat

VARIABLES
  \* The recording.
  log,          \* the documents in the YML file
  session,      \* history: the messages they stand for
  created,      \* the remote handles of the server that is connected
  servers,      \* the servers that have been connected to
  linked,       \* the recording client has a server
  \* The emulator.
  pc,
  src,          \* the content's resolution, as the arguments give it
  next,         \* m_nextNode, as the number of documents taken
  busy,         \* the document last taken is not yet dealt with
  out,          \* the parts of the message still to be written
  clip,         \* the position in the content file, in frames
  eof,          \* the content stream has met its end
  pFrame,       \* the frame read
  fault,        \* history: a call has failed
  boList, objects, device,
  \* The socket and the client.
  peer,         \* the client's end
  sent,         \* the messages written to it
  unread,       \* the words written by it and not yet read
  handled,      \* the messages it has dealt with
  handles,      \* its mHandles: the object it has for a remote handle
  extra         \* the messages its user made it send

INSTANCE GfxHandler

recordVars == <<log, session, created, servers, linked>>
emuVars    == <<pc, src, next, busy, out, clip, eof, pFrame, fault>>
gfxVars    == <<boList, objects, device>>
wireVars   == <<peer, sent, unread>>
clientVars == <<handled, handles, extra>>
vars == <<recordVars, emuVars, gfxVars, wireVars, clientVars>>

-----------------------------------------------------------------------------
(* Sizes in words of 4 bytes (include/libvhal/display-protocol.h).          *)

display_event_t == 4
display_info_t == 11
display_port_t == 2
buffer_info_t == 2
set_video_alpha_t == 4

ReplySize(type) ==
  display_event_t + CASE type \in {"DISPINFO_ACK", "SETUP_RESOLUTION"} -> display_info_t
                      [] type = "DISPLAY_ACK"  -> buffer_info_t
                      [] type = "DISPPORT_ACK" -> display_port_t
                      [] type = "SET_VIDEO_ALPHA_REQ" -> set_video_alpha_t

Reply(type) == [i \in 1 .. ReplySize(type) |-> i = 1]

\* The replay this amounts to.
R == INSTANCE Replay WITH
  script <- session,
  pos    <- IF busy THEN next - 1 ELSE next,
  sent   <- [i \in DOMAIN sent |-> [type |-> sent[i].type, rh |-> sent[i].rh]],
  broken <- fault \/ peer = "closed" \/ src \in {"half", "small", "missing"},
  over   <- pc \in {"exit", "done", "killed"}

-----------------------------------------------------------------------------
Init ==
  /\ log = <<>> /\ session = <<>> /\ created = {} /\ servers = 1 /\ linked = TRUE
  /\ pc = "record" /\ src = "unset" /\ next = 0 /\ busy = FALSE /\ out = <<>>
  /\ clip = 0 /\ eof = FALSE /\ pFrame = 0 /\ fault = FALSE
  /\ GfxNew
  /\ peer = "none" /\ sent = <<>> /\ unread = <<>>
  /\ handled = 0 /\ handles = [r \in Remote |-> NoObject] /\ extra = 0

-----------------------------------------------------------------------------
(* The recording client.                                                    *)

Event(type, r, ctrl, whole) == [type |-> type, rh |-> r, ctrl |-> ctrl, whole |-> whole]

\* bound: nothing is recorded behind an entry that ends the replay (ReplayFaithful
\* shows that no replay gets past one).
Open == \A i \in DOMAIN session : R!Replayable(session[i])

\* The messages of the server and of the user.
Messages == Len(SelectSeq(session, LAMBDA e :
                  e.type \notin {"DISPLAY_ACK", "DISPINFO_ACK", "DISPPORT_ACK"}))

\* bound: handles that differ in nothing else first appear in one order.
InOrder(r) == \A s \in Remote : s < r => \E i \in DOMAIN session : session[i].rh = s

\* A message is handled and logged; "ended" says that the server was lost with
\* it.  A server creates a buffer once, and names only buffers it created.
Record(docs, events, live, ended) ==
  /\ pc = "record" /\ linked /\ Messages < MaxEvents /\ Open
  /\ log' = log \o docs
  /\ session' = session \o events
  /\ created' = live
  /\ linked' = ~ended
  /\ UNCHANGED <<servers, emuVars, gfxVars, wireVars, clientVars>>

RecordCreate(r, whole) ==
  /\ r \notin created
  /\ InOrder(r)
  /\ \E parts \in IF whole THEN {2} ELSE {0, 1} :
       Record(CreateBuffer(r, parts), <<Event("CREATE_BUFFER", r, FALSE, whole)>>,
              created \cup {r}, ~whole)

RecordRemove(r, whole) ==
  /\ r \in created
  /\ Record(RemoveBuffer(r, IF whole THEN 1 ELSE 0),
            <<Event("REMOVE_BUFFER", r, FALSE, whole)>>, created \ {r}, ~whole)

RecordDisplay(r, ctrl, whole, acked) ==
  /\ r \in created
  /\ acked => whole
  /\ \E parts \in IF whole THEN {2} ELSE {0} \cup (IF ctrl THEN {1} ELSE {}) :
       Record(DisplayRequest(r, ctrl, parts, acked),
              <<Event("DISPLAY_REQ", r, ctrl, whole)>>
                \o IF acked THEN <<Event("DISPLAY_ACK", r, FALSE, TRUE)>> ELSE <<>>,
              created, ~acked)

\* A client whose render node or session is another one gives up without an answer.
RecordDispInfo(accepted) ==
  Record(IF accepted THEN UpdateDispConfig ELSE <<UpdateDispConfig[1]>>,
         <<Event("DISPINFO_REQ", NoRemote, FALSE, TRUE)>>
           \o IF accepted THEN <<Event("DISPINFO_ACK", NoRemote, FALSE, TRUE)>> ELSE <<>>,
         created, ~accepted)

RecordDispPort ==
  Record(UpdateDispPort, <<Event("DISPPORT_REQ", NoRemote, FALSE, TRUE),
                           Event("DISPPORT_ACK", NoRemote, FALSE, TRUE)>>, created, FALSE)

RecordUnknown ==
  Record(<<LogGenericEventInfo("UNKNOWN", "SERVER_IP_REQ", FALSE)>>,
         <<Event("UNKNOWN", NoRemote, FALSE, TRUE)>>, created, FALSE)

\* setMode, setVideoAlpha.
RecordUser(type) ==
  Record(<<IF type = "SETUP_RESOLUTION" THEN AddDisplayInfoEventStruct(type)
           ELSE AddVideoAlphaEventStruct>>,
         <<Event(type, NoRemote, FALSE, TRUE)>>, created, FALSE)

\* The application stops and starts the client again, for another server.
RecordRestart ==
  /\ pc = "record" /\ servers < MaxServers /\ Open
  /\ servers' = servers + 1
  /\ linked' = TRUE
  /\ created' = {}
  /\ UNCHANGED <<log, session, emuVars, gfxVars, wireVars, clientVars>>

Recording ==
  \/ \E r \in Remote, whole \in BOOLEAN : RecordCreate(r, whole) \/ RecordRemove(r, whole)
  \/ \E r \in Remote, ctrl, whole, acked \in BOOLEAN : RecordDisplay(r, ctrl, whole, acked)
  \/ \E accepted \in BOOLEAN : RecordDispInfo(accepted)
  \/ RecordDispPort
  \/ RecordUnknown
  \/ \E type \in {"SETUP_RESOLUTION", "SET_VIDEO_ALPHA_REQ"} : RecordUser(type)
  \/ RecordRestart

-----------------------------------------------------------------------------
(* The emulator: its start.                                                 *)

Goto(from, to) == pc = from /\ pc' = to

\* A call failed (an ioctl, a call on the socket or on the content, or the parser
\* threw at a value): the status goes up to main(), which returns.
Fails == Faults /\ fault' = TRUE

\* The content's resolution: none or one with both its numbers, or one of them
\* missing.
ParseArgs ==
  /\ \/ /\ src' \in {"good", "half"}
        /\ Goto("record", "init")
     \/ /\ src' = "missing"
        /\ Goto("record", "done")
  /\ UNCHANGED <<recordVars, gfxVars, wireVars, clientVars,
                 next, busy, out, clip, eof, pFrame, fault>>

\* InitYmlParser and the first half of InitGfxSurfaceHandler.
InitFiles ==
  /\ \/ Goto("init", "gfx") /\ src # "half" /\ UNCHANGED fault
     \/ Goto("init", "exit") /\ src = "half" /\ UNCHANGED fault
     \/ Goto("init", "exit") /\ Fails
  /\ UNCHANGED <<recordVars, gfxVars, wireVars, clientVars,
                 src, next, busy, out, clip, eof, pFrame>>

InitGfx ==
  /\ \/ Goto("gfx", "socket") /\ GfxInit(TRUE) /\ UNCHANGED fault
     \/ Goto("gfx", "exit") /\ GfxInit(FALSE) /\ Fails
  /\ UNCHANGED <<recordVars, wireVars, clientVars,
                 src, next, busy, out, clip, eof, pFrame>>

\* AwaitConnection up to listen(): any of its calls throws.
InitSocket ==
  /\ \/ Goto("socket", "accept") /\ UNCHANGED fault
     \/ Goto("socket", "exit") /\ Fails
  /\ UNCHANGED <<recordVars, gfxVars, wireVars, clientVars,
                 src, next, busy, out, clip, eof, pFrame>>

\* accept() waits for a client.
Accept ==
  /\ \/ Goto("accept", "next") /\ peer # "none" /\ UNCHANGED fault
     \/ Goto("accept", "exit") /\ Fails
  /\ UNCHANGED <<recordVars, gfxVars, wireVars, clientVars,
                 src, next, busy, out, clip, eof, pFrame>>

-----------------------------------------------------------------------------
(* The emulator: one document.                                              *)

Entry == DecodeNode(log[next])

Parts(entry) ==
  <<"event">>
    \o (IF entry.type \in {"CREATE_BUFFER", "REMOVE_BUFFER", "DISPLAY_REQ"}
        THEN <<"info">> ELSE <<>>)
    \o (IF entry.type = "CREATE_BUFFER" THEN <<"gralloc", "fds">> ELSE <<>>)
    \o (IF entry.event.ctrl THEN <<"ctrl">> ELSE <<>>)

\* Where DataExchange goes with a document: what it does first, or "exit".
Dispatch(entry) ==
  CASE entry.empty -> "exit"                                \* PAYLOAD_EMPTY
    [] ~entry.empty /\ entry.direction = "SEND" ->
         CASE entry.type \in {"DISPINFO_REQ", "DISPPORT_REQ", "REMOVE_BUFFER"} -> "write"
           [] entry.type = "CREATE_BUFFER" ->               \* a surface of size 0
                IF entry.second THEN "alloc" ELSE "exit"
           [] entry.type = "DISPLAY_REQ" ->
                IF \/ entry.event.ctrl /\ ~entry.second
                   \/ GetBo(entry.event.rh) = NoObject
                THEN "exit" ELSE "frame"
           [] OTHER -> "exit"                               \* BAD_METADATA
    [] OTHER -> IF entry.type \in {"DISPINFO_ACK", "SETUP_RESOLUTION", "DISPLAY_ACK",
                                   "SET_VIDEO_ALPHA_REQ"}
                THEN "recv" ELSE "exit"                     \* BAD_METADATA

ProcessNextEntry ==
  /\ \/ /\ next = Len(log)
        /\ Goto("next", "exit")
        /\ UNCHANGED <<next, busy, out, fault>>
     \/ LET entry == DecodeNode(log[next + 1])
        IN /\ next < Len(log)
           /\ next' = next + 1
           /\ busy' = TRUE
           /\ Goto("next", Dispatch(entry))
           /\ out' = IF entry.direction = "SEND" THEN Parts(entry) ELSE <<>>
           /\ UNCHANGED fault
     \/ /\ next < Len(log)                                  \* YML_PARSER_ERR
        /\ next' = next + 1 /\ busy' = TRUE
        /\ Goto("next", "exit") /\ Fails
        /\ UNCHANGED out
  /\ UNCHANGED <<recordVars, gfxVars, wireVars, clientVars,
                 src, clip, eof, pFrame>>

\* CREATE_BUFFER: the object is there before the client is told of it.
Alloc ==
  /\ \/ Goto("alloc", "write") /\ AllocateBo(Entry.event.rh, TRUE) /\ UNCHANGED fault
     \/ Goto("alloc", "exit") /\ AllocateBo(Entry.event.rh, FALSE) /\ Fails
  /\ UNCHANGED <<recordVars, wireVars, clientVars,
                 src, next, busy, out, clip, eof, pFrame>>

\* Mutant: the end of the content is not noticed.
ReadsOn ==
  /\ Goto("frame", "copy")
  /\ clip' = clip + 1 /\ pFrame' = clip + 1
  /\ UNCHANGED <<recordVars, gfxVars, wireVars, clientVars, src, eof, next, busy, out, fault>>

\* Mutant: the stream is cleared and not rewound.
NoRewind ==
  /\ Goto("frame", "copy")
  /\ eof' = (clip = ClipFrames)
  /\ clip' = IF clip = ClipFrames THEN clip ELSE clip + 1
  /\ pFrame' = IF clip = ClipFrames THEN 0 ELSE clip + 1
  /\ UNCHANGED <<recordVars, gfxVars, wireVars, clientVars, src, next, busy, out, fault>>

\* Content that is smaller than this surface is refused (the surfaces' sizes are
\* the log's).  A stream that met the end is rewound, unless that fails.  The read that
\* meets it is the one behind the last whole frame: it leaves the buffer, or what a
\* partial frame at the end of the file does not fill of it, as new[] made it (0).
GetOneFrame ==
  LET at == IF eof THEN 0 ELSE clip
  IN /\ \/ /\ Goto("frame", "exit")
           /\ src' = "small"
           /\ clip' = at /\ eof' = FALSE /\ UNCHANGED <<pFrame, fault>>
        \/ /\ Goto("frame", "exit") /\ eof /\ Fails             \* INPUT_STREAM
           /\ eof' = FALSE /\ UNCHANGED <<src, clip, pFrame>>
        \/ /\ Goto("frame", "copy")
           /\ UNCHANGED <<src, fault>>
           /\ eof' = (at = ClipFrames)
           /\ clip' = IF at = ClipFrames THEN at ELSE at + 1
           /\ pFrame' = IF at = ClipFrames THEN 0 ELSE at + 1
     /\ UNCHANGED <<recordVars, gfxVars, wireVars, clientVars, next, busy, out>>

\* The pause of ManageDisplayReqTime, between this and the write, is only time.
CopyFrame ==
  LET r == Entry.event.rh
  IN /\ \/ Goto("copy", "write") /\ Copy(r, pFrame, "ok") /\ UNCHANGED fault
        \/ Goto("copy", "exit") /\ Copy(r, pFrame, "fail") /\ Fails
        \/ Goto("copy", "killed") /\ Copy(r, pFrame, "null") /\ Fails
     /\ UNCHANGED <<recordVars, wireVars, clientVars,
                    src, next, busy, out, clip, eof, pFrame>>

MessageOf(entry) ==
  [type |-> entry.event.type, rh |-> entry.event.rh, obj |-> GetBo(entry.event.rh),
   frame |-> IF entry.type = "DISPLAY_REQ" THEN pFrame ELSE 0]

\* One send() or, for the descriptor, sendmsg().  Only the second asks for no
\* signal: the first, to a client that has gone, ends the process.
WritePart ==
  /\ pc = "write" /\ out # <<>>
  /\ \/ /\ peer = "open"
        /\ out' = Tail(out)
        /\ IF Len(out) > 1 THEN UNCHANGED <<pc, sent, busy>>
           ELSE /\ sent' = Append(sent, MessageOf(Entry))
                /\ busy' = (Entry.event.type = "0")
                /\ pc' = IF Entry.type = "REMOVE_BUFFER" THEN "clear" ELSE "next"
        /\ UNCHANGED fault
     \/ /\ peer = "closed"
        /\ pc' = IF Head(out) = "fds" THEN "exit" ELSE "killed"
        /\ UNCHANGED <<sent, out, busy, fault>>
     \/ /\ Fails
        /\ pc' = "exit"
        /\ UNCHANGED <<sent, out, busy>>
  /\ UNCHANGED <<recordVars, gfxVars, clientVars, peer, unread,
                 src, next, clip, eof, pFrame>>

\* REMOVE_BUFFER: the client is told before the object goes.
Clear ==
  /\ \/ Goto("clear", "next") /\ ClearBo(Entry.event.rh, TRUE) /\ UNCHANGED fault
     \/ /\ Goto("clear", "exit") /\ ClearBo(Entry.event.rh, FALSE)
        /\ IF GetBo(Entry.event.rh) = NoObject THEN UNCHANGED fault ELSE Fails
  /\ UNCHANGED <<recordVars, wireVars, clientVars,
                 src, next, busy, out, clip, eof, pFrame>>

\* What DataExchange reads of a reply: of two of them the info without the event.
ReadSize(type) ==
  CASE type \in {"DISPINFO_ACK", "SETUP_RESOLUTION"} -> display_info_t
    [] type = "DISPLAY_ACK" -> display_event_t + buffer_info_t
    [] type = "SET_VIDEO_ALPHA_REQ" -> display_event_t + set_video_alpha_t

\* Mutant: the socket is not waited on.
ReadNoWait ==
  LET size == ReadSize(Entry.type)
  IN /\ Goto("recv", "next")
     /\ unread' = SubSeq(unread, size + 1, Len(unread))
     /\ busy' = FALSE
     /\ UNCHANGED <<recordVars, gfxVars, clientVars, peer, sent,
                    src, next, out, clip, eof, pFrame, fault>>

\* Mutant: the end of the stream is waited through.
ReadPastEnd ==
  LET size == ReadSize(Entry.type)
  IN /\ Goto("recv", "next")
     /\ unread # <<>>
     /\ unread' = SubSeq(unread, size + 1, Len(unread))
     /\ busy' = FALSE
     /\ UNCHANGED <<recordVars, gfxVars, clientVars, peer, sent,
                    src, next, out, clip, eof, pFrame, fault>>

\* recv() waits for the first byte and takes what is there; the end of the
\* stream is a read of nothing, which is no error.
ReadReply ==
  LET size == ReadSize(Entry.type)
  IN /\ \/ /\ Goto("recv", "next")
           /\ unread # <<>> \/ peer = "closed"
           /\ unread' = SubSeq(unread, size + 1, Len(unread))
           /\ busy' = FALSE
           /\ UNCHANGED fault
        \/ /\ Goto("recv", "exit") /\ Fails
           /\ UNCHANGED <<unread, busy>>
     /\ UNCHANGED <<recordVars, gfxVars, clientVars, peer, sent,
                    src, next, out, clip, eof, pFrame>>

\* main() returns: the socket, the device and the content are closed.
Exit ==
  /\ Goto("exit", "done")
  /\ GfxDestroy
  /\ UNCHANGED <<recordVars, wireVars, clientVars,
                 src, next, busy, out, clip, eof, pFrame, fault>>

Emulator ==
  \/ InitFiles \/ InitGfx \/ InitSocket \/ Accept \/ ProcessNextEntry
  \/ Alloc \/ GetOneFrame \/ CopyFrame \/ WritePart \/ Clear \/ ReadReply \/ Exit

-----------------------------------------------------------------------------
(* The client the session is replayed to, as long as the emulator runs.     *)

Up == pc \notin {"exit", "done", "killed"}

ClientConnect ==
  /\ pc = "accept" /\ peer = "none"
  /\ peer' = "open"
  /\ UNCHANGED <<recordVars, emuVars, gfxVars, sent, unread, clientVars>>

\* What VirtualHwcReceiver does with one message.  insert() keeps the entry
\* that is there; a request for an unknown handle is not answered.
ClientHandle ==
  LET msg == sent[handled + 1]
  IN /\ Up /\ peer = "open" /\ handled < Len(sent)
     /\ handled' = handled + 1
     /\ handles' = CASE msg.type = "CREATE_BUFFER" /\ handles[msg.rh] = NoObject ->
                          [handles EXCEPT ![msg.rh] = msg.obj]
                     [] msg.type = "REMOVE_BUFFER" ->
                          [handles EXCEPT ![msg.rh] = NoObject]
                     [] OTHER -> handles
     /\ unread' = unread \o
          CASE msg.type = "DISPINFO_REQ" -> Reply("DISPINFO_ACK")
            [] msg.type = "DISPPORT_REQ" -> Reply("DISPPORT_ACK")
            [] msg.type = "DISPLAY_REQ" /\ handles[msg.rh] # NoObject -> Reply("DISPLAY_ACK")
            [] OTHER -> <<>>
     /\ UNCHANGED <<recordVars, emuVars, gfxVars, peer, sent, extra>>

\* setMode, setVideoAlpha.
ClientUser(type) ==
  /\ Up /\ peer = "open"
  /\ extra < MaxExtra /\ Messages + extra < MaxEvents
  /\ extra' = extra + 1
  /\ unread' = unread \o Reply(type)
  /\ UNCHANGED <<recordVars, emuVars, gfxVars, peer, sent, handled, handles>>

ClientClose ==
  /\ Up /\ peer = "open"
  /\ peer' = "closed"
  /\ UNCHANGED <<recordVars, emuVars, gfxVars, sent, unread, clientVars>>

Client ==
  \/ ClientConnect
  \/ ClientHandle
  \/ \E type \in {"SETUP_RESOLUTION", "SET_VIDEO_ALPHA_REQ"} : ClientUser(type)
  \/ ClientClose

Next == Recording \/ ParseArgs \/ Emulator \/ Client

\* The emulator runs, and no call has to fail; the client connects, which it
\* retries every second, and its work thread handles what it is sent.  Its user
\* need not do anything.
Fairness ==
  /\ WF_vars(Emulator /\ fault' = fault)
  /\ WF_vars(ClientConnect)
  /\ WF_vars(ClientHandle)

Spec == Init /\ [][Next]_vars /\ Fairness

-----------------------------------------------------------------------------
(* Properties.                                                              *)

TypeOK ==
  /\ created \subseteq Remote /\ linked \in BOOLEAN /\ servers \in 1 .. MaxServers
  /\ Len(log) = Len(session)
  /\ pc \in {"record", "init", "gfx", "socket", "accept", "next", "alloc", "frame", "copy",
            "write", "clear", "recv", "exit", "done", "killed"}
  /\ src \in {"unset", "good", "half", "small", "missing"}
  /\ next \in 0 .. Len(log) /\ busy \in BOOLEAN /\ fault \in BOOLEAN
  /\ clip \in 0 .. ClipFrames /\ eof \in BOOLEAN /\ pFrame \in 0 .. ClipFrames
  /\ GfxTypeOK
  /\ peer \in {"none", "open", "closed"}
  /\ unread \in Seq(BOOLEAN)
  /\ handled \in 0 .. Len(sent) /\ extra \in 0 .. MaxExtra
  /\ handles \in [Remote -> {NoObject} \cup DOMAIN objects]

\* The list of buffer objects and the client's map of handles stay in step:
\* what is listed is open, has a descriptor and is listed once; between two
\* documents, a client that has dealt with everything holds exactly the objects
\* that the emulator lists, even when a second server's log creates a buffer
\* that the first never removed (both keep the older one).  An object is lost
\* from the list only in that case or by a failing call.
BuffersInStep ==
  /\ \A r \in Remote : boList[r] # NoObject => /\ objects[boList[r]].open
                                              /\ objects[boList[r]].fd
  /\ \A r, s \in Remote : boList[r] = boList[s] => r = s \/ boList[r] = NoObject
  /\ pc = "next" /\ handled = Len(sent) => handles = boList
  /\ ~fault /\ servers = 1 =>
       \A o \in DOMAIN objects : objects[o].open => \E r \in Remote : boList[r] = o

\* A buffer is not drawn to too early: until a client that is there has handled a
\* display request, the buffer holds the frame that was copied for it, or it was
\* drawn to for a later request, with no more requests outstanding than MayBeAhead
\* allows.  What holds the emulator back are the replies it reads.  Where each
\* request of the log has its answer and the client's user sends nothing, it draws
\* only when all is handled, up to the first DISPINFO_REQ; the reply to that is read
\* short (ReadsWholeReplies), and from there on it may be one request ahead.
\* In general it may be ahead by two for each DISPINFO_REQ sent, three for each
\* message of the user and one for each request that the log has no answer to.
Requests == {"DISPLAY_REQ", "DISPINFO_REQ", "DISPPORT_REQ"}

AnswerTo(type) == CASE type = "DISPLAY_REQ"  -> "DISPLAY_ACK"
                    [] type = "DISPINFO_REQ" -> "DISPINFO_ACK"
                    [] type = "DISPPORT_REQ" -> "DISPPORT_ACK"

\* The messages up to the n-th that the client is to answer and has not handled.
Outstanding(n) == {k \in handled + 1 .. n : sent[k].type \in Requests}

Infos == Cardinality({k \in DOMAIN sent : sent[k].type = "DISPINFO_REQ"})

Unanswered == Cardinality({k \in 1 .. next - 1 :
                /\ session[k].type \in Requests
                /\ session[k + 1].type # AnswerTo(session[k].type)})

MayBeAhead == IF extra + Unanswered = 0 /\ Infos <= 1 THEN Infos
              ELSE 2 * Infos + 3 * extra + Unanswered

\* The n-th message shows the buffer r: it is sent, or it is the one being made.
ShowsBuffer(n, r) ==
  \/ n \in DOMAIN sent /\ sent[n].type = "DISPLAY_REQ" /\ sent[n].rh = r
  \/ /\ n = Len(sent) + 1
     /\ busy /\ session[next].type = "DISPLAY_REQ" /\ session[next].rh = r

FramesStable ==
  peer = "open" =>
    \A i \in handled + 1 .. Len(sent) : sent[i].type = "DISPLAY_REQ" =>
      \/ objects[sent[i].obj].frame = sent[i].frame
      \/ \E j \in i + 1 .. Len(sent) + 1 :
           ShowsBuffer(j, sent[i].rh) /\ Cardinality(Outstanding(j - 1)) <= MayBeAhead

\* The content is shown frame by frame from the first on.  Behind the last frame
\* comes one request with a buffer that nothing was read into (0), then the
\* first frame again.
Shows(i) == sent[i].type = "DISPLAY_REQ"

ContentInOrder ==
  \A i \in DOMAIN sent : Shows(i) =>
    \/ sent[i].frame = 1 /\ \A j \in 1 .. i - 1 : ~Shows(j)
    \/ \E j \in 1 .. i - 1 : /\ Shows(j) /\ \A k \in j + 1 .. i - 1 : ~Shows(k)
                             /\ sent[i].frame = (sent[j].frame + 1) % (ClipFrames + 1)

\* What the log, the parser and the exchange make of a session together is a
\* replay of it: the messages the server sent while the log was recorded reach
\* the client again, in order and unchanged, and the run ends early only at an
\* entry that Replay calls not replayable or when something broke.
ReplayFaithful == R!Spec

\* Once the emulator listens the replay comes to an end, whatever the client
\* does.  It can only be kept waiting for a change of resolution, which the user
\* of the recorded client asked for and the user of this one does not.
WaitsForUser == pc = "recv" /\ Entry.type = "SETUP_RESOLUTION" /\ unread = <<>>

ReplayEnds == pc = "accept" ~> (pc \in {"done", "killed"} \/ WaitsForUser)

\* Between two documents the stream from the client is at the beginning of a
\* reply (violated: of DISPINFO_ACK and SETUP_RESOLUTION 11 of 15 words are read).
ReadsWholeReplies == pc = "next" => unread = <<>> \/ Head(unread)
=============================================================================
