----------------------------- MODULE HwcReceiver -----------------------------
(***************************************************************************)
(* VirtualHwcReceiver (source/hwc_vhal_impl.h): the client end of the      *)
(* Android hardware composer.  A work thread connects to the HWC VHAL      *)
(* server, reads its events and hands frames to the application's callback;*)
(* an API thread calls start(), stop() and the destructor; a third thread  *)
(* ("another thread handles pipe messages from client",                    *)
(* hwc_profile_log.h) calls setMode() and setVideoAlpha().  The last two   *)
(* write into one event log, under a mutex.                                *)
(*                                                                         *)
(* The byte stream is a sequence of tokens, one for each struct the server *)
(* sends with one send(): a header (display_event_t), a buffer_info_t, a   *)
(* cros_gralloc_handle, a message carrying the plane fds, a                *)
(* display_control_t.  A read that meets a token of another kind is out of *)
(* step with the stream: it returns arbitrary data and may or may not use  *)
(* the token up.                                                           *)
(***************************************************************************)
EXTENDS Naturals, Sequences

CONSTANTS
  Remote,      \* remote_handle values the server uses
  Handle,      \* cros_gralloc_handle allocations the heap can satisfy
  NoHandle,    \* nullptr; also the remote_handle of a zeroed buffer_info_t
  Events,      \* the headers the server sends (see EventKind)
  Planes,      \* base.numFds of the gralloc handles the server sends
  MaxPlanes,   \* DRV_MAX_PLANES
  LogEnabled,  \* ENABLE_PROFILE_YMLLOG is set and the log file opened
  Interrupts,  \* poll(), read(), recv() may fail (a signal: EINTR)
  MaxMsgs      \* bound: messages the server sends in a behaviour

(***************************************************************************)
(* An event kind is a header's type together with what its other fields    *)
(* decide: whether checkDispConfig accepts id and renderNode, whether the  *)
(* size announces the expected body, whether a display_control_t follows.  *)
(***************************************************************************)
EventKind == {"DISPINFO_REQ", "DISPINFO_REQ_MISMATCH", "DISPPORT_REQ",
              "CREATE_BUFFER", "CREATE_BUFFER_MISFIT", "REMOVE_BUFFER",
              "DISPLAY_REQ", "DISPLAY_REQ_CTRL", "DISPLAY_REQ_SHORT",
              "UNKNOWN"}

ASSUME HwcAssumption ==
  /\ NoHandle \notin Handle \cup Remote
  /\ Events \subseteq EventKind
  /\ MaxPlanes \in Nat \ {0}
  /\ Planes \subseteq Nat
  /\ LogEnabled \in BOOLEAN
  /\ Interrupts \in BOOLEAN
  /\ MaxMsgs \in Nat

VARIABLES
  should_continue, \* atomic<bool> should_continue_
  work,            \* program counter of the work thread; "none": not running
  api,             \* program counter of the API thread
  dtor,            \* the API thread's stop() was called by the destructor
  ret,             \* result of the last start() or stop()
  pipe,            \* program counter of the thread in setMode/setVideoAlpha
  sock,            \* socket_client_: its fd_ and connected_, and the peer
  inbox,           \* tokens sent by the server and not read yet
  outbox,          \* the rest of the message the server is sending
  created,         \* remote handles created on this connection (server side)
  msgs,            \* messages the server has sent
  ev,              \* work thread: the header being handled
  rh,              \* work thread: ev.info.remote_handle
  cur,             \* work thread: the handler's local "handle"
  numFds,          \* work thread: handle->base.numFds
  mHandles,        \* remote handle -> local handle
  heap,            \* the state of each allocation
  openFds,         \* plane fds of each handle that are open
  life,            \* what the callback has told the application of a handle
  screen,          \* the last handle given to FRAME_DISPLAY
  mutex,           \* owner of m_log_mutex
  doc              \* thread that opened the log's current YML document

apiVars    == <<should_continue, api, dtor, ret>>
streamVars == <<sock, inbox, outbox, created, msgs>>
localVars  == <<ev, rh, cur, numFds>>
frameVars  == <<mHandles, heap, openFds, life, screen>>
logVars    == <<mutex, doc>>
vars == <<apiVars, work, pipe, streamVars, localVars, frameVars, logVars>>

\* The places of the work thread between AcquireMutex and ReleaseMutex.
Handling == {"switch", "create_info", "create_gralloc", "create_fds", "insert",
             "remove_info", "remove_free", "display_info", "display_ctrl",
             "display", "ack", "unlock"}
WorkPC == Handling \cup {"none", "while", "connect", "poll", "read", "lock",
                         "exit", "done"}

\* Where CreateBuffer holds an allocation that mHandles does not know yet.
Creating == {"create_info", "create_gralloc", "create_fds", "insert"}

\* A token: the kind of a struct and what the receiver looks at in it.
TokenSet == ({"hdr"} \X EventKind) \cup ({"info"} \X Remote)
            \cup ({"gralloc"} \X Planes) \cup ({"fds", "ctrl"} \X {"-"})

ThreadType ==
  /\ should_continue \in BOOLEAN /\ dtor \in BOOLEAN
  /\ work \in WorkPC
  /\ api \in {"idle", "join", "free", "destroyed"}
  /\ ret \in {"ok", "error"}
  /\ pipe \in {"idle", "send", "lock", "log"}
  /\ mutex \in {"none", "work", "pipe"} /\ doc \in {"none", "work", "pipe"}

StreamType ==
  /\ sock \in {"closed", "unconnected", "up", "peer_closed"}
  /\ inbox \in Seq(TokenSet) /\ outbox \in Seq(TokenSet)
  /\ created \in SUBSET Remote
  /\ msgs \in 0 .. MaxMsgs

FrameType ==
  /\ ev \in EventKind
  /\ rh \in Remote \cup {NoHandle}
  /\ cur \in Handle \cup {NoHandle} /\ screen \in Handle \cup {NoHandle}
  /\ numFds \in Nat
  /\ mHandles \in [Remote -> Handle \cup {NoHandle}]
  /\ heap \in [Handle -> {"unused", "live", "freed"}]
  /\ openFds \in [Handle -> 0 .. MaxPlanes]
  /\ life \in [Handle -> {"none", "created", "removed"}]

TypeOK == ThreadType /\ StreamType /\ FrameType

Init ==
  /\ should_continue = FALSE /\ api = "idle" /\ dtor = FALSE /\ ret = "ok"
  /\ work = "none" /\ pipe = "idle"
  /\ sock = "closed" /\ inbox = <<>> /\ outbox = <<>> /\ created = {} /\ msgs = 0
  /\ ev = "UNKNOWN" /\ rh = NoHandle /\ cur = NoHandle /\ numFds = 0
  /\ mHandles = [r \in Remote |-> NoHandle]
  /\ heap = [h \in Handle |-> "unused"]
  /\ openFds = [h \in Handle |-> 0]
  /\ life = [h \in Handle |-> "none"] /\ screen = NoHandle
  /\ mutex = "none" /\ doc = "none"

-----------------------------------------------------------------------------
(* UnixStreamSocketClient.  "unconnected": a socket whose connect() failed; *)
(* its fd stays open until the next Connect or Close.                       *)

Connected == sock \in {"up", "peer_closed"}

Close ==
  /\ sock' = "closed"
  /\ inbox' = <<>>
  /\ outbox' = <<>>
  /\ UNCHANGED <<created, msgs>>

\* A server that accepts a connection knows of no buffer the client has.
Connect ==
  /\ sock' \in {"up", "unconnected"}
  /\ inbox' = <<>>
  /\ outbox' = <<>>
  /\ created' = {}
  /\ UNCHANGED msgs

\* recv() of a struct of kind k returns v.
Recv(k, v) ==
  /\ inbox # <<>>
  /\ \/ /\ Head(inbox)[1] = k
        /\ v = Head(inbox)[2]
        /\ inbox' = Tail(inbox)
     \/ /\ Head(inbox)[1] # k
        /\ inbox' \in {inbox, Tail(inbox)}
  /\ UNCHANGED <<sock, outbox, created, msgs>>

\* recv() returns 0 (the peer has gone and all it sent is read) or -1.
RecvFails ==
  /\ Interrupts \/ (sock # "up" /\ inbox = <<>>)
  /\ UNCHANGED streamVars

-----------------------------------------------------------------------------
(* ProfileLogger: AcquireMutex and LogGenericEventInfo open a document that *)
(* later Add...Struct calls write into, until ReleaseMutex.  All are no-ops *)
(* while the log is disabled.                                               *)

\* Mutant: the mutex is taken whoever holds it.
AcquireAlways(t) == IF LogEnabled THEN mutex' = t ELSE UNCHANGED mutex

AcquireMutex(t) ==
  IF LogEnabled THEN mutex = "none" /\ mutex' = t ELSE UNCHANGED mutex

ReleaseMutex == IF LogEnabled THEN mutex' = "none" ELSE UNCHANGED mutex

LogGenericEventInfo(t) == IF LogEnabled THEN doc' = t ELSE UNCHANGED doc

-----------------------------------------------------------------------------
(* The API thread: start(), stop(), ~VirtualHwcReceiver().                  *)

Start ==
  /\ api = "idle"
  /\ \/ /\ should_continue
        /\ ret' = "error"
        /\ UNCHANGED <<should_continue, work>>
     \/ /\ ~should_continue
        /\ should_continue' = TRUE
        /\ work' = "while"
        /\ ret' = "ok"
  /\ UNCHANGED <<api, dtor, pipe, streamVars, localVars, frameVars, logVars>>

Stop ==
  /\ api = "idle"
  /\ \/ /\ ~should_continue
        /\ ret' = "error"
        /\ UNCHANGED <<should_continue, api>>
     \/ /\ should_continue
        /\ should_continue' = FALSE
        /\ api' = "join"
        /\ UNCHANGED ret
  /\ UNCHANGED <<dtor, work, pipe, streamVars, localVars, frameVars, logVars>>

\* The application has no other call in flight when it destroys the object.
Destroy ==
  /\ api = "idle"
  /\ pipe = "idle"
  /\ dtor' = TRUE
  /\ should_continue' = FALSE
  /\ api' = IF should_continue THEN "join" ELSE "destroyed"
  /\ UNCHANGED <<ret, work, pipe, streamVars, localVars, frameVars, logVars>>

\* Mutant: the handles are freed without waiting for the thread.
StopNoJoin ==
  /\ api = "join"
  /\ api' = "free"
  /\ UNCHANGED <<should_continue, dtor, ret, work, pipe, streamVars, localVars,
                 frameVars, logVars>>

StopJoin ==
  /\ api = "join"
  /\ work = "done"
  /\ work' = "none"
  /\ Close
  /\ api' = "free"
  /\ UNCHANGED <<should_continue, dtor, ret, pipe, localVars, frameVars, logVars>>

\* close(lh->fds[0]); free(lh)
Free(h) ==
  /\ heap' = [heap EXCEPT ![h] = "freed"]
  /\ openFds' = [openFds EXCEPT ![h] = @ - 1]

\* One turn of the loop over mHandles; the map is cleared as it goes.
StopFree ==
  /\ api = "free"
  /\ \E r \in Remote :
       /\ mHandles[r] # NoHandle
       /\ life' = [life EXCEPT ![mHandles[r]] = "removed"]
       /\ Free(mHandles[r])
       /\ mHandles' = [mHandles EXCEPT ![r] = NoHandle]
  /\ UNCHANGED <<apiVars, work, pipe, streamVars, localVars, screen, logVars>>

StopReturn ==
  /\ api = "free"
  /\ \A r \in Remote : mHandles[r] = NoHandle
  /\ api' = IF dtor THEN "destroyed" ELSE "idle"
  /\ ret' = "ok"
  /\ UNCHANGED <<should_continue, dtor, work, pipe, streamVars, localVars,
                 frameVars, logVars>>

-----------------------------------------------------------------------------
(* setMode() and setVideoAlpha(): the same steps with another event.        *)

SetModeOrAlpha ==
  /\ pipe = "idle"
  /\ ~dtor
  /\ should_continue
  /\ pipe' = "send"
  /\ UNCHANGED <<apiVars, work, streamVars, localVars, frameVars, logVars>>

PipeSend ==
  /\ pipe = "send"
  /\ pipe' = IF sock = "up" THEN "lock" ELSE "idle"
  /\ UNCHANGED <<apiVars, work, streamVars, localVars, frameVars, logVars>>

PipeLock ==
  /\ pipe = "lock"
  /\ AcquireMutex("pipe")
  /\ LogGenericEventInfo("pipe")
  /\ pipe' = "log"
  /\ UNCHANGED <<apiVars, work, streamVars, localVars, frameVars>>

PipeLogged ==
  /\ pipe = "log"
  /\ ReleaseMutex
  /\ pipe' = "idle"
  /\ UNCHANGED <<apiVars, work, streamVars, localVars, frameVars, doc>>

-----------------------------------------------------------------------------
(* The work thread: workThreadProc() and its handlers.                      *)

\* Mutant: while (true).
WhileForever ==
  /\ work = "while"
  /\ work' = "connect"
  /\ UNCHANGED <<apiVars, pipe, streamVars, localVars, frameVars, logVars>>

WorkWhile ==
  /\ work = "while"
  /\ work' = IF should_continue THEN "connect" ELSE "exit"
  /\ UNCHANGED <<apiVars, pipe, streamVars, localVars, frameVars, logVars>>

WorkConnect ==
  /\ work = "connect"
  /\ \/ /\ Connected \/ ~should_continue
        /\ work' = "poll"
        /\ UNCHANGED streamVars
     \/ /\ ~Connected
        /\ should_continue
        /\ Connect
        /\ UNCHANGED work
  /\ UNCHANGED <<apiVars, pipe, localVars, frameVars, logVars>>

\* poll() ignores a negative fd and reports POLLHUP on an unconnected one.
Readable == inbox # <<>> \/ sock \in {"peer_closed", "unconnected"}

WorkPoll ==
  /\ work = "poll"
  /\ \/ /\ Interrupts
        /\ Close
        /\ work' = "while"
     \/ /\ ~Readable
        /\ work' = "while"
        /\ UNCHANGED streamVars
     \/ /\ Readable
        /\ work' = "read"
        /\ UNCHANGED streamVars
  /\ UNCHANGED <<apiVars, pipe, localVars, frameVars, logVars>>

WorkRead ==
  /\ work = "read"
  /\ \/ /\ RecvFails
        /\ work' = "exit"
        /\ UNCHANGED ev
     \/ /\ \E e \in EventKind : Recv("hdr", e) /\ ev' = e
        /\ work' = "lock"
  /\ UNCHANGED <<apiVars, pipe, rh, cur, numFds, frameVars, logVars>>

WorkLock ==
  /\ work = "lock"
  /\ AcquireMutex("work")
  /\ LogGenericEventInfo("work")
  /\ work' = "switch"
  /\ UNCHANGED <<apiVars, pipe, streamVars, localVars, frameVars>>

\* The switch over ev.type, up to each handler's first recv().  The ACK of a
\* display info or port request is a log document of its own; of a wrong size
\* or an unknown type the body, if any, stays in the stream.
Switch ==
  /\ work = "switch"
  /\ \/ /\ ev = "DISPINFO_REQ_MISMATCH"
        /\ ReleaseMutex /\ work' = "exit" /\ UNCHANGED doc
     \/ /\ ev \in {"DISPINFO_REQ", "DISPPORT_REQ"}
        /\ LogGenericEventInfo("work") /\ work' = "unlock" /\ UNCHANGED mutex
     \/ /\ ev \in {"CREATE_BUFFER_MISFIT", "DISPLAY_REQ_SHORT", "UNKNOWN"}
        /\ work' = "unlock" /\ UNCHANGED logVars
     \/ /\ ev = "REMOVE_BUFFER"
        /\ work' = "remove_info" /\ UNCHANGED logVars
     \/ /\ ev \in {"DISPLAY_REQ", "DISPLAY_REQ_CTRL"}
        /\ work' = "display_info" /\ UNCHANGED logVars
  /\ UNCHANGED <<apiVars, pipe, streamVars, localVars, frameVars>>

SwitchCreate ==
  /\ work = "switch"
  /\ ev = "CREATE_BUFFER"
  /\ \/ \E h \in Handle :
          /\ heap[h] = "unused"
          /\ heap' = [heap EXCEPT ![h] = "live"]
          /\ cur' = h
          /\ work' = "create_info"
     \/ /\ \A h \in Handle : heap[h] # "unused"   \* malloc() returns nullptr
        /\ work' = "unlock"
        /\ UNCHANGED <<heap, cur>>
  /\ UNCHANGED <<apiVars, pipe, streamVars, ev, rh, numFds,
                 mHandles, openFds, life, screen, logVars>>

\* CreateBuffer: every failure frees the new handle; the thread goes on.
\* Mutant: the failed handle is not freed.
FailWithoutFree == cur' = NoHandle /\ work' = "unlock" /\ UNCHANGED heap

CreateFails ==
  /\ heap' = [heap EXCEPT ![cur] = "freed"]
  /\ cur' = NoHandle
  /\ work' = "unlock"

CreateInfo ==
  /\ work = "create_info"
  /\ \/ /\ RecvFails
        /\ CreateFails
        /\ UNCHANGED rh
     \/ /\ \E r \in Remote : Recv("info", r) /\ rh' = r
        /\ work' = "create_gralloc"
        /\ UNCHANGED <<heap, cur>>
  /\ UNCHANGED <<apiVars, pipe, ev, numFds, mHandles, openFds, life, screen, logVars>>

CreateGralloc ==
  /\ work = "create_gralloc"
  /\ \/ /\ RecvFails
        /\ CreateFails
        /\ UNCHANGED numFds
     \/ /\ \E n \in Planes : Recv("gralloc", n) /\ numFds' = n
        /\ work' = "create_fds"
        /\ UNCHANGED <<heap, cur>>
  /\ UNCHANGED <<apiVars, pipe, ev, rh, mHandles, openFds, life, screen, logVars>>

\* Mutant: any count of fds is taken.
AnyFdCount(n) == n <= MaxPlanes

FdCountOk(n) == n # 0 /\ n <= MaxPlanes

\* recvFds: a bad count is refused before anything is read; a message
\* without control data carries no fds.
CreateFds ==
  /\ work = "create_fds"
  /\ \/ /\ ~FdCountOk(numFds)
        /\ CreateFails
        /\ UNCHANGED <<streamVars, openFds>>
     \/ /\ FdCountOk(numFds)
        /\ \/ RecvFails
           \/ Recv("fds", "-") /\ Head(inbox)[1] # "fds"
        /\ CreateFails
        /\ UNCHANGED openFds
     \/ /\ FdCountOk(numFds)
        /\ Recv("fds", "-")
        /\ Head(inbox)[1] = "fds"
        /\ openFds' = [openFds EXCEPT ![cur] = numFds]
        /\ work' = "insert"
        /\ UNCHANGED <<heap, cur>>
  /\ UNCHANGED <<apiVars, pipe, ev, rh, numFds, mHandles, life, screen, logVars>>

\* std::map::insert leaves an entry that is already there alone.
CreateInsert ==
  /\ work = "insert"
  /\ mHandles' = IF mHandles[rh] = NoHandle
                 THEN [mHandles EXCEPT ![rh] = cur] ELSE mHandles
  /\ life' = [life EXCEPT ![cur] = "created"]
  /\ cur' = NoHandle
  /\ work' = "unlock"
  /\ UNCHANGED <<apiVars, pipe, streamVars, ev, rh, numFds, heap, openFds,
                 screen, logVars>>

\* RemoveBuffer, up to and with the FRAME_REMOVE callback.
RemoveInfo ==
  /\ work = "remove_info"
  /\ \/ /\ RecvFails
        /\ work' = "unlock"
        /\ UNCHANGED <<rh, cur, life>>
     \/ \E r \in Remote :
          /\ Recv("info", r)
          /\ rh' = r
          /\ \/ /\ mHandles[r] = NoHandle
                /\ work' = "unlock"
                /\ UNCHANGED <<cur, life>>
             \/ /\ mHandles[r] # NoHandle
                /\ cur' = mHandles[r]
                /\ life' = [life EXCEPT ![mHandles[r]] = "removed"]
                /\ work' = "remove_free"
  /\ UNCHANGED <<apiVars, pipe, ev, numFds, mHandles, heap, openFds, screen, logVars>>

\* Mutant: the freed handle stays in mHandles.
FreeWithoutErase ==
  /\ work = "remove_free"
  /\ Free(cur)
  /\ cur' = NoHandle
  /\ work' = "unlock"
  /\ UNCHANGED <<apiVars, pipe, streamVars, ev, rh, numFds, mHandles, life, screen,
                 logVars>>

RemoveFree ==
  /\ work = "remove_free"
  /\ Free(cur)
  /\ mHandles' = [mHandles EXCEPT ![rh] = NoHandle]
  /\ cur' = NoHandle
  /\ work' = "unlock"
  /\ UNCHANGED <<apiVars, pipe, streamVars, ev, rh, numFds, life, screen, logVars>>

\* DisplayRequest: get_handle once the whole request is read.
LookUp(r) ==
  /\ cur' = mHandles[r]
  /\ work' = IF mHandles[r] = NoHandle THEN "unlock" ELSE "display"

DisplayInfo ==
  /\ work = "display_info"
  /\ \/ /\ RecvFails
        /\ work' = "unlock"
        /\ UNCHANGED <<rh, cur>>
     \/ \E r \in Remote :
          /\ Recv("info", r)
          /\ rh' = r
          /\ \/ /\ ev = "DISPLAY_REQ_CTRL"
                /\ work' = "display_ctrl"
                /\ UNCHANGED cur
             \/ /\ ev = "DISPLAY_REQ"
                /\ LookUp(r)
  /\ UNCHANGED <<apiVars, pipe, ev, numFds, frameVars, logVars>>

DisplayCtrl ==
  /\ work = "display_ctrl"
  /\ \/ /\ RecvFails
        /\ work' = "unlock"
        /\ UNCHANGED cur
     \/ /\ Recv("ctrl", "-")
        /\ LookUp(rh)
  /\ UNCHANGED <<apiVars, pipe, ev, rh, numFds, frameVars, logVars>>

DisplayCallback ==
  /\ work = "display"
  /\ screen' = cur
  /\ work' = "ack"
  /\ UNCHANGED <<apiVars, pipe, streamVars, localVars, mHandles, heap, openFds,
                 life, logVars>>

\* send(DISPLAY_ACK); only a sent one is logged, as a document of its own.
DisplayAck ==
  /\ work = "ack"
  /\ IF sock = "up" THEN LogGenericEventInfo("work") ELSE UNCHANGED doc
  /\ cur' = NoHandle
  /\ work' = "unlock"
  /\ UNCHANGED <<apiVars, pipe, streamVars, ev, rh, numFds, frameVars, mutex>>

\* The handler's locals (zeroed at their declaration) go out of scope.
WorkUnlock ==
  /\ work = "unlock"
  /\ ReleaseMutex
  /\ work' = "while"
  /\ ev' = "UNKNOWN" /\ rh' = NoHandle /\ cur' = NoHandle /\ numFds' = 0
  /\ UNCHANGED <<apiVars, pipe, streamVars, frameVars, doc>>

\* The label "error:", reached from everywhere; should_continue_ stays as is.
WorkExit ==
  /\ work = "exit"
  /\ Close
  /\ work' = "done"
  /\ UNCHANGED <<apiVars, pipe, localVars, frameVars, logVars>>

-----------------------------------------------------------------------------
(* The HWC VHAL server.  It creates a buffer at most once on a connection.  *)

Body(e, r, n) ==
  CASE e \in {"CREATE_BUFFER", "CREATE_BUFFER_MISFIT"} ->
         <<<<"info", r>>, <<"gralloc", n>>, <<"fds", "-">>>>
    [] e \in {"REMOVE_BUFFER", "DISPLAY_REQ"} -> <<<<"info", r>>>>
    [] e = "DISPLAY_REQ_CTRL" -> <<<<"info", r>>, <<"ctrl", "-">>>>
    [] OTHER -> <<>>

ServerSend ==
  /\ sock = "up"
  /\ outbox = <<>>
  /\ msgs < MaxMsgs
  /\ msgs' = msgs + 1
  /\ \E e \in Events, r \in Remote, n \in Planes :
       /\ e = "CREATE_BUFFER" => r \notin created
       /\ created' = CASE e = "CREATE_BUFFER" -> created \cup {r}
                       [] e = "REMOVE_BUFFER" -> created \ {r}
                       [] OTHER -> created
       /\ inbox' = Append(inbox, <<"hdr", e>>)
       /\ outbox' = Body(e, r, n)
  /\ UNCHANGED <<apiVars, work, pipe, sock, localVars, frameVars, logVars>>

ServerFlush ==
  /\ outbox # <<>>
  /\ inbox' = inbox \o outbox
  /\ outbox' = <<>>
  /\ UNCHANGED <<apiVars, work, pipe, sock, created, msgs, localVars, frameVars,
                 logVars>>

ServerClose ==
  /\ sock = "up"
  /\ sock' = "peer_closed"
  /\ outbox' = <<>>
  /\ UNCHANGED <<apiVars, work, pipe, inbox, created, msgs, localVars, frameVars,
                 logVars>>

Terminated == api = "destroyed" /\ UNCHANGED vars

-----------------------------------------------------------------------------
ApiReturns == StopJoin \/ StopFree \/ StopReturn

PipeReturns == PipeSend \/ PipeLock \/ PipeLogged

WorkStep ==
  \/ WorkWhile \/ WorkConnect \/ WorkPoll \/ WorkRead \/ WorkLock
  \/ Switch \/ SwitchCreate
  \/ CreateInfo \/ CreateGralloc \/ CreateFds \/ CreateInsert
  \/ RemoveInfo \/ RemoveFree
  \/ DisplayInfo \/ DisplayCtrl \/ DisplayCallback \/ DisplayAck
  \/ WorkUnlock \/ WorkExit

Next ==
  \/ Start \/ Stop \/ Destroy \/ ApiReturns
  \/ SetModeOrAlpha \/ PipeReturns
  \/ WorkStep
  \/ ServerSend \/ ServerFlush \/ ServerClose
  \/ Terminated

Spec == Init /\ [][Next]_vars

(***************************************************************************)
(* The operating system runs every thread that can run, and a call that    *)
(* has begun goes on.  The server finishes a message it has begun, unless  *)
(* it closes the connection; nothing makes it send another one.            *)
(***************************************************************************)
FairSpec ==
  /\ Spec
  /\ WF_vars(WorkStep)
  /\ WF_vars(ApiReturns)
  /\ WF_vars(PipeReturns)
  /\ WF_vars(ServerFlush)

-----------------------------------------------------------------------------
(* Safety.                                                                  *)

(***************************************************************************)
(* Every entry of mHandles is a live allocation, announced to the          *)
(* application and not yet withdrawn, except the one RemoveBuffer is       *)
(* withdrawing; and no allocation is entered twice, so that neither        *)
(* RemoveBuffer nor stop() can free a handle a second time.                *)
(***************************************************************************)
HandlesLive ==
  \A r \in Remote : mHandles[r] # NoHandle =>
    /\ heap[mHandles[r]] = "live"
    /\ \/ life[mHandles[r]] = "created"
       \/ work = "remove_free" /\ rh = r
    /\ \A q \in Remote : mHandles[q] = mHandles[r] => q = r

(***************************************************************************)
(* A handler of the work thread never holds a freed handle: stop(), which  *)
(* frees every handle from the API thread, only does so after the join.    *)
(***************************************************************************)
NoUseAfterFree ==
  work \in Creating \cup {"remove_free", "display", "ack"} =>
    /\ cur \in Handle
    /\ heap[cur] = "live"
    /\ api # "free"

(***************************************************************************)
(* stop() has returned only when the work thread is gone, so start() never *)
(* replaces the std::thread of one that still runs and no callback comes   *)
(* after stop().                                                           *)
(***************************************************************************)
StoppedMeansJoined ==
  ~should_continue /\ api # "join" => work = "none" /\ sock = "closed"

(***************************************************************************)
(* "Two threads send msgs to AiC. They both need to write to same log file *)
(* and need mutex to avoid overlap": what a thread adds to the log goes    *)
(* into the document it opened, and a thread that has left its handler (or *)
(* ended, on whatever path) has not kept the mutex.                        *)
(***************************************************************************)
LogDocumentsWhole ==
  LogEnabled =>
    /\ work \in Handling => doc = "work"
    /\ pipe = "log" => doc = "pipe"
    /\ mutex = "work" => work \in Handling
    /\ mutex = "pipe" => pipe = "log"

(***************************************************************************)
(* Every live allocation is in mHandles or in CreateBuffer's hands, so     *)
(* stop() frees all of them ("Free the buffer handles").                   *)
(***************************************************************************)
NoLeakedHandle ==
  \A h \in Handle : heap[h] = "live" =>
    \/ \E r \in Remote : mHandles[r] = h
    \/ work \in Creating /\ cur = h

(***************************************************************************)
(* The receiver implements the frame life cycle the callback promises.     *)
(***************************************************************************)
Frames == INSTANCE FrameLifecycle
FrameProtocol == Frames!Spec

-----------------------------------------------------------------------------
(* Liveness.                                                                *)

(***************************************************************************)
(* stop() and the destructor return: the work thread notices               *)
(* should_continue_ wherever it is, and is joined.                         *)
(***************************************************************************)
StopReturns == api = "join" ~> api \in {"idle", "destroyed"}
=============================================================================
