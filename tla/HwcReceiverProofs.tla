-------------------------- MODULE HwcReceiverProofs --------------------------
(***************************************************************************)
(* Theorems about HwcReceiver, for any number of buffers, planes and       *)
(* messages, with the log on or off, and however far the stream is out of  *)
(* step.  The argument is one inductive invariant, IndInv: next to the     *)
(* properties themselves it says what each handler of the work thread has  *)
(* in its hands at each of its steps.  That no handle is lost holds of a   *)
(* stream in step only, and has an invariant of its own, LeakInv.          *)
(***************************************************************************)
EXTENDS HwcReceiver, TLAPS

\* A thread is only asked to stop by the API thread, which is then in stop().
ThreadInv ==
  /\ StoppedMeansJoined
  /\ should_continue => api = "idle"

\* What the handlers hold: a new allocation nobody else knows of, or the
\* entry of mHandles for the remote handle they have read.
HandlerInv ==
  /\ work \in Creating => /\ cur \in Handle
                          /\ heap[cur] = "live"
                          /\ life[cur] = "none"
                          /\ \A r \in Remote : mHandles[r] # cur
  /\ work = "insert" => openFds[cur] # 0
  /\ work \in {"create_gralloc", "create_fds", "insert", "display_ctrl"} => rh \in Remote
  /\ work \in {"remove_free", "display", "ack"} => /\ rh \in Remote
                                                   /\ cur = mHandles[rh]
                                                   /\ cur # NoHandle

\* An entry of mHandles still has its first fd, which Free will close, and
\* an allocation that was never made was never announced.
EntryInv ==
  /\ \A r \in Remote : mHandles[r] # NoHandle => openFds[mHandles[r]] # 0
  /\ \A h \in Handle : heap[h] = "unused" => life[h] = "none"

\* The owner of the log's mutex is the thread that is writing.
MutexInv ==
  LogEnabled => /\ work \in Handling <=> mutex = "work"
                /\ pipe = "log" <=> mutex = "pipe"

IndInv ==
  /\ TypeOK
  /\ ThreadInv
  /\ HandlesLive
  /\ HandlerInv
  /\ EntryInv
  /\ MutexInv
  /\ LogDocumentsWhole

-----------------------------------------------------------------------------
\* The initial states satisfy the inductive invariant.
LEMMA InitInd == Init => IndInv
  <1> SUFFICES ASSUME Init PROVE IndInv
    OBVIOUS
  <1> USE HwcAssumption DEF Init, HwcAssumption
  <1>1. TypeOK
    <2>1. ThreadType
      BY DEF ThreadType, WorkPC
    <2>2. StreamType
      BY DEF StreamType
    <2>3. FrameType
      BY DEF FrameType, EventKind
    <2> QED
      BY <2>1, <2>2, <2>3 DEF TypeOK
  <1>2. ThreadInv
    BY DEF ThreadInv, StoppedMeansJoined
  <1>3. HandlesLive /\ HandlerInv /\ EntryInv
    BY DEF HandlesLive, HandlerInv, EntryInv, Creating
  <1>4. MutexInv /\ LogDocumentsWhole
    BY DEF MutexInv, LogDocumentsWhole, Handling
  <1> QED
    BY <1>1, <1>2, <1>3, <1>4 DEF IndInv

\* No step breaks the types of the threads' variables, nor lets stop() get
\* ahead of the work thread.
LEMMA ThreadStep == IndInv /\ [Next]_vars => (ThreadType /\ ThreadInv)'
  <1> SUFFICES ASSUME IndInv, [Next]_vars PROVE (ThreadType /\ ThreadInv)'
    OBVIOUS
  <1> USE DEF IndInv, TypeOK, ThreadType, ThreadInv, StoppedMeansJoined,
       WorkPC, Handling, vars, apiVars, streamVars, localVars, frameVars, logVars
  <1>1. CASE Start \/ Stop
    BY <1>1 DEF Start, Stop
  <1>2. CASE Destroy
    BY <1>2 DEF Destroy
  <1>3. CASE StopJoin
    BY <1>3 DEF StopJoin, Close
  <1>4. CASE StopFree \/ StopReturn
    BY <1>4 DEF StopFree, StopReturn
  <1>5. CASE SetModeOrAlpha \/ PipeSend \/ PipeLock \/ PipeLogged
    BY <1>5 DEF SetModeOrAlpha, PipeSend, PipeLock, PipeLogged, AcquireMutex,
      ReleaseMutex, LogGenericEventInfo
  <1>6. CASE \/ WorkWhile \/ WorkConnect \/ WorkPoll \/ WorkRead
             \/ WorkLock \/ Switch \/ SwitchCreate \/ WorkUnlock
             \/ WorkExit
    BY <1>6 DEF WorkWhile, WorkConnect, WorkPoll, WorkRead, WorkLock, Switch,
      SwitchCreate, WorkUnlock, WorkExit, Close, Connect, Recv, RecvFails,
      AcquireMutex, ReleaseMutex, LogGenericEventInfo
  <1>7. CASE CreateInfo \/ CreateGralloc \/ CreateFds \/ CreateInsert
    BY <1>7 DEF CreateInfo, CreateGralloc, CreateFds, CreateInsert, CreateFails,
      Recv, RecvFails
  <1>8. CASE \/ RemoveInfo \/ RemoveFree \/ DisplayInfo \/ DisplayCtrl
             \/ DisplayCallback \/ DisplayAck
    BY <1>8 DEF RemoveInfo, RemoveFree, DisplayInfo, DisplayCtrl, DisplayCallback,
      DisplayAck, LookUp, Recv, RecvFails, LogGenericEventInfo
  <1>9. CASE ServerSend \/ ServerFlush \/ ServerClose \/ Terminated
    BY <1>9 DEF ServerSend, ServerFlush, ServerClose, Terminated
  <1>10. CASE UNCHANGED vars
    BY <1>10 DEF vars
  <1> QED
    BY <1>1, <1>2, <1>3, <1>4, <1>5, <1>6, <1>7, <1>8, <1>9, <1>10 DEF Next,
      ApiReturns, PipeReturns, WorkStep

\* No step lets a thread write into the other's document or keep the mutex.
LEMMA LogStep == IndInv /\ [Next]_vars => (MutexInv /\ LogDocumentsWhole)'
  <1> SUFFICES ASSUME IndInv, [Next]_vars PROVE (MutexInv /\ LogDocumentsWhole)'
    OBVIOUS
  <1> USE DEF IndInv, TypeOK, ThreadType, MutexInv, LogDocumentsWhole,
       WorkPC, Handling, vars, apiVars, streamVars, localVars, frameVars, logVars
  <1>1. CASE \/ Start \/ Stop \/ Destroy \/ StopJoin
             \/ StopFree \/ StopReturn
    BY <1>1 DEF Start, Stop, Destroy, StopJoin, StopFree, StopReturn, ThreadInv,
      StoppedMeansJoined
  <1>2. CASE SetModeOrAlpha \/ PipeSend \/ PipeLock \/ PipeLogged
    BY <1>2 DEF SetModeOrAlpha, PipeSend, PipeLock, PipeLogged, AcquireMutex,
      ReleaseMutex, LogGenericEventInfo
  <1>3. CASE \/ WorkWhile \/ WorkConnect \/ WorkPoll \/ WorkRead
             \/ WorkLock \/ Switch \/ SwitchCreate \/ WorkUnlock
             \/ WorkExit
    BY <1>3 DEF WorkWhile, WorkConnect, WorkPoll, WorkRead, WorkLock, Switch,
      SwitchCreate, WorkUnlock, WorkExit, AcquireMutex, ReleaseMutex,
      LogGenericEventInfo
  <1>4. CASE CreateInfo \/ CreateGralloc \/ CreateFds \/ CreateInsert
    BY <1>4 DEF CreateInfo, CreateGralloc, CreateFds, CreateInsert, CreateFails
  <1>5. CASE \/ RemoveInfo \/ RemoveFree \/ DisplayInfo \/ DisplayCtrl
             \/ DisplayCallback \/ DisplayAck
    BY <1>5 DEF RemoveInfo, RemoveFree, DisplayInfo, DisplayCtrl, DisplayCallback,
      DisplayAck, LookUp, LogGenericEventInfo
  <1>6. CASE ServerSend \/ ServerFlush \/ ServerClose \/ Terminated
    BY <1>6 DEF ServerSend, ServerFlush, ServerClose, Terminated
  <1>7. CASE UNCHANGED vars
    BY <1>7 DEF vars
  <1> QED
    BY <1>1, <1>2, <1>3, <1>4, <1>5, <1>6, <1>7 DEF Next, ApiReturns, PipeReturns,
      WorkStep

\* What the server sends is a sequence of tokens.
LEMMA BodyType ==
  ASSUME NEW e \in EventKind, NEW r \in Remote, NEW n \in Planes
  PROVE  Body(e, r, n) \in Seq(TokenSet)
  <1>1. /\ <<"info", r>> \in TokenSet /\ <<"gralloc", n>> \in TokenSet
        /\ <<"fds", "-">> \in TokenSet /\ <<"ctrl", "-">> \in TokenSet
    BY DEF TokenSet
  <1> QED
    BY <1>1 DEF Body

\* The operations on the stream keep its type.
LEMMA StreamOps ==
  ASSUME StreamType
  PROVE  /\ UNCHANGED streamVars => StreamType'
         /\ Close => StreamType'
         /\ Connect => StreamType'
         /\ \A k, v : Recv(k, v) => StreamType'
  <1> USE DEF StreamType
  <1>1. UNCHANGED streamVars => StreamType'
    BY DEF streamVars
  <1>2. <<>> \in Seq(TokenSet)
    OBVIOUS
  <1>3. Close => StreamType'
    BY <1>2 DEF Close
  <1>4. Connect => StreamType'
    BY <1>2 DEF Connect
  <1>5. ASSUME NEW k, NEW v, Recv(k, v) PROVE StreamType'
    <2>1. Tail(inbox) \in Seq(TokenSet)
      BY <1>5 DEF Recv
    <2> QED
      BY <1>5, <2>1 DEF Recv
  <1> QED
    BY <1>1, <1>3, <1>4, <1>5

\* No step breaks the types of the stream.
LEMMA StreamStep == IndInv /\ [Next]_vars => StreamType'
  <1> SUFFICES ASSUME IndInv, [Next]_vars PROVE StreamType'
    OBVIOUS
  <1> USE StreamOps DEF IndInv, TypeOK
  <1>1. CASE \/ Start \/ Stop \/ Destroy \/ StopJoin
             \/ StopFree \/ StopReturn
    BY <1>1 DEF Start, Stop, Destroy, StopJoin, StopFree, StopReturn
  <1>2. CASE SetModeOrAlpha \/ PipeSend \/ PipeLock \/ PipeLogged
    BY <1>2 DEF SetModeOrAlpha, PipeSend, PipeLock, PipeLogged
  <1>3. CASE \/ WorkWhile \/ WorkConnect \/ WorkPoll \/ WorkRead
             \/ WorkLock \/ Switch \/ SwitchCreate \/ WorkUnlock
             \/ WorkExit
    BY <1>3 DEF WorkWhile, WorkConnect, WorkPoll, WorkRead, WorkLock, Switch,
      SwitchCreate, WorkUnlock, WorkExit, RecvFails
  <1>4. CASE CreateInfo \/ CreateGralloc \/ CreateFds \/ CreateInsert
    BY <1>4 DEF CreateInfo, CreateGralloc, CreateFds, CreateInsert, RecvFails
  <1>5. CASE \/ RemoveInfo \/ RemoveFree \/ DisplayInfo \/ DisplayCtrl
             \/ DisplayCallback \/ DisplayAck
    BY <1>5 DEF RemoveInfo, RemoveFree, DisplayInfo, DisplayCtrl, DisplayCallback,
      DisplayAck, RecvFails
  <1>6. CASE ServerSend
    <2>1. PICK e \in Events, r \in Remote, n \in Planes :
            /\ created' = CASE e = "CREATE_BUFFER" -> created \cup {r}
                            [] e = "REMOVE_BUFFER" -> created \ {r}
                            [] OTHER -> created
            /\ inbox' = Append(inbox, <<"hdr", e>>)
            /\ outbox' = Body(e, r, n)
      BY <1>6 DEF ServerSend
    <2>2. e \in EventKind
      BY HwcAssumption DEF HwcAssumption
    <2>3. outbox' \in Seq(TokenSet)
      BY <2>1, <2>2, BodyType
    <2>4. <<"hdr", e>> \in TokenSet
      BY <2>2 DEF TokenSet
    <2>5. inbox' \in Seq(TokenSet)
      BY <2>1, <2>4 DEF StreamType
    <2>6. created' \in SUBSET Remote
      BY <2>1 DEF StreamType
    <2>7. sock' = sock /\ msgs' \in 0 .. MaxMsgs
      BY <1>6, HwcAssumption DEF ServerSend, StreamType, HwcAssumption
    <2> QED
      BY <2>3, <2>5, <2>6, <2>7 DEF StreamType
  <1>7. CASE ServerFlush
    BY <1>7 DEF ServerFlush, StreamType
  <1>8. CASE ServerClose
    <2>1. <<>> \in Seq(TokenSet)
      OBVIOUS
    <2> QED
      BY <1>8, <2>1 DEF ServerClose, StreamType
  <1>10. CASE Terminated
    BY <1>10 DEF Terminated, vars
  <1>9. CASE UNCHANGED vars
    BY <1>9 DEF vars
  <1> QED
    BY <1>1, <1>2, <1>3, <1>4, <1>5, <1>6, <1>7, <1>8, <1>9, <1>10
      DEF Next, ApiReturns, PipeReturns, WorkStep

\* No step breaks the buffer table or what a handler holds.
LEMMA FrameStep == IndInv /\ [Next]_vars => (FrameType /\ HandlesLive /\ HandlerInv /\ EntryInv)'
  <1> SUFFICES ASSUME IndInv, [Next]_vars PROVE (FrameType /\ HandlesLive /\ HandlerInv /\ EntryInv)'
    OBVIOUS
  <1> USE HwcAssumption DEF HwcAssumption, IndInv, TypeOK, FrameType, ThreadType, WorkPC,
       HandlesLive, HandlerInv, EntryInv, Creating, Handling, vars, localVars, frameVars
  <1>1. CASE \/ Start \/ Stop \/ Destroy \/ StopJoin
             \/ StopReturn
    BY <1>1 DEF Start, Stop, Destroy, StopJoin, StopReturn, ThreadInv,
      StoppedMeansJoined
  <1>2. CASE StopFree
    BY <1>2 DEF StopFree, Free, ThreadInv, StoppedMeansJoined, apiVars
  <1>3. CASE SetModeOrAlpha \/ PipeSend \/ PipeLock \/ PipeLogged
    BY <1>3 DEF SetModeOrAlpha, PipeSend, PipeLock, PipeLogged
  <1>4. CASE \/ WorkWhile \/ WorkConnect \/ WorkPoll \/ WorkRead
             \/ WorkLock \/ Switch \/ WorkUnlock \/ WorkExit
    BY <1>4 DEF WorkWhile, WorkConnect, WorkPoll, WorkRead, WorkLock, Switch,
      WorkUnlock, WorkExit, EventKind
  <1>5. CASE SwitchCreate
    BY <1>5 DEF SwitchCreate
  <1>6. CASE CreateInfo
    BY <1>6 DEF CreateInfo, CreateFails
  <1>7. CASE CreateGralloc
    BY <1>7 DEF CreateGralloc, CreateFails
  <1>8. CASE CreateFds
    BY <1>8 DEF CreateFds, CreateFails, FdCountOk
  <1>9. CASE CreateInsert
    BY <1>9 DEF CreateInsert
  <1>10. CASE RemoveInfo
    BY <1>10 DEF RemoveInfo
  <1>11. CASE RemoveFree
    BY <1>11 DEF RemoveFree, Free
  <1>12. CASE DisplayInfo \/ DisplayCtrl
    BY <1>12 DEF DisplayInfo, DisplayCtrl, LookUp
  <1>13. CASE DisplayCallback \/ DisplayAck
    BY <1>13 DEF DisplayCallback, DisplayAck
  <1>14. CASE ServerSend \/ ServerFlush \/ ServerClose \/ Terminated
    BY <1>14 DEF ServerSend, ServerFlush, ServerClose, Terminated
  <1>15. CASE UNCHANGED vars
    BY <1>15 DEF vars
  <1> QED
    BY <1>1, <1>2, <1>3, <1>4, <1>5, <1>6, <1>7, <1>8, <1>9, <1>10, <1>11, <1>12,
      <1>13, <1>14, <1>15 DEF Next, ApiReturns, PipeReturns, WorkStep

\* IndInv is inductive.
LEMMA Inductive == Spec => []IndInv
  <1>1. IndInv /\ [Next]_vars => IndInv'
    BY ThreadStep, LogStep, StreamStep, FrameStep DEF IndInv, TypeOK
  <1> QED
    BY InitInd, <1>1, PTL DEF Spec

-----------------------------------------------------------------------------
(***************************************************************************)
(* Every reachable state is well typed; in particular no buffer has more   *)
(* plane fds than handle->fds has room for, and none is closed that was    *)
(* not received (recvFds, RemoveBuffer, stop).                             *)
(***************************************************************************)
THEOREM TypeCorrect == Spec => []TypeOK
  <1>1. IndInv => TypeOK
    BY DEF IndInv
  <1> QED
    BY Inductive, <1>1, PTL

(***************************************************************************)
(* mHandles never holds a freed, unannounced or doubly entered handle      *)
(* (CreateBuffer, RemoveBuffer, stop).                                     *)
(***************************************************************************)
THEOREM HandlesStayLive == Spec => []HandlesLive
  <1>1. IndInv => HandlesLive
    BY DEF IndInv
  <1> QED
    BY Inductive, <1>1, PTL

(***************************************************************************)
(* No handler of the work thread touches a freed handle, whatever the      *)
(* moment stop() is called at.                                             *)
(***************************************************************************)
THEOREM HandlersSafe == Spec => []NoUseAfterFree
  <1>1. IndInv => NoUseAfterFree
    BY DEF IndInv, ThreadInv, StoppedMeansJoined, HandlesLive, HandlerInv, TypeOK,
           FrameType, ThreadType, NoUseAfterFree, Creating
  <1> QED
    BY Inductive, <1>1, PTL

(***************************************************************************)
(* When stop() has returned the work thread has ended and the socket is    *)
(* closed (start, stop, workThreadProc).                                   *)
(***************************************************************************)
THEOREM StopJoins == Spec => []StoppedMeansJoined
  <1>1. IndInv => StoppedMeansJoined
    BY DEF IndInv, ThreadInv
  <1> QED
    BY Inductive, <1>1, PTL

(***************************************************************************)
(* The two threads that log never write into each other's document and     *)
(* leave the mutex free on every path (ProfileLogger).                     *)
(***************************************************************************)
THEOREM LogSafe == Spec => []LogDocumentsWhole
  <1>1. IndInv => LogDocumentsWhole
    BY DEF IndInv
  <1> QED
    BY Inductive, <1>1, PTL

(***************************************************************************)
(* The receiver implements FrameLifecycle: each callback it makes is a     *)
(* step the abstract frame life cycle allows.                              *)
(***************************************************************************)
THEOREM ImplementsFrameLifecycle == Spec => FrameProtocol
  <1>1. Init => Frames!Init
    BY DEF Init, Frames!Init
  <1>2. IndInv /\ [Next]_vars => [Frames!Next]_Frames!absVars
    <2> SUFFICES ASSUME IndInv, [Next]_vars
                 PROVE  Frames!Next \/ UNCHANGED <<life, screen>>
      BY DEF Frames!absVars
    <2> USE DEF IndInv, TypeOK, FrameType, vars, frameVars
    <2>1. CASE CreateInsert
      <3>1. cur \in Handle /\ life[cur] = "none"
        BY <2>1 DEF CreateInsert, HandlerInv, Creating
      <3>2. Frames!Create(cur)
        BY <2>1, <3>1 DEF CreateInsert, Frames!Create
      <3> QED
        BY <3>1, <3>2 DEF Frames!Next
    <2>2. CASE RemoveInfo
      <3>1. CASE UNCHANGED <<life, screen>>
        BY <3>1
      <3>2. CASE ~UNCHANGED <<life, screen>>
        <4>1. PICK r \in Remote : /\ mHandles[r] # NoHandle
                                  /\ life' = [life EXCEPT ![mHandles[r]] = "removed"]
                                  /\ UNCHANGED screen
          BY <2>2, <3>2 DEF RemoveInfo
        <4>2. mHandles[r] \in Handle /\ life[mHandles[r]] = "created"
          BY <2>2, <4>1 DEF RemoveInfo, HandlesLive
        <4>3. Frames!Remove(mHandles[r])
          BY <4>1, <4>2 DEF Frames!Remove
        <4> QED
          BY <4>2, <4>3 DEF Frames!Next
      <3> QED
        BY <3>1, <3>2
    <2>3. CASE StopFree
      <3>1. PICK r \in Remote : /\ mHandles[r] # NoHandle
                                /\ life' = [life EXCEPT ![mHandles[r]] = "removed"]
                                /\ UNCHANGED screen
        BY <2>3 DEF StopFree
      <3>2. work # "remove_free"
        BY <2>3 DEF StopFree, ThreadInv, StoppedMeansJoined, ThreadType
      <3>3. mHandles[r] \in Handle /\ life[mHandles[r]] = "created"
        BY <3>1, <3>2 DEF HandlesLive
      <3>4. Frames!Remove(mHandles[r])
        BY <3>1, <3>3 DEF Frames!Remove
      <3> QED
        BY <3>3, <3>4 DEF Frames!Next
    <2>4. CASE DisplayCallback
      <3>1. cur \in Handle /\ life[cur] = "created"
        BY <2>4 DEF DisplayCallback, HandlerInv, HandlesLive
      <3>2. Frames!Display(cur)
        BY <2>4, <3>1 DEF DisplayCallback, Frames!Display
      <3> QED
        BY <3>1, <3>2 DEF Frames!Next
    <2>5. CASE \/ Start \/ Stop \/ Destroy \/ StopJoin \/ StopReturn
               \/ SetModeOrAlpha \/ PipeReturns
               \/ ServerSend \/ ServerFlush \/ ServerClose \/ Terminated
      BY <2>5 DEF Start, Stop, Destroy, StopJoin, StopReturn, SetModeOrAlpha, PipeReturns,
        PipeSend, PipeLock, PipeLogged, ServerSend, ServerFlush, ServerClose, Terminated
    <2>6. CASE \/ WorkWhile \/ WorkConnect \/ WorkPoll \/ WorkRead \/ WorkLock
               \/ Switch \/ SwitchCreate \/ CreateInfo \/ CreateGralloc \/ CreateFds
               \/ RemoveFree \/ DisplayInfo \/ DisplayCtrl \/ DisplayAck
               \/ WorkUnlock \/ WorkExit
      BY <2>6 DEF WorkWhile, WorkConnect, WorkPoll, WorkRead, WorkLock, Switch,
        SwitchCreate, CreateInfo, CreateGralloc, CreateFds, RemoveFree, DisplayInfo,
        DisplayCtrl, DisplayAck, WorkUnlock, WorkExit
    <2>7. CASE UNCHANGED vars
      BY <2>7
    <2> QED
      BY <2>1, <2>2, <2>3, <2>4, <2>5, <2>6, <2>7 DEF Next, ApiReturns, WorkStep
  <1> QED
    BY Inductive, <1>1, <1>2, PTL DEF Spec, FrameProtocol, Frames!Spec

-----------------------------------------------------------------------------
(***************************************************************************)
(* No handle is lost.  A stream is in step when a reader that knows what   *)
(* comes next can take its tokens one by one: Leads is that reader, Reads  *)
(* its way through a sequence of tokens.                                   *)
(***************************************************************************)

\* The events that have a body, which begins with a buffer_info_t.
Bodied == {"CREATE_BUFFER", "REMOVE_BUFFER", "DISPLAY_REQ", "DISPLAY_REQ_CTRL"}

Behind(e) == IF e \in Bodied THEN e ELSE "hdr"

\* At place p, with the buffers x, a token of kind k and value v leads to place
\* q and the buffers y.  A buffer is created only if it is not there.
Leads(p, x, k, v, q, y) ==
  \/ p = "hdr" /\ k = "hdr" /\ q = Behind(v) /\ y = x
  \/ p = "CREATE_BUFFER" /\ k = "info" /\ v \notin x /\ q = "gralloc" /\ y = x \cup {v}
  \/ p = "REMOVE_BUFFER" /\ k = "info" /\ q = "hdr" /\ y = x \ {v}
  \/ p = "DISPLAY_REQ" /\ k = "info" /\ q = "hdr" /\ y = x
  \/ p = "DISPLAY_REQ_CTRL" /\ k = "info" /\ q = "ctrl" /\ y = x
  \/ p = "gralloc" /\ k = "gralloc" /\ FdCountOk(v) /\ q = "fds" /\ y = x
  \/ p = "fds" /\ k = "fds" /\ q = "hdr" /\ y = x
  \/ p = "ctrl" /\ k = "ctrl" /\ q = "hdr" /\ y = x

\* From place a with the buffers x, through the tokens of s, to b and y.
Reads(a, x, s, b, y) ==
  \E p, g :
    /\ p[0] = a /\ g[0] = x
    /\ \A i \in 1 .. Len(s) : Leads(p[i - 1], g[i - 1], s[i][1], s[i][2], p[i], g[i])
    /\ p[Len(s)] = b /\ g[Len(s)] = y

\* Nothing is read.
LEMMA ReadsNone ==
  ASSUME NEW a, NEW x
  PROVE  Reads(a, x, <<>>, a, x)
<1> DEFINE p == [i \in Nat |-> a]
           g == [i \in Nat |-> x]
<1>1. /\ p[0] = a /\ g[0] = x /\ Len(<<>>) = 0
      /\ \A i \in 1 .. Len(<<>>) : Leads(p[i - 1], g[i - 1], <<>>[i][1], <<>>[i][2], p[i], g[i])
  OBVIOUS
<1> QED BY <1>1 DEF Reads

\* One token.
LEMMA ReadsOne ==
  ASSUME NEW a, NEW x, NEW b, NEW y, NEW k, NEW v, Leads(a, x, k, v, b, y)
  PROVE  Reads(a, x, <<<<k, v>>>>, b, y)
<1> DEFINE p == [i \in Nat |-> IF i = 0 THEN a ELSE b]
           g == [i \in Nat |-> IF i = 0 THEN x ELSE y]
           s == <<<<k, v>>>>
<1>1. p[0] = a /\ g[0] = x /\ p[1] = b /\ g[1] = y /\ Len(s) = 1 /\ s[1] = <<k, v>>
  OBVIOUS
<1>2. \A i \in 1 .. Len(s) : i = 1 /\ i - 1 = 0
  BY <1>1
<1> HIDE DEF p, g, s
<1>3. \A i \in 1 .. Len(s) : Leads(p[i - 1], g[i - 1], s[i][1], s[i][2], p[i], g[i])
  BY <1>1, <1>2
<1>4. Reads(a, x, s, b, y)
  BY <1>1, <1>3 DEF Reads
<1> QED BY <1>4 DEF s

\* What is read first, and the rest.
LEMMA ReadsFirst ==
  ASSUME NEW S, NEW s \in Seq(S), s # <<>>, NEW a, NEW x, NEW b, NEW y, Reads(a, x, s, b, y)
  PROVE  \E q, z : Leads(a, x, s[1][1], s[1][2], q, z) /\ Reads(q, z, Tail(s), b, y)
<1>1. PICK p, g : /\ p[0] = a /\ g[0] = x
                  /\ \A i \in 1 .. Len(s) : Leads(p[i - 1], g[i - 1], s[i][1], s[i][2], p[i], g[i])
                  /\ p[Len(s)] = b /\ g[Len(s)] = y
  BY DEF Reads
<1>2. /\ Len(s) \in Nat /\ Len(s) # 0 /\ Len(Tail(s)) = Len(s) - 1
      /\ \A i \in 1 .. Len(Tail(s)) : Tail(s)[i] = s[i + 1]
  OBVIOUS
<1> DEFINE t == Tail(s)
           n == Len(t)
           h == [i \in Nat |-> p[i + 1]]
           f == [i \in Nat |-> g[i + 1]]
<1>3. /\ n \in Nat /\ n + 1 = Len(s) /\ \A i \in 1 .. n : t[i] = s[i + 1]
      /\ \A i \in Nat : h[i] = p[i + 1] /\ f[i] = g[i + 1]
  BY <1>2
<1> HIDE DEF t, n, h, f
<1>4. Leads(a, x, s[1][1], s[1][2], p[1], g[1])
  BY <1>1, <1>2
<1>5. h[0] = p[1] /\ f[0] = g[1] /\ h[n] = b /\ f[n] = y
  BY <1>1, <1>3
<1>6. ASSUME NEW i \in 1 .. n
      PROVE  Leads(h[i - 1], f[i - 1], t[i][1], t[i][2], h[i], f[i])
  <2>0. n \in Nat /\ Len(s) \in Nat /\ n + 1 = Len(s)
    BY <1>2, <1>3
  <2>1. i + 1 \in 1 .. Len(s) /\ (i + 1) - 1 = i /\ i - 1 \in Nat /\ (i - 1) + 1 = i /\ i \in Nat
    BY ONLY <2>0, i \in 1 .. n
  <2>2. Leads(p[i], g[i], s[i + 1][1], s[i + 1][2], p[i + 1], g[i + 1])
    BY <1>1, <2>1
  <2>3. h[i - 1] = p[i] /\ f[i - 1] = g[i] /\ h[i] = p[i + 1] /\ f[i] = g[i + 1] /\ t[i] = s[i + 1]
    BY <1>3, <2>1
  <2> QED BY <2>2, <2>3
<1>7. Reads(p[1], g[1], t, b, y)
  BY <1>5, <1>6 DEF Reads, n
<1> QED BY <1>4, <1>7 DEF t

\* Two sequences, one after the other.
LEMMA ReadsOn ==
  ASSUME NEW S, NEW s \in Seq(S), NEW t \in Seq(S), NEW a, NEW x, NEW b, NEW y, NEW c, NEW z,
         Reads(a, x, s, b, y), Reads(b, y, t, c, z)
  PROVE  Reads(a, x, s \o t, c, z)
<1>1. PICK p, g : /\ p[0] = a /\ g[0] = x
                  /\ \A i \in 1 .. Len(s) : Leads(p[i - 1], g[i - 1], s[i][1], s[i][2], p[i], g[i])
                  /\ p[Len(s)] = b /\ g[Len(s)] = y
  BY DEF Reads
<1>2. PICK h, f : /\ h[0] = b /\ f[0] = y
                  /\ \A i \in 1 .. Len(t) : Leads(h[i - 1], f[i - 1], t[i][1], t[i][2], h[i], f[i])
                  /\ h[Len(t)] = c /\ f[Len(t)] = z
  BY DEF Reads
<1> DEFINE m == Len(s)
           n == Len(t)
           u == s \o t
           d == [i \in Nat |-> IF i <= m THEN p[i] ELSE h[i - m]]
           e == [i \in Nat |-> IF i <= m THEN g[i] ELSE f[i - m]]
<1>3. /\ m \in Nat /\ n \in Nat /\ Len(u) = m + n
      /\ \A i \in 1 .. m : u[i] = s[i]
      /\ \A i \in m + 1 .. m + n : u[i] = t[i - m]
  OBVIOUS
<1>4. /\ \A i \in Nat : i <= m => d[i] = p[i] /\ e[i] = g[i]
      /\ \A i \in Nat : i > m => d[i] = h[i - m] /\ e[i] = f[i - m]
  BY <1>3
<1> HIDE DEF d, e, u, m, n
<1>5. d[0] = a /\ e[0] = x
  BY <1>1, <1>3, <1>4
<1>6. d[m + n] = c /\ e[m + n] = z
  <2>1. CASE n = 0
    <3>1. p[m] = b /\ g[m] = y /\ h[0] = c /\ f[0] = z
      BY <1>1, <1>2, <2>1 DEF m, n
    <3> QED BY <1>2, <1>3, <1>4, <2>1, <3>1
  <2>2. CASE n # 0
    <3>1. m + n > m /\ (m + n) - m = n /\ m + n \in Nat
      BY <1>3, <2>2
    <3> QED BY <1>2, <1>4, <3>1 DEF n
  <2> QED BY <2>1, <2>2
<1>7. ASSUME NEW i \in 1 .. Len(u)
      PROVE  Leads(d[i - 1], e[i - 1], u[i][1], u[i][2], d[i], e[i])
  <2>1. CASE i <= m
    <3>1. i \in 1 .. m /\ i - 1 \in Nat /\ i - 1 <= m /\ i \in Nat
      BY <1>3, <2>1
    <3> QED BY <1>1, <1>3, <1>4, <2>1, <3>1 DEF m
  <2>2. CASE i > m
    <3>1. /\ i - m \in 1 .. n /\ i \in m + 1 .. m + n /\ i \in Nat /\ i - 1 \in Nat
          /\ (i - m) - 1 = (i - 1) - m
      BY <1>3, <2>2
    <3>2. d[i - 1] = h[(i - m) - 1] /\ e[i - 1] = f[(i - m) - 1]
      <4>1. CASE i - 1 = m
        <5>1. (i - m) - 1 = 0
          BY <1>3, <3>1, <4>1
        <5> QED BY <1>1, <1>2, <1>3, <1>4, <4>1, <5>1 DEF m
      <4>2. CASE i - 1 > m
        BY <1>4, <3>1, <4>2
      <4> QED BY <1>3, <2>2, <4>1, <4>2
    <3>3. Leads(h[(i - m) - 1], f[(i - m) - 1], t[i - m][1], t[i - m][2], h[i - m], f[i - m])
      BY <1>2, <3>1 DEF n
    <3> QED BY <1>3, <1>4, <2>2, <3>1, <3>2, <3>3
  <2> QED BY <1>3, <2>1, <2>2
<1>8. Reads(a, x, u, c, z)
  BY <1>3, <1>5, <1>6, <1>7 DEF Reads
<1> QED BY <1>8 DEF u

\* A sequence that is cut.
LEMMA ReadsCut ==
  ASSUME NEW S, NEW s \in Seq(S), NEW t \in Seq(S), NEW a, NEW x, NEW c, NEW z,
         Reads(a, x, s \o t, c, z)
  PROVE  \E b, y : Reads(a, x, s, b, y)
<1> DEFINE u == s \o t
<1>1. PICK p, g : /\ p[0] = a /\ g[0] = x
                  /\ \A i \in 1 .. Len(u) : Leads(p[i - 1], g[i - 1], u[i][1], u[i][2], p[i], g[i])
  BY DEF Reads
<1>2. Len(s) \in Nat /\ \A i \in 1 .. Len(s) : i \in 1 .. Len(u) /\ u[i] = s[i]
  OBVIOUS
<1> HIDE DEF u
<1>3. \A i \in 1 .. Len(s) : Leads(p[i - 1], g[i - 1], s[i][1], s[i][2], p[i], g[i])
  BY <1>1, <1>2
<1>4. Reads(a, x, s, p[Len(s)], g[Len(s)])
  BY <1>1, <1>3 DEF Reads
<1> QED BY <1>4

-----------------------------------------------------------------------------
(* The work thread as such a reader.                                        *)

\* What the work thread expects next.
Place ==
  CASE work \in {"lock", "switch", "create_info", "remove_info", "display_info"} -> Behind(ev)
    [] work = "create_gralloc" -> "gralloc"
    [] work = "create_fds" -> "fds"
    [] work = "display_ctrl" -> "ctrl"
    [] OTHER -> "hdr"

\* The places where CreateBuffer has read the remote handle.
Named == {"create_gralloc", "create_fds", "insert"}

\* The buffers it has, once the message at hand is dealt with.
Held == {r \in Remote : \/ mHandles[r] # NoHandle /\ ~(work = "remove_free" /\ rh = r)
                        \/ work \in Named /\ rh = r}

\* A reader at place a with the buffers x can read what is under way, and has
\* what the server has created when it has read it all.
Tracks(a, x) ==
  \E b, y : /\ Reads(a, x, inbox \o outbox, b, y)
            /\ sock = "up" => b = "hdr" /\ y = created

\* The server keeps to the protocol and no call is interrupted: the sizes and
\* counts it sends are the ones that the receiver takes.
Conforming ==
  /\ ~Interrupts
  /\ "CREATE_BUFFER_MISFIT" \notin Events
  /\ \A n \in Planes : FdCountOk(n)

\* Which event a handler deals with.
CaseInv ==
  /\ work = "create_info" => ev = "CREATE_BUFFER"
  /\ work = "remove_info" => ev = "REMOVE_BUFFER"
  /\ work = "display_info" => ev \in {"DISPLAY_REQ", "DISPLAY_REQ_CTRL"}
  /\ work = "create_fds" => FdCountOk(numFds)

\* A lost connection has nothing to read; a new one begins with no buffers.
LinkInv ==
  /\ sock # "up" => outbox = <<>>
  /\ ~Connected => inbox = <<>>
  /\ ~Connected /\ work \notin {"none", "done"} => Held = {}
  /\ work = "none" /\ api # "free" => Held = {}

\* CreateBuffer finds no entry for the buffer it was told of.
FreshInv == work \in Named => mHandles[rh] = NoHandle

LeakInv ==
  /\ Tracks(Place, Held)
  /\ CaseInv
  /\ LinkInv
  /\ FreshInv
  /\ NoLeakedHandle

\* The work thread has no body to read behind these.
LEMMA BehindOthers ==
  \A e \in EventKind \ Bodied : Behind(e) = "hdr"
BY DEF Behind

\* Reading moves Tracks along the stream: the token is of the kind expected.
LEMMA Received ==
  ASSUME StreamType, NEW a, NEW x, Tracks(a, x), NEW k, NEW v, Recv(k, v),
         \A l, w, q, z : Leads(a, x, l, w, q, z) => l = k
  PROVE  /\ Head(inbox)[1] = k /\ v = Head(inbox)[2] /\ inbox # <<>>
         /\ \E q, z : Leads(a, x, k, v, q, z) /\ Tracks(q, z)'
<1>0. /\ inbox \in Seq(TokenSet) /\ outbox \in Seq(TokenSet) /\ inbox # <<>>
      /\ UNCHANGED <<sock, outbox, created>>
  BY DEF StreamType, Recv
<1> DEFINE s == inbox \o outbox
<1>1. PICK b, y : Reads(a, x, s, b, y) /\ (sock = "up" => b = "hdr" /\ y = created)
  BY DEF Tracks
<1>2. s \in Seq(TokenSet) /\ s # <<>> /\ s[1] = Head(inbox) /\ Tail(s) = Tail(inbox) \o outbox
  BY <1>0
<1> HIDE DEF s
<1>3. PICK q, z : Leads(a, x, s[1][1], s[1][2], q, z) /\ Reads(q, z, Tail(s), b, y)
  BY <1>1, <1>2, ReadsFirst
<1>4. Head(inbox)[1] = k
  BY <1>2, <1>3
<1>5. v = Head(inbox)[2] /\ inbox' = Tail(inbox)
  BY <1>4 DEF Recv
<1>6. Tracks(q, z)'
  BY <1>0, <1>1, <1>2, <1>3, <1>5 DEF Tracks
<1> QED BY <1>0, <1>2, <1>3, <1>4, <1>5, <1>6

\* What leaves the stream alone does not move it.
LEMMA TracksSame ==
  ASSUME UNCHANGED <<inbox, outbox, sock, created>>, NEW a, NEW x, Tracks(a, x)
  PROVE  Tracks(a, x)'
BY DEF Tracks

\* A message of the server, from its header to the end of its body.
LEMMA MessageReads ==
  ASSUME Conforming, NEW e \in Events, NEW r \in Remote, NEW n \in Planes, NEW x,
         e = "CREATE_BUFFER" => r \notin x
  PROVE  Reads("hdr", x, <<<<"hdr", e>>>> \o Body(e, r, n), "hdr",
               CASE e = "CREATE_BUFFER" -> x \cup {r}
                 [] e = "REMOVE_BUFFER" -> x \ {r}
                 [] OTHER -> x)
<1>1. Reads("hdr", x, <<<<"hdr", e>>>>, Behind(e), x)
  BY ReadsOne DEF Leads
<1>2. /\ <<"info", r>> \in TokenSet /\ <<"gralloc", n>> \in TokenSet
      /\ <<"fds", "-">> \in TokenSet /\ <<"ctrl", "-">> \in TokenSet
      /\ <<"hdr", e>> \in TokenSet /\ e \in EventKind /\ FdCountOk(n)
      /\ e # "CREATE_BUFFER_MISFIT"
  BY HwcAssumption DEF TokenSet, HwcAssumption, Conforming
<1>3. <<<<"hdr", e>>>> \in Seq(TokenSet)
  BY <1>2
<1>4. CASE e = "CREATE_BUFFER"
  <2>1. Reads("CREATE_BUFFER", x, <<<<"info", r>>>>, "gralloc", x \cup {r})
    BY <1>4, ReadsOne DEF Leads
  <2>2. Reads("gralloc", x \cup {r}, <<<<"gralloc", n>>>>, "fds", x \cup {r})
    BY <1>2, ReadsOne DEF Leads
  <2>3. Reads("fds", x \cup {r}, <<<<"fds", "-">>>>, "hdr", x \cup {r})
    BY ReadsOne DEF Leads
  <2>4. /\ <<<<"info", r>>>> \in Seq(TokenSet) /\ <<<<"gralloc", n>>>> \in Seq(TokenSet)
        /\ <<<<"fds", "-">>>> \in Seq(TokenSet)
        /\ <<<<"info", r>>>> \o <<<<"gralloc", n>>>> \in Seq(TokenSet)
    BY <1>2
  <2>5. Reads("CREATE_BUFFER", x, <<<<"info", r>>>> \o <<<<"gralloc", n>>>>, "fds", x \cup {r})
    BY <2>1, <2>2, <2>4, ReadsOn
  <2>6. Reads("CREATE_BUFFER", x, (<<<<"info", r>>>> \o <<<<"gralloc", n>>>>) \o <<<<"fds", "-">>>>,
              "hdr", x \cup {r})
    BY <2>3, <2>4, <2>5, ReadsOn
  <2>7. Body(e, r, n) = (<<<<"info", r>>>> \o <<<<"gralloc", n>>>>) \o <<<<"fds", "-">>>>
    BY <1>4 DEF Body
  <2>8. Behind(e) = "CREATE_BUFFER" /\ Body(e, r, n) \in Seq(TokenSet)
    BY <1>2, <1>4, BodyType DEF Behind, Bodied
  <2>9. Reads("hdr", x, <<<<"hdr", e>>>> \o Body(e, r, n), "hdr", x \cup {r})
    BY <1>1, <1>3, <2>6, <2>7, <2>8, ReadsOn
  <2> QED BY <1>4, <2>9
<1>5. CASE e = "DISPLAY_REQ_CTRL"
  <2>1. Reads("DISPLAY_REQ_CTRL", x, <<<<"info", r>>>>, "ctrl", x)
    BY ReadsOne DEF Leads
  <2>2. Reads("ctrl", x, <<<<"ctrl", "-">>>>, "hdr", x)
    BY ReadsOne DEF Leads
  <2>3. <<<<"info", r>>>> \in Seq(TokenSet) /\ <<<<"ctrl", "-">>>> \in Seq(TokenSet)
    BY <1>2
  <2>4. Reads("DISPLAY_REQ_CTRL", x, <<<<"info", r>>>> \o <<<<"ctrl", "-">>>>, "hdr", x)
    BY <2>1, <2>2, <2>3, ReadsOn
  <2>5. Body(e, r, n) = <<<<"info", r>>>> \o <<<<"ctrl", "-">>>>
    BY <1>5 DEF Body
  <2>6. Behind(e) = "DISPLAY_REQ_CTRL" /\ Body(e, r, n) \in Seq(TokenSet)
    BY <1>2, <1>5, BodyType DEF Behind, Bodied
  <2>7. Reads("hdr", x, <<<<"hdr", e>>>> \o Body(e, r, n), "hdr", x)
    BY <1>1, <1>3, <2>4, <2>5, <2>6, ReadsOn
  <2> QED BY <1>5, <2>7
<1>6. CASE e \in {"REMOVE_BUFFER", "DISPLAY_REQ"}
  <2>1. Reads(e, x, <<<<"info", r>>>>, "hdr", IF e = "REMOVE_BUFFER" THEN x \ {r} ELSE x)
    BY <1>6, ReadsOne DEF Leads
  <2>2. Body(e, r, n) = <<<<"info", r>>>> /\ Behind(e) = e /\ Body(e, r, n) \in Seq(TokenSet)
    BY <1>2, <1>6, BodyType DEF Body, Behind, Bodied
  <2>3. Reads("hdr", x, <<<<"hdr", e>>>> \o Body(e, r, n), "hdr",
              IF e = "REMOVE_BUFFER" THEN x \ {r} ELSE x)
    BY <1>1, <1>3, <2>1, <2>2, ReadsOn
  <2> QED BY <1>6, <2>3
<1>7. CASE e \notin Bodied
  <2>1. Body(e, r, n) = <<>> /\ Behind(e) = "hdr"
    BY <1>2, <1>7 DEF Body, Behind, Bodied
  <2>2. <<<<"hdr", e>>>> \o <<>> = <<<<"hdr", e>>>>
    OBVIOUS
  <2> QED BY <1>1, <1>7, <2>1, <2>2 DEF Bodied
<1> QED BY <1>4, <1>5, <1>6, <1>7 DEF Bodied

\* A header and its body, sent one after the other.
LEMMA HeaderJoins ==
  ASSUME NEW S, NEW s \in Seq(S), NEW c \in S, NEW t \in Seq(S)
  PROVE  Append(s, c) \o t = s \o (<<c>> \o t)
OBVIOUS

\* An empty stream suits any reader, if it is a new connection's one without
\* buffers at a header.
LEMMA TracksNone ==
  ASSUME inbox' = <<>>, outbox' = <<>>, NEW a, NEW x, sock' = "up" => a = "hdr" /\ x = created'
  PROVE  Tracks(a, x)'
<1>1. <<>> \o <<>> = <<>>
  OBVIOUS
<1>2. Reads(a, x, inbox' \o outbox', a, x)
  BY <1>1, ReadsNone
<1> QED BY <1>2 DEF Tracks

\* The server extends the stream by whole messages, or cuts it and is gone.
LEMMA ServerTracks ==
  ASSUME Conforming, StreamType, NEW a, NEW x, Tracks(a, x), ServerSend \/ ServerFlush \/ ServerClose
  PROVE  Tracks(a, x)'
<1>0. inbox \in Seq(TokenSet) /\ outbox \in Seq(TokenSet)
  BY DEF StreamType
<1>1. PICK b, y : Reads(a, x, inbox \o outbox, b, y) /\ (sock = "up" => b = "hdr" /\ y = created)
  BY DEF Tracks
<1>2. CASE ServerSend
  <2>1. PICK e \in Events, r \in Remote, n \in Planes :
          /\ e = "CREATE_BUFFER" => r \notin created
          /\ created' = CASE e = "CREATE_BUFFER" -> created \cup {r}
                          [] e = "REMOVE_BUFFER" -> created \ {r}
                          [] OTHER -> created
          /\ inbox' = Append(inbox, <<"hdr", e>>)
          /\ outbox' = Body(e, r, n)
    BY <1>2 DEF ServerSend
  <2> DEFINE m == <<<<"hdr", e>>>> \o Body(e, r, n)
  <2>2. e \in EventKind /\ <<"hdr", e>> \in TokenSet
    BY HwcAssumption DEF HwcAssumption, TokenSet
  <2>3. Body(e, r, n) \in Seq(TokenSet)
    BY <2>2, BodyType
  <2>4. m \in Seq(TokenSet) /\ inbox' \o outbox' = inbox \o m
    <3>1. m \in Seq(TokenSet)
      BY <2>2, <2>3
    <3> DEFINE c == <<"hdr", e>>
               t == Body(e, r, n)
    <3>2. Append(inbox, c) \o t = inbox \o (<<c>> \o t)
      <4> HIDE DEF c, t
      <4>1. c \in TokenSet /\ t \in Seq(TokenSet)
        BY <2>2, <2>3 DEF c, t
      <4> QED BY <1>0, <4>1, HeaderJoins
    <3> QED BY <2>1, <3>1, <3>2
  <2>5. sock = "up" /\ sock' = sock /\ outbox = <<>> /\ inbox \o outbox = inbox
    BY <1>0, <1>2 DEF ServerSend
  <2>6. Reads(a, x, inbox, "hdr", created)
    BY <1>1, <2>5
  <2>7. Reads("hdr", created, m, "hdr", created')
    BY <2>1, MessageReads
  <2> HIDE DEF m
  <2>8. Reads(a, x, inbox \o m, "hdr", created')
    BY <1>0, <2>4, <2>6, <2>7, ReadsOn
  <2> QED BY <2>4, <2>5, <2>8 DEF Tracks
<1>3. CASE ServerFlush
  <2>1. UNCHANGED <<sock, created>> /\ inbox' = inbox \o outbox /\ outbox' = <<>>
    BY <1>3 DEF ServerFlush
  <2>2. inbox' \o outbox' = inbox \o outbox
    BY <1>0, <2>1
  <2> QED BY <1>1, <2>1, <2>2 DEF Tracks
<1>4. CASE ServerClose
  <2>1. sock' = "peer_closed" /\ inbox' = inbox /\ outbox' = <<>>
    BY <1>4 DEF ServerClose
  <2>2. inbox' \o outbox' = inbox
    BY <1>0, <2>1
  <2>3. \E c, z : Reads(a, x, inbox, c, z)
    BY <1>0, <1>1, ReadsCut
  <2> QED BY <2>1, <2>2, <2>3 DEF Tracks
<1> QED BY <1>2, <1>3, <1>4

\* Where the thread is and what it has depend on its own variables only.
LEMMA ReaderSame ==
  ASSUME UNCHANGED <<work, ev, rh, mHandles>>
  PROVE  Place' = Place /\ Held' = Held
BY DEF Place, Held

-----------------------------------------------------------------------------
(* Every step keeps LeakInv.                                                *)

\* The API thread.
LEMMA LeakApi ==
  ASSUME IndInv, LeakInv, Start \/ Stop \/ Destroy \/ ApiReturns
  PROVE  LeakInv'
<1> USE DEF IndInv, TypeOK
<1>0. /\ mHandles \in [Remote -> Handle \cup {NoHandle}] /\ heap \in [Handle -> {"unused", "live", "freed"}]
      /\ NoHandle \notin Handle
  BY HwcAssumption DEF FrameType, HwcAssumption
<1>1. CASE Start \/ Stop \/ Destroy \/ StopReturn
  <2>1. UNCHANGED <<streamVars, localVars, frameVars>>
    BY <1>1 DEF Start, Stop, Destroy, StopReturn
  <2>2. work' = work \/ (work = "none" /\ api # "free" /\ work' = "while")
    BY <1>1 DEF Start, Stop, Destroy, StopReturn, ThreadInv, StoppedMeansJoined
  <2>3. Place' = Place /\ Held' = Held
    <3>1. CASE work' = work
      BY <2>1, <3>1, ReaderSame DEF localVars, frameVars
    <3>2. CASE work = "none" /\ work' = "while"
      BY <2>1, <3>2 DEF Place, Held, Named, localVars, frameVars
    <3> QED BY <2>2, <3>1, <3>2
  <2>4. Tracks(Place, Held)'
    BY <2>1, <2>3, TracksSame DEF LeakInv, streamVars
  <2>5. CaseInv' /\ FreshInv' /\ NoLeakedHandle'
    BY <2>1, <2>2 DEF LeakInv, CaseInv, FreshInv, NoLeakedHandle, Named, Creating, localVars,
                      frameVars
  <2>6. LinkInv'
    <3>1. UNCHANGED <<sock, inbox, outbox>> /\ (Connected' <=> Connected)
      BY <2>1 DEF streamVars, Connected
    <3>2. work' = "none" /\ api' # "free" => Held' = {}
      <4>1. CASE api # "free"
        BY <2>2, <2>3, <4>1 DEF LeakInv, LinkInv
      <4>2. CASE StopReturn
        BY <2>3, <4>2, <2>2 DEF StopReturn, Held, Named
      <4> QED BY <1>1, <4>1, <4>2 DEF Start, Stop, Destroy
    <3> QED BY <2>2, <2>3, <3>1, <3>2 DEF LeakInv, LinkInv
  <2> QED BY <2>4, <2>5, <2>6 DEF LeakInv
<1>2. CASE StopJoin
  <2>1. /\ work = "done" /\ work' = "none" /\ api' = "free" /\ UNCHANGED <<localVars, frameVars>>
        /\ sock' = "closed" /\ inbox' = <<>> /\ outbox' = <<>>
    BY <1>2 DEF StopJoin, Close
  <2>2. Tracks(Place, Held)'
    <3>1. PICK a, x : a = Place' /\ x = Held'
      OBVIOUS
    <3>2. Tracks(a, x)'
      BY <2>1, TracksNone
    <3> QED BY <3>1, <3>2 DEF Tracks
  <2> QED BY <2>1, <2>2 DEF LeakInv, CaseInv, FreshInv, NoLeakedHandle, LinkInv, Named, Creating,
                            Connected, localVars, frameVars
<1>3. CASE StopFree
  <2>0. /\ work = "none" /\ sock = "closed" /\ work' = work /\ api = "free" /\ api' = "free"
        /\ UNCHANGED <<streamVars, localVars>>
    BY <1>3 DEF StopFree, ThreadInv, StoppedMeansJoined, apiVars, ThreadType
  <2>1. inbox' = <<>> /\ outbox' = <<>> /\ sock' # "up" /\ ~Connected'
    BY <2>0 DEF LeakInv, LinkInv, Connected, streamVars
  <2>2. Tracks(Place, Held)'
    <3>1. PICK a, x : a = Place' /\ x = Held'
      OBVIOUS
    <3>2. Tracks(a, x)'
      BY <2>1, TracksNone
    <3> QED BY <3>1, <3>2 DEF Tracks
  <2>3. NoLeakedHandle'
    <3>1. PICK r \in Remote : /\ mHandles[r] # NoHandle
                              /\ heap' = [heap EXCEPT ![mHandles[r]] = "freed"]
                              /\ mHandles' = [mHandles EXCEPT ![r] = NoHandle]
      BY <1>3 DEF StopFree, Free
    <3>2. \A h \in Handle : heap'[h] = "live" => heap[h] = "live" /\ h # mHandles[r]
      BY <1>0, <3>1
    <3>3. \A h \in Handle : heap[h] = "live" => \E q \in Remote : mHandles[q] = h
      BY <2>0 DEF LeakInv, NoLeakedHandle, Creating
    <3> QED BY <1>0, <3>1, <3>2, <3>3 DEF NoLeakedHandle
  <2> QED BY <2>0, <2>1, <2>2, <2>3
          DEF LeakInv, CaseInv, FreshInv, LinkInv, Named
<1> QED BY <1>1, <1>2, <1>3 DEF ApiReturns

\* The pipe thread and the server.
LEMMA LeakOthers ==
  ASSUME Conforming, IndInv, LeakInv,
         SetModeOrAlpha \/ PipeReturns \/ ServerSend \/ ServerFlush \/ ServerClose \/ UNCHANGED vars
  PROVE  LeakInv'
<1>1. UNCHANGED <<work, api, localVars, frameVars>>
  BY DEF SetModeOrAlpha, PipeReturns, PipeSend, PipeLock, PipeLogged, ServerSend, ServerFlush,
         ServerClose, vars, apiVars
<1>2. Place' = Place /\ Held' = Held
  BY <1>1, ReaderSame DEF localVars, frameVars
<1>3. CaseInv' /\ FreshInv' /\ NoLeakedHandle'
  BY <1>1 DEF LeakInv, CaseInv, FreshInv, NoLeakedHandle, localVars, frameVars
<1>4. CASE SetModeOrAlpha \/ PipeReturns \/ UNCHANGED vars
  <2>1. UNCHANGED streamVars
    BY <1>4 DEF SetModeOrAlpha, PipeReturns, PipeSend, PipeLock, PipeLogged, vars
  <2>2. Tracks(Place, Held)'
    BY <1>2, <2>1, TracksSame DEF LeakInv, streamVars
  <2>3. LinkInv'
    BY <1>1, <1>2, <2>1 DEF LeakInv, LinkInv, Connected, streamVars
  <2> QED BY <1>3, <2>2, <2>3 DEF LeakInv
<1>5. CASE ServerSend \/ ServerFlush \/ ServerClose
  <2>1. Tracks(Place, Held)'
    BY <1>2, <1>5, ServerTracks DEF LeakInv, IndInv, TypeOK
  <2>2. LinkInv'
    BY <1>1, <1>2, <1>5 DEF LeakInv, LinkInv, Connected, ServerSend, ServerFlush, ServerClose,
                            IndInv, TypeOK, StreamType
  <2> QED BY <1>3, <2>1, <2>2 DEF LeakInv
<1> QED BY <1>4, <1>5

\* A step of the thread within a connection.
LEMMA LinkKept ==
  ASSUME LinkInv, UNCHANGED <<sock, outbox>>, work \notin {"none", "done"},
         work' \notin {"none", "done"}, ~Connected => inbox' = <<>> /\ Held' \subseteq Held
  PROVE  LinkInv'
BY DEF LinkInv, Connected

\* A call that fails has met the end of the stream.
LEMMA FailsAtEnd ==
  ASSUME Conforming, LinkInv, RecvFails, NEW a, NEW x
  PROVE  Tracks(a, x)' /\ UNCHANGED <<sock, inbox, outbox>> /\ inbox = <<>>
<1>1. UNCHANGED streamVars /\ sock # "up" /\ inbox = <<>>
  BY DEF RecvFails, Conforming
<1>2. inbox' = <<>> /\ outbox' = <<>> /\ sock' # "up"
  BY <1>1 DEF LinkInv, streamVars
<1> QED BY <1>1, <1>2, TracksNone DEF streamVars

\* The steps between two receptions.
LEMMA LeakQuiet ==
  ASSUME Conforming, IndInv, LeakInv,
         \/ WorkWhile \/ WorkLock \/ Switch \/ WorkUnlock
         \/ DisplayCallback \/ DisplayAck \/ WorkPoll
  PROVE  LeakInv'
<1>1. /\ UNCHANGED <<streamVars, mHandles, heap>> /\ work \notin {"none", "done"}
      /\ work' \notin {"none", "done"}
  BY DEF WorkWhile, WorkLock, Switch, WorkUnlock, DisplayCallback, DisplayAck, WorkPoll, frameVars,
         Conforming
<1>2. /\ work \notin Creating \cup {"remove_free"} /\ work' \notin Creating \cup {"remove_free"}
  BY DEF WorkWhile, WorkLock, Switch, WorkUnlock, DisplayCallback, DisplayAck, WorkPoll, Creating
<1>3. Held' = Held
  BY <1>1, <1>2 DEF Held, Named, Creating
<1>4. Place' = Place /\ CaseInv'
  <2> USE DEF Place, CaseInv, Behind, Bodied
  <2>1. CASE WorkWhile \/ WorkPoll \/ DisplayCallback \/ DisplayAck \/ WorkUnlock
    BY <2>1 DEF WorkWhile, WorkPoll, DisplayCallback, DisplayAck, WorkUnlock
  <2>2. CASE WorkLock
    BY <2>2 DEF WorkLock, localVars
  <2>3. CASE Switch
    BY <2>3 DEF Switch, localVars
  <2> QED BY <2>1, <2>2, <2>3
<1>5. Tracks(Place, Held)'
  BY <1>1, <1>3, <1>4, TracksSame DEF LeakInv, streamVars
<1>6. LinkInv'
  BY <1>1, <1>3, LinkKept DEF LeakInv, streamVars, LinkInv
<1>7. FreshInv' /\ NoLeakedHandle'
  BY <1>1, <1>2 DEF LeakInv, FreshInv, NoLeakedHandle, Named, Creating
<1> QED BY <1>4, <1>5, <1>6, <1>7 DEF LeakInv

\* A new connection, and the end of one.
LEMMA LeakConnection ==
  ASSUME Conforming, IndInv, LeakInv, WorkConnect \/ WorkExit
  PROVE  LeakInv'
<1>1. UNCHANGED <<localVars, frameVars>> /\ work \in {"connect", "exit"} /\ work' \in {"poll", "connect", "done"}
  BY DEF WorkConnect, WorkExit
<1>2. Held' = Held /\ Place' = "hdr" /\ Place = "hdr"
  BY <1>1 DEF Held, Named, Place, localVars, frameVars
<1>3. CaseInv' /\ FreshInv' /\ NoLeakedHandle'
  BY <1>1 DEF LeakInv, CaseInv, FreshInv, NoLeakedHandle, Named, Creating, localVars, frameVars
<1>4. CASE WorkConnect /\ UNCHANGED streamVars
  <2>1. Tracks(Place, Held)'
    BY <1>2, <1>4, TracksSame DEF LeakInv, streamVars
  <2>2. LinkInv'
    BY <1>1, <1>2, <1>4, LinkKept DEF LeakInv, streamVars, LinkInv, WorkConnect
  <2> QED BY <1>3, <2>1, <2>2 DEF LeakInv
<1>5. CASE WorkConnect /\ ~UNCHANGED streamVars
  <2>1. ~Connected /\ Connect /\ work = "connect" /\ work' = "connect"
    BY <1>5 DEF WorkConnect
  <2>2. Held' = {} /\ created' = {} /\ inbox' = <<>> /\ outbox' = <<>>
    BY <1>2, <2>1 DEF LeakInv, LinkInv, Connect
  <2>3. Tracks(Place, Held)'
    <3>1. PICK a, x : a = Place' /\ x = Held'
      OBVIOUS
    <3>2. Tracks(a, x)'
      BY <1>2, <2>2, <3>1, TracksNone
    <3> QED BY <3>1, <3>2 DEF Tracks
  <2>4. LinkInv'
    BY <2>2 DEF LinkInv
  <2> QED BY <1>3, <2>3, <2>4 DEF LeakInv
<1>6. CASE WorkExit
  <2>1. sock' = "closed" /\ inbox' = <<>> /\ outbox' = <<>> /\ work' = "done"
    BY <1>6 DEF WorkExit, Close
  <2>2. Tracks(Place, Held)'
    <3>1. PICK a, x : a = Place' /\ x = Held'
      OBVIOUS
    <3>2. Tracks(a, x)'
      BY <2>1, TracksNone
    <3> QED BY <3>1, <3>2 DEF Tracks
  <2>3. LinkInv'
    BY <2>1 DEF LinkInv
  <2> QED BY <1>3, <2>2, <2>3 DEF LeakInv
<1> QED BY <1>4, <1>5, <1>6

\* A step that has read a token which leads to where the thread is now.
LEMMA LeakReceived ==
  ASSUME LeakInv, StreamType, NEW k, NEW v, Recv(k, v),
         \A l, w, q, z : Leads(Place, Held, l, w, q, z) => l = k,
         \A q, z : Leads(Place, Held, k, v, q, z) => Place' = q /\ Held' = z,
         work \notin {"none", "done"}, work' \notin {"none", "done"}
  PROVE  Tracks(Place, Held)' /\ LinkInv'
<1>1. PICK a, x : a = Place /\ x = Held
  OBVIOUS
<1>2. /\ inbox # <<>> /\ \E q, z : Leads(a, x, k, v, q, z) /\ Tracks(q, z)'
  <2>1. Tracks(a, x)
    BY <1>1 DEF LeakInv
  <2>2. \A l, w, q, z : Leads(a, x, l, w, q, z) => l = k
    BY <1>1
  <2> QED BY <2>1, <2>2, Received
<1>3. PICK q, z : Leads(a, x, k, v, q, z) /\ Tracks(q, z)'
  BY <1>2
<1>4. Place' = q /\ Held' = z
  BY <1>1, <1>3
<1>5. Connected
  BY <1>2 DEF LeakInv, LinkInv
<1>6. LinkInv'
  BY <1>5, LinkKept DEF LeakInv, Recv
<1> QED BY <1>3, <1>4, <1>6 DEF Tracks

\* A step that has failed to read leaves the buffers, or one it was creating.
LEMMA LeakFailed ==
  ASSUME Conforming, LeakInv, RecvFails, Held' \subseteq Held,
         work \notin {"none", "done"}, work' \notin {"none", "done"}
  PROVE  Tracks(Place, Held)' /\ LinkInv'
<1>1. PICK a, x : a = Place' /\ x = Held'
  OBVIOUS
<1>2. Tracks(a, x)' /\ UNCHANGED <<sock, inbox, outbox>> /\ inbox = <<>>
  BY FailsAtEnd DEF LeakInv
<1>3. LinkInv'
  BY <1>2, LinkKept DEF LeakInv
<1> QED BY <1>1, <1>2, <1>3 DEF Tracks

\* WorkRead: a header, or the end.
LEMMA LeakRead ==
  ASSUME Conforming, IndInv, LeakInv, WorkRead
  PROVE  LeakInv'
<1>1. /\ work = "read" /\ UNCHANGED <<rh, mHandles, heap>> /\ work' \in {"exit", "lock"}
  BY DEF WorkRead, frameVars
<1>2. Held' = Held /\ Place = "hdr"
  BY <1>1 DEF Held, Place, Named
<1>3. CaseInv' /\ FreshInv' /\ NoLeakedHandle'
  BY <1>1 DEF LeakInv, CaseInv, FreshInv, NoLeakedHandle, Named, Creating
<1>4. CASE RecvFails
  BY <1>1, <1>2, <1>3, <1>4, LeakFailed DEF LeakInv
<1>5. CASE ~RecvFails
  <2>1. PICK e \in EventKind : Recv("hdr", e) /\ ev' = e /\ work' = "lock"
    BY <1>5 DEF WorkRead
  <2>2. Place' = Behind(e)
    BY <2>1 DEF Place
  <2>3. \A l, w, q, z : Leads(Place, Held, l, w, q, z) => l = "hdr"
    BY <1>2 DEF Leads
  <2>4. \A q, z : Leads(Place, Held, "hdr", e, q, z) => Place' = q /\ Held' = z
    BY <1>2, <2>2 DEF Leads
  <2>5. Tracks(Place, Held)' /\ LinkInv'
    BY <1>1, <2>1, <2>3, <2>4, LeakReceived DEF IndInv, TypeOK
  <2> QED BY <1>3, <2>5 DEF LeakInv
<1> QED BY <1>4, <1>5

\* CreateBuffer, when it has what it asked for or frees the new handle.
LEMMA LeakCreate ==
  ASSUME Conforming, IndInv, LeakInv, CreateInfo \/ CreateGralloc \/ CreateFds
  PROVE  LeakInv'
<1> USE DEF IndInv, TypeOK
<1>0. /\ work \in {"create_info", "create_gralloc", "create_fds"} /\ mHandles' = mHandles /\ ev' = ev
      /\ cur \in Handle /\ heap \in [Handle -> {"unused", "live", "freed"}]
      /\ work' \in {"unlock", "create_gralloc", "create_fds", "insert"}
      /\ work \notin {"none", "done"} /\ work' \notin {"none", "done"}
  BY DEF CreateInfo, CreateGralloc, CreateFds, CreateFails, HandlerInv, Creating, FrameType
<1>1. Place = CASE work = "create_info" -> "CREATE_BUFFER"
                [] work = "create_gralloc" -> "gralloc"
                [] work = "create_fds" -> "fds"
  BY <1>0 DEF Place, LeakInv, CaseInv, Behind, Bodied
<1>2. CASE CreateFails
  <2>1. /\ work' = "unlock" /\ heap' = [heap EXCEPT ![cur] = "freed"]
    BY <1>2 DEF CreateFails
  <2>2. Held' \subseteq Held
    BY <1>0, <2>1 DEF Held, Named
  <2>3. RecvFails
    <3>1. work = "create_fds" => FdCountOk(numFds)
      BY DEF LeakInv, CaseInv
    <3>2. \A l, w, q, z : work = "create_fds" /\ Leads(Place, Held, l, w, q, z) => l = "fds"
      BY <1>1 DEF Leads
    <3>3. ASSUME work = "create_fds", Recv("fds", "-")
          PROVE  Head(inbox)[1] = "fds"
      <4>1. PICK a, x : a = Place /\ x = Held
        OBVIOUS
      <4>2. Tracks(a, x) /\ \A l, w, q, z : Leads(a, x, l, w, q, z) => l = "fds"
        BY <3>2, <3>3, <4>1 DEF LeakInv
      <4> QED BY <3>3, <4>2, Received
    <3>4. CASE CreateInfo \/ CreateGralloc
      BY <2>1, <3>4 DEF CreateInfo, CreateGralloc
    <3>5. CASE CreateFds
      BY <2>1, <3>1, <3>3, <3>5 DEF CreateFds
    <3> QED BY <3>4, <3>5
  <2>4. CaseInv' /\ FreshInv'
    BY <2>1 DEF CaseInv, FreshInv, Named
  <2>5. NoLeakedHandle'
    BY <1>0, <2>1 DEF LeakInv, NoLeakedHandle
  <2> QED BY <1>0, <2>2, <2>3, <2>4, <2>5, LeakFailed DEF LeakInv
<1>3. CASE ~CreateFails
  <2>0. UNCHANGED <<heap, cur>>
    BY <1>3 DEF CreateInfo, CreateGralloc, CreateFds
  <2>1. CASE CreateInfo
    <3>1. PICK r \in Remote : Recv("info", r) /\ rh' = r /\ work' = "create_gralloc" /\ work = "create_info"
      BY <1>3, <2>1 DEF CreateInfo
    <3>2. \A l, w, q, z : Leads(Place, Held, l, w, q, z) => l = "info"
      BY <1>1, <3>1 DEF Leads
    <3>3. Place' = "gralloc" /\ Held' = Held \cup {r}
      BY <1>0, <3>1 DEF Place, Held, Named
    <3>4. \A q, z : Leads(Place, Held, "info", r, q, z) => Place' = q /\ Held' = z
      BY <1>1, <3>1, <3>3 DEF Leads
    <3>5. Tracks(Place, Held)' /\ LinkInv'
      BY <1>0, <3>1, <3>2, <3>4, LeakReceived
    <3>6. mHandles[r] = NoHandle
      <4>1. PICK a, x : a = Place /\ x = Held
        OBVIOUS
      <4>2. Tracks(a, x) /\ \A l, w, q, z : Leads(a, x, l, w, q, z) => l = "info"
        BY <3>2, <4>1 DEF LeakInv
      <4>3. \E q, z : Leads(a, x, "info", r, q, z)
        BY <3>1, <4>2, Received
      <4>4. r \notin Held
        BY <1>1, <3>1, <4>1, <4>3 DEF Leads
      <4> QED BY <3>1, <4>4 DEF Held
    <3>7. CaseInv' /\ FreshInv'
      BY <1>0, <3>1, <3>6 DEF CaseInv, FreshInv
    <3>8. NoLeakedHandle'
      BY <1>0, <2>0, <3>1 DEF LeakInv, NoLeakedHandle, Creating
    <3> QED BY <3>5, <3>7, <3>8 DEF LeakInv
  <2>2. CASE CreateGralloc
    <3>1. /\ work = "create_gralloc" /\ work' = "create_fds" /\ rh' = rh
          /\ \E n \in Planes : Recv("gralloc", n) /\ numFds' = n
      BY <1>3, <2>2 DEF CreateGralloc
    <3>2. PICK n \in Planes : Recv("gralloc", n) /\ numFds' = n
      BY <3>1
    <3>3. \A l, w, q, z : Leads(Place, Held, l, w, q, z) => l = "gralloc"
      BY <1>1, <3>1 DEF Leads
    <3>4. Place' = "fds" /\ Held' = Held
      BY <1>0, <3>1 DEF Place, Held, Named
    <3>5. \A q, z : Leads(Place, Held, "gralloc", n, q, z) => Place' = q /\ Held' = z
      BY <1>1, <3>1, <3>4 DEF Leads
    <3>6. Tracks(Place, Held)' /\ LinkInv'
      BY <1>0, <3>2, <3>3, <3>5, LeakReceived
    <3>7. CaseInv' /\ FreshInv'
      BY <1>0, <3>1, <3>2 DEF CaseInv, FreshInv, LeakInv, Named, Conforming, FdCountOk
    <3>8. NoLeakedHandle'
      BY <1>0, <2>0, <3>1 DEF LeakInv, NoLeakedHandle, Creating
    <3> QED BY <3>6, <3>7, <3>8 DEF LeakInv
  <2>3. CASE CreateFds
    <3>1. work = "create_fds" /\ work' = "insert" /\ rh' = rh /\ Recv("fds", "-")
      BY <1>3, <2>3 DEF CreateFds
    <3>2. \A l, w, q, z : Leads(Place, Held, l, w, q, z) => l = "fds"
      BY <1>1, <3>1 DEF Leads
    <3>3. Place' = "hdr" /\ Held' = Held
      BY <1>0, <3>1 DEF Place, Held, Named
    <3>4. \A q, z : Leads(Place, Held, "fds", "-", q, z) => Place' = q /\ Held' = z
      BY <1>1, <3>1, <3>3 DEF Leads
    <3>5. Tracks(Place, Held)' /\ LinkInv'
      BY <1>0, <3>1, <3>2, <3>4, LeakReceived
    <3>6. CaseInv' /\ FreshInv'
      BY <1>0, <3>1 DEF CaseInv, FreshInv, LeakInv, Named
    <3>7. NoLeakedHandle'
      BY <1>0, <2>0, <3>1 DEF LeakInv, NoLeakedHandle, Creating
    <3> QED BY <3>5, <3>6, <3>7 DEF LeakInv
  <2> QED BY <2>1, <2>2, <2>3
<1> QED BY <1>2, <1>3

\* RemoveBuffer and DisplayRequest, up to where they look the handle up.
LEMMA LeakLookUp ==
  ASSUME Conforming, IndInv, LeakInv, RemoveInfo \/ DisplayInfo \/ DisplayCtrl
  PROVE  LeakInv'
<1> USE DEF IndInv, TypeOK
<1>0. /\ work \in {"remove_info", "display_info", "display_ctrl"} /\ UNCHANGED <<mHandles, heap, ev>>
      /\ work' \in {"unlock", "remove_free", "display_ctrl", "display"}
      /\ work \notin {"none", "done"} /\ work' \notin {"none", "done"}
  BY DEF RemoveInfo, DisplayInfo, DisplayCtrl, LookUp, frameVars
<1>1. /\ work = "remove_info" => Place = "REMOVE_BUFFER"
      /\ work = "display_info" => Place = ev /\ ev \in {"DISPLAY_REQ", "DISPLAY_REQ_CTRL"}
      /\ work = "display_ctrl" => Place = "ctrl"
  BY <1>0 DEF Place, LeakInv, CaseInv, Behind, Bodied
<1>2. CaseInv' /\ FreshInv' /\ NoLeakedHandle'
  BY <1>0 DEF LeakInv, CaseInv, FreshInv, NoLeakedHandle, Named, Creating
<1>3. CASE RecvFails /\ work' = "unlock"
  <2>1. Held' \subseteq Held
    BY <1>0, <1>3 DEF Held, Named
  <2> QED BY <1>0, <1>2, <1>3, <2>1, LeakFailed DEF LeakInv
<1>4. CASE RemoveInfo /\ ~(RecvFails /\ work' = "unlock")
  <2>1. PICK r \in Remote : /\ Recv("info", r) /\ rh' = r /\ work = "remove_info"
                            /\ \/ mHandles[r] = NoHandle /\ work' = "unlock"
                               \/ mHandles[r] # NoHandle /\ work' = "remove_free"
    BY <1>4 DEF RemoveInfo
  <2>2. \A l, w, q, z : Leads(Place, Held, l, w, q, z) => l = "info"
    BY <1>1, <2>1 DEF Leads
  <2>3. Place' = "hdr" /\ Held' = Held \ {r}
    BY <1>0, <2>1 DEF Place, Held, Named
  <2>4. \A q, z : Leads(Place, Held, "info", r, q, z) => Place' = q /\ Held' = z
    BY <1>1, <2>1, <2>3 DEF Leads
  <2>5. Tracks(Place, Held)' /\ LinkInv'
    BY <1>0, <2>1, <2>2, <2>4, LeakReceived
  <2> QED BY <1>2, <2>5 DEF LeakInv
<1>5. CASE DisplayInfo /\ ~(RecvFails /\ work' = "unlock")
  <2>1. PICK r \in Remote : /\ Recv("info", r) /\ rh' = r /\ work = "display_info"
                            /\ \/ ev = "DISPLAY_REQ_CTRL" /\ work' = "display_ctrl"
                               \/ ev = "DISPLAY_REQ" /\ work' \in {"unlock", "display"}
    BY <1>5 DEF DisplayInfo, LookUp
  <2>2. \A l, w, q, z : Leads(Place, Held, l, w, q, z) => l = "info"
    BY <1>1, <2>1 DEF Leads
  <2>3. Place' = (IF ev = "DISPLAY_REQ" THEN "hdr" ELSE "ctrl") /\ Held' = Held
    BY <1>0, <2>1 DEF Place, Held, Named
  <2>4. \A q, z : Leads(Place, Held, "info", r, q, z) => Place' = q /\ Held' = z
    BY <1>1, <2>1, <2>3 DEF Leads
  <2>5. Tracks(Place, Held)' /\ LinkInv'
    BY <1>0, <2>1, <2>2, <2>4, LeakReceived
  <2> QED BY <1>2, <2>5 DEF LeakInv
<1>6. CASE DisplayCtrl /\ ~(RecvFails /\ work' = "unlock")
  <2>1. Recv("ctrl", "-") /\ work = "display_ctrl" /\ work' \in {"unlock", "display"}
    BY <1>6 DEF DisplayCtrl, LookUp
  <2>2. \A l, w, q, z : Leads(Place, Held, l, w, q, z) => l = "ctrl"
    BY <1>1, <2>1 DEF Leads
  <2>3. Place' = "hdr" /\ Held' = Held
    BY <1>0, <2>1 DEF Place, Held, Named
  <2>4. \A q, z : Leads(Place, Held, "ctrl", "-", q, z) => Place' = q /\ Held' = z
    BY <1>1, <2>1, <2>3 DEF Leads
  <2>5. Tracks(Place, Held)' /\ LinkInv'
    BY <1>0, <2>1, <2>2, <2>4, LeakReceived
  <2> QED BY <1>2, <2>5 DEF LeakInv
<1> QED BY <1>3, <1>4, <1>5, <1>6

\* malloc(), insert() and erase(): where handles come and go.
LEMMA LeakHandles ==
  ASSUME IndInv, LeakInv, (SwitchCreate /\ heap' # heap) \/ CreateInsert \/ RemoveFree
  PROVE  LeakInv'
<1> USE DEF IndInv, TypeOK
<1>0. /\ UNCHANGED <<streamVars, ev, rh>> /\ work \notin {"none", "done"} /\ work' \notin {"none", "done"}
      /\ mHandles \in [Remote -> Handle \cup {NoHandle}]
      /\ heap \in [Handle -> {"unused", "live", "freed"}] /\ NoHandle \notin Handle
  BY HwcAssumption DEF SwitchCreate, CreateInsert, RemoveFree, FrameType, HwcAssumption
<1>1. ASSUME Place' = Place, Held' = Held
      PROVE  Tracks(Place, Held)' /\ LinkInv'
  <2>1. Tracks(Place, Held)'
    BY <1>0, <1>1, TracksSame DEF LeakInv, streamVars
  <2>2. LinkInv'
    BY <1>0, <1>1, LinkKept DEF LeakInv, streamVars, LinkInv
  <2> QED BY <2>1, <2>2
<1>2. CASE SwitchCreate /\ heap' # heap
  <2>1. PICK h \in Handle : /\ heap' = [heap EXCEPT ![h] = "live"] /\ cur' = h
                            /\ work = "switch" /\ work' = "create_info" /\ ev = "CREATE_BUFFER"
                            /\ mHandles' = mHandles
    BY <1>2 DEF SwitchCreate
  <2>2. Place' = Place /\ Held' = Held
    BY <1>0, <2>1 DEF Place, Held, Named
  <2>3. NoLeakedHandle'
    BY <1>0, <2>1 DEF LeakInv, NoLeakedHandle, Creating
  <2>4. CaseInv' /\ FreshInv'
    BY <1>0, <2>1 DEF CaseInv, FreshInv, Named
  <2> QED BY <1>1, <2>2, <2>3, <2>4 DEF LeakInv
<1>3. CASE CreateInsert
  <2>1. /\ work = "insert" /\ work' = "unlock" /\ rh \in Remote /\ mHandles[rh] = NoHandle
        /\ mHandles' = [mHandles EXCEPT ![rh] = cur] /\ cur \in Handle /\ heap' = heap
    BY <1>3 DEF CreateInsert, LeakInv, FreshInv, Named, HandlerInv, Creating
  <2>2. \A r \in Remote : mHandles'[r] = IF r = rh THEN cur ELSE mHandles[r]
    BY <1>0, <2>1
  <2>3. Place' = Place /\ Held' = Held
    <3>1. Place' = Place
      BY <2>1 DEF Place
    <3>2. \A r \in Remote : mHandles'[r] # NoHandle <=> mHandles[r] # NoHandle \/ rh = r
      BY <1>0, <2>1, <2>2
    <3> QED BY <1>0, <2>1, <3>1, <3>2 DEF Held, Named
  <2>4. NoLeakedHandle'
    <3>1. SUFFICES ASSUME NEW h \in Handle, heap[h] = "live"
                   PROVE  \E r \in Remote : mHandles'[r] = h
      BY <2>1 DEF NoLeakedHandle
    <3>2. CASE cur = h
      BY <2>1, <2>2, <3>2
    <3>3. CASE cur # h
      <4>1. PICK r \in Remote : mHandles[r] = h
        BY <3>1, <3>3 DEF LeakInv, NoLeakedHandle
      <4> QED BY <1>0, <2>1, <2>2, <4>1
    <3> QED BY <3>2, <3>3
  <2>5. CaseInv' /\ FreshInv'
    BY <2>1 DEF CaseInv, FreshInv, Named
  <2> QED BY <1>1, <2>3, <2>4, <2>5 DEF LeakInv
<1>4. CASE RemoveFree
  <2>1. /\ work = "remove_free" /\ work' = "unlock" /\ rh \in Remote /\ cur = mHandles[rh]
        /\ cur \in Handle /\ heap' = [heap EXCEPT ![cur] = "freed"]
        /\ mHandles' = [mHandles EXCEPT ![rh] = NoHandle]
    BY <1>0, <1>4 DEF RemoveFree, Free, HandlerInv
  <2>2. \A r \in Remote : mHandles'[r] = IF r = rh THEN NoHandle ELSE mHandles[r]
    BY <1>0, <2>1
  <2>3. Place' = Place /\ Held' = Held
    BY <1>0, <2>1, <2>2 DEF Place, Held, Named
  <2>4. NoLeakedHandle'
    <3>1. SUFFICES ASSUME NEW h \in Handle, heap'[h] = "live"
                   PROVE  \E r \in Remote : mHandles'[r] = h
      BY DEF NoLeakedHandle
    <3>2. heap[h] = "live" /\ h # cur
      BY <1>0, <2>1, <3>1
    <3>3. PICK r \in Remote : mHandles[r] = h
      BY <2>1, <3>2 DEF LeakInv, NoLeakedHandle, Creating
    <3> QED BY <2>1, <2>2, <3>2, <3>3
  <2>5. CaseInv' /\ FreshInv'
    BY <2>1 DEF CaseInv, FreshInv, Named
  <2> QED BY <1>1, <2>3, <2>4, <2>5 DEF LeakInv
<1> QED BY <1>2, <1>3, <1>4

\* There is no memory left: the body of a CREATE_BUFFER then stays in the stream,
\* which is out of step, but no handle is made any more.
DryInv ==
  /\ \A h \in Handle : heap[h] # "unused"
  /\ work \notin Creating
  /\ NoLeakedHandle

\* malloc() returns nullptr.
LEMMA DryBegins ==
  ASSUME IndInv, NoLeakedHandle, SwitchCreate, heap' = heap
  PROVE  DryInv'
<1>0. heap \in [Handle -> {"unused", "live", "freed"}]
  BY DEF IndInv, TypeOK, FrameType
<1>1. /\ \A h \in Handle : heap[h] # "unused"
      /\ work = "switch" /\ work' = "unlock" /\ UNCHANGED <<heap, mHandles>>
  BY <1>0 DEF SwitchCreate
<1> QED BY <1>1 DEF DryInv, NoLeakedHandle, Creating

\* From then on handles only go.
LEMMA DryKept ==
  ASSUME IndInv, DryInv, [Next]_vars
  PROVE  DryInv'
<1> USE DEF IndInv, TypeOK
<1>0. /\ mHandles \in [Remote -> Handle \cup {NoHandle}]
      /\ heap \in [Handle -> {"unused", "live", "freed"}] /\ NoHandle \notin Handle
  BY HwcAssumption DEF FrameType, HwcAssumption
<1>1. ASSUME UNCHANGED <<heap, mHandles>>, work' \notin Creating
      PROVE  DryInv'
  BY <1>1 DEF DryInv, NoLeakedHandle
<1>2. ASSUME NEW r \in Remote, mHandles[r] # NoHandle, heap' = [heap EXCEPT ![mHandles[r]] = "freed"],
             mHandles' = [mHandles EXCEPT ![r] = NoHandle], work' \notin Creating
      PROVE  DryInv'
  <2>1. \A h \in Handle : heap'[h] = IF h = mHandles[r] THEN "freed" ELSE heap[h]
    BY <1>0, <1>2
  <2>2. \A q \in Remote : mHandles'[q] = IF q = r THEN NoHandle ELSE mHandles[q]
    BY <1>0, <1>2
  <2>3. ASSUME NEW h \in Handle, heap'[h] = "live"
        PROVE  \E q \in Remote : mHandles'[q] = h
    <3>1. heap[h] = "live" /\ h # mHandles[r]
      BY <2>1, <2>3
    <3>2. PICK q \in Remote : mHandles[q] = h
      BY <3>1 DEF DryInv, NoLeakedHandle
    <3> QED BY <2>2, <3>1, <3>2
  <2> QED BY <1>2, <2>1, <2>3 DEF DryInv, NoLeakedHandle
<1>3. CASE StopFree
  BY <1>2, <1>3 DEF StopFree, Free, DryInv
<1>4. CASE RemoveFree
  <2>1. /\ rh \in Remote /\ cur = mHandles[rh] /\ mHandles[rh] # NoHandle
        /\ heap' = [heap EXCEPT ![mHandles[rh]] = "freed"]
        /\ mHandles' = [mHandles EXCEPT ![rh] = NoHandle] /\ work' = "unlock"
    BY <1>4 DEF RemoveFree, Free, HandlerInv
  <2> QED BY <1>2, <2>1 DEF Creating
<1>5. CASE \/ Start \/ Stop \/ Destroy \/ StopJoin \/ StopReturn \/ SetModeOrAlpha \/ PipeReturns
           \/ ServerSend \/ ServerFlush \/ ServerClose \/ Terminated \/ UNCHANGED vars
  <2>1. UNCHANGED <<heap, mHandles>> /\ (work' = work \/ work' \in {"while", "none"})
    BY <1>5 DEF Start, Stop, Destroy, StopJoin, StopReturn, SetModeOrAlpha, PipeReturns, PipeSend, PipeLock,
                PipeLogged, ServerSend, ServerFlush, ServerClose, Terminated, vars, frameVars
  <2> QED BY <1>1, <2>1 DEF DryInv, Creating
<1>6. CASE \/ WorkWhile \/ WorkConnect \/ WorkPoll \/ WorkRead \/ WorkLock \/ Switch \/ SwitchCreate
           \/ RemoveInfo \/ DisplayInfo \/ DisplayCtrl \/ DisplayCallback \/ DisplayAck
           \/ WorkUnlock \/ WorkExit
  <2>1. UNCHANGED <<heap, mHandles>> /\ (work' = work \/ work' \notin Creating)
    BY <1>6 DEF WorkWhile, WorkConnect, WorkPoll, WorkRead, WorkLock, Switch, SwitchCreate, RemoveInfo,
                DisplayInfo, DisplayCtrl, DisplayCallback, DisplayAck, WorkUnlock, WorkExit, LookUp,
                frameVars, Creating, DryInv
  <2> QED BY <1>1, <2>1 DEF DryInv
<1>7. CASE CreateInfo \/ CreateGralloc \/ CreateFds \/ CreateInsert
  BY <1>7 DEF CreateInfo, CreateGralloc, CreateFds, CreateInsert, DryInv, Creating
<1> QED BY <1>3, <1>4, <1>5, <1>6, <1>7 DEF Next, ApiReturns, WorkStep

(***************************************************************************)
(* With a server that keeps to the protocol and no interrupted call, every *)
(* live handle is in mHandles or is being created, so that stop() frees    *)
(* all of them, however often the receiver is started, stopped and         *)
(* disconnected, and when the memory has run out (NoLeakedHandle;          *)
(* CreateBuffer, RemoveBuffer, stop).                                      *)
(***************************************************************************)
THEOREM HandlesAccounted ==
  ASSUME Conforming
  PROVE  Spec => []NoLeakedHandle
<1>1. Init => LeakInv
  <2> SUFFICES ASSUME Init PROVE LeakInv
    OBVIOUS
  <2>1. Place = "hdr" /\ Held = {}
    BY DEF Init, Place, Held, Named
  <2>2. CaseInv /\ LinkInv /\ FreshInv /\ NoLeakedHandle
    BY <2>1 DEF Init, CaseInv, LinkInv, FreshInv, NoLeakedHandle, Named
  <2>3. Reads(Place, Held, <<>>, Place, Held)
    BY ReadsNone
  <2>4. inbox \o outbox = <<>>
    BY DEF Init
  <2>5. Tracks(Place, Held)
    BY <2>3, <2>4 DEF Tracks, Init
  <2> QED BY <2>2, <2>5 DEF LeakInv
<1>2. IndInv /\ LeakInv /\ [Next]_vars => LeakInv' \/ DryInv'
  <2> SUFFICES ASSUME IndInv, LeakInv, [Next]_vars
               PROVE  LeakInv' \/ DryInv'
    OBVIOUS
  <2>1. CASE Start \/ Stop \/ Destroy \/ ApiReturns
    BY <2>1, LeakApi
  <2>2. CASE \/ SetModeOrAlpha \/ PipeReturns \/ ServerSend \/ ServerFlush \/ ServerClose
             \/ UNCHANGED vars
    BY <2>2, LeakOthers
  <2>3. CASE WorkStep
    <3>1. CASE SwitchCreate /\ heap' = heap
      BY <3>1, DryBegins DEF LeakInv
    <3>2. CASE ~(SwitchCreate /\ heap' = heap)
      BY <2>3, <3>2, LeakQuiet, LeakConnection, LeakRead, LeakCreate, LeakLookUp, LeakHandles DEF WorkStep
    <3> QED BY <3>1, <3>2
  <2>4. CASE Terminated
    BY <2>4, LeakOthers DEF Terminated
  <2> QED BY <2>1, <2>2, <2>3, <2>4 DEF Next
<1>3. IndInv /\ DryInv /\ [Next]_vars => DryInv'
  BY DryKept
<1>4. (LeakInv \/ DryInv) => NoLeakedHandle
  BY DEF LeakInv, DryInv
<1> QED BY <1>1, <1>2, <1>3, <1>4, Inductive, PTL DEF Spec
=============================================================================
