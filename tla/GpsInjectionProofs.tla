------------------------- MODULE GpsInjectionProofs -------------------------
(***************************************************************************)
(* Proofs about the GPS receiver and the application that injects          *)
(* positions, for every set of descriptors and any number of commands.     *)
(***************************************************************************)
EXTENDS GpsInjection, TLAPS

-----------------------------------------------------------------------------
(* What a thread's step does to the program counters.                       *)

\* Only the thread that steps moves (Go).
LEMMA GoMoves ==
  ASSUME DOMAIN pc = Thread, NEW t \in Thread, NEW place, Go(t, place)
  PROVE  /\ DOMAIN pc' = Thread
         /\ pc'[t] = place
         /\ \A u \in Thread : u # t => pc'[u] = pc[u]
BY DEF Go

\* A step of the receiver does not end the join of the handler: the work thread
\* is in the handler, and the other threads do not move it.
LEMMA JoinKept ==
  ASSUME DOMAIN pc = Thread, pc["worker"] = "joining",
         WorkerStep \/ Destroy \/ DestroyStep \/ Environment
  PROVE  pc'["worker"] = "joining"
<1> USE DEF Thread
<1>1. CASE WorkerStep
  BY <1>1 DEF WorkerStep, WorkerTop, WorkerCheck, Connect, ConnectSocket, ConnectCall,
     ConnectSucceeds, ConnectFails, ConnectClose, ConnectForget, Read, ReadReturns,
     DisconnectStep, Disconnect, DisconnectShutdown, DisconnectClose, DisconnectReset
<1>2. CASE Destroy
  BY <1>2, GoMoves DEF Destroy
<1>3. CASE DestroyStep
  <2>1. \E place : Go("dtor", place)
    BY <1>3 DEF DestroyStep, DestroyLooks, Join, DisconnectStep, Disconnect,
       DisconnectShutdown, DisconnectClose, DisconnectReset, Disconnected
  <2> QED BY <2>1, GoMoves
<1>4. CASE Environment
  BY <1>4 DEF Environment, OthersOpen, OthersClose, ServerCommand, ServerCloses
<1> QED BY <1>1, <1>2, <1>3, <1>4

-----------------------------------------------------------------------------
(* Type correctness.                                                        *)

\* Disconnect, as either thread runs it.
LEMMA DisconnectTyped ==
  ASSUME TypeOK, NEW t \in Thread, DisconnectStep(t)
  PROVE  TypeOK'
<1> USE DEF TypeOK, InDisconnect, Thread
<1>1. CASE Disconnect(t)
  <2>1. UNCHANGED <<mStop, mSockGps, ret, fds, conn, inbox, written, shut>>
    BY <1>1 DEF Disconnect, sockVars
  <2>2. \/ t = "worker" /\ (Go(t, "socket") \/ Go(t, "exit") \/ Go(t, "shutdown"))
        \/ t = "dtor" /\ (Go(t, "join") \/ Go(t, "shutdown"))
    BY <1>1 DEF Disconnect, Disconnected
  <2> QED BY <2>1, <2>2, GoMoves
<1>2. CASE DisconnectShutdown(t)
  BY <1>2, GoMoves DEF DisconnectShutdown
<1>3. CASE DisconnectClose(t)
  <2>1. fds' \in [Fd -> {"free", "ours", "foreign"}]
    BY <1>3 DEF DisconnectClose, CloseFd, Target
  <2>2. conn' \in {conn, "none"} /\ inbox' \in {inbox, 0}
    BY <1>3 DEF DisconnectClose, CloseFd
  <2>3. UNCHANGED <<mStop, mSockGps, ret, written, shut>> /\ Go(t, "reset")
    BY <1>3 DEF DisconnectClose
  <2> QED BY <2>1, <2>2, <2>3, GoMoves, GpsAssumption DEF GpsAssumption
<1>4. CASE DisconnectReset(t)
  <2>1. UNCHANGED <<mStop, ret, fds, conn, inbox, written, shut>> /\ mSockGps' = None
    BY <1>4 DEF DisconnectReset, sockVars
  <2>2. \/ t = "worker" /\ (Go(t, "socket") \/ Go(t, "exit"))
        \/ t = "dtor" /\ Go(t, "join")
    BY <1>4 DEF DisconnectReset, Disconnected
  <2> QED BY <2>1, <2>2, GoMoves
<1> QED BY <1>1, <1>2, <1>3, <1>4 DEF DisconnectStep

\* The work thread outside Disconnect and the handler.
LEMMA WorkerTyped ==
  ASSUME TypeOK, WorkerStep
  PROVE  TypeOK'
<1> USE DEF TypeOK, InDisconnect
<1> "worker" \in Thread /\ "dtor" \in Thread
  BY DEF Thread
<1>1. CASE WorkerTop
  BY <1>1, GoMoves DEF WorkerTop, sockVars
<1>2. CASE WorkerCheck
  BY <1>2, GoMoves DEF WorkerCheck, sockVars
<1>3. CASE Connect
  BY <1>3, GoMoves DEF Connect, sockVars
<1>4. CASE ConnectSocket
  <2>1. UNCHANGED <<mStop, ret, written, shut>>
    BY <1>4 DEF ConnectSocket
  <2>2. /\ fds' \in [Fd -> {"free", "ours", "foreign"}]
        /\ conn' \in {conn, "new"} /\ inbox' \in {inbox, 0}
        /\ mSockGps' \in Fd \cup {None}
        /\ Go("worker", "call") \/ Go("worker", "top")
    BY <1>4 DEF ConnectSocket, sockVars
  <2> QED BY <2>1, <2>2, GoMoves, GpsAssumption DEF GpsAssumption
<1>5. CASE ConnectCall
  BY <1>5, GoMoves DEF ConnectCall, sockVars
<1>6. CASE ConnectSucceeds
  BY <1>6, GoMoves DEF ConnectSucceeds, AfterCall
<1>7. CASE ConnectFails
  BY <1>7, GoMoves DEF ConnectFails, AfterCall
<1>8. CASE ConnectClose
  <2>1. fds' \in [Fd -> {"free", "ours", "foreign"}]
    BY <1>8 DEF ConnectClose, CloseFd, Target
  <2>2. conn' \in {conn, "none"} /\ inbox' \in {inbox, 0}
    BY <1>8 DEF ConnectClose, CloseFd
  <2>3. UNCHANGED <<mStop, mSockGps, ret, written, shut>> /\ Go("worker", "forget")
    BY <1>8 DEF ConnectClose
  <2> QED BY <2>1, <2>2, <2>3, GoMoves, GpsAssumption DEF GpsAssumption
<1>9. CASE ConnectForget
  BY <1>9, GoMoves DEF ConnectForget, sockVars
<1>10. CASE Read
  BY <1>10, GoMoves DEF Read, ReadFails, ReadEnds, ReadCommand, sockVars
<1>11. CASE ReadReturns
  <2>1. UNCHANGED <<mStop, mSockGps, fds, written, shut>>
    BY <1>11 DEF ReadReturns
  <2>2. inbox' \in 0 .. MaxCmds
    BY <1>11, GpsAssumption DEF ReadReturns, GpsAssumption
  <2>3. conn' \in {conn, "none", "peer_closed"} /\ ret' \in {ret, "exit"}
    BY <1>11 DEF ReadReturns, AfterCall, ReadFails, ReadEnds, ReadCommand
  <2>4. Go("worker", "top") \/ Go("worker", "disconnect") \/ Go("worker", "handler")
    BY <1>11 DEF ReadReturns, ReadFails, ReadEnds, ReadCommand
  <2> QED BY <2>1, <2>2, <2>3, <2>4, GoMoves
<1>12. CASE DisconnectStep("worker")
  BY <1>12, DisconnectTyped
<1> QED BY <1>1, <1>2, <1>3, <1>4, <1>5, <1>6, <1>7, <1>8, <1>9, <1>10, <1>11, <1>12
        DEF WorkerStep

\* The destructor and the world around the receiver.
LEMMA OthersTyped ==
  ASSUME TypeOK, Destroy \/ DestroyStep \/ Environment
  PROVE  TypeOK'
<1> USE DEF TypeOK, InDisconnect
<1> "worker" \in Thread /\ "dtor" \in Thread
  BY DEF Thread
<1>1. CASE Destroy
  BY <1>1, GoMoves DEF Destroy, sockVars
<1>2. CASE DestroyLooks
  BY <1>2, GoMoves DEF DestroyLooks, sockVars
<1>3. CASE DisconnectStep("dtor")
  BY <1>3, DisconnectTyped
<1>4. CASE Join
  BY <1>4, GoMoves DEF Join, sockVars
<1>5. CASE OthersOpen \/ OthersClose
  BY <1>5 DEF OthersOpen, OthersClose
<1>6. CASE ServerCommand
  <2>1. inbox' \in 0 .. MaxCmds
    BY <1>6, GpsAssumption DEF ServerCommand, GpsAssumption
  <2> QED BY <1>6, <2>1 DEF ServerCommand
<1>7. CASE ServerCloses
  BY <1>7 DEF ServerCloses
<1> QED BY <1>1, <1>2, <1>3, <1>4, <1>5, <1>6, <1>7 DEF DestroyStep, Environment

\* The command handler and the injection thread.
LEMMA SampleTyped ==
  ASSUME SampleTypeOK, Handler \/ Injector
  PROVE  SampleTypeOK'
<1> USE DEF SampleTypeOK
<1> "worker" \in Thread /\ "dtor" \in Thread
  BY DEF Thread
<1>1. ASSUME Handled
      PROVE  TypeOK'
  BY <1>1, GoMoves DEF Handled, TypeOK, InDisconnect, sockVars
<1>2. CASE HandleStart
  <2>1. TypeOK'
    BY <1>1, <1>2 DEF HandleStart
  <2>2. looking' \in Nat /\ injecting' \in Nat
    BY <1>2 DEF HandleStart, sampleVars
  <2>3. loop_quit' \in BOOLEAN /\ injection_thread_flag' \in BOOLEAN
    BY <1>2 DEF HandleStart, sampleVars
  <2> QED BY <2>1, <2>2, <2>3
<1>3. CASE HandleStop
  <2>1. TypeOK'
    <3>1. CASE injection_thread_flag
      BY <1>3, <3>1, GoMoves DEF HandleStop, TypeOK, InDisconnect, sockVars
    <3>2. CASE ~injection_thread_flag
      BY <1>1, <1>3, <3>2 DEF HandleStop
    <3> QED BY <3>1, <3>2
  <2>2. looking' \in Nat /\ injecting' \in Nat
    BY <1>3 DEF HandleStop, sampleVars
  <2>3. loop_quit' \in BOOLEAN /\ injection_thread_flag' \in BOOLEAN
    BY <1>3 DEF HandleStop, sampleVars
  <2> QED BY <2>1, <2>2, <2>3
<1>4. CASE HandleStopJoin \/ HandleOther
  BY <1>1, <1>4 DEF HandleStopJoin, HandleOther, sampleVars
<1>5. CASE InjectorLooks
  <2>1. looking' \in Nat /\ injecting' \in Nat
    BY <1>5 DEF InjectorLooks
  <2>2. UNCHANGED <<mStop, mSockGps, pc, ret, fds, conn, inbox, written, shut,
                    loop_quit, injection_thread_flag>>
    BY <1>5 DEF InjectorLooks, vars
  <2> QED BY <2>1, <2>2 DEF TypeOK
<1>6. CASE InjectorWrites
  <2>1. looking' \in Nat /\ injecting' \in Nat
    BY <1>6 DEF InjectorWrites
  <2>2. UNCHANGED <<mStop, mSockGps, pc, ret, fds, conn, inbox, shut,
                    loop_quit, injection_thread_flag>>
    BY <1>6 DEF InjectorWrites, Write, sockVars
  <2>3. written' \in {"server", "lost", "foreign", "failed"}
    BY <1>6 DEF InjectorWrites, Write
  <2> QED BY <2>1, <2>2, <2>3 DEF TypeOK
<1> QED BY <1>2, <1>3, <1>4, <1>5, <1>6 DEF Handler, Injector

\* The receiver and the sample stay in their types: mSockGps is a descriptor or
\* -1, the two counters of injection threads never go below zero.
THEOREM TypeCorrect == FairSpec => []SampleTypeOK
<1>1. SampleInit => SampleTypeOK
  <2> SUFFICES ASSUME SampleInit
               PROVE  SampleTypeOK
    OBVIOUS
  <2>1. /\ mStop \in BOOLEAN /\ shut \in BOOLEAN
        /\ loop_quit \in BOOLEAN /\ injection_thread_flag \in BOOLEAN
    BY Zenon DEF SampleInit, Init
  <2>2. looking \in Nat /\ injecting \in Nat /\ inbox \in 0 .. MaxCmds
    BY GpsAssumption DEF SampleInit, Init, GpsAssumption
  <2>3. pc["worker"] = "top" /\ pc["dtor"] = "idle" /\ DOMAIN pc = Thread
    BY DEF SampleInit, Init, Thread
  <2>4. /\ mSockGps = None /\ ret = "exit" /\ conn = "none" /\ written = "none"
        /\ fds \in [Fd -> {"free", "ours", "foreign"}]
    BY DEF SampleInit, Init
  <2> QED BY <2>1, <2>2, <2>3, <2>4 DEF SampleTypeOK, TypeOK, InDisconnect
<1>2. SampleTypeOK /\ [Next]_allVars => SampleTypeOK'
  <2> SUFFICES ASSUME SampleTypeOK, [Next]_allVars
               PROVE  SampleTypeOK'
    OBVIOUS
  <2>1. CASE Receiver(WorkerStep)
    BY <2>1, WorkerTyped DEF Receiver, SampleTypeOK, sampleVars
  <2>2. CASE Receiver(Destroy) \/ Receiver(DestroyStep) \/ Receiver(Environment)
    BY <2>2, OthersTyped DEF Receiver, SampleTypeOK, sampleVars
  <2>3. CASE Handler \/ Injector
    BY <2>3, SampleTyped
  <2>4. CASE Terminated \/ UNCHANGED allVars
    BY <2>4 DEF Terminated, allVars, vars, sampleVars, SampleTypeOK, TypeOK
  <2> QED BY <2>1, <2>2, <2>3, <2>4 DEF Next
<1> QED BY <1>1, <1>2, PTL DEF FairSpec

-----------------------------------------------------------------------------
(* One injection thread.                                                    *)

\* At most one injection thread is alive, and it is either counted as started or
\* being joined by the work thread: START never starts a second one, and STOP
\* does not return before the first has ended.  The invariant is inductive with the
\* types, because while the work thread joins it is in the handler (JoinKept).
THEOREM InjectorUnique == FairSpec => []OneInjector
<1>1. SampleInit => OneInjector
  BY DEF SampleInit, OneInjector, Alive
<1>2. SampleTypeOK /\ OneInjector /\ [Next]_allVars => OneInjector'
  <2> SUFFICES ASSUME SampleTypeOK, OneInjector, [Next]_allVars
               PROVE  OneInjector'
    OBVIOUS
  <2> "worker" \in Thread /\ "dtor" \in Thread
    BY DEF Thread
  <2>1. looking \in Nat /\ injecting \in Nat /\ DOMAIN pc = Thread
    BY DEF SampleTypeOK, TypeOK
  <2>2. CASE \/ Receiver(WorkerStep) \/ Receiver(Destroy) \/ Receiver(DestroyStep)
             \/ Receiver(Environment)
    <3>1. /\ WorkerStep \/ Destroy \/ DestroyStep \/ Environment
          /\ UNCHANGED <<loop_quit, injection_thread_flag, looking, injecting>>
      BY <2>2 DEF Receiver, sampleVars
    <3>2. pc["worker"] = "joining" => pc'["worker"] = "joining"
      BY <2>1, <3>1, JoinKept
    <3> QED BY <3>1, <3>2 DEF OneInjector, Alive
  <2>3. CASE HandleStart
    BY <2>1, <2>3 DEF HandleStart, OneInjector, Alive, sampleVars
  <2>4. CASE HandleStop
    <3>1. CASE injection_thread_flag
      <4>1. Alive' = Alive /\ pc'["worker"] = "joining"
        BY <2>1, <2>4, <3>1, GoMoves DEF HandleStop, Alive
      <4> QED BY <4>1 DEF OneInjector
    <3>2. CASE ~injection_thread_flag
      BY <2>1, <2>4, <3>2 DEF HandleStop, OneInjector, Alive, sampleVars
    <3> QED BY <3>1, <3>2
  <2>5. CASE HandleStopJoin \/ HandleOther
    BY <2>1, <2>5 DEF HandleStopJoin, HandleOther, OneInjector, Alive, sampleVars
  <2>6. CASE InjectorLooks \/ InjectorWrites
    <3>1. Alive' \in {Alive, Alive - 1} /\ Alive \in Nat
      BY <2>1, <2>6 DEF InjectorLooks, InjectorWrites, Alive
    <3>2. UNCHANGED <<pc, injection_thread_flag>>
      BY <2>6 DEF InjectorLooks, InjectorWrites, Write, vars
    <3> QED BY <3>1, <3>2 DEF OneInjector
  <2>7. CASE Terminated \/ UNCHANGED allVars
    BY <2>7 DEF Terminated, allVars, vars, sampleVars, OneInjector, Alive
  <2> QED BY <2>2, <2>3, <2>4, <2>5, <2>6, <2>7 DEF Next, Handler, Injector
<1> QED BY <1>1, <1>2, TypeCorrect, PTL DEF FairSpec

-----------------------------------------------------------------------------
(* The descriptor.                                                          *)

\* Until the destructor is called, the work thread is alone with mSockGps: it
\* makes a socket only when it has none, and forgets only one it has closed.
Alone ==
  ~mStop =>
    /\ pc["dtor"] = "idle"
    /\ pc["worker"] = "socket" => mSockGps = None
    /\ pc["worker"] \in {"reset", "forget"} => mSockGps = None \/ fds[mSockGps] # "ours"

\* close(mSockGps) leaves the descriptor free and every other one as it was.
LEMMA CloseFrees ==
  ASSUME TypeOK, CloseFd(mSockGps)
  PROVE  /\ mSockGps # None => fds'[mSockGps] = "free"
         /\ \A f \in Fd : fds'[f] = "ours" => fds[f] = "ours" /\ f # mSockGps
BY GpsAssumption DEF TypeOK, CloseFd, Target, None, GpsAssumption

\* Either thread's Disconnect.
LEMMA DisconnectOwned ==
  ASSUME TypeOK, SocketOwned, Alone, NEW t \in Thread, DisconnectStep(t)
  PROVE  SocketOwned' /\ Alone'
<1>0. /\ t \in {"worker", "dtor"} /\ "worker" \in Thread /\ "dtor" \in Thread
      /\ DOMAIN pc = Thread /\ mStop' = mStop
  BY DEF TypeOK, Thread, DisconnectStep, Disconnect, DisconnectShutdown, DisconnectClose,
         DisconnectReset
<1>1. CASE Disconnect(t)
  <2>1. UNCHANGED <<mSockGps, fds>> /\ pc[t] = "disconnect"
    BY <1>1 DEF Disconnect, sockVars
  <2>2. \/ mSockGps = None /\ t = "worker" /\ (Go(t, "socket") \/ Go(t, "exit"))
        \/ mSockGps = None /\ t = "dtor" /\ Go(t, "join")
        \/ Go(t, "shutdown")
    BY <1>0, <1>1 DEF Disconnect, Disconnected, TypeOK
  <2> QED BY <1>0, <2>1, <2>2, GoMoves DEF SocketOwned, Alone
<1>2. CASE DisconnectShutdown(t)
  <2>1. UNCHANGED <<mSockGps, fds>> /\ pc[t] = "shutdown" /\ Go(t, "close")
    BY <1>2 DEF DisconnectShutdown
  <2> QED BY <1>0, <2>1, GoMoves DEF SocketOwned, Alone
<1>3. CASE DisconnectClose(t)
  <2>1. mSockGps' = mSockGps /\ pc[t] = "close" /\ Go(t, "reset") /\ CloseFd(mSockGps)
    BY <1>3 DEF DisconnectClose
  <2> QED BY <1>0, <2>1, GoMoves, CloseFrees DEF SocketOwned, Alone
<1>4. CASE DisconnectReset(t)
  <2>1. mSockGps' = None /\ fds' = fds /\ pc[t] = "reset"
    BY <1>4 DEF DisconnectReset, sockVars
  <2>2. \/ t = "worker" /\ (Go(t, "socket") \/ Go(t, "exit"))
        \/ t = "dtor" /\ Go(t, "join")
    BY <1>0, <1>4 DEF DisconnectReset, Disconnected, TypeOK
  <2>3. ~mStop => \A f \in Fd : fds[f] # "ours"
    BY <1>0, <2>1, GpsAssumption DEF SocketOwned, Alone, GpsAssumption, None
  <2> QED BY <1>0, <2>1, <2>2, <2>3, GoMoves DEF SocketOwned, Alone
<1> QED BY <1>1, <1>2, <1>3, <1>4 DEF DisconnectStep

\* The work thread outside Disconnect and the handler.
LEMMA WorkerOwned ==
  ASSUME TypeOK, SocketOwned, Alone, WorkerStep
  PROVE  SocketOwned' /\ Alone'
<1>0. "worker" \in Thread /\ "dtor" \in Thread /\ DOMAIN pc = Thread
  BY DEF TypeOK, Thread
<1>1. ASSUME NEW place, place \notin {"socket", "reset", "forget"}, Go("worker", place),
             UNCHANGED <<mStop, mSockGps, fds>>, pc["worker"] \notin {"reset", "forget"}
      PROVE  SocketOwned' /\ Alone'
  BY <1>0, <1>1, GoMoves DEF SocketOwned, Alone
<1>2. CASE WorkerTop \/ WorkerCheck \/ ConnectCall
  BY <1>1, <1>2 DEF WorkerTop, WorkerCheck, ConnectCall, sockVars
<1>3. CASE Connect
  <2>1. UNCHANGED <<mStop, mSockGps, fds>> /\ pc["worker"] = "connect"
    BY <1>3 DEF Connect, sockVars
  <2>2. \/ Go("worker", "disconnect")
        \/ Go("worker", "socket") /\ mSockGps = None
    BY <1>3, GpsAssumption DEF Connect, TypeOK, GpsAssumption
  <2> QED BY <1>0, <2>1, <2>2, GoMoves DEF SocketOwned, Alone
<1>4. CASE ConnectSocket
  <2>0. mStop' = mStop /\ pc["worker"] = "socket"
    BY <1>4 DEF ConnectSocket
  <2>1. ASSUME NEW f \in Fd, fds' = [fds EXCEPT ![f] = "ours"], mSockGps' = f,
               Go("worker", "call")
        PROVE  SocketOwned' /\ Alone'
    <3>1. ~mStop => \A g \in Fd : fds[g] # "ours"
      BY <2>0, GpsAssumption DEF SocketOwned, Alone, GpsAssumption, None
    <3>2. fds'[f] = "ours" /\ \A g \in Fd : g # f => fds'[g] = fds[g]
      BY <2>1 DEF TypeOK
    <3> QED BY <1>0, <2>0, <2>1, <3>1, <3>2, GoMoves DEF SocketOwned, Alone
  <2>2. ASSUME mSockGps' = None, Go("worker", "top"), fds' = fds
        PROVE  SocketOwned' /\ Alone'
    BY <1>0, <2>0, <2>2, GoMoves DEF SocketOwned, Alone
  <2> QED BY <1>4, <2>1, <2>2 DEF ConnectSocket, sockVars
<1>5. CASE ConnectSucceeds \/ ConnectFails
  BY <1>1, <1>5 DEF ConnectSucceeds, ConnectFails
<1>6. CASE ConnectClose
  <2>1. /\ mSockGps' = mSockGps /\ mStop' = mStop /\ pc["worker"] = "failed"
        /\ Go("worker", "forget") /\ CloseFd(mSockGps)
    BY <1>6 DEF ConnectClose
  <2> QED BY <1>0, <2>1, GoMoves, CloseFrees DEF SocketOwned, Alone
<1>7. CASE ConnectForget
  <2>1. /\ mSockGps' = None /\ fds' = fds /\ mStop' = mStop
        /\ pc["worker"] = "forget" /\ Go("worker", "top")
    BY <1>7 DEF ConnectForget, sockVars
  <2>2. ~mStop => \A f \in Fd : fds[f] # "ours"
    BY <2>1, GpsAssumption DEF SocketOwned, Alone, GpsAssumption, None
  <2> QED BY <1>0, <2>1, <2>2, GoMoves DEF SocketOwned, Alone
<1>8. CASE Read \/ ReadReturns
  BY <1>1, <1>8 DEF Read, ReadReturns, ReadFails, ReadEnds, ReadCommand, sockVars
<1>9. CASE DisconnectStep("worker")
  BY <1>0, <1>9, DisconnectOwned
<1> QED BY <1>2, <1>3, <1>4, <1>5, <1>6, <1>7, <1>8, <1>9 DEF WorkerStep

\* The destructor and the world around the receiver.  The rest of the process
\* opens and closes no descriptor of the receiver.
LEMMA OthersOwned ==
  ASSUME TypeOK, SocketOwned, Alone, Destroy \/ DestroyStep \/ Environment
  PROVE  SocketOwned' /\ Alone'
<1>0. "worker" \in Thread /\ "dtor" \in Thread /\ DOMAIN pc = Thread
  BY DEF TypeOK, Thread
<1>1. CASE Destroy
  <2>1. /\ UNCHANGED <<mSockGps, fds>> /\ mStop'
        /\ pc["dtor"] = "idle" /\ Go("dtor", "look")
    BY <1>1 DEF Destroy, sockVars
  <2> QED BY <1>0, <2>1, GoMoves DEF SocketOwned, Alone
<1>2. CASE DestroyLooks \/ Join
  <2>1. /\ UNCHANGED <<mSockGps, fds, mStop>> /\ pc["dtor"] \in {"look", "join"}
        /\ Go("dtor", "disconnect") \/ Go("dtor", "join") \/ Go("dtor", "done")
    BY <1>2 DEF DestroyLooks, Join, sockVars
  <2> QED BY <1>0, <2>1, GoMoves DEF SocketOwned, Alone
<1>3. CASE DisconnectStep("dtor")
  BY <1>0, <1>3, DisconnectOwned
<1>4. CASE OthersOpen \/ OthersClose
  <2>1. UNCHANGED <<mStop, mSockGps, pc>>
    BY <1>4 DEF OthersOpen, OthersClose
  <2>2. \A f \in Fd : fds'[f] = "ours" <=> fds[f] = "ours"
    BY <1>4 DEF OthersOpen, OthersClose, IsLowestFree, TypeOK
  <2> QED BY <2>1, <2>2 DEF SocketOwned, Alone, TypeOK
<1>5. CASE ServerCommand \/ ServerCloses
  BY <1>5 DEF ServerCommand, ServerCloses, SocketOwned, Alone
<1> QED BY <1>1, <1>2, <1>3, <1>4, <1>5 DEF DestroyStep, Environment

\* The command handler and the injection thread leave the descriptor alone.
LEMMA SampleOwned ==
  ASSUME TypeOK, SocketOwned, Alone, Handler \/ Injector
  PROVE  SocketOwned' /\ Alone'
<1>0. "worker" \in Thread /\ "dtor" \in Thread /\ DOMAIN pc = Thread
  BY DEF TypeOK, Thread
<1>1. CASE Handler
  <2>1. /\ UNCHANGED <<mStop, mSockGps, fds>> /\ pc["worker"] \in {"handler", "joining"}
        /\ Go("worker", "top") \/ Go("worker", "joining")
    BY <1>1 DEF Handler, HandleStart, HandleStop, HandleStopJoin, HandleOther, Handled,
                sockVars
  <2> QED BY <1>0, <2>1, GoMoves DEF SocketOwned, Alone
<1>2. CASE Injector
  <2>1. UNCHANGED <<mStop, mSockGps, fds, pc>>
    BY <1>2 DEF Injector, InjectorLooks, InjectorWrites, Write, vars, sockVars
  <2> QED BY <2>1 DEF SocketOwned, Alone
<1> QED BY <1>1, <1>2

\* Together they hold throughout.
LEMMA OwnedHolds == FairSpec => [](SampleTypeOK /\ SocketOwned /\ Alone)
<1>1. SampleInit => SocketOwned /\ Alone
  BY DEF SampleInit, Init, SocketOwned, Alone, Thread
<1>2. SampleTypeOK /\ SocketOwned /\ Alone /\ [Next]_allVars => SocketOwned' /\ Alone'
  <2> SUFFICES ASSUME SampleTypeOK, SocketOwned, Alone, [Next]_allVars
               PROVE  SocketOwned' /\ Alone'
    OBVIOUS
  <2>1. TypeOK
    BY DEF SampleTypeOK
  <2>2. CASE Receiver(WorkerStep)
    BY <2>1, <2>2, WorkerOwned DEF Receiver
  <2>3. CASE Receiver(Destroy) \/ Receiver(DestroyStep) \/ Receiver(Environment)
    BY <2>1, <2>3, OthersOwned DEF Receiver
  <2>4. CASE Handler \/ Injector
    BY <2>1, <2>4, SampleOwned
  <2>5. CASE Terminated \/ UNCHANGED allVars
    BY <2>5 DEF Terminated, allVars, vars, SocketOwned, Alone
  <2> QED BY <2>2, <2>3, <2>4, <2>5 DEF Next
<1> QED BY <1>1, <1>2, TypeCorrect, PTL DEF FairSpec

\* mSockGps names a socket of the receiver at every place but the one between
\* close() and the assignment of -1, and before the destructor runs no connect,
\* read or disconnect of the work thread loses an open socket: for any number of
\* descriptors, whatever the rest of the process opens and closes meanwhile.
THEOREM DescriptorOwned == FairSpec => []SocketOwned
BY OwnedHolds, PTL

-----------------------------------------------------------------------------
(* A connection is kept while the server keeps it.                          *)

\* Until the destructor is called, a connection that is up has mSockGps for its
\* descriptor, and the work thread makes, closes or disconnects a socket only
\* where there is none that is up, or where it is descriptor 0.
Settled == {"top", "check", "read", "reading", "handler", "joining", "exit"}
Leaving == {"connect", "disconnect", "shutdown"}

KeptInv ==
  ~mStop =>
    /\ pc["dtor"] = "idle"
    /\ conn = "up" => /\ mSockGps \in Fd /\ fds[mSockGps] = "ours"
                      /\ pc["worker"] \in Settled \cup Leaving
                      /\ pc["worker"] \in Leaving => mSockGps = 0

\* What KeptWhileUp says of a step.
Keeps == conn = "up" /\ conn' \in {"none", "new", "shut"} => mStop \/ mSockGps = 0

\* The work thread's steps.  A read that returns leaves the connection as it is,
\* because its descriptor is still there.
LEMMA WorkerKeeps ==
  ASSUME TypeOK, SocketOwned, KeptInv, WorkerStep
  PROVE  KeptInv' /\ Keeps
<1>0. /\ "worker" \in Thread /\ "dtor" \in Thread /\ DOMAIN pc = Thread
      /\ Fd \subseteq Nat /\ None \notin Fd /\ None = -1 /\ mSockGps \in Fd \cup {None}
  BY GpsAssumption DEF TypeOK, Thread, GpsAssumption, None
<1>1. ASSUME NEW place, place \in Settled, Go("worker", place), UNCHANGED <<mStop, mSockGps, fds, conn>>
      PROVE  KeptInv' /\ Keeps
  BY <1>0, <1>1, GoMoves DEF KeptInv, Keeps, Settled, Leaving
<1>2. CASE WorkerTop \/ Read
  <2>1. CASE WorkerTop
    BY <1>1, <2>1 DEF WorkerTop, sockVars, Settled
  <2>2. CASE Read /\ Target(mSockGps) = "ours"
    BY <1>1, <2>2 DEF Read, ReadFails, sockVars, Settled
  <2>3. CASE Read /\ Target(mSockGps) # "ours"
    <3>1. mStop \/ conn # "up"
      BY <1>0, <2>3 DEF KeptInv, Target
    <3>2. UNCHANGED <<mStop, mSockGps, fds, conn>>
          /\ \E place : Go("worker", place)
      BY <2>3 DEF Read, ReadFails, ReadEnds, ReadCommand, sockVars
    <3> QED BY <1>0, <3>1, <3>2, GoMoves DEF KeptInv, Keeps
  <2> QED BY <1>2, <2>1, <2>2, <2>3
<1>3. CASE WorkerCheck
  <2>1. UNCHANGED <<mStop, mSockGps, fds, conn>> /\ pc["worker"] = "check"
    BY <1>3 DEF WorkerCheck, sockVars
  <2>2. Go("worker", "read") \/ (Go("worker", "connect") /\ ~(mSockGps > 0))
    BY <1>3 DEF WorkerCheck, Connected
  <2>3. mSockGps \in Fd /\ ~(mSockGps > 0) => mSockGps = 0
    BY <1>0
  <2> QED BY <1>0, <2>1, <2>2, <2>3, GoMoves DEF KeptInv, Keeps, Settled, Leaving
<1>4. CASE Connect
  <2>1. UNCHANGED <<mStop, mSockGps, fds, conn>> /\ pc["worker"] = "connect"
    BY <1>4 DEF Connect, sockVars
  <2>2. Go("worker", "disconnect") \/ (Go("worker", "socket") /\ mSockGps = None)
    BY <1>0, <1>4 DEF Connect
  <2> QED BY <1>0, <2>1, <2>2, GoMoves DEF KeptInv, Keeps, Settled, Leaving
<1>5. CASE ConnectSocket \/ ConnectCall \/ ConnectFails \/ ConnectClose \/ ConnectForget
  <2>1. /\ pc["worker"] \in {"socket", "call", "connecting", "failed", "forget"} /\ mStop' = mStop
        /\ \E place : Go("worker", place)
        /\ conn' = conn \/ conn' \in {"new", "none"}
    BY <1>5 DEF ConnectSocket, ConnectCall, ConnectFails, ConnectClose, ConnectForget, CloseFd,
                AfterCall, sockVars
  <2>2. mStop \/ conn # "up"
    BY <2>1 DEF KeptInv, Settled, Leaving
  <2> QED BY <1>0, <2>1, <2>2, GoMoves DEF KeptInv, Keeps
<1>6. CASE ConnectSucceeds
  <2>1. /\ pc["worker"] = "connecting" /\ UNCHANGED <<mStop, mSockGps, fds>>
        /\ Go("worker", "read") /\ conn' = AfterCall("up")
    BY <1>6 DEF ConnectSucceeds
  <2>2. mStop \/ conn # "up"
    BY <2>1 DEF KeptInv, Settled, Leaving
  <2>3. ~mStop /\ conn' = "up" => mSockGps \in Fd /\ fds[mSockGps] = "ours"
    BY <2>1 DEF AfterCall, SocketOwned
  <2> QED BY <1>0, <2>1, <2>2, <2>3, GoMoves DEF KeptInv, Keeps, Settled, Leaving
<1>7. CASE ReadReturns
  <2>1. UNCHANGED <<mStop, mSockGps, fds>> /\ pc["worker"] = "reading"
    BY <1>7 DEF ReadReturns
  <2>2. \/ conn' = AfterCall(conn) /\ Go("worker", "handler")
        \/ conn \notin {"up"} /\ conn' # "up" /\ \E place : Go("worker", place)
    BY <1>7 DEF ReadReturns, ReadCommand, ReadEnds, ReadFails, AfterCall
  <2>3. CASE conn # "up" /\ conn' # "up"
    BY <1>0, <2>1, <2>2, <2>3, GoMoves DEF KeptInv, Keeps
  <2>4. CASE conn' = AfterCall(conn) /\ Go("worker", "handler")
    <3>1. conn # "up" => conn' # "up"
      BY <2>4 DEF AfterCall
    <3>2. conn = "up" /\ ~mStop => conn' = conn
      BY <2>4 DEF AfterCall, KeptInv
    <3> QED BY <1>0, <1>1, <2>1, <2>4, <3>1, <3>2, GoMoves DEF KeptInv, Keeps, Settled, Leaving
  <2> QED BY <2>2, <2>3, <2>4
<1>8. CASE DisconnectStep("worker")
  <2>0. mStop' = mStop /\ \E place : Go("worker", place)
    BY <1>8 DEF DisconnectStep, Disconnect, DisconnectShutdown, DisconnectClose, DisconnectReset,
                Disconnected
  <2>1. CASE Disconnect("worker")
    <3>1. UNCHANGED <<mSockGps, fds, conn>> /\ pc["worker"] = "disconnect"
      BY <2>1 DEF Disconnect, sockVars
    <3>2. mSockGps = None \/ Go("worker", "shutdown")
      BY <2>1 DEF Disconnect
    <3> QED BY <1>0, <2>0, <3>1, <3>2, GoMoves DEF KeptInv, Keeps, Settled, Leaving
  <2>2. CASE DisconnectShutdown("worker")
    <3>1. /\ pc["worker"] = "shutdown" /\ UNCHANGED <<mSockGps, fds>>
          /\ conn' = IF HasConnection THEN "shut" ELSE conn
      BY <2>2 DEF DisconnectShutdown
    <3>2. ~mStop /\ conn = "up" => mSockGps = 0 /\ HasConnection
      BY <1>0, <3>1 DEF KeptInv, HasConnection, Target, Leaving
    <3> QED BY <1>0, <2>0, <3>1, <3>2, GoMoves DEF KeptInv, Keeps
  <2>3. CASE DisconnectClose("worker") \/ DisconnectReset("worker")
    <3>1. /\ pc["worker"] \in {"close", "reset"} /\ (conn' = conn \/ conn' = "none")
      BY <2>3 DEF DisconnectClose, DisconnectReset, CloseFd, sockVars
    <3>2. mStop \/ conn # "up"
      BY <3>1 DEF KeptInv, Settled, Leaving
    <3> QED BY <1>0, <2>0, <3>1, <3>2, GoMoves DEF KeptInv, Keeps
  <2> QED BY <1>8, <2>1, <2>2, <2>3 DEF DisconnectStep
<1> QED BY <1>2, <1>3, <1>4, <1>5, <1>6, <1>7, <1>8 DEF WorkerStep

\* Nobody else ends a connection before the destructor is called, but the server.
LEMMA OthersKeep ==
  ASSUME TypeOK, KeptInv, Destroy \/ DestroyStep \/ Environment
  PROVE  KeptInv' /\ Keeps
<1>0. /\ "worker" \in Thread /\ "dtor" \in Thread /\ DOMAIN pc = Thread
  BY DEF TypeOK, Thread
<1>1. CASE Destroy
  BY <1>1 DEF Destroy, sockVars, KeptInv, Keeps
<1>2. CASE DestroyStep
  <2>1. pc["dtor"] # "idle" /\ mStop' = mStop
    BY <1>2 DEF DestroyStep, DestroyLooks, Join, DisconnectStep, Disconnect, DisconnectShutdown,
                DisconnectClose, DisconnectReset
  <2> QED BY <2>1 DEF KeptInv, Keeps
<1>3. CASE OthersOpen \/ OthersClose
  <2>1. UNCHANGED <<mStop, mSockGps, pc, conn>>
    BY <1>3 DEF OthersOpen, OthersClose
  <2>2. \A f \in Fd : fds'[f] = "ours" <=> fds[f] = "ours"
    BY <1>3 DEF OthersOpen, OthersClose, IsLowestFree, TypeOK
  <2> QED BY <2>1, <2>2 DEF KeptInv, Keeps
<1>4. CASE ServerCommand \/ ServerCloses
  BY <1>4 DEF ServerCommand, ServerCloses, KeptInv, Keeps
<1> QED BY <1>1, <1>2, <1>3, <1>4 DEF Environment

\* Nor do the command handler and the injection thread.
LEMMA SampleKeeps ==
  ASSUME TypeOK, KeptInv, Handler \/ Injector
  PROVE  KeptInv' /\ Keeps
<1>0. /\ "worker" \in Thread /\ "dtor" \in Thread /\ DOMAIN pc = Thread
  BY DEF TypeOK, Thread
<1>1. CASE Handler
  <2>1. /\ UNCHANGED <<mStop, mSockGps, fds, conn>>
        /\ Go("worker", "top") \/ Go("worker", "joining")
    BY <1>1 DEF Handler, HandleStart, HandleStop, HandleStopJoin, HandleOther, Handled, sockVars
  <2> QED BY <1>0, <2>1, GoMoves DEF KeptInv, Keeps, Settled, Leaving
<1>2. CASE Injector
  BY <1>2 DEF Injector, InjectorLooks, InjectorWrites, Write, vars, sockVars, KeptInv, Keeps
<1> QED BY <1>1, <1>2

\* The receiver never gives up a connection that the server keeps, unless it is
\* on descriptor 0 or the destructor has been called (KeptWhileUp).
THEOREM ConnectionKept == FairSpec => KeptWhileUp
<1>1. SampleInit => KeptInv
  BY DEF SampleInit, Init, KeptInv, Thread
<1>2. SampleTypeOK /\ SocketOwned /\ Alone /\ KeptInv /\ [Next]_allVars => KeptInv' /\ Keeps
  <2> SUFFICES ASSUME SampleTypeOK, SocketOwned, KeptInv, [Next]_allVars
               PROVE  KeptInv' /\ Keeps
    OBVIOUS
  <2>1. TypeOK
    BY DEF SampleTypeOK
  <2>2. CASE Receiver(WorkerStep)
    BY <2>1, <2>2, WorkerKeeps DEF Receiver
  <2>3. CASE Receiver(Destroy) \/ Receiver(DestroyStep) \/ Receiver(Environment)
    BY <2>1, <2>3, OthersKeep DEF Receiver
  <2>4. CASE Handler \/ Injector
    BY <2>1, <2>4, SampleKeeps
  <2>5. CASE Terminated \/ UNCHANGED allVars
    BY <2>5 DEF Terminated, allVars, vars, KeptInv, Keeps
  <2> QED BY <2>2, <2>3, <2>4, <2>5 DEF Next
<1>3. Keeps => [conn = "up" /\ conn' \in {"none", "new", "shut"} => mStop \/ mSockGps = 0]_vars
  BY DEF Keeps
<1> QED BY <1>1, <1>2, <1>3, OwnedHolds, PTL DEF FairSpec, KeptWhileUp
=============================================================================
