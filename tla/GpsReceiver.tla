----------------------------- MODULE GpsReceiver -----------------------------
(***************************************************************************)
(* VirtualGpsReceiver (source/virtual_gps_receiver.cc): a work thread      *)
(* connects to the GPS VHAL and reads one-byte commands from it, the       *)
(* application writes positions with Write, and the destructor disconnects *)
(* and joins.  All three use mSockGps, a plain int, with no lock: what it  *)
(* holds may be closed, and given to another file of the process, before   *)
(* the next thread uses it.                                                *)
(*                                                                         *)
(* "fds" is the process's descriptor table; "conn" is the work thread's    *)
(* socket in the kernel, which outlives its descriptor while the thread is *)
(* in connect() or read().  The command handler, the caller of Write and   *)
(* the specification of the whole are in GpsInjection.                     *)
(***************************************************************************)
EXTENDS Integers, FiniteSets

CONSTANTS
  Fd,        \* the descriptors that may be free
  MaxCmds    \* bound on the commands waiting in the socket

None == -1

ASSUME GpsAssumption ==
  /\ Fd \subseteq Nat
  /\ IsFiniteSet(Fd)
  /\ MaxCmds \in Nat

VARIABLES
  mStop,      \* set by the destructor
  mSockGps,   \* a descriptor, or -1
  pc,         \* program counters of the work thread and the destructor
  ret,        \* where the work thread goes after Disconnect
  fds,        \* what each descriptor refers to
  conn,       \* the work thread's socket
  inbox,      \* commands the server has sent
  written,    \* where the last write() of Write went
  shut        \* history: the destructor shut down what the work thread was reading

vars == <<mStop, mSockGps, pc, ret, fds, conn, inbox, written, shut>>
sockVars == <<fds, conn, inbox>>

Thread == {"worker", "dtor"}
InDisconnect == {"disconnect", "shutdown", "close", "reset"}

TypeOK ==
  /\ mStop \in BOOLEAN
  /\ mSockGps \in Fd \cup {None}
  /\ pc["worker"] \in InDisconnect \cup
       {"top", "check", "connect", "socket", "call", "connecting", "failed", "forget",
        "read", "reading", "handler", "joining", "exit"}
  /\ pc["dtor"] \in InDisconnect \cup {"idle", "look", "join", "done"}
  /\ DOMAIN pc = Thread
  /\ ret \in {"socket", "exit"}
  /\ fds \in [Fd -> {"free", "ours", "foreign"}]
  /\ conn \in {"none", "new", "up", "peer_closed", "reset", "shut"}
  /\ inbox \in 0..MaxCmds
  /\ written \in {"none", "server", "lost", "foreign", "failed"}
  /\ shut \in BOOLEAN

Init ==
  /\ mStop = FALSE /\ mSockGps = None
  /\ pc = [t \in Thread |-> IF t = "worker" THEN "top" ELSE "idle"]
  /\ ret = "exit"
  /\ fds = [f \in Fd |-> "free"] /\ conn = "none" /\ inbox = 0
  /\ written = "none" /\ shut = FALSE

Go(t, place) == pc' = [pc EXCEPT ![t] = place]

-----------------------------------------------------------------------------
(* The descriptor table.                                                    *)

\* What a system call on descriptor f meets; "free" is EBADF.
Target(f) == IF f = None THEN "free" ELSE fds[f]

\* socket() and open() return the lowest free descriptor.
IsLowestFree(f) == fds[f] = "free" /\ \A g \in Fd : fds[g] = "free" => f <= g

\* The work thread holds its socket in the kernel by itself.
InKernel == pc["worker"] \in {"connecting", "reading"}

CloseFd(f) ==
  /\ fds' = IF Target(f) = "free" THEN fds ELSE [fds EXCEPT ![f] = "free"]
  /\ IF Target(f) = "ours" /\ ~InKernel
     THEN conn' = "none" /\ inbox' = 0
     ELSE UNCHANGED <<conn, inbox>>

\* The socket after a system call on it: gone if nothing refers to it.
AfterCall(c) == IF \E f \in Fd : fds[f] = "ours" THEN c ELSE "none"

-----------------------------------------------------------------------------
(* Disconnect(), called by the work thread and by the destructor.           *)

Disconnected(t) == Go(t, IF t = "worker" THEN ret ELSE "join")

Disconnect(t) ==
  /\ pc[t] = "disconnect"
  /\ IF mSockGps = None THEN Disconnected(t) ELSE Go(t, "shutdown")
  /\ UNCHANGED <<mStop, mSockGps, ret, sockVars, written, shut>>

\* shutdown() reaches a connection of the receiver; elsewhere it fails.
HasConnection == Target(mSockGps) = "ours" /\ conn \in {"up", "peer_closed", "reset"}

\* Mutant: close() is trusted to wake the reader.
NoShutdown(t) ==
  /\ pc[t] = "shutdown"
  /\ shut' = (shut \/ (HasConnection /\ t = "dtor" /\ pc["worker"] = "reading"))
  /\ Go(t, "close")
  /\ UNCHANGED <<mStop, mSockGps, ret, fds, conn, inbox, written>>

DisconnectShutdown(t) ==
  /\ pc[t] = "shutdown"
  /\ conn' = IF HasConnection THEN "shut" ELSE conn
  /\ shut' = (shut \/ (HasConnection /\ t = "dtor" /\ pc["worker"] = "reading"))
  /\ Go(t, "close")
  /\ UNCHANGED <<mStop, mSockGps, ret, fds, inbox, written>>

DisconnectClose(t) ==
  /\ pc[t] = "close"
  /\ CloseFd(mSockGps)
  /\ Go(t, "reset")
  /\ UNCHANGED <<mStop, mSockGps, ret, written, shut>>

DisconnectReset(t) ==
  /\ pc[t] = "reset"
  /\ mSockGps' = None
  /\ Disconnected(t)
  /\ UNCHANGED <<mStop, ret, sockVars, written, shut>>

-----------------------------------------------------------------------------
(* workThreadProc() with Connect() and Read().                              *)

WorkerTop ==
  /\ pc["worker"] = "top"
  /\ Go("worker", IF mStop THEN "exit" ELSE "check")
  /\ UNCHANGED <<mStop, mSockGps, ret, sockVars, written, shut>>

\* Mutant: off by one.
ConnectedOffByOne == mSockGps > 1

Connected == mSockGps > 0

WorkerCheck ==
  /\ pc["worker"] = "check"
  /\ Go("worker", IF Connected THEN "read" ELSE "connect")
  /\ UNCHANGED <<mStop, mSockGps, ret, sockVars, written, shut>>

\* Descriptor 0 is a socket for Connect and none for Connected.
Connect ==
  /\ pc["worker"] = "connect"
  /\ Go("worker", IF mSockGps >= 0 THEN "disconnect" ELSE "socket")
  /\ ret' = "socket"
  /\ UNCHANGED <<mStop, mSockGps, sockVars, written, shut>>

ConnectSocket ==
  /\ pc["worker"] = "socket"
  /\ \/ \E f \in Fd :
          /\ IsLowestFree(f)
          /\ fds' = [fds EXCEPT ![f] = "ours"]
          /\ conn' = "new" /\ inbox' = 0
          /\ mSockGps' = f
          /\ Go("worker", "call")
     \/ /\ \A f \in Fd : fds[f] # "free"
        /\ mSockGps' = None
        /\ Go("worker", "top")
        /\ UNCHANGED sockVars
  /\ UNCHANGED <<mStop, ret, written, shut>>

ConnectCall ==
  /\ pc["worker"] = "call"
  /\ Go("worker", IF Target(mSockGps) = "ours" THEN "connecting" ELSE "failed")
  /\ UNCHANGED <<mStop, mSockGps, ret, sockVars, written, shut>>

ConnectSucceeds ==
  /\ pc["worker"] = "connecting"
  /\ conn' = AfterCall("up")
  /\ Go("worker", "read")
  /\ UNCHANGED <<mStop, mSockGps, ret, fds, inbox, written, shut>>

ConnectFails ==
  /\ pc["worker"] = "connecting"
  /\ conn' = AfterCall(conn)
  /\ Go("worker", "failed")
  /\ UNCHANGED <<mStop, mSockGps, ret, fds, inbox, written, shut>>

\* Mutant: the descriptor is closed and kept.
CloseWithoutForget ==
  /\ pc["worker"] = "failed"
  /\ CloseFd(mSockGps)
  /\ Go("worker", "top")
  /\ UNCHANGED <<mStop, mSockGps, ret, written, shut>>

\* Mutant: the descriptor is forgotten and not closed.
ForgetWithoutClose ==
  /\ pc["worker"] = "failed"
  /\ Go("worker", "forget")
  /\ UNCHANGED <<mStop, mSockGps, ret, sockVars, written, shut>>

ConnectClose ==
  /\ pc["worker"] = "failed"
  /\ CloseFd(mSockGps)
  /\ Go("worker", "forget")
  /\ UNCHANGED <<mStop, mSockGps, ret, written, shut>>

ConnectForget ==
  /\ pc["worker"] = "forget"
  /\ mSockGps' = None
  /\ Go("worker", "top")
  /\ UNCHANGED <<mStop, ret, sockVars, written, shut>>

\* After an error the loop goes on with the same socket; after an end of file
\* the thread disconnects and ends.
ReadFails == Go("worker", "top") /\ UNCHANGED ret
ReadEnds == Go("worker", "disconnect") /\ ret' = "exit"
ReadCommand == Go("worker", "handler") /\ UNCHANGED ret

\* read(mSockGps) of no descriptor fails; of another file it returns anything.
Read ==
  /\ pc["worker"] = "read"
  /\ \/ Target(mSockGps) = "ours" /\ Go("worker", "reading") /\ UNCHANGED ret
     \/ Target(mSockGps) # "ours" /\ ReadFails
     \/ Target(mSockGps) = "foreign" /\ (ReadEnds \/ ReadCommand)
  /\ UNCHANGED <<mStop, mSockGps, sockVars, written, shut>>

\* Mutant: an end of file counts as a command.
ReadEndIsCommand ==
  /\ pc["worker"] = "reading"
  /\ inbox > 0 \/ conn \in {"peer_closed", "shut", "reset"}
  /\ inbox' = inbox - 1
  /\ conn' = AfterCall(conn)
  /\ ReadCommand
  /\ UNCHANGED <<mStop, mSockGps, fds, written, shut>>

ReadReturns ==
  /\ pc["worker"] = "reading"
  /\ \/ /\ inbox > 0
        /\ inbox' = inbox - 1
        /\ conn' = AfterCall(conn)
        /\ ReadCommand
     \/ /\ inbox = 0
        /\ conn \in {"peer_closed", "shut"}
        /\ conn' = AfterCall(conn)
        /\ ReadEnds
        /\ UNCHANGED inbox
     \/ /\ conn = "reset"
        /\ conn' = AfterCall("peer_closed")
        /\ inbox' = 0
        /\ ReadFails
  /\ UNCHANGED <<mStop, mSockGps, fds, written, shut>>

\* The handler has returned, or the command was none that is known.
Handled ==
  /\ Go("worker", "top")
  /\ UNCHANGED <<mStop, mSockGps, ret, sockVars, written, shut>>

-----------------------------------------------------------------------------
(* The calls of the application, and the rest of its process.               *)

\* One write() of Write's loop, which reads mSockGps each time.  The first ones
\* after the server has closed still go into the socket.  The Disconnect() behind a
\* write() that returns 0 is not reached: left > 0, and a stream socket then takes
\* a byte or fails.  A write() that blocks on a full socket is a step not yet taken.
Write ==
  /\ written' \in CASE Target(mSockGps) = "foreign" -> {"foreign", "failed"}
                   [] Target(mSockGps) = "ours" /\ conn = "up" -> {"server"}
                   [] Target(mSockGps) = "ours" /\ conn = "peer_closed" -> {"lost", "failed"}
                   [] OTHER -> {"failed"}
  /\ UNCHANGED <<mStop, mSockGps, pc, ret, sockVars, shut>>

Destroy ==
  /\ pc["dtor"] = "idle"
  /\ mStop' = TRUE
  /\ Go("dtor", "look")
  /\ UNCHANGED <<mSockGps, ret, sockVars, written, shut>>

DestroyLooks ==
  /\ pc["dtor"] = "look"
  /\ Go("dtor", IF mSockGps >= 0 THEN "disconnect" ELSE "join")
  /\ UNCHANGED <<mStop, mSockGps, ret, sockVars, written, shut>>

Join ==
  /\ pc["dtor"] = "join"
  /\ pc["worker"] = "exit"
  /\ Go("dtor", "done")
  /\ UNCHANGED <<mStop, mSockGps, ret, sockVars, written, shut>>

OthersOpen ==
  /\ \E f \in Fd : IsLowestFree(f) /\ fds' = [fds EXCEPT ![f] = "foreign"]
  /\ UNCHANGED <<mStop, mSockGps, pc, ret, conn, inbox, written, shut>>

OthersClose ==
  /\ \E f \in Fd : fds[f] = "foreign" /\ fds' = [fds EXCEPT ![f] = "free"]
  /\ UNCHANGED <<mStop, mSockGps, pc, ret, conn, inbox, written, shut>>

-----------------------------------------------------------------------------
(* The GPS VHAL server.                                                     *)

ServerCommand ==
  /\ conn = "up"
  /\ inbox < MaxCmds
  /\ inbox' = inbox + 1
  /\ UNCHANGED <<mStop, mSockGps, pc, ret, fds, conn, written, shut>>

ServerCloses ==
  /\ conn = "up"
  /\ conn' \in {"peer_closed", "reset"}
  /\ UNCHANGED <<mStop, mSockGps, pc, ret, fds, inbox, written, shut>>

-----------------------------------------------------------------------------
DisconnectStep(t) == Disconnect(t) \/ DisconnectShutdown(t) \/ DisconnectClose(t)
                     \/ DisconnectReset(t)

\* The work thread, without the handler.
WorkerStep ==
  \/ WorkerTop \/ WorkerCheck \/ Connect \/ ConnectSocket \/ ConnectCall
  \/ ConnectSucceeds \/ ConnectFails \/ ConnectClose \/ ConnectForget
  \/ Read \/ ReadReturns \/ DisconnectStep("worker")

DestroyStep == DestroyLooks \/ DisconnectStep("dtor") \/ Join

Environment == OthersOpen \/ OthersClose \/ ServerCommand \/ ServerCloses

-----------------------------------------------------------------------------
(* Properties.                                                              *)

\* mSockGps names a socket of the receiver, except between a close() and the
\* assignment of -1 that follows it: only there can a Read, a Write or a second
\* Disconnect reach a descriptor that is another file's by now.  And until the
\* destructor is called, no socket of the receiver is open that mSockGps has
\* lost, however many connects have failed.
SocketOwned ==
  /\ mSockGps # None /\ fds[mSockGps] # "ours" =>
       pc["worker"] \in {"reset", "forget"} \/ pc["dtor"] = "reset"
  /\ \A f \in Fd : fds[f] = "ours" => mSockGps = f \/ mStop

\* Until the destructor is called, a connection the server has not closed is
\* kept; on descriptor 0, which Connected() takes for none, it is not.
KeptWhileUp ==
  [][conn = "up" /\ conn' \in {"none", "new", "shut"} => mStop \/ mSockGps = 0]_vars

\* A destructor that shuts down the connection the work thread is reading
\* returns from its join.  Elsewhere in its loop the thread may connect once
\* more after the destructor has looked, and read for ever.
ShutdownEndsJoin == shut ~> pc["dtor"] = "done"

\* A failed connect() is tried again until the server accepts, or socket()
\* itself fails because the process has no descriptor left.
ConnectsInTheEnd ==
  pc["worker"] = "failed" ~>
    \/ conn = "up" \/ mStop
    \/ pc["worker"] = "socket" /\ \A f \in Fd : fds[f] # "free"
=============================================================================
