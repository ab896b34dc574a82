---------------------------- MODULE GpsInjection ----------------------------
(***************************************************************************)
(* The GPS receiver and an application that uses it the way                *)
(* examples/virtual_gps_receiver_sample.cc does: the command handler, run  *)
(* by the receiver's work thread, starts and stops a thread that injects a *)
(* position every second.  The receiver is a global: its destructor runs   *)
(* when the process ends, with the injection thread still there.           *)
(*                                                                         *)
(* An injection thread is either about to look at loop_quit or in Write.   *)
(* The sample itself never ends (its fgets(str, 1, stdin) reads no q); the *)
(* model lets it end at any time.                                          *)
(***************************************************************************)
EXTENDS GpsReceiver

VARIABLES
  loop_quit,               \* asks the injection thread to end
  injection_thread_flag,   \* a thread has been started and not been joined
  looking,                 \* injection threads at the top of their loop
  injecting                \* injection threads in Write

sampleVars == <<loop_quit, injection_thread_flag, looking, injecting>>

SampleTypeOK ==
  /\ TypeOK
  /\ loop_quit \in BOOLEAN /\ injection_thread_flag \in BOOLEAN
  /\ looking \in Nat /\ injecting \in Nat

SampleInit ==
  /\ Init
  /\ loop_quit = FALSE /\ injection_thread_flag = FALSE
  /\ looking = 0 /\ injecting = 0

Alive == looking + injecting

-----------------------------------------------------------------------------
(* cmd_handler, on the work thread.                                         *)

\* kGpsStart.  A thread that has ended by itself still counts as started.
HandleStart ==
  /\ pc["worker"] = "handler"
  /\ IF injection_thread_flag THEN UNCHANGED sampleVars
     ELSE /\ injection_thread_flag' = TRUE
          /\ loop_quit' = FALSE
          /\ looking' = looking + 1
          /\ UNCHANGED injecting
  /\ Handled

\* Mutant: the thread is asked to end and not waited for.
StopWithoutJoin ==
  /\ pc["worker"] = "handler"
  /\ loop_quit' = (injection_thread_flag \/ loop_quit)
  /\ injection_thread_flag' = FALSE
  /\ UNCHANGED <<looking, injecting>>
  /\ Handled

\* kGpsStop.
HandleStop ==
  /\ pc["worker"] = "handler"
  /\ IF injection_thread_flag
     THEN /\ loop_quit' = TRUE
          /\ injection_thread_flag' = FALSE
          /\ UNCHANGED <<looking, injecting, mStop, mSockGps, ret, sockVars, written, shut>>
          /\ Go("worker", "joining")
     ELSE UNCHANGED sampleVars /\ Handled

HandleStopJoin ==
  /\ pc["worker"] = "joining" /\ Alive = 0
  /\ Handled
  /\ UNCHANGED sampleVars

\* kGpsQuit, or a command that is unknown.
HandleOther ==
  /\ pc["worker"] = "handler"
  /\ Handled
  /\ UNCHANGED sampleVars

-----------------------------------------------------------------------------
(* injection_gps_data_thread.                                               *)

Running == pc["dtor"] # "done"

\* Mutant: loop_quit is not looked at again.
LooksOnce ==
  /\ Running /\ looking > 0
  /\ looking' = looking - 1
  /\ injecting' = injecting + 1
  /\ UNCHANGED <<vars, loop_quit, injection_thread_flag>>

InjectorLooks ==
  /\ Running /\ looking > 0
  /\ looking' = looking - 1
  /\ injecting' = IF loop_quit THEN injecting ELSE injecting + 1
  /\ UNCHANGED <<vars, loop_quit, injection_thread_flag>>

\* do_geo_fix.  A failed Write ends the thread; nobody is told.
InjectorWrites ==
  /\ Running /\ injecting > 0
  /\ Write
  /\ injecting' = injecting - 1
  /\ looking' = IF written' = "failed" THEN looking ELSE looking + 1
  /\ UNCHANGED <<loop_quit, injection_thread_flag>>

-----------------------------------------------------------------------------
Terminated == pc["dtor"] = "done" /\ UNCHANGED <<vars, sampleVars>>

Handler == HandleStart \/ HandleStop \/ HandleStopJoin \/ HandleOther
Injector == InjectorLooks \/ InjectorWrites
Receiver(step) == step /\ UNCHANGED sampleVars

Next ==
  \/ Receiver(WorkerStep) \/ Receiver(Destroy) \/ Receiver(DestroyStep)
  \/ Receiver(Environment)
  \/ Handler \/ Injector \/ Terminated

allVars == <<vars, sampleVars>>

\* The threads run, and a server that is asked again and again accepts.
FairSpec ==
  /\ SampleInit /\ [][Next]_allVars
  /\ WF_allVars(Receiver(WorkerStep) \/ Handler)
  /\ SF_allVars(Receiver(ConnectSucceeds))
  /\ WF_allVars(Receiver(DestroyStep))
  /\ WF_allVars(Injector)

-----------------------------------------------------------------------------
(* Properties.                                                              *)

\* There is never more than one injection thread, whatever commands come and
\* whichever writes fail, and one that is not to be joined any more is being
\* joined: a START after a STOP does not take loop_quit back before the old
\* thread has seen it.
OneInjector ==
  /\ Alive <= 1
  /\ Alive = 1 => injection_thread_flag \/ pc["worker"] = "joining"

\* The work thread returns from a STOP, so that it reads on: the injection thread
\* sees loop_quit, whatever its Write comes to.
StopCommandReturns == pc["worker"] = "joining" ~> pc["worker"] # "joining" \/ ~Running
=============================================================================
