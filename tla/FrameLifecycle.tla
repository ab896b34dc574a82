--------------------------- MODULE FrameLifecycle ---------------------------
(***************************************************************************)
(* What VirtualHwcReceiver promises the application through its HwcHandler *)
(* callback (include/libvhal/hwc_vhal.h, enum CommandType): a frame handle *)
(* is announced once by FRAME_CREATE, may be displayed any number of times *)
(* by FRAME_DISPLAY while it is announced, and is withdrawn at most once   *)
(* by FRAME_REMOVE, after which the application never hears of it again.   *)
(* The threads, the socket, the heap and the log are all absent here.      *)
(***************************************************************************)
CONSTANTS Handle,    \* the local buffer handles ever given to the callback
          NoHandle   \* nullptr

VARIABLES life,      \* life[h]: what the application has been told about h
          screen     \* the handle of the last FRAME_DISPLAY

absVars == <<life, screen>>

Init ==
  /\ life = [h \in Handle |-> "none"]
  /\ screen = NoHandle

Create(h) ==
  /\ life[h] = "none"
  /\ life' = [life EXCEPT ![h] = "created"]
  /\ UNCHANGED screen

Display(h) ==
  /\ life[h] = "created"
  /\ screen' = h
  /\ UNCHANGED life

Remove(h) ==
  /\ life[h] = "created"
  /\ life' = [life EXCEPT ![h] = "removed"]
  /\ UNCHANGED screen

Next == \E h \in Handle : Create(h) \/ Display(h) \/ Remove(h)

Spec == Init /\ [][Next]_absVars
=============================================================================
