---------------------------- MODULE InputReceiver ----------------------------
(***************************************************************************)
(* VirtualInputReceiver (source/virtual_input_receiver.cc): touch,         *)
(* joystick and key injection.  A call turns each command into evdev       *)
(* events and writes them, one write() each, into a FIFO that the Android  *)
(* side reads with the multi-touch slot protocol of the Linux kernel.      *)
(*                                                                         *)
(* A command changes the receiver's contacts and leaves its events in      *)
(* "out"; SendEvent writes them in order.  A write that fails (the FIFO is *)
(* opened O_NONBLOCK) loses its event and reopens the FIFO.                *)
(***************************************************************************)
EXTENDS Integers, Sequences, FiniteSets

CONSTANTS
  kMaxSlot,      \* mContacts has this many entries
  Commands,      \* the touch commands the application uses, among c r d u m w
  OtherCalls,    \* the other calls it makes: "joystick", "key"
  MaxDowns,      \* bound on the number of SendDown that take a tracking id
  MaxLost        \* bound on the number of writes that fail

ASSUME InputAssumption ==
  /\ kMaxSlot \in Nat \ {0}
  /\ Commands \subseteq {"c", "r", "d", "u", "m", "w"}
  /\ OtherCalls \subseteq {"joystick", "key"}
  /\ MaxDowns \in Nat
  /\ MaxLost \in Nat

VARIABLES
  mFd,            \* the FIFO is open
  status,         \* what mStatusProber last wrote
  enabled,        \* the slots s with mContacts[s].enabled
  trackingId,     \* mContacts[s].trackingId
  mTrackingId,    \* the next tracking id
  mEnabledSlots,  \* the number of contacts the receiver believes are down
  out,            \* the events the current command has still to write
  call,           \* the call in progress
  cmd,            \* the command it last took
  lost,           \* number of events that were not written
  slipped,        \* history: SendReset has found contacts down
  mask,           \* modifiers of the last onKeyCode
  dev             \* the reader: current slot, tracking ids, keys, last frame

io == <<mFd, status>>
contacts == <<enabled, trackingId, mTrackingId, mEnabledSlots, slipped>>
vars == <<mFd, status, enabled, trackingId, mTrackingId, mEnabledSlots, slipped, out,
          call, cmd, lost, mask, dev>>

Slot == 0..(kMaxSlot - 1)

\* ProcessOneCommand lets one more number through than there are slots.
Named == 0..kMaxSlot

Modifier == {"LEFTSHIFT", "LEFTCTRL", "LEFTALT"}
Key == Modifier \cup {"BTN_TOUCH", "SCAN", "BUTTON", "INSERT", "PULL"}
Up == -1

\* <<code, value>>
Event == (Key \X {0, 1}) \cup ({"SLOT"} \X Slot) \cup ({"TRACKING_ID"} \X (Nat \cup {Up}))
         \cup ({"AXES", "SYN"} \X {0})

TypeOK ==
  /\ mFd \in BOOLEAN
  /\ status \in {"connected", "disconnected"}
  /\ enabled \subseteq Slot
  /\ trackingId \in [Slot -> Nat]
  /\ mTrackingId \in Nat
  /\ mEnabledSlots \in Nat
  /\ out \in Seq(Event)
  /\ call \in {"idle", "touch", "joystick", "key", "destroyed"}
  /\ cmd \in {"none", "c", "r", "d", "u", "m", "w"}
  /\ lost \in Nat
  /\ slipped \in BOOLEAN
  /\ mask \subseteq Modifier
  /\ dev \in [slot : Slot, ids : [Slot -> Nat \cup {Up}], keys : SUBSET Key,
              frame : SUBSET Key]

-----------------------------------------------------------------------------
(* The FIFO and its reader.                                                 *)

\* open() of the FIFO, by the constructor and after every failed write.
CreateTouchDevice ==
  \/ mFd' = TRUE /\ status' = "connected"
  \/ mFd' = FALSE /\ status' = "disconnected"

\* The reader's state after one event.
Apply(d, code, value) ==
  CASE code = "SLOT"        -> [d EXCEPT !.slot = value]
    [] code = "TRACKING_ID" -> [d EXCEPT !.ids[d.slot] = value]
    [] code = "SYN"         -> [d EXCEPT !.frame = d.keys]
    [] code \in Key         -> [d EXCEPT !.keys = IF value = 1 THEN @ \cup {code}
                                                  ELSE @ \ {code}]
    [] OTHER                -> d

Written ==
  /\ mFd
  /\ dev' = Apply(dev, Head(out)[1], Head(out)[2])
  /\ UNCHANGED <<io, lost>>

NotWritten ==
  /\ lost < MaxLost
  /\ CreateTouchDevice
  /\ lost' = lost + 1
  /\ UNCHANGED dev

SendEvent ==
  /\ out # <<>>
  /\ out' = Tail(out)
  /\ Written \/ NotWritten
  /\ UNCHANGED <<contacts, call, cmd, mask>>

\* The constructor; a first open that fails leaves mFd at -1.
Init ==
  /\ \/ mFd = TRUE /\ status = "connected"
     \/ mFd = FALSE /\ status = "disconnected"
  /\ enabled = {}
  /\ trackingId = [s \in Slot |-> 0]
  /\ mTrackingId = 0
  /\ mEnabledSlots = 0
  /\ out = <<>>
  /\ call = "idle" /\ cmd = "none" /\ lost = 0 /\ slipped = FALSE /\ mask = {}
  /\ dev = [slot |-> 0, ids |-> [s \in Slot |-> Up], keys |-> {}, frame |-> {}]

-----------------------------------------------------------------------------
(* The events of each command.                                              *)

Commit == <<<<"SYN", 0>>>>

\* A conditional BTN_TOUCH between the events of SendDown and SendUp.
Touch(if, value) == IF if THEN <<<<"BTN_TOUCH", value>>>> ELSE <<>>

\* The five axis values of a contact travel as one event: the reader's state
\* kept here does not depend on them.
Axes == <<<<"AXES", 0>>>>

SendCommit ==
  /\ out' = Commit
  /\ UNCHANGED contacts

\* Clears the flags, and neither mEnabledSlots nor the reader's contacts.
ResetReport == IF enabled # {} THEN Commit ELSE <<>>

SendReset ==
  /\ enabled' = {}
  /\ slipped' = (slipped \/ enabled # {})
  /\ out' = ResetReport
  /\ UNCHANGED <<trackingId, mTrackingId, mEnabledSlots>>

\* Mutant: the check of ProcessOneCommand is taken to be enough.
DownTrustsParser(slot) ==
  /\ mTrackingId < MaxDowns
  /\ enabled' = enabled \cup {slot}
  /\ trackingId' = [s \in Slot \cup {slot} |-> mTrackingId]
  /\ mTrackingId' = mTrackingId + 1
  /\ mEnabledSlots' = mEnabledSlots + 1
  /\ out' = <<>>
  /\ UNCHANGED slipped

\* Mutant: the tracking id is not advanced.
DownReusesId(slot) ==
  /\ slot \in Slot
  /\ mTrackingId < MaxDowns
  /\ enabled' = enabled \cup {slot}
  /\ trackingId' = [trackingId EXCEPT ![slot] = mTrackingId]
  /\ mEnabledSlots' = mEnabledSlots + 1
  /\ out' = <<<<"SLOT", slot>>, <<"TRACKING_ID", mTrackingId>>>>
  /\ UNCHANGED <<mTrackingId, slipped>>

SendDown(slot) ==
  IF slot \notin Slot THEN out' = <<>> /\ UNCHANGED contacts
  ELSE LET reset == slot \in enabled \/ mEnabledSlots >= kMaxSlot
       IN /\ mTrackingId < MaxDowns
          /\ enabled' = (IF reset THEN {} ELSE enabled) \cup {slot}
          /\ trackingId' = [trackingId EXCEPT ![slot] = mTrackingId]
          /\ mTrackingId' = mTrackingId + 1
          /\ mEnabledSlots' = mEnabledSlots + 1
          /\ slipped' = (slipped \/ (reset /\ enabled # {}))
          /\ out' = (IF reset THEN ResetReport ELSE <<>>)
                    \o <<<<"SLOT", slot>>, <<"TRACKING_ID", mTrackingId>>>>
                    \o Touch(mEnabledSlots + 1 = 1, 1)
                    \o Axes

\* Mutant: only the count is looked at.
UpUnchecked(slot) ==
  IF mEnabledSlots = 0 \/ slot \notin Slot THEN out' = <<>> /\ UNCHANGED contacts
  ELSE /\ enabled' = enabled \ {slot}
       /\ mEnabledSlots' = mEnabledSlots - 1
       /\ out' = <<<<"SLOT", slot>>, <<"TRACKING_ID", Up>>>>
                 \o Touch(mEnabledSlots - 1 = 0, 0)
       /\ UNCHANGED <<trackingId, mTrackingId, slipped>>

\* Mutant: BTN_TOUCH is decided before the contact is counted out.
UpCountsLate(slot) ==
  IF mEnabledSlots = 0 \/ slot \notin enabled THEN out' = <<>> /\ UNCHANGED contacts
  ELSE /\ enabled' = enabled \ {slot}
       /\ mEnabledSlots' = mEnabledSlots - 1
       /\ out' = <<<<"SLOT", slot>>, <<"TRACKING_ID", Up>>>> \o Touch(mEnabledSlots = 0, 0)
       /\ UNCHANGED <<trackingId, mTrackingId, slipped>>

SendUp(slot) ==
  IF mEnabledSlots = 0 \/ slot \notin Slot \/ slot \notin enabled
  THEN out' = <<>> /\ UNCHANGED contacts
  ELSE /\ enabled' = enabled \ {slot}
       /\ mEnabledSlots' = mEnabledSlots - 1
       /\ out' = <<<<"SLOT", slot>>, <<"TRACKING_ID", Up>>>>
                 \o Touch(mEnabledSlots - 1 = 0, 0)
       /\ UNCHANGED <<trackingId, mTrackingId, slipped>>

SendMove(slot) ==
  /\ out' = IF slot \in enabled THEN <<<<"SLOT", slot>>>> \o Axes ELSE <<>>
  /\ UNCHANGED contacts

\* "w", an unknown letter, and a command whose parameters are refused.
Ignored ==
  /\ out' = <<>>
  /\ UNCHANGED contacts

-----------------------------------------------------------------------------
(* The calls.                                                               *)

\* The strings are split into commands; sent is over when out is empty.
Begin(c) ==
  /\ call = "idle"
  /\ call' = c
  /\ cmd' = "none"

onInputMessage ==
  /\ Commands # {}
  /\ Begin("touch")
  /\ UNCHANGED <<io, contacts, out, lost, mask, dev>>

ProcessOneCommand ==
  /\ call = "touch"
  /\ out = <<>>
  /\ cmd' \in Commands
  /\ \/ cmd' = "c" /\ SendCommit
     \/ cmd' = "r" /\ SendReset
     \/ cmd' = "d" /\ \E s \in Named : SendDown(s)
     \/ cmd' = "u" /\ \E s \in Named : SendUp(s)
     \/ cmd' = "m" /\ \E s \in Named : SendMove(s)
     \/ cmd' \in {"d", "u", "m", "w"} /\ Ignored
  /\ UNCHANGED <<io, call, lost, mask, dev>>

onJoystickMessage ==
  /\ "joystick" \in OtherCalls
  /\ Begin("joystick")
  /\ UNCHANGED <<io, contacts, out, lost, mask, dev>>

\* "i" and "p" press and release a key that stands for the (un)plugging.
Plug(key) == <<<<key, 1>>>> \o Commit \o <<<<key, 0>>>> \o Commit

\* "k", "a" and "m" write the code and the value they are given, whatever these are.
\* The callers are taken to give codes of a joystick, as the examples of the API's
\* comment are; the code would also pass on a code of the touch screen.
ProcessOneJoystickCommand ==
  /\ call = "joystick"
  /\ out = <<>>
  /\ \/ out' \in {Commit, Axes, Plug("INSERT"), Plug("PULL")}
     \/ out' \in {<<<<"BUTTON", v>>>> : v \in {0, 1}}
  /\ UNCHANGED <<io, contacts, call, cmd, lost, mask, dev>>

\* One modifier of onKeyCode, pressed or released if the mask has it.
Press(m, mods, value) == IF m \in mods THEN <<<<m, value>>>> \o Commit ELSE <<>>

Modifiers(mods, value) == Press("LEFTSHIFT", mods, value) \o Press("LEFTCTRL", mods, value)
                          \o Press("LEFTALT", mods, value)

KeyEvents(mods) ==
  Modifiers(mods, 1) \o Plug("SCAN") \o Modifiers(mods, 0)

onKeyCode ==
  /\ "key" \in OtherCalls
  /\ Begin("key")
  /\ \E mods \in SUBSET Modifier : mask' = mods /\ out' = KeyEvents(mods)
  /\ UNCHANGED <<io, contacts, lost, dev>>

\* Every call ends with return { 0, error_msg } and an empty error_msg.
Return ==
  /\ call \in {"touch", "joystick", "key"}
  /\ out = <<>>
  /\ call' = "idle"
  /\ UNCHANGED <<io, contacts, out, cmd, lost, mask, dev>>

Destroy ==
  /\ call = "idle"
  /\ call' = "destroyed"
  /\ mFd' = FALSE
  /\ status' = IF mFd THEN "disconnected" ELSE status
  /\ UNCHANGED <<contacts, out, cmd, lost, mask, dev>>

Next ==
  \/ SendEvent \/ Return \/ Destroy
  \/ onInputMessage \/ ProcessOneCommand
  \/ onJoystickMessage \/ ProcessOneJoystickCommand
  \/ onKeyCode

Spec == Init /\ [][Next]_vars

-----------------------------------------------------------------------------
(* Properties.                                                              *)

\* The contacts that are down are never more than mEnabledSlots says, whatever
\* is lost or reset: SendUp's early return on mEnabledSlots == 0 can never
\* keep a contact that is down from being lifted.  Until SendReset finds
\* contacts down, mEnabledSlots is exact, so the limit in SendDown is met only
\* when every slot is in use.
CountCoversContacts ==
  /\ Cardinality(enabled) <= mEnabledSlots
  /\ ~slipped => mEnabledSlots = Cardinality(enabled)

\* No two contacts of the reader ever carry one tracking id, even when a lost
\* ABS_MT_SLOT sends an id to the wrong slot.
TrackingIdsDistinct ==
  \A s, t \in Slot : s # t /\ dev.ids[s] # Up => dev.ids[s] # dev.ids[t]

\* Until an event is lost or SendReset finds contacts down, the reader sees
\* exactly the contacts that are down between two commands, each with its id,
\* and BTN_TOUCH while there is one.  A frame of onKeyCode that shows the key
\* shows all the modifiers of the mask, and none is held when the call has
\* returned.
ReaderInStep ==
  lost = 0 =>
    /\ ~slipped /\ out = <<>> =>
         /\ \A s \in Slot : dev.ids[s] = IF s \in enabled THEN trackingId[s] ELSE Up
         /\ "BTN_TOUCH" \in dev.keys <=> enabled # {}
    /\ call = "key" /\ "SCAN" \in dev.frame => mask \subseteq dev.frame
    /\ call # "key" => dev.frame \cap Modifier = {}
=============================================================================
