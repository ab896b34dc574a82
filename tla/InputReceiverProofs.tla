------------------------- MODULE InputReceiverProofs -------------------------
(***************************************************************************)
(* Theorems about InputReceiver, for every number of slots.                *)
(*                                                                         *)
(* TypeOK is inductive as it stands: an ABS_MT_SLOT event in "out" always  *)
(* names a slot there is, because SendDown, SendUp and SendMove check what *)
(* ProcessOneCommand lets through.  The two facts about mEnabledSlots need *)
(* TypeOK only for the finiteness of the set of contacts.                  *)
(*                                                                         *)
(* What the reader sees depends on the events still to be written, so the  *)
(* invariants behind the other two theorems speak of them too: IdsInv of   *)
(* the one tracking id among them, ReaderInv of the order in which slots,  *)
(* ids and keys come.                                                      *)
(***************************************************************************)
EXTENDS InputReceiver, FiniteSetTheorems, SequenceTheorems, TLAPS

\* Sequences of events are closed under the operators the commands use.
LEMMA Events ==
  /\ <<>> \in Seq(Event)
  /\ \A e \in Event : <<e>> \in Seq(Event)
  /\ \A e, f \in Event : <<e, f>> \in Seq(Event)
  /\ \A s, t \in Seq(Event) : s \o t \in Seq(Event)
  /\ \A s \in Seq(Event) : s # <<>> => Head(s) \in Event /\ Tail(s) \in Seq(Event)
  OBVIOUS

\* The fixed event groups are sequences of events.
LEMMA Groups ==
  /\ Commit \in Seq(Event)
  /\ Axes \in Seq(Event)
  /\ ResetReport \in Seq(Event)
  /\ \A b \in BOOLEAN, v \in {0, 1} : Touch(b, v) \in Seq(Event)
  /\ \A k \in Key : Plug(k) \in Seq(Event)
  /\ \A mods \in SUBSET Modifier, v \in {0, 1} : Modifiers(mods, v) \in Seq(Event)
  /\ \A mods \in SUBSET Modifier : KeyEvents(mods) \in Seq(Event)
<1>1. /\ <<"SYN", 0>> \in Event
      /\ <<"AXES", 0>> \in Event
      /\ \A k \in Key, v \in {0, 1} : <<k, v>> \in Event
  BY DEF Event
<1>2. Commit \in Seq(Event) /\ Axes \in Seq(Event)
  BY <1>1, Events DEF Commit, Axes
<1>3. ResetReport \in Seq(Event)
  BY <1>2, Events DEF ResetReport
<1>4. \A b \in BOOLEAN, v \in {0, 1} : Touch(b, v) \in Seq(Event)
  BY <1>1, Events DEF Touch, Key
<1>5. \A k \in Key, v \in {0, 1} : <<<<k, v>>>> \in Seq(Event)
  BY <1>1, Events
<1>6. \A k \in Key : Plug(k) \in Seq(Event)
  BY <1>2, <1>5, Events DEF Plug
<1>7. \A mods \in SUBSET Modifier, v \in {0, 1}, m \in Modifier : Press(m, mods, v) \in Seq(Event)
  BY <1>2, <1>5, Events DEF Press, Key
<1>8. \A mods \in SUBSET Modifier, v \in {0, 1} : Modifiers(mods, v) \in Seq(Event)
  BY <1>7, Events DEF Modifiers, Modifier
<1>9. \A mods \in SUBSET Modifier : KeyEvents(mods) \in Seq(Event)
  BY <1>6, <1>8, Events DEF KeyEvents, Key
<1> QED BY <1>2, <1>3, <1>4, <1>6, <1>8, <1>9

-----------------------------------------------------------------------------
(* Type correctness.                                                        *)

\* What a command may do to the contacts, and the type of its events.
LEMMA CommandType ==
  ASSUME TypeOK, NEW slot \in Named,
         SendCommit \/ SendReset \/ SendDown(slot) \/ SendUp(slot) \/ SendMove(slot)
           \/ Ignored
  PROVE  /\ enabled' \subseteq Slot
         /\ trackingId' \in [Slot -> Nat]
         /\ mTrackingId' \in Nat
         /\ mEnabledSlots' \in Nat
         /\ slipped' \in BOOLEAN
         /\ out' \in Seq(Event)
<1> DEFINE Down == <<<<"SLOT", slot>>, <<"TRACKING_ID", mTrackingId>>>>
           Lift == <<<<"SLOT", slot>>, <<"TRACKING_ID", Up>>>>
<1>a. slot \in Slot => Down \in Seq(Event) /\ Lift \in Seq(Event)
                       /\ <<<<"SLOT", slot>>>> \in Seq(Event)
  <2> SUFFICES ASSUME slot \in Slot
               PROVE  /\ Down \in Seq(Event) /\ Lift \in Seq(Event)
                      /\ <<<<"SLOT", slot>>>> \in Seq(Event)
    OBVIOUS
  <2>1. <<"SLOT", slot>> \in Event /\ <<"TRACKING_ID", mTrackingId>> \in Event
        /\ <<"TRACKING_ID", Up>> \in Event
    BY DEF TypeOK, Event
  <2> QED BY <2>1, Events
<1>1. CASE SendCommit
  BY <1>1, Groups DEF SendCommit, contacts, TypeOK
<1>2. CASE SendReset
  BY <1>2, Groups DEF SendReset, TypeOK
<1>3. CASE SendDown(slot)
  <2>1. CASE slot \notin Slot
    BY <1>3, <2>1, Events DEF SendDown, contacts, TypeOK
  <2>2. CASE slot \in Slot
    <3> DEFINE reset == slot \in enabled \/ mEnabledSlots >= kMaxSlot
               Pre == IF reset THEN ResetReport ELSE <<>>
               Btn == Touch(mEnabledSlots + 1 = 1, 1)
    <3>1. Pre \in Seq(Event) /\ Btn \in Seq(Event) /\ Axes \in Seq(Event)
      BY Groups, Events
    <3>2. out' = Pre \o Down \o Btn \o Axes
      BY <1>3, <2>2 DEF SendDown
    <3>3. out' \in Seq(Event)
      <4> HIDE DEF Pre, Down, Btn
      <4> QED BY <3>1, <3>2, <1>a, <2>2, Events
    <3>4. enabled' \subseteq Slot /\ trackingId' \in [Slot -> Nat]
          /\ mTrackingId' \in Nat /\ mEnabledSlots' \in Nat /\ slipped' \in BOOLEAN
      <4>1. /\ enabled' = (IF reset THEN {} ELSE enabled) \cup {slot}
            /\ trackingId' = [trackingId EXCEPT ![slot] = mTrackingId]
            /\ mTrackingId' = mTrackingId + 1
            /\ mEnabledSlots' = mEnabledSlots + 1
            /\ slipped' = (slipped \/ (reset /\ enabled # {}))
        BY <1>3, <2>2 DEF SendDown
      <4> QED BY <2>2, <4>1 DEF TypeOK
    <3> QED BY <3>3, <3>4
  <2> QED BY <2>1, <2>2
<1>4. CASE SendUp(slot)
  <2>1. CASE mEnabledSlots = 0 \/ slot \notin Slot \/ slot \notin enabled
    BY <1>4, <2>1, Events DEF SendUp, contacts, TypeOK
  <2>2. CASE ~(mEnabledSlots = 0 \/ slot \notin Slot \/ slot \notin enabled)
    <3> DEFINE Btn == Touch(mEnabledSlots - 1 = 0, 0)
    <3>1. Btn \in Seq(Event)
      BY Groups
    <3>2. out' = Lift \o Btn
      BY <1>4, <2>2 DEF SendUp
    <3>3. out' \in Seq(Event)
      <4> HIDE DEF Lift, Btn
      <4> QED BY <3>1, <3>2, <1>a, <2>2, Events
    <3>4. enabled' \subseteq Slot /\ trackingId' \in [Slot -> Nat]
          /\ mTrackingId' \in Nat /\ mEnabledSlots' \in Nat /\ slipped' \in BOOLEAN
      BY <1>4, <2>2 DEF SendUp, TypeOK
    <3> QED BY <3>3, <3>4
  <2> QED BY <2>1, <2>2
<1>5. CASE SendMove(slot)
  <2>1. slot \in enabled => slot \in Slot
    BY DEF TypeOK
  <2>2. out' \in Seq(Event)
    BY <1>5, <2>1, <1>a, Groups, Events DEF SendMove
  <2> QED BY <1>5, <2>2 DEF SendMove, contacts, TypeOK
<1>6. CASE Ignored
  BY <1>6, Events DEF Ignored, contacts, TypeOK
<1> QED BY <1>1, <1>2, <1>3, <1>4, <1>5, <1>6

\* The reader stays well formed, because no event names a slot it has not got.
LEMMA ReaderType ==
  ASSUME TypeOK, out # <<>>, Written
  PROVE  dev' \in [slot : Slot, ids : [Slot -> Nat \cup {Up}], keys : SUBSET Key,
                   frame : SUBSET Key]
<1> DEFINE c == Head(out)[1]
           v == Head(out)[2]
<1>1. Head(out) \in Event
  BY Events DEF TypeOK
<1>2. /\ c = "SLOT" => v \in Slot
      /\ c = "TRACKING_ID" => v \in Nat \cup {Up}
  BY <1>1 DEF Event, Key, Modifier
<1>3. dev' = Apply(dev, c, v)
  BY DEF Written
<1> HIDE DEF c, v
<1>4. CASE c = "SLOT"
  BY <1>2, <1>3, <1>4 DEF Apply, TypeOK
<1>5. CASE c = "TRACKING_ID"
  BY <1>2, <1>3, <1>5 DEF Apply, TypeOK
<1>6. CASE c = "SYN"
  BY <1>3, <1>6 DEF Apply, TypeOK
<1>7. CASE c \in Key
  BY <1>3, <1>7 DEF Apply, TypeOK, Key, Modifier
<1>8. CASE c \notin Key \cup {"SLOT", "TRACKING_ID", "SYN"}
  BY <1>3, <1>8 DEF Apply, TypeOK
<1> QED BY <1>4, <1>5, <1>6, <1>7, <1>8

\* VirtualInputReceiver never leaves its types: no command stores a contact
\* outside mContacts, and no event carries a slot the reader has not got,
\* although ProcessOneCommand lets slot == kMaxSlot through.
THEOREM TypeCorrect == Spec => []TypeOK
<1>1. Init => TypeOK
  BY InputAssumption, Events DEF InputAssumption, Init, TypeOK, Slot
<1>2. TypeOK /\ [Next]_vars => TypeOK'
  <2> SUFFICES ASSUME TypeOK, [Next]_vars PROVE TypeOK'
    OBVIOUS
  <2>1. CASE SendEvent
    <3>1. out # <<>> /\ out' \in Seq(Event)
      BY <2>1, Events DEF SendEvent, TypeOK
    <3>2. CASE Written
      <4>1. dev' \in [slot : Slot, ids : [Slot -> Nat \cup {Up}], keys : SUBSET Key,
                      frame : SUBSET Key]
        BY <3>1, <3>2, ReaderType
      <4> QED BY <2>1, <3>1, <3>2, <4>1 DEF SendEvent, Written, io, contacts, TypeOK
    <3>3. CASE NotWritten
      <4>1. lost' \in Nat
        BY <3>3 DEF NotWritten, TypeOK
      <4>2. mFd' \in BOOLEAN /\ status' \in {"connected", "disconnected"} /\ dev' = dev
        BY <3>3 DEF NotWritten, CreateTouchDevice
      <4> QED BY <2>1, <3>1, <4>1, <4>2 DEF SendEvent, contacts, TypeOK
    <3> QED BY <2>1, <3>2, <3>3 DEF SendEvent
  <2>2. CASE Return
    BY <2>2 DEF Return, io, contacts, TypeOK
  <2>3. CASE Destroy
    BY <2>3 DEF Destroy, io, contacts, TypeOK
  <2>4. CASE onInputMessage
    BY <2>4 DEF onInputMessage, Begin, io, contacts, TypeOK
  <2>5. CASE ProcessOneCommand
    <3>1. /\ enabled' \subseteq Slot
          /\ trackingId' \in [Slot -> Nat]
          /\ mTrackingId' \in Nat
          /\ mEnabledSlots' \in Nat
          /\ slipped' \in BOOLEAN
          /\ out' \in Seq(Event)
      <4>1. PICK s \in Named : SendCommit \/ SendReset \/ SendDown(s) \/ SendUp(s)
                               \/ SendMove(s) \/ Ignored
        BY <2>5, InputAssumption DEF InputAssumption, ProcessOneCommand, Named
      <4> QED BY <4>1, CommandType
    <3>2. cmd' \in {"none", "c", "r", "d", "u", "m", "w"}
      BY <2>5, InputAssumption DEF InputAssumption, ProcessOneCommand
    <3> QED BY <2>5, <3>1, <3>2 DEF ProcessOneCommand, io, TypeOK
  <2>6. CASE onJoystickMessage
    BY <2>6 DEF onJoystickMessage, Begin, io, contacts, TypeOK
  <2>7. CASE ProcessOneJoystickCommand
    <3>1. \A w \in {0, 1} : <<<<"BUTTON", w>>>> \in Seq(Event)
      <4>1. \A w \in {0, 1} : <<"BUTTON", w>> \in Event
        BY DEF Event, Key
      <4> QED BY <4>1, Events
    <3>2. out' \in Seq(Event)
      <4>1. Plug("INSERT") \in Seq(Event) /\ Plug("PULL") \in Seq(Event)
        BY Groups DEF Key
      <4> QED BY <2>7, <3>1, <4>1, Groups DEF ProcessOneJoystickCommand
    <3> QED BY <2>7, <3>2 DEF ProcessOneJoystickCommand, io, contacts, TypeOK
  <2>8. CASE onKeyCode
    <3>1. mask' \subseteq Modifier /\ out' \in Seq(Event)
      BY <2>8, Groups DEF onKeyCode
    <3> QED BY <2>8, <3>1 DEF onKeyCode, Begin, io, contacts, TypeOK
  <2>9. CASE UNCHANGED vars
    BY <2>9 DEF vars, TypeOK
  <2> QED BY <2>1, <2>2, <2>3, <2>4, <2>5, <2>6, <2>7, <2>8, <2>9 DEF Next
<1> QED BY <1>1, <1>2, PTL DEF Spec

-----------------------------------------------------------------------------
(* mEnabledSlots.                                                           *)

\* Putting one contact in the set, or taking one out, moves its size by one.
LEMMA SetSize ==
  ASSUME NEW E, IsFiniteSet(E), NEW s
  PROVE  /\ Cardinality(E) \in Nat
         /\ Cardinality({}) = 0
         /\ Cardinality({} \cup {s}) = 1
         /\ s \notin E => Cardinality(E \cup {s}) = Cardinality(E) + 1
         /\ s \in E => Cardinality(E \ {s}) = Cardinality(E) - 1
         /\ s \in E => Cardinality(E) # 0
<1>1. Cardinality(E) \in Nat
  BY FS_CardinalityType
<1>2. Cardinality({}) = 0 /\ IsFiniteSet({})
  BY FS_EmptySet
<1>3. Cardinality({} \cup {s}) = 1
  BY FS_AddElement, <1>2
<1>4. s \notin E => Cardinality(E \cup {s}) = Cardinality(E) + 1
  BY FS_AddElement
<1>5. s \in E => Cardinality(E \ {s}) = Cardinality(E) - 1
  BY FS_RemoveElement
<1>6. s \in E => Cardinality(E) # 0
  BY FS_EmptySet
<1> QED BY <1>1, <1>2, <1>3, <1>4, <1>5, <1>6

\* Only the commands touch the contacts.
LEMMA ContactsStep ==
  ASSUME [Next]_vars
  PROVE  \/ UNCHANGED <<enabled, mEnabledSlots, slipped>>
         \/ SendReset
         \/ \E s \in Named : SendDown(s) \/ SendUp(s)
<1>1. CASE ProcessOneCommand
  BY <1>1 DEF ProcessOneCommand, SendCommit, SendMove, Ignored, contacts
<1>2. CASE SendEvent \/ Return \/ Destroy \/ onInputMessage \/ onJoystickMessage
           \/ ProcessOneJoystickCommand \/ onKeyCode \/ UNCHANGED vars
  BY <1>2 DEF SendEvent, Return, Destroy, onInputMessage, onJoystickMessage,
              ProcessOneJoystickCommand, onKeyCode, contacts, vars
<1> QED BY <1>1, <1>2 DEF Next

\* Whatever is reset or lost, the contacts that are down are at most
\* mEnabledSlots, so SendUp never refuses one of them; and until SendReset finds
\* contacts down, mEnabledSlots is exactly their number.
THEOREM CountSound == Spec => []CountCoversContacts
<1> DEFINE Inv == CountCoversContacts
<1>1. Init => Inv
  BY FS_EmptySet DEF Init, CountCoversContacts
<1>2. TypeOK /\ Inv /\ [Next]_vars => Inv'
  <2> SUFFICES ASSUME TypeOK, Inv, [Next]_vars PROVE Inv'
    OBVIOUS
  <2>0. IsFiniteSet(enabled)
    <3>1. IsFiniteSet(Slot)
      BY InputAssumption, FS_Interval DEF InputAssumption, Slot
    <3> QED BY <3>1, FS_Subset DEF TypeOK
  <2>a. mEnabledSlots \in Nat /\ Cardinality(enabled) \in Nat
    BY <2>0, FS_CardinalityType DEF TypeOK
  <2>1. CASE UNCHANGED <<enabled, mEnabledSlots, slipped>>
    BY <2>1 DEF CountCoversContacts
  <2>2. CASE SendReset
    <3>1. /\ Cardinality(enabled') = 0
          /\ mEnabledSlots' = mEnabledSlots
          /\ ~slipped' => ~slipped /\ enabled' = enabled
      BY <2>2, FS_EmptySet DEF SendReset
    <3> QED BY <3>1, <2>a DEF CountCoversContacts
  <2>3. ASSUME NEW s \in Named, SendDown(s) PROVE Inv'
    <3>1. CASE s \notin Slot
      BY <2>3, <3>1 DEF SendDown, contacts, CountCoversContacts
    <3>2. CASE s \in Slot
      <4> DEFINE reset == s \in enabled \/ mEnabledSlots >= kMaxSlot
      <4>1. /\ mEnabledSlots' = mEnabledSlots + 1
            /\ enabled' = (IF reset THEN {} ELSE enabled) \cup {s}
            /\ slipped' = (slipped \/ (reset /\ enabled # {}))
        BY <2>3, <3>2 DEF SendDown
      <4>2. CASE ~reset
        <5>1. Cardinality(enabled') = Cardinality(enabled) + 1
          BY <4>1, <4>2, <2>0, SetSize
        <5>2. slipped' <=> slipped
          BY <4>1, <4>2
        <5> QED BY <4>1, <5>1, <5>2, <2>a DEF CountCoversContacts
      <4>3. CASE reset
        <5>1. Cardinality(enabled') = 1
          BY <4>1, <4>3, <2>0, SetSize
        <5>2. CASE ~slipped'
          \* No contact was down, so mEnabledSlots was zero and below the limit.
          <6>1. ~slipped /\ enabled = {}
            BY <5>2, <4>1, <4>3
          <6>2. mEnabledSlots = 0
            BY <6>1, FS_EmptySet DEF CountCoversContacts
          <6> QED BY <6>1, <6>2, <4>3, InputAssumption DEF InputAssumption
        <5>3. CASE slipped'
          BY <4>1, <5>1, <5>3, <2>a DEF CountCoversContacts
        <5> QED BY <5>2, <5>3
      <4> QED BY <4>2, <4>3
    <3> QED BY <3>1, <3>2
  <2>4. ASSUME NEW s \in Named, SendUp(s) PROVE Inv'
    <3>1. CASE mEnabledSlots = 0 \/ s \notin Slot \/ s \notin enabled
      BY <2>4, <3>1 DEF SendUp, contacts, CountCoversContacts
    <3>2. CASE ~(mEnabledSlots = 0 \/ s \notin Slot \/ s \notin enabled)
      <4>1. /\ mEnabledSlots' = mEnabledSlots - 1
            /\ enabled' = enabled \ {s}
            /\ slipped' = slipped
        BY <2>4, <3>2 DEF SendUp
      <4>2. Cardinality(enabled') = Cardinality(enabled) - 1
        BY <4>1, <3>2, <2>0, SetSize
      <4> QED BY <4>1, <4>2, <2>a DEF CountCoversContacts
    <3> QED BY <3>1, <3>2
  <2> QED BY <2>1, <2>2, <2>3, <2>4, ContactsStep
<1> QED BY <1>1, <1>2, TypeCorrect, PTL DEF Spec

-----------------------------------------------------------------------------
(* Tracking ids.                                                            *)

\* A tracking id the event e gives to a contact.
Fresh(e) == e[1] = "TRACKING_ID" /\ e[2] # Up

NoneFresh(s) == \A i \in 1 .. Len(s) : ~Fresh(s[i])

\* What is still to be written holds at most one tracking id.  That id has been
\* drawn from mTrackingId, and the reader does not have it yet.
PendingId ==
  /\ \A i, j \in 1 .. Len(out) : Fresh(out[i]) /\ Fresh(out[j]) => i = j
  /\ \A i \in 1 .. Len(out) :
       Fresh(out[i]) => out[i][2] < mTrackingId /\ \A s \in Slot : dev.ids[s] # out[i][2]

\* Every id the reader has was drawn before.
IdsDrawn == \A s \in Slot : dev.ids[s] < mTrackingId

IdsInv == PendingId /\ IdsDrawn /\ TrackingIdsDistinct

\* One or two events without a tracking id.
LEMMA NoIds ==
  /\ \A e \in Event : ~Fresh(e) => <<e>> \in Seq(Event) /\ NoneFresh(<<e>>)
  /\ \A e, f \in Event :
       ~Fresh(e) /\ ~Fresh(f) => <<e, f>> \in Seq(Event) /\ NoneFresh(<<e, f>>)
<1>1. \A e \in Event : ~Fresh(e) => <<e>> \in Seq(Event) /\ NoneFresh(<<e>>)
  BY DEF NoneFresh
<1>2. ASSUME NEW e \in Event, NEW f \in Event, ~Fresh(e), ~Fresh(f)
      PROVE  <<e, f>> \in Seq(Event) /\ NoneFresh(<<e, f>>)
  <2>1. \A i \in 1 .. 2 : <<e, f>>[i] = e \/ <<e, f>>[i] = f
    OBVIOUS
  <2> QED BY <1>2, <2>1, Events DEF NoneFresh
<1> QED BY <1>1, <1>2

\* Events without a tracking id, one behind the other.
LEMMA JoinedIds ==
  ASSUME NEW s \in Seq(Event), NEW t \in Seq(Event), NoneFresh(s), NoneFresh(t)
  PROVE  NoneFresh(s \o t)
  BY DEF NoneFresh

\* Events without a tracking id, around an event that has one.
LEMMA AroundId ==
  ASSUME NEW s \in Seq(Event), NEW t \in Seq(Event), NoneFresh(s), NoneFresh(t),
         NEW e \in Event, NEW f \in Event, ~Fresh(e)
  PROVE  \A i \in 1 .. Len(s \o <<e, f>> \o t) :
           Fresh((s \o <<e, f>> \o t)[i]) =>
             i = Len(s) + 2 /\ (s \o <<e, f>> \o t)[i] = f
<1>2. ASSUME NEW i \in 1 .. Len(s \o <<e, f>> \o t), Fresh((s \o <<e, f>> \o t)[i])
      PROVE  i = Len(s) + 2 /\ (s \o <<e, f>> \o t)[i] = f
  <2> DEFINE p == <<e, f>>
             q == s \o p
             all == q \o t
  <2>1. p \in Seq(Event) /\ Len(p) = 2 /\ p[1] = e /\ p[2] = f
    BY Events
  <2>2. q \in Seq(Event) /\ Len(q) = Len(s) + 2
        /\ (\A k \in 1 .. Len(q) : q[k] = IF k <= Len(s) THEN s[k] ELSE p[k - Len(s)])
    <3> HIDE DEF p
    <3>1. /\ s \o p \in Seq(Event) /\ Len(s \o p) = Len(s) + Len(p)
          /\ \A k \in 1 .. Len(s) + Len(p) :
               (s \o p)[k] = IF k <= Len(s) THEN s[k] ELSE p[k - Len(s)]
      BY <2>1, ConcatProperties, Zenon
    <3> HIDE DEF q
    <3> QED BY <3>1, <2>1 DEF q
  <2>3. Len(all) = Len(q) + Len(t)
        /\ (\A k \in 1 .. Len(all) : all[k] = IF k <= Len(q) THEN q[k] ELSE t[k - Len(q)])
    <3> HIDE DEF q
    <3>1. /\ Len(q \o t) = Len(q) + Len(t)
          /\ \A k \in 1 .. Len(q) + Len(t) :
               (q \o t)[k] = IF k <= Len(q) THEN q[k] ELSE t[k - Len(q)]
      <4>1. q \in Seq(Event)
        BY <2>2
      <4> QED BY <4>1, ConcatProperties, Zenon
    <3> QED BY <3>1
  <2>4. i \in 1 .. Len(all) /\ Fresh(all[i])
    BY <1>2
  <2>5. i \in Nat /\ Len(s) \in Nat /\ Len(t) \in Nat
    BY <2>4, LenProperties
  <2> HIDE DEF p, q, all
  <2>6. CASE i <= Len(s)
    <3>1. all[i] = s[i] /\ i \in 1 .. Len(s)
      BY <2>2, <2>3, <2>4, <2>5, <2>6
    <3> QED BY <3>1, <2>4 DEF NoneFresh
  <2>7. CASE i = Len(s) + 1
    <3>1. all[i] = p[1]
      BY <2>2, <2>3, <2>4, <2>5, <2>7
    <3> QED BY <3>1, <2>1, <2>4, <1>2
  <2>8. CASE i = Len(s) + 2
    <3>1. all[i] = p[2]
      BY <2>2, <2>3, <2>4, <2>5, <2>8
    <3> QED BY <3>1, <2>1, <2>8 DEF all, q, p
  <2>9. CASE i > Len(s) + 2
    <3>1. all[i] = t[i - Len(q)] /\ i - Len(q) \in 1 .. Len(t)
      BY <2>2, <2>3, <2>4, <2>5, <2>9
    <3> QED BY <3>1, <2>4 DEF NoneFresh
  <2> QED BY <2>5, <2>6, <2>7, <2>8, <2>9
<1> QED BY <1>2

\* The fixed event groups carry no tracking id.
LEMMA GroupsNoId ==
  /\ NoneFresh(<<>>) /\ NoneFresh(Commit) /\ NoneFresh(Axes) /\ NoneFresh(ResetReport)
  /\ \A b \in BOOLEAN, v \in {0, 1} : NoneFresh(Touch(b, v))
  /\ \A k \in Key : NoneFresh(Plug(k))
  /\ \A mods \in SUBSET Modifier : NoneFresh(KeyEvents(mods))
<1>a. /\ <<"SYN", 0>> \in Event /\ ~Fresh(<<"SYN", 0>>)
      /\ <<"AXES", 0>> \in Event /\ ~Fresh(<<"AXES", 0>>)
      /\ \A k \in Key, v \in {0, 1} : <<k, v>> \in Event /\ ~Fresh(<<k, v>>)
  BY DEF Event, Fresh, Key, Modifier
<1>1. NoneFresh(<<>>)
  BY DEF NoneFresh
<1>2. NoneFresh(Commit) /\ NoneFresh(Axes)
  BY <1>a, NoIds DEF Commit, Axes
<1>3. NoneFresh(ResetReport)
  BY <1>1, <1>2 DEF ResetReport
<1>4. \A k \in Key, v \in {0, 1} : <<<<k, v>>>> \in Seq(Event) /\ NoneFresh(<<<<k, v>>>>)
  BY <1>a, NoIds
<1>5. \A b \in BOOLEAN, v \in {0, 1} : NoneFresh(Touch(b, v))
  BY <1>1, <1>4 DEF Touch, Key
<1>6. \A k \in Key : NoneFresh(Plug(k))
  BY <1>2, <1>4, Groups, Events, JoinedIds DEF Plug
<1>7. \A mods \in SUBSET Modifier, v \in {0, 1}, m \in Modifier :
        Press(m, mods, v) \in Seq(Event) /\ NoneFresh(Press(m, mods, v))
  BY <1>1, <1>2, <1>4, Groups, Events, JoinedIds DEF Press, Key
<1>8. \A mods \in SUBSET Modifier, v \in {0, 1} : NoneFresh(Modifiers(mods, v))
  BY <1>7, Events, JoinedIds DEF Modifiers, Modifier
<1>9. \A mods \in SUBSET Modifier : NoneFresh(KeyEvents(mods))
  BY <1>6, <1>8, Groups, Events, JoinedIds DEF KeyEvents, Key
<1> QED BY <1>1, <1>2, <1>3, <1>5, <1>6, <1>9

\* A command draws at most one id, and it is mTrackingId.
LEMMA CommandIds ==
  ASSUME TypeOK, NEW slot \in Named,
         SendCommit \/ SendReset \/ SendDown(slot) \/ SendUp(slot) \/ SendMove(slot)
           \/ Ignored
  PROVE  \/ mTrackingId' = mTrackingId /\ NoneFresh(out')
         \/ /\ mTrackingId' = mTrackingId + 1
            /\ \E n \in Nat : \A i \in 1 .. Len(out') :
                 Fresh(out'[i]) => i = n /\ out'[i][2] = mTrackingId
<1>a. slot \in Slot => /\ <<"SLOT", slot>> \in Event /\ ~Fresh(<<"SLOT", slot>>)
                       /\ <<"TRACKING_ID", Up>> \in Event /\ ~Fresh(<<"TRACKING_ID", Up>>)
                       /\ <<"TRACKING_ID", mTrackingId>> \in Event
  BY DEF TypeOK, Event, Fresh
<1>1. CASE SendCommit
  BY <1>1, GroupsNoId DEF SendCommit, contacts
<1>2. CASE SendReset
  BY <1>2, GroupsNoId DEF SendReset
<1>3. CASE SendDown(slot)
  <2>1. CASE slot \notin Slot
    BY <1>3, <2>1, GroupsNoId DEF SendDown, contacts
  <2>2. CASE slot \in Slot
    <3> DEFINE Pre == IF slot \in enabled \/ mEnabledSlots >= kMaxSlot
                      THEN ResetReport ELSE <<>>
               Btn == Touch(mEnabledSlots + 1 = 1, 1)
               e == <<"SLOT", slot>>
               f == <<"TRACKING_ID", mTrackingId>>
               Rest == Btn \o Axes
    <3>1. /\ Pre \in Seq(Event) /\ Btn \in Seq(Event) /\ Axes \in Seq(Event)
          /\ NoneFresh(Pre) /\ NoneFresh(Btn) /\ NoneFresh(Axes)
      BY Groups, Events, GroupsNoId
    <3>2. mTrackingId' = mTrackingId + 1 /\ out' = Pre \o <<e, f>> \o Btn \o Axes
      BY <1>3, <2>2 DEF SendDown
    <3>3. e \in Event /\ f \in Event /\ ~Fresh(e) /\ f[2] = mTrackingId
      BY <1>a, <2>2
    <3> HIDE DEF Pre, Btn, e, f
    <3>4. Rest \in Seq(Event) /\ NoneFresh(Rest)
      BY <3>1, Events, JoinedIds
    <3>5. out' = Pre \o <<e, f>> \o Rest
      <4>1. Pre \o <<e, f>> \in Seq(Event)
        BY <3>1, <3>3, Events
      <4> QED BY <4>1, <3>1, <3>2
    <3> HIDE DEF Rest
    <3>6. \A i \in 1 .. Len(out') : Fresh(out'[i]) => i = Len(Pre) + 2 /\ out'[i] = f
      <4>1. \A i \in 1 .. Len(Pre \o <<e, f>> \o Rest) :
              Fresh((Pre \o <<e, f>> \o Rest)[i]) =>
                i = Len(Pre) + 2 /\ (Pre \o <<e, f>> \o Rest)[i] = f
        <5>1. /\ Pre \in Seq(Event) /\ NoneFresh(Pre)
              /\ e \in Event /\ f \in Event /\ ~Fresh(e)
          BY <3>1, <3>3
        <5> QED BY <5>1, <3>4, AroundId
      <4> QED BY <4>1, <3>5, Zenon
    <3>7. \E n \in Nat : \A i \in 1 .. Len(out') :
                 Fresh(out'[i]) => i = n /\ out'[i][2] = mTrackingId
      <4>1. Len(Pre) + 2 \in Nat
        BY <3>1, LenProperties
      <4> QED BY <4>1, <3>3, <3>6
    <3> QED BY <3>2, <3>7
  <2> QED BY <2>1, <2>2
<1>4. CASE SendUp(slot)
  <2>1. CASE mEnabledSlots = 0 \/ slot \notin Slot \/ slot \notin enabled
    BY <1>4, <2>1, GroupsNoId DEF SendUp, contacts
  <2>2. CASE ~(mEnabledSlots = 0 \/ slot \notin Slot \/ slot \notin enabled)
    <3> DEFINE Btn == Touch(mEnabledSlots - 1 = 0, 0)
               Lift == <<<<"SLOT", slot>>, <<"TRACKING_ID", Up>>>>
    <3>1. Btn \in Seq(Event) /\ NoneFresh(Btn)
      BY Groups, GroupsNoId
    <3>2. Lift \in Seq(Event) /\ NoneFresh(Lift)
      BY <1>a, <2>2, NoIds
    <3>3. out' = Lift \o Btn /\ mTrackingId' = mTrackingId
      BY <1>4, <2>2 DEF SendUp
    <3> HIDE DEF Lift, Btn
    <3> QED BY <3>1, <3>2, <3>3, JoinedIds
  <2> QED BY <2>1, <2>2
<1>5. CASE SendMove(slot)
  <2>1. CASE slot \in enabled
    <3>1. <<<<"SLOT", slot>>>> \in Seq(Event) /\ NoneFresh(<<<<"SLOT", slot>>>>)
      BY <1>a, <2>1, NoIds DEF TypeOK
    <3>2. out' = <<<<"SLOT", slot>>>> \o Axes /\ mTrackingId' = mTrackingId
      BY <1>5, <2>1 DEF SendMove, contacts
    <3> QED BY <3>1, <3>2, Groups, GroupsNoId, JoinedIds
  <2>2. CASE slot \notin enabled
    BY <1>5, <2>2, GroupsNoId DEF SendMove, contacts
  <2> QED BY <2>1, <2>2
<1>6. CASE Ignored
  BY <1>6, GroupsNoId DEF Ignored, contacts
<1> QED BY <1>1, <1>2, <1>3, <1>4, <1>5, <1>6

\* One event written or lost: the pending id reaches at most one slot.
LEMMA SendKeepsIds ==
  ASSUME TypeOK, IdsInv, SendEvent
  PROVE  IdsInv'
<1>1. /\ out \in Seq(Event) /\ out # <<>> /\ out' = Tail(out)
      /\ mTrackingId \in Nat /\ mTrackingId' = mTrackingId
      /\ dev \in [slot : Slot, ids : [Slot -> Nat \cup {Up}], keys : SUBSET Key,
                  frame : SUBSET Key]
  BY DEF TypeOK, SendEvent, contacts
<1> DEFINE n == Len(out)
<1>2. /\ n \in Nat \ {0} /\ Len(out') = n - 1
      /\ \A i \in 1 .. n - 1 : i + 1 \in 1 .. n /\ out'[i] = out[i + 1]
      /\ Head(out) = out[1] /\ Head(out) \in Event
  BY <1>1, HeadTailProperties, LenProperties, EmptySeq, Events
<1>3. \A i \in 1 .. n : Fresh(out[i]) => out[i][2] \in Nat
  <2>1. \A i \in 1 .. n : out[i] \in Event
    BY <1>1, ElementOfSeq
  <2> QED BY <2>1 DEF Fresh, Event, Key, Modifier
<1>4. CASE dev'.ids = dev.ids
  <2>1. PendingId'
    <3>1. ASSUME NEW i \in 1 .. n - 1, Fresh(out'[i])
          PROVE  /\ out'[i][2] < mTrackingId'
                 /\ \A s \in Slot : dev'.ids[s] # out'[i][2]
      BY <1>1, <1>2, <1>4, <3>1 DEF IdsInv, PendingId
    <3>2. ASSUME NEW i \in 1 .. n - 1, NEW j \in 1 .. n - 1,
                 Fresh(out'[i]), Fresh(out'[j])
          PROVE  i = j
      <4>1. i + 1 = j + 1
        BY <1>2, <3>2 DEF IdsInv, PendingId
      <4> QED BY <4>1, <1>2
    <3> QED BY <1>2, <3>1, <3>2 DEF PendingId
  <2>2. IdsDrawn' /\ TrackingIdsDistinct'
    BY <1>1, <1>4 DEF IdsInv, IdsDrawn, TrackingIdsDistinct
  <2> QED BY <2>1, <2>2 DEF IdsInv
<1>5. CASE dev'.ids # dev.ids
  <2> DEFINE c == Head(out)[1]
             v == Head(out)[2]
  <2>1. dev' = Apply(dev, c, v)
    BY <1>5 DEF SendEvent, Written, NotWritten
  <2>2. c = "TRACKING_ID"
    <3> HIDE DEF c, v
    <3> SUFFICES ASSUME c # "TRACKING_ID" PROVE dev'.ids = dev.ids
      BY <1>5
    <3> QED BY <2>1, <1>1 DEF Apply, Key, Modifier
  <2>3. dev'.ids = [dev.ids EXCEPT ![dev.slot] = v]
    <3> HIDE DEF c, v
    <3> QED BY <2>1, <2>2, <1>1 DEF Apply, Key, Modifier
  <2>4. v \in Nat \cup {Up}
    BY <1>2, <2>2 DEF Event, Key, Modifier
  <2>5. v # Up => v < mTrackingId /\ \A s \in Slot : dev.ids[s] # v
    <3>1. v # Up => Fresh(out[1])
      BY <1>2, <2>2 DEF Fresh
    <3> QED BY <3>1, <1>2 DEF IdsInv, PendingId
  <2>6. \A i \in 1 .. n - 1 : Fresh(out'[i]) => v = Up
    <3> SUFFICES ASSUME NEW i \in 1 .. n - 1, Fresh(out'[i]), v # Up PROVE FALSE
      OBVIOUS
    <3>1. Fresh(out[1]) /\ Fresh(out[i + 1]) /\ 1 \in 1 .. n /\ i + 1 \in 1 .. n
      BY <1>2, <2>2 DEF Fresh
    <3>2. 1 = i + 1
      BY <3>1 DEF IdsInv, PendingId
    <3> QED BY <3>2, <1>2
  <2> HIDE DEF c, v
  <2>7. TrackingIdsDistinct'
    <3> SUFFICES ASSUME NEW s \in Slot, NEW t \in Slot, s # t, dev'.ids[s] # Up
                 PROVE  dev'.ids[s] # dev'.ids[t]
      BY DEF TrackingIdsDistinct
    <3>1. dev'.ids[s] = (IF s = dev.slot THEN v ELSE dev.ids[s])
          /\ dev'.ids[t] = (IF t = dev.slot THEN v ELSE dev.ids[t])
      BY <1>1, <2>3
    <3> QED BY <3>1, <2>5 DEF IdsInv, TrackingIdsDistinct
  <2>8. IdsDrawn'
    <3>1. v < mTrackingId
      BY <1>1, <2>5 DEF Up
    <3>2. \A s \in Slot : dev'.ids[s] = (IF s = dev.slot THEN v ELSE dev.ids[s])
      BY <1>1, <2>3
    <3> QED BY <3>1, <3>2, <1>1 DEF IdsInv, IdsDrawn
  <2>9. PendingId'
    <3>1. ASSUME NEW i \in 1 .. n - 1, Fresh(out'[i])
          PROVE  /\ out'[i][2] < mTrackingId'
                 /\ \A s \in Slot : dev'.ids[s] # out'[i][2]
      <4>1. out'[i] = out[i + 1] /\ i + 1 \in 1 .. n /\ out[i + 1][2] # Up
        BY <1>2, <3>1 DEF Fresh
      <4>2. \A s \in Slot : dev'.ids[s] = (IF s = dev.slot THEN v ELSE dev.ids[s])
        BY <1>1, <2>3
      <4> QED BY <4>1, <4>2, <2>6, <3>1, <1>1 DEF IdsInv, PendingId
    <3>2. ASSUME NEW i \in 1 .. n - 1, NEW j \in 1 .. n - 1,
                 Fresh(out'[i]), Fresh(out'[j])
          PROVE  i = j
      <4>1. i + 1 = j + 1
        BY <1>2, <3>2 DEF IdsInv, PendingId
      <4> QED BY <4>1, <1>2
    <3> QED BY <1>2, <3>1, <3>2 DEF PendingId
  <2> QED BY <2>7, <2>8, <2>9 DEF IdsInv
<1> QED BY <1>4, <1>5

\* No two contacts of the reader ever carry one tracking id, for every number of
\* slots and of touches, and wherever a write fails: an id that a lost ABS_MT_SLOT
\* sends to the wrong slot is still in no other one.
THEOREM IdsUnique == Spec => []TrackingIdsDistinct
<1>1. Init => IdsInv
  <2> SUFFICES ASSUME Init PROVE IdsInv
    OBVIOUS
  <2>1. out = <<>> /\ mTrackingId = 0 /\ \A s \in Slot : dev.ids[s] = Up
    BY DEF Init
  <2>2. PendingId
    BY <2>1 DEF PendingId
  <2>3. IdsDrawn /\ TrackingIdsDistinct
    BY <2>1 DEF IdsDrawn, TrackingIdsDistinct, Up
  <2> QED BY <2>2, <2>3 DEF IdsInv
<1>2. TypeOK /\ TypeOK' /\ IdsInv /\ [Next]_vars => IdsInv'
  <2> SUFFICES ASSUME TypeOK, TypeOK', IdsInv, [Next]_vars PROVE IdsInv'
    OBVIOUS
  <2>0. /\ mTrackingId \in Nat
        /\ dev \in [slot : Slot, ids : [Slot -> Nat \cup {Up}], keys : SUBSET Key,
                    frame : SUBSET Key]
    BY DEF TypeOK
  <2>1. CASE SendEvent
    BY <2>1, SendKeepsIds
  <2>2. CASE UNCHANGED <<out, mTrackingId, dev>>
    BY <2>2 DEF IdsInv, PendingId, IdsDrawn, TrackingIdsDistinct
  <2>3. CASE NoneFresh(out') /\ UNCHANGED <<mTrackingId, dev>>
    BY <2>3 DEF IdsInv, PendingId, IdsDrawn, TrackingIdsDistinct, NoneFresh
  <2>4. CASE ProcessOneCommand
    <3>1. PICK s \in Named : SendCommit \/ SendReset \/ SendDown(s) \/ SendUp(s)
                             \/ SendMove(s) \/ Ignored
      BY <2>4, InputAssumption DEF InputAssumption, ProcessOneCommand, Named
    <3>2. dev' = dev
      BY <2>4 DEF ProcessOneCommand
    <3>3. CASE mTrackingId' = mTrackingId /\ NoneFresh(out')
      BY <3>2, <3>3, <2>3
    <3>4. CASE /\ mTrackingId' = mTrackingId + 1
               /\ \E n \in Nat : \A i \in 1 .. Len(out') :
                    Fresh(out'[i]) => i = n /\ out'[i][2] = mTrackingId
      <4>1. PICK n \in Nat : \A i \in 1 .. Len(out') :
                       Fresh(out'[i]) => i = n /\ out'[i][2] = mTrackingId
        BY <3>4
      <4>2. \A s1 \in Slot : dev.ids[s1] < mTrackingId /\ dev.ids[s1] \in Int
        BY <2>0 DEF IdsInv, IdsDrawn, Up
      <4>3. IdsDrawn' /\ TrackingIdsDistinct'
        BY <2>0, <3>2, <3>4, <4>2 DEF IdsInv, IdsDrawn, TrackingIdsDistinct
      <4>4. PendingId'
        BY <2>0, <3>2, <3>4, <4>1, <4>2 DEF PendingId
      <4> QED BY <4>3, <4>4 DEF IdsInv
    <3> QED BY <3>1, <3>3, <3>4, CommandIds
  <2>5. CASE ProcessOneJoystickCommand
    <3>1. \A w \in {0, 1} : NoneFresh(<<<<"BUTTON", w>>>>)
      BY DEF NoneFresh, Fresh
    <3>2. NoneFresh(Plug("INSERT")) /\ NoneFresh(Plug("PULL"))
      BY GroupsNoId DEF Key
    <3>3. NoneFresh(out') /\ UNCHANGED <<mTrackingId, dev>>
      BY <2>5, <3>1, <3>2, GroupsNoId DEF ProcessOneJoystickCommand, contacts
    <3> QED BY <3>3, <2>3
  <2>6. CASE onKeyCode
    <3>1. NoneFresh(out') /\ UNCHANGED <<mTrackingId, dev>>
      BY <2>6, GroupsNoId DEF onKeyCode, contacts
    <3> QED BY <3>1, <2>3
  <2>7. CASE Return \/ Destroy \/ onInputMessage \/ onJoystickMessage \/ UNCHANGED vars
    BY <2>7, <2>2 DEF Return, Destroy, onInputMessage, onJoystickMessage, contacts, vars
  <2> QED BY <2>1, <2>4, <2>5, <2>6, <2>7 DEF Next
<1>3. IdsInv => TrackingIdsDistinct
  BY DEF IdsInv
<1> QED BY <1>1, <1>2, <1>3, TypeCorrect, PTL DEF Spec

-----------------------------------------------------------------------------
(* The reader.  As long as no event is lost, what the reader will have seen *)
(* at the end of a command is fixed by its state and by the events still to *)
(* be written.                                                              *)

\* The tracking id the reader should have for a slot.
Expected(s) == IF s \in enabled THEN trackingId[s] ELSE Up

\* Every slot of the reader is right, or the one that is not gets its id from the
\* only ABS_MT_TRACKING_ID to come, with ABS_MT_SLOT just before it.
IdsPending ==
  \/ /\ \A i \in 1 .. Len(out) : out[i][1] # "TRACKING_ID"
     /\ \A s \in Slot : dev.ids[s] = Expected(s)
  \/ \E n \in 1 .. Len(out), t \in Slot :
       /\ out[n] = <<"TRACKING_ID", Expected(t)>>
       /\ \A i \in 1 .. Len(out) : out[i][1] = "TRACKING_ID" => i = n
       /\ \A s \in Slot \ {t} : dev.ids[s] = Expected(s)
       /\ n = 1 => dev.slot = t
       /\ n # 1 => out[n - 1] = <<"SLOT", t>>

\* BTN_TOUCH is right, or an event to come makes it so.
TouchPending ==
  /\ \A i \in 1 .. Len(out) : out[i][1] = "BTN_TOUCH" => (out[i][2] = 1 <=> enabled # {})
  /\ (\A i \in 1 .. Len(out) : out[i][1] # "BTN_TOUCH") =>
       ("BTN_TOUCH" \in dev.keys <=> enabled # {})

\* An event that is written: the reader applies the first one, and the others
\* move up.
LEMMA WriteStep ==
  ASSUME TypeOK, SendEvent, lost' = 0
  PROVE  /\ lost = 0
         /\ UNCHANGED <<enabled, trackingId, slipped, call, mask>>
         /\ Len(out) \in Nat \ {0} /\ Len(out') = Len(out) - 1
         /\ \A i \in 1 .. Len(out') : i + 1 \in 1 .. Len(out) /\ out'[i] = out[i + 1]
         /\ \A i \in 2 .. Len(out) : i - 1 \in 1 .. Len(out') /\ out'[i - 1] = out[i]
         /\ 1 \in 1 .. Len(out) /\ out[1] \in Event
         /\ dev'.slot = IF out[1][1] = "SLOT" THEN out[1][2] ELSE dev.slot
         /\ dev'.ids = IF out[1][1] = "TRACKING_ID"
                       THEN [dev.ids EXCEPT ![dev.slot] = out[1][2]] ELSE dev.ids
         /\ dev'.keys = IF out[1][1] \in Key
                        THEN IF out[1][2] = 1 THEN dev.keys \cup {out[1][1]}
                             ELSE dev.keys \ {out[1][1]}
                        ELSE dev.keys
         /\ dev'.frame = IF out[1][1] = "SYN" THEN dev.keys ELSE dev.frame
<1>1. /\ out \in Seq(Event) /\ out # <<>> /\ out' = Tail(out)
      /\ dev \in [slot : Slot, ids : [Slot -> Nat \cup {Up}], keys : SUBSET Key,
                  frame : SUBSET Key]
      /\ lost \in Nat
  BY DEF TypeOK, SendEvent
<1>2. ~NotWritten
  BY <1>1 DEF NotWritten
<1>3. Written
  BY <1>2 DEF SendEvent
<1>4. Head(out) = out[1] /\ out[1] \in Event
  BY <1>1, HeadTailProperties, Events
<1>5. dev' = Apply(dev, out[1][1], out[1][2])
  BY <1>3, <1>4 DEF Written
<1>6. /\ Len(out) \in Nat \ {0} /\ Len(out') = Len(out) - 1
      /\ \A i \in 1 .. Len(out) - 1 : out'[i] = out[i + 1]
  BY <1>1, HeadTailProperties, LenProperties, EmptySeq
<1>7. lost = 0 /\ UNCHANGED <<enabled, trackingId, slipped, call, mask>>
  BY <1>3 DEF SendEvent, Written, contacts
<1>8. /\ \A i \in 1 .. Len(out') : i + 1 \in 1 .. Len(out) /\ out'[i] = out[i + 1]
      /\ 1 \in 1 .. Len(out)
  BY <1>6
<1>9. \A i \in 2 .. Len(out) : i - 1 \in 1 .. Len(out') /\ out'[i - 1] = out[i]
  <2> SUFFICES ASSUME NEW i \in 2 .. Len(out)
               PROVE  i - 1 \in 1 .. Len(out') /\ out'[i - 1] = out[i]
    OBVIOUS
  <2>1. i - 1 \in 1 .. Len(out) - 1 /\ (i - 1) + 1 = i
    BY <1>6
  <2> QED BY <2>1, <1>6
<1>10. /\ dev'.slot = IF out[1][1] = "SLOT" THEN out[1][2] ELSE dev.slot
       /\ dev'.ids = IF out[1][1] = "TRACKING_ID"
                     THEN [dev.ids EXCEPT ![dev.slot] = out[1][2]] ELSE dev.ids
       /\ dev'.keys = IF out[1][1] \in Key
                      THEN IF out[1][2] = 1 THEN dev.keys \cup {out[1][1]}
                           ELSE dev.keys \ {out[1][1]}
                      ELSE dev.keys
       /\ dev'.frame = IF out[1][1] = "SYN" THEN dev.keys ELSE dev.frame
  <2> DEFINE c == out[1][1]
             v == out[1][2]
  <2>1. dev \in [slot : Slot, ids : [Slot -> Nat \cup {Up}], keys : SUBSET Key,
                 frame : SUBSET Key]
    BY <1>1
  <2>2. dev' = Apply(dev, c, v)
    BY <1>5
  <2> HIDE DEF c, v
  <2>3. /\ dev'.slot = IF c = "SLOT" THEN v ELSE dev.slot
        /\ dev'.ids = IF c = "TRACKING_ID" THEN [dev.ids EXCEPT ![dev.slot] = v]
                      ELSE dev.ids
        /\ dev'.keys = IF c \in Key
                       THEN IF v = 1 THEN dev.keys \cup {c} ELSE dev.keys \ {c}
                       ELSE dev.keys
        /\ dev'.frame = IF c = "SYN" THEN dev.keys ELSE dev.frame
    <3>1. CASE c = "SLOT"
      BY <2>1, <2>2, <3>1 DEF Apply, Key, Modifier
    <3>2. CASE c = "TRACKING_ID"
      BY <2>1, <2>2, <3>2 DEF Apply, Key, Modifier
    <3>3. CASE c = "SYN"
      BY <2>1, <2>2, <3>3 DEF Apply, Key, Modifier
    <3>4. CASE c \in Key
      <4>1. c # "SLOT" /\ c # "TRACKING_ID" /\ c # "SYN"
        BY <3>4 DEF Key, Modifier
      <4>2. dev' = [dev EXCEPT !.keys = IF v = 1 THEN @ \cup {c} ELSE @ \ {c}]
        BY <2>2, <3>4, <4>1 DEF Apply
      <4> QED BY <2>1, <3>4, <4>1, <4>2
    <3>5. CASE c \notin Key \cup {"SLOT", "TRACKING_ID", "SYN"}
      BY <2>1, <2>2, <3>5 DEF Apply
    <3> QED BY <3>1, <3>2, <3>3, <3>4, <3>5
  <2> QED BY <2>3 DEF c, v
<1> QED BY <1>4, <1>6, <1>7, <1>8, <1>9, <1>10

\* An event that is written keeps the contacts of the reader on their way.
LEMMA WriteKeepsContacts ==
  ASSUME TypeOK, SendEvent, lost' = 0, IdsPending, TouchPending
  PROVE  IdsPending' /\ TouchPending'
<1>0. \A s \in Slot : Expected(s)' = Expected(s)
  BY WriteStep DEF Expected
<1>a. dev.slot \in Slot /\ dev.ids \in [Slot -> Nat \cup {Up}]
  BY DEF TypeOK
<1>1. ASSUME /\ \A i \in 1 .. Len(out) : out[i][1] # "TRACKING_ID"
             /\ \A s \in Slot : dev.ids[s] = Expected(s)
      PROVE  IdsPending'
  <2>1. dev'.ids = dev.ids
    BY <1>1, WriteStep
  <2>2. \A i \in 1 .. Len(out') : out'[i][1] # "TRACKING_ID"
    BY <1>1, WriteStep
  <2> QED BY <1>0, <1>1, <2>1, <2>2 DEF IdsPending
<1>2. ASSUME \E n \in 1 .. Len(out), t \in Slot :
               /\ out[n] = <<"TRACKING_ID", Expected(t)>>
               /\ \A i \in 1 .. Len(out) : out[i][1] = "TRACKING_ID" => i = n
               /\ \A s \in Slot \ {t} : dev.ids[s] = Expected(s)
               /\ n = 1 => dev.slot = t
               /\ n # 1 => out[n - 1] = <<"SLOT", t>>
      PROVE  IdsPending'
  <2>0. PICK n \in 1 .. Len(out), t \in Slot :
             /\ out[n] = <<"TRACKING_ID", Expected(t)>>
             /\ \A i \in 1 .. Len(out) : out[i][1] = "TRACKING_ID" => i = n
             /\ \A s \in Slot \ {t} : dev.ids[s] = Expected(s)
             /\ n = 1 => dev.slot = t
             /\ n # 1 => out[n - 1] = <<"SLOT", t>>
    BY <1>2
  <2>1. CASE n = 1
    <3>1. dev'.ids = [dev.ids EXCEPT ![t] = Expected(t)]
      BY <2>0, <2>1, WriteStep
    <3>2. \A s \in Slot : dev'.ids[s] = Expected(s)
      BY <3>1, <2>0, <1>a
    <3>3. \A i \in 1 .. Len(out') : out'[i][1] # "TRACKING_ID"
      <4> SUFFICES ASSUME NEW i \in 1 .. Len(out'), out'[i][1] = "TRACKING_ID" PROVE FALSE
        OBVIOUS
      <4>1. i + 1 \in 1 .. Len(out) /\ out[i + 1][1] = "TRACKING_ID" /\ i + 1 # 1
        BY WriteStep
      <4> QED BY <4>1, <2>0, <2>1
    <3> QED BY <1>0, <3>2, <3>3 DEF IdsPending
  <2>2. CASE n # 1
    <3> DEFINE k == n - 1
    <3>0. n \in 2 .. Len(out) /\ k \in 1 .. Len(out')
      BY <2>2, WriteStep
    <3>1. out'[k] = <<"TRACKING_ID", Expected(t)>>
      BY <2>0, <3>0, WriteStep
    <3>2. dev'.ids = dev.ids
      <4>1. out[1][1] # "TRACKING_ID"
        BY <2>0, <2>2, WriteStep
      <4> QED BY <4>1, WriteStep
    <3>3. \A i \in 1 .. Len(out') : out'[i][1] = "TRACKING_ID" => i = k
      <4> SUFFICES ASSUME NEW i \in 1 .. Len(out'), out'[i][1] = "TRACKING_ID" PROVE i = k
        OBVIOUS
      <4>1. i + 1 \in 1 .. Len(out) /\ out[i + 1][1] = "TRACKING_ID"
        BY WriteStep
      <4>2. i + 1 = n
        BY <4>1, <2>0
      <4> QED BY <4>2, <3>0
    <3>4. k = 1 => dev'.slot = t
      <4> SUFFICES ASSUME k = 1 PROVE dev'.slot = t
        OBVIOUS
      <4>1. out[1] = <<"SLOT", t>>
        BY <2>0, <2>2
      <4> QED BY <4>1, WriteStep
    <3>5. k # 1 => out'[k - 1] = <<"SLOT", t>>
      <4> SUFFICES ASSUME k # 1 PROVE out'[k - 1] = <<"SLOT", t>>
        OBVIOUS
      <4>1. k \in 2 .. Len(out) /\ out[k] = <<"SLOT", t>>
        BY <2>0, <2>2, <3>0, WriteStep
      <4> QED BY <4>1, WriteStep
    <3> HIDE DEF k
    <3> QED BY <1>0, <2>0, <3>0, <3>1, <3>2, <3>3, <3>4, <3>5 DEF IdsPending
  <2> QED BY <2>1, <2>2
<1>3. TouchPending'
  <2>1. \A i \in 1 .. Len(out') :
          out'[i][1] = "BTN_TOUCH" => (out'[i][2] = 1 <=> enabled' # {})
    BY WriteStep DEF TouchPending
  <2>2. ASSUME \A i \in 1 .. Len(out') : out'[i][1] # "BTN_TOUCH"
        PROVE  "BTN_TOUCH" \in dev'.keys <=> enabled' # {}
    <3>1. CASE out[1][1] = "BTN_TOUCH"
      <4>1. out[1][2] = 1 <=> enabled # {}
        BY <3>1, WriteStep DEF TouchPending
      <4>2. "BTN_TOUCH" \in dev'.keys <=> out[1][2] = 1
        BY <3>1, WriteStep DEF Key
      <4> QED BY <4>1, <4>2, WriteStep
    <3>2. CASE out[1][1] # "BTN_TOUCH"
      <4>1. \A i \in 1 .. Len(out) : out[i][1] # "BTN_TOUCH"
        <5> SUFFICES ASSUME NEW i \in 2 .. Len(out) PROVE out[i][1] # "BTN_TOUCH"
          BY <3>2, WriteStep
        <5> QED BY <2>2, WriteStep
      <4>2. "BTN_TOUCH" \in dev'.keys <=> "BTN_TOUCH" \in dev.keys
        BY <3>2, WriteStep
      <4> QED BY <4>1, <4>2, WriteStep DEF TouchPending
    <3> QED BY <3>1, <3>2
  <2> QED BY <2>1, <2>2 DEF TouchPending
<1> QED BY <1>1, <1>2, <1>3 DEF IdsPending

\* One element behind a sequence, and behind a sequence of two or three.
LEMMA OneBehind ==
  ASSUME NEW S, NEW s \in Seq(S), NEW h \in S
  PROVE  /\ Len(s \o <<h>>) = Len(s) + 1
         /\ (s \o <<h>>)[Len(s) + 1] = h
         /\ \A i \in 1 .. Len(s) : (s \o <<h>>)[i] = s[i]
  OBVIOUS

\* A third event behind two.
LEMMA ThirdElement ==
  ASSUME NEW S, NEW r \in Seq(S), NEW a \in S
  PROVE  Len(r) = 2 => /\ Len(r \o <<a>>) = 3 /\ (r \o <<a>>)[1] = r[1]
                       /\ (r \o <<a>>)[2] = r[2] /\ (r \o <<a>>)[3] = a
<1> DEFINE q == r \o <<a>>
<1>1. /\ Len(q) = Len(r) + 1
      /\ q[Len(r) + 1] = a
      /\ \A i \in 1 .. Len(r) : q[i] = r[i]
  BY OneBehind
<1> HIDE DEF q
<1>2. Len(r) = 2 => Len(q) = 3 /\ q[1] = r[1] /\ q[2] = r[2] /\ q[3] = a
  BY <1>1
<1> QED BY <1>2 DEF q

\* A fourth event behind three.
LEMMA FourthElement ==
  ASSUME NEW S, NEW r \in Seq(S), NEW a \in S
  PROVE  Len(r) = 3 => /\ Len(r \o <<a>>) = 4
                       /\ (r \o <<a>>)[1] = r[1] /\ (r \o <<a>>)[2] = r[2]
                       /\ (r \o <<a>>)[3] = r[3] /\ (r \o <<a>>)[4] = a
<1> DEFINE q == r \o <<a>>
<1>1. /\ Len(q) = Len(r) + 1
      /\ q[Len(r) + 1] = a
      /\ \A i \in 1 .. Len(r) : q[i] = r[i]
  BY OneBehind
<1> HIDE DEF q
<1>2. Len(r) = 3 =>
        Len(q) = 4 /\ q[1] = r[1] /\ q[2] = r[2] /\ q[3] = r[3] /\ q[4] = a
  BY <1>1
<1> QED BY <1>2 DEF q

\* The elements of short sequences that are put together.
LEMMA ShortSeqs ==
  ASSUME NEW S, NEW e \in S, NEW f \in S, NEW g \in S, NEW a \in S
  PROVE  /\ Len(<<e, f>> \o <<g>> \o <<a>>) = 4
         /\ (<<e, f>> \o <<g>> \o <<a>>)[1] = e /\ (<<e, f>> \o <<g>> \o <<a>>)[2] = f
         /\ (<<e, f>> \o <<g>> \o <<a>>)[3] = g /\ (<<e, f>> \o <<g>> \o <<a>>)[4] = a
         /\ Len(<<e, f>> \o <<g>>) = 3
         /\ (<<e, f>> \o <<g>>)[1] = e /\ (<<e, f>> \o <<g>>)[2] = f
         /\ (<<e, f>> \o <<g>>)[3] = g
         /\ <<e, f>> \o <<g>> \o <<>> = <<e, f>> \o <<g>>
         /\ <<e, f>> \o <<>> = <<e, f>>
<1>1. <<e, f>> \in Seq(S) /\ <<e, f>> \o <<g>> \in Seq(S)
  OBVIOUS
<1>2. /\ <<e, f>> \o <<g>> \o <<>> = <<e, f>> \o <<g>>
      /\ <<e, f>> \o <<>> = <<e, f>>
  BY <1>1, ConcatEmptySeq
<1>3. /\ Len(<<e, f>> \o <<g>>) = 3
      /\ (<<e, f>> \o <<g>>)[1] = e /\ (<<e, f>> \o <<g>>)[2] = f
      /\ (<<e, f>> \o <<g>>)[3] = g
  OBVIOUS
<1> DEFINE r == <<e, f>> \o <<g>>
<1>4. r \in Seq(S) /\ Len(r) = 3 /\ r[1] = e /\ r[2] = f /\ r[3] = g
  BY <1>1, <1>3
<1> HIDE DEF r
<1>5. /\ Len(r \o <<a>>) = 4
      /\ (r \o <<a>>)[1] = e /\ (r \o <<a>>)[2] = f
      /\ (r \o <<a>>)[3] = g /\ (r \o <<a>>)[4] = a
  BY <1>4, FourthElement
<1> QED BY <1>2, <1>3, <1>5 DEF r

\* q tells the reader to set the id of a slot, and BTN_TOUCH to v if b.
Reports(q, slot, id, b, v) ==
  /\ 2 \in 1 .. Len(q)
  /\ q[1] = <<"SLOT", slot>> /\ q[2] = <<"TRACKING_ID", id>>
  /\ \A i \in 1 .. Len(q) : q[i][1] = "TRACKING_ID" => i = 2
  /\ \A i \in 1 .. Len(q) : q[i][1] = "BTN_TOUCH" => b /\ q[i][2] = v
  /\ b => \E i \in 1 .. Len(q) : q[i][1] = "BTN_TOUCH"

\* The events of SendDown and SendUp are such a report.
LEMMA ContactEvents ==
  ASSUME NEW slot \in Slot, NEW id \in Nat \cup {Up}, NEW b \in BOOLEAN,
         NEW v \in {0, 1}, NEW axes \in {<<>>, Axes}
  PROVE  Reports(<<<<"SLOT", slot>>, <<"TRACKING_ID", id>>>> \o Touch(b, v) \o axes,
                 slot, id, b, v)
<1> DEFINE e == <<"SLOT", slot>>
           f == <<"TRACKING_ID", id>>
           g == <<"BTN_TOUCH", v>>
           a == <<"AXES", 0>>
           q == <<e, f>> \o Touch(b, v) \o axes
<1>1. e \in Event /\ f \in Event /\ g \in Event /\ a \in Event
  BY DEF Event, Key
<1>2. /\ e[1] = "SLOT" /\ f[1] = "TRACKING_ID"
      /\ g[1] = "BTN_TOUCH" /\ g[2] = v /\ a[1] = "AXES"
      /\ e = <<"SLOT", slot>> /\ f = <<"TRACKING_ID", id>>
  OBVIOUS
<1>3. Touch(b, v) = (IF b THEN <<g>> ELSE <<>>) /\ axes \in {<<>>, <<a>>}
  BY DEF Touch, Axes
<1> SUFFICES Reports(q, slot, id, b, v)
  OBVIOUS
<1> HIDE DEF e, f, g, a
<1>4. CASE b /\ axes = <<a>>
  <2>1. Len(q) = 4 /\ q[1] = e /\ q[2] = f /\ q[3] = g /\ q[4] = a
    BY <1>1, <1>3, <1>4, ShortSeqs
  <2>2. \A i \in 1 .. Len(q) : i = 1 \/ i = 2 \/ i = 3 \/ i = 4
    BY <2>1
  <2> HIDE DEF q
  <2> QED BY <1>2, <1>4, <2>1, <2>2 DEF Reports
<1>5. CASE b /\ axes = <<>>
  <2>1. Len(q) = 3 /\ q[1] = e /\ q[2] = f /\ q[3] = g
    BY <1>1, <1>3, <1>5, ShortSeqs
  <2>2. \A i \in 1 .. Len(q) : i = 1 \/ i = 2 \/ i = 3
    BY <2>1
  <2> HIDE DEF q
  <2> QED BY <1>2, <1>5, <2>1, <2>2 DEF Reports
<1>6. CASE ~b /\ axes = <<a>>
  <2>1. Len(q) = 3 /\ q[1] = e /\ q[2] = f /\ q[3] = a
    <3>1. q = <<e, f>> \o <<a>>
      BY <1>1, <1>3, <1>6, ShortSeqs
    <3> QED BY <1>1, <3>1, ShortSeqs
  <2>2. \A i \in 1 .. Len(q) : i = 1 \/ i = 2 \/ i = 3
    BY <2>1
  <2> HIDE DEF q
  <2> QED BY <1>2, <1>6, <2>1, <2>2 DEF Reports
<1>7. CASE ~b /\ axes = <<>>
  <2>1. Len(q) = 2 /\ q[1] = e /\ q[2] = f
    <3>1. q = <<e, f>>
      BY <1>1, <1>3, <1>7, ShortSeqs
    <3> HIDE DEF q
    <3> QED BY <3>1
  <2>2. \A i \in 1 .. Len(q) : i = 1 \/ i = 2
    BY <2>1
  <2> HIDE DEF q
  <2> QED BY <1>2, <1>7, <2>1, <2>2 DEF Reports
<1> QED BY <1>3, <1>4, <1>5, <1>6, <1>7

\* Events that name neither a tracking id nor BTN_TOUCH leave what the reader
\* will see of the contacts as it is.
LEMMA OtherEvents ==
  ASSUME UNCHANGED <<enabled, trackingId, dev>>, out = <<>>, IdsPending, TouchPending,
         \A i \in 1 .. Len(out') : out'[i][1] \notin {"TRACKING_ID", "BTN_TOUCH"}
  PROVE  IdsPending' /\ TouchPending'
<1>1. 1 .. Len(out) = {}
  OBVIOUS
<1>2. /\ \A s \in Slot : dev.ids[s] = Expected(s)
      /\ "BTN_TOUCH" \in dev.keys <=> enabled # {}
  BY <1>1 DEF IdsPending, TouchPending
<1>3. \A s \in Slot : Expected(s)' = Expected(s)
  BY DEF Expected
<1>4. IdsPending'
  BY <1>2, <1>3 DEF IdsPending
<1>5. TouchPending'
  BY <1>2 DEF TouchPending
<1> QED BY <1>4, <1>5

\* A command that resets no contact sends the reader what it has done to them.
LEMMA CommandReported ==
  ASSUME TypeOK, CountCoversContacts, ~slipped', out = <<>>, dev' = dev,
         IdsPending, TouchPending, ~slipped, NEW slot \in Named,
         SendCommit \/ SendReset \/ SendDown(slot) \/ SendUp(slot) \/ SendMove(slot)
           \/ Ignored
  PROVE  IdsPending' /\ TouchPending'
<1>0. /\ \A s \in Slot : dev.ids[s] = Expected(s)
      /\ "BTN_TOUCH" \in dev.keys <=> enabled # {}
  <2>1. 1 .. Len(out) = {}
    OBVIOUS
  <2> QED BY <2>1 DEF IdsPending, TouchPending
<1>a. /\ enabled \subseteq Slot /\ trackingId \in [Slot -> Nat]
      /\ mEnabledSlots \in Nat /\ mTrackingId \in Nat
  BY DEF TypeOK
<1>b. mEnabledSlots = Cardinality(enabled) /\ IsFiniteSet(enabled)
  <2>1. IsFiniteSet(Slot)
    BY InputAssumption, FS_Interval DEF InputAssumption, Slot
  <2> QED BY <2>1, <1>a, FS_Subset DEF CountCoversContacts
<1>1. CASE SendCommit
  <2>1. UNCHANGED <<enabled, trackingId, dev>> /\ out' = <<<<"SYN", 0>>>>
    BY <1>1 DEF SendCommit, Commit, contacts
  <2>2. \A i \in 1 .. Len(out') : out'[i][1] \notin {"TRACKING_ID", "BTN_TOUCH"}
    BY <2>1
  <2> QED BY <2>1, <2>2, OtherEvents
<1>2. CASE SendReset
  <2>1. enabled = {}
    BY <1>2 DEF SendReset
  <2>2. UNCHANGED <<enabled, trackingId, dev>> /\ out' = <<>>
    BY <1>2, <2>1 DEF SendReset, ResetReport
  <2> QED BY <2>2, OtherEvents
<1>3. CASE SendDown(slot)
  <2>1. CASE slot \notin Slot
    BY <1>3, <2>1, OtherEvents DEF SendDown, contacts
  <2>2. CASE slot \in Slot
    <3> DEFINE reset == slot \in enabled \/ mEnabledSlots >= kMaxSlot
               b == mEnabledSlots + 1 = 1
    <3>1. /\ slipped' = (slipped \/ (reset /\ enabled # {}))
          /\ enabled' = (IF reset THEN {} ELSE enabled) \cup {slot}
          /\ trackingId' = [trackingId EXCEPT ![slot] = mTrackingId]
          /\ out' = (IF reset THEN ResetReport ELSE <<>>)
                    \o <<<<"SLOT", slot>>, <<"TRACKING_ID", mTrackingId>>>>
                    \o Touch(b, 1) \o Axes
      BY <1>3, <2>2 DEF SendDown
    <3>2. reset => enabled = {}
      BY <3>1
    <3>3. slot \notin enabled /\ enabled' = enabled \cup {slot}
      BY <3>1, <3>2
    <3>4. out' = <<<<"SLOT", slot>>, <<"TRACKING_ID", mTrackingId>>>> \o Touch(b, 1) \o Axes
      <4> DEFINE two == <<<<"SLOT", slot>>, <<"TRACKING_ID", mTrackingId>>>>
      <4>1. (IF reset THEN ResetReport ELSE <<>>) = <<>>
        BY <3>2 DEF ResetReport
      <4>2. two \in Seq(Event)
        <5>1. <<"SLOT", slot>> \in Event /\ <<"TRACKING_ID", mTrackingId>> \in Event
          BY <1>a, <2>2 DEF Event
        <5> QED BY <5>1, Events
      <4> HIDE DEF two
      <4>3. <<>> \o two = two
        BY <4>2, ConcatEmptySeq
      <4>4. out' = <<>> \o two \o Touch(b, 1) \o Axes
        BY <3>1, <4>1 DEF two
      <4> QED BY <4>3, <4>4 DEF two
    <3>5. /\ 2 \in 1 .. Len(out')
          /\ out'[1] = <<"SLOT", slot>> /\ out'[2] = <<"TRACKING_ID", mTrackingId>>
          /\ \A i \in 1 .. Len(out') : out'[i][1] = "TRACKING_ID" => i = 2
          /\ \A i \in 1 .. Len(out') : out'[i][1] = "BTN_TOUCH" => b /\ out'[i][2] = 1
          /\ b => \E i \in 1 .. Len(out') : out'[i][1] = "BTN_TOUCH"
      <4> HIDE DEF b
      <4>1. mTrackingId \in Nat \cup {Up} /\ b \in BOOLEAN /\ 1 \in {0, 1}
        BY <1>a DEF b
      <4>2. Reports(out', slot, mTrackingId, b, 1)
        BY <2>2, <3>4, <4>1, ContactEvents
      <4> QED BY <4>2 DEF Reports
    <3>6. /\ Expected(slot)' = mTrackingId
          /\ \A s \in Slot \ {slot} : Expected(s)' = Expected(s)
      BY <1>a, <2>2, <3>1, <3>3 DEF Expected
    <3>7. IdsPending'
      <4> SUFFICES \E n \in 1 .. Len(out'), t \in Slot :
                     /\ out'[n] = <<"TRACKING_ID", Expected(t)'>>
                     /\ \A i \in 1 .. Len(out') : out'[i][1] = "TRACKING_ID" => i = n
                     /\ \A s \in Slot \ {t} : dev'.ids[s] = Expected(s)'
                     /\ n = 1 => dev'.slot = t
                     /\ n # 1 => out'[n - 1] = <<"SLOT", t>>
        BY DEF IdsPending
      <4>1. /\ out'[2] = <<"TRACKING_ID", Expected(slot)'>>
            /\ \A s \in Slot \ {slot} : dev'.ids[s] = Expected(s)'
            /\ out'[2 - 1] = <<"SLOT", slot>>
        BY <1>0, <3>5, <3>6
      <4> QED BY <4>1, <3>5, <2>2
    <3>8. b <=> enabled = {}
      BY <1>a, <1>b, FS_EmptySet
    <3>9. TouchPending'
      BY <1>0, <3>3, <3>5, <3>8 DEF TouchPending
    <3> QED BY <3>7, <3>9
  <2> QED BY <2>1, <2>2
<1>4. CASE SendUp(slot)
  <2>1. CASE mEnabledSlots = 0 \/ slot \notin Slot \/ slot \notin enabled
    BY <1>4, <2>1, OtherEvents DEF SendUp, contacts
  <2>2. CASE ~(mEnabledSlots = 0 \/ slot \notin Slot \/ slot \notin enabled)
    <3> DEFINE b == mEnabledSlots - 1 = 0
               two == <<<<"SLOT", slot>>, <<"TRACKING_ID", Up>>>>
    <3>1. /\ enabled' = enabled \ {slot} /\ UNCHANGED trackingId
          /\ out' = two \o Touch(b, 0)
      BY <1>4, <2>2 DEF SendUp
    <3>2. out' = two \o Touch(b, 0) \o <<>>
      <4>1. two \in Seq(Event) /\ Touch(b, 0) \in Seq(Event)
        <5>1. <<"SLOT", slot>> \in Event /\ <<"TRACKING_ID", Up>> \in Event
          BY <2>2 DEF Event
        <5> QED BY <5>1, Events, Groups
      <4> HIDE DEF two
      <4>2. two \o Touch(b, 0) \in Seq(Event)
        BY <4>1, Events
      <4> QED BY <3>1, <4>2, ConcatEmptySeq
    <3>3. /\ 2 \in 1 .. Len(out')
          /\ out'[1] = <<"SLOT", slot>> /\ out'[2] = <<"TRACKING_ID", Up>>
          /\ \A i \in 1 .. Len(out') : out'[i][1] = "TRACKING_ID" => i = 2
          /\ \A i \in 1 .. Len(out') : out'[i][1] = "BTN_TOUCH" => b /\ out'[i][2] = 0
          /\ b => \E i \in 1 .. Len(out') : out'[i][1] = "BTN_TOUCH"
      <4>1. Up \in Nat \cup {Up} /\ b \in BOOLEAN /\ 0 \in {0, 1}
        OBVIOUS
      <4>2. slot \in Slot
        BY <2>2
      <4> HIDE DEF b
      <4>3. Reports(out', slot, Up, b, 0)
        BY <3>2, <4>1, <4>2, ContactEvents
      <4> QED BY <4>3 DEF Reports
    <3>4. /\ Expected(slot)' = Up
          /\ \A s \in Slot \ {slot} : Expected(s)' = Expected(s)
      BY <1>a, <2>2, <3>1 DEF Expected
    <3>5. IdsPending'
      <4> SUFFICES \E n \in 1 .. Len(out'), t \in Slot :
                     /\ out'[n] = <<"TRACKING_ID", Expected(t)'>>
                     /\ \A i \in 1 .. Len(out') : out'[i][1] = "TRACKING_ID" => i = n
                     /\ \A s \in Slot \ {t} : dev'.ids[s] = Expected(s)'
                     /\ n = 1 => dev'.slot = t
                     /\ n # 1 => out'[n - 1] = <<"SLOT", t>>
        BY DEF IdsPending
      <4>1. /\ out'[2] = <<"TRACKING_ID", Expected(slot)'>>
            /\ \A s \in Slot \ {slot} : dev'.ids[s] = Expected(s)'
            /\ out'[2 - 1] = <<"SLOT", slot>>
        BY <1>0, <3>3, <3>4
      <4> QED BY <4>1, <3>3, <2>2
    <3>6. b <=> enabled' = {}
      <4>1. Cardinality(enabled') = mEnabledSlots - 1 /\ IsFiniteSet(enabled')
        BY <1>b, <2>2, <3>1, SetSize, FS_RemoveElement
      <4> QED BY <4>1, FS_EmptySet
    <3>7. enabled # {}
      BY <2>2
    <3>8. TouchPending'
      BY <1>0, <3>3, <3>6, <3>7 DEF TouchPending
    <3> QED BY <3>5, <3>8
  <2> QED BY <2>1, <2>2
<1>5. CASE SendMove(slot)
  <2>1. UNCHANGED <<enabled, trackingId, dev>>
    BY <1>5 DEF SendMove, contacts
  <2>2. CASE slot \in enabled
    <3>1. out' = <<<<"SLOT", slot>>>> \o <<<<"AXES", 0>>>>
      BY <1>5, <2>2 DEF SendMove, Axes
    <3>2. <<"SLOT", slot>> \in Event /\ <<"AXES", 0>> \in Event
      BY <1>a, <2>2 DEF Event
    <3>3. Len(out') = 2 /\ out'[1] = <<"SLOT", slot>> /\ out'[2] = <<"AXES", 0>>
      BY <3>1, <3>2
    <3>4. \A i \in 1 .. Len(out') : out'[i][1] \notin {"TRACKING_ID", "BTN_TOUCH"}
      BY <3>3
    <3> QED BY <2>1, <3>4, OtherEvents
  <2>3. CASE slot \notin enabled
    BY <1>5, <2>1, <2>3, OtherEvents DEF SendMove
  <2> QED BY <2>2, <2>3
<1>6. CASE Ignored
  BY <1>6, OtherEvents DEF Ignored, contacts
<1> QED BY <1>1, <1>2, <1>3, <1>4, <1>5, <1>6

-----------------------------------------------------------------------------
(* onKeyCode: the modifiers around a key.                                   *)

\* The keys of onKeyCode.
Chord == Modifier \cup {"SCAN"}

\* What holds of the reader and the events to come while onKeyCode runs: a key that
\* is down has all the modifiers of the mask with it, and no modifier goes up
\* before the key does; what is down will go up, and the last frame shows that.
ChordPending ==
  /\ "SCAN" \in dev.keys => mask \subseteq dev.keys
  /\ "SCAN" \in dev.frame => mask \subseteq dev.frame
  /\ \A i \in 1 .. Len(out), m \in mask : out[i] = <<"SCAN", 1>> =>
       m \in dev.keys \/ \E j \in 1 .. i - 1 : out[j] = <<m, 1>>
  /\ \A i, j \in 1 .. Len(out), m \in Modifier :
       out[i] = <<m, 0>> /\ out[j][1] = "SCAN" => j < i
  /\ \A k \in Chord :
       /\ k \in dev.keys => \E j \in 1 .. Len(out) : out[j] = <<k, 0>>
       /\ \A i \in 1 .. Len(out) : out[i] = <<k, 1>> =>
            \E j \in i + 1 .. Len(out) : out[j] = <<k, 0>>
  /\ Len(out) # 0 => out[Len(out)] = <<"SYN", 0>>
  /\ Len(out) = 0 => dev.frame \cap Chord = {}

\* Outside of onKeyCode the reader sees none of its keys.
ChordQuiet ==
  /\ dev.keys \cap Chord = {} /\ dev.frame \cap Chord = {}
  /\ \A i \in 1 .. Len(out) : out[i][1] \notin Chord

ReaderInv ==
  lost = 0 =>
    /\ call \in {"idle", "destroyed"} => out = <<>>
    /\ ~slipped => IdsPending /\ TouchPending
    /\ call = "key" => ChordPending
    /\ call # "key" => ChordQuiet

\* An event that is written keeps the keys of onKeyCode in order.
LEMMA WriteKeepsChord ==
  ASSUME TypeOK, SendEvent, lost' = 0, ChordPending
  PROVE  ChordPending'
<1> DEFINE c == out[1][1]
           v == out[1][2]
<1>0. /\ mask' = mask /\ mask \subseteq Modifier /\ dev.keys \subseteq Key
      /\ dev.frame \subseteq Key
  BY WriteStep DEF TypeOK
<1>1. c \in Key => out[1] = <<c, v>> /\ v \in {0, 1}
  <2>1. out[1] \in Event
    BY WriteStep
  <2> QED BY <2>1 DEF Event, Key, Modifier
<1>2. c \notin Key => \A k \in Key, w \in {0, 1} : out[1] # <<k, w>>
  OBVIOUS
<1>3. dev'.keys = IF c \in Key THEN IF v = 1 THEN dev.keys \cup {c} ELSE dev.keys \ {c}
                  ELSE dev.keys
  BY WriteStep
<1>4. dev'.frame = IF c = "SYN" THEN dev.keys ELSE dev.frame
  BY WriteStep
<1>5. Chord \subseteq Key /\ "SCAN" \in Chord /\ Modifier \subseteq Chord
      /\ "SCAN" \notin Modifier /\ "SYN" \notin Key
  BY DEF Chord, Key, Modifier
<1>6. /\ Len(out) \in Nat \ {0} /\ Len(out') = Len(out) - 1
      /\ \A n \in 1 .. Len(out') : n + 1 \in 1 .. Len(out) /\ out'[n] = out[n + 1]
      /\ \A n \in 2 .. Len(out) : n - 1 \in 1 .. Len(out') /\ out'[n - 1] = out[n]
      /\ 1 \in 1 .. Len(out)
  BY WriteStep
<1>7. \A k \in Key : k \in dev.keys /\ out[1] # <<k, 0>> => k \in dev'.keys
  BY <1>1, <1>3
<1>8. \A k \in Key : k \in dev'.keys => k \in dev.keys \/ out[1] = <<k, 1>>
  BY <1>1, <1>3
<1>9. \A k \in Key : out[1] = <<k, 1>> => k \in dev'.keys
  BY <1>3
<1>10. \A k \in Key : out[1] = <<k, 0>> => k \notin dev'.keys
  BY <1>3
<1> HIDE DEF c, v
<1>11. "SCAN" \in dev'.keys => mask' \subseteq dev'.keys
  <2> SUFFICES ASSUME "SCAN" \in dev'.keys, NEW m \in mask PROVE m \in dev'.keys
    BY <1>0
  <2>1. m \in Modifier /\ m \in Key
    BY <1>0, <1>5
  <2>2. m \in dev.keys
    <3>1. CASE "SCAN" \in dev.keys
      BY <3>1 DEF ChordPending
    <3>2. CASE out[1] = <<"SCAN", 1>>
      <4>1. m \in dev.keys \/ \E j \in 1 .. 1 - 1 : out[j] = <<m, 1>>
        BY <3>2, <1>6 DEF ChordPending
      <4> QED BY <4>1
    <3> QED BY <3>1, <3>2, <1>5, <1>8
  <2>3. out[1] # <<m, 0>>
    <3> SUFFICES ASSUME out[1] = <<m, 0>> PROVE FALSE
      OBVIOUS
    <3>1. "SCAN" \in dev.keys
      <4>1. out[1] # <<"SCAN", 1>>
        OBVIOUS
      <4> QED BY <4>1, <1>5, <1>8
    <3>2. PICK j \in 1 .. Len(out) : out[j] = <<"SCAN", 0>>
      BY <3>1, <1>5 DEF ChordPending
    <3>3. out[j][1] = "SCAN"
      BY <3>2
    <3>4. j < 1
      BY <3>3, <2>1, <1>6 DEF ChordPending
    <3> QED BY <3>4, <1>6
  <2> QED BY <2>1, <2>2, <2>3, <1>7
<1>12. "SCAN" \in dev'.frame => mask' \subseteq dev'.frame
  BY <1>0, <1>4 DEF ChordPending
<1>13. \A n \in 1 .. Len(out'), m \in mask' : out'[n] = <<"SCAN", 1>> =>
         m \in dev'.keys \/ \E j \in 1 .. n - 1 : out'[j] = <<m, 1>>
  <2> SUFFICES ASSUME NEW n \in 1 .. Len(out'), NEW m \in mask, out'[n] = <<"SCAN", 1>>,
                      m \notin dev'.keys
               PROVE  \E j \in 1 .. n - 1 : out'[j] = <<m, 1>>
    BY <1>0
  <2>1. m \in Modifier /\ m \in Key
    BY <1>0, <1>5
  <2>2. n + 1 \in 1 .. Len(out) /\ out[n + 1] = <<"SCAN", 1>> /\ out[n + 1][1] = "SCAN"
    BY <1>6
  <2>3. m \notin dev.keys
    <3> SUFFICES ASSUME m \in dev.keys PROVE FALSE
      OBVIOUS
    <3>1. out[1] = <<m, 0>>
      BY <1>7, <2>1
    <3>2. n + 1 < 1
      BY <3>1, <2>1, <2>2, <1>6 DEF ChordPending
    <3> QED BY <3>2, <1>6
  <2>4. PICK j \in 1 .. (n + 1) - 1 : out[j] = <<m, 1>>
    BY <2>2, <2>3 DEF ChordPending
  <2>5. j # 1
    BY <2>4, <2>1, <1>9
  <2>6. j \in 2 .. Len(out) /\ j - 1 \in 1 .. n - 1
    BY <2>2, <2>4, <2>5, <1>6
  <2>7. out'[j - 1] = <<m, 1>>
    BY <2>4, <2>6, <1>6
  <2> QED BY <2>6, <2>7
<1>14. \A n, j \in 1 .. Len(out'), m \in Modifier :
         out'[n] = <<m, 0>> /\ out'[j][1] = "SCAN" => j < n
  <2> SUFFICES ASSUME NEW n \in 1 .. Len(out'), NEW j \in 1 .. Len(out'),
                      NEW m \in Modifier, out'[n] = <<m, 0>>, out'[j][1] = "SCAN"
               PROVE  j < n
    OBVIOUS
  <2>1. /\ n + 1 \in 1 .. Len(out) /\ j + 1 \in 1 .. Len(out)
        /\ out[n + 1] = <<m, 0>> /\ out[j + 1][1] = "SCAN"
    BY <1>6
  <2>2. j + 1 < n + 1
    BY <2>1 DEF ChordPending
  <2> QED BY <2>2, <1>6
<1>15. ASSUME NEW k \in Chord
       PROVE  /\ k \in dev'.keys => \E j \in 1 .. Len(out') : out'[j] = <<k, 0>>
              /\ \A n \in 1 .. Len(out') : out'[n] = <<k, 1>> =>
                   \E j \in n + 1 .. Len(out') : out'[j] = <<k, 0>>
  <2>0. k \in Key
    BY <1>5
  <2>1. ASSUME k \in dev'.keys
        PROVE  \E j \in 1 .. Len(out') : out'[j] = <<k, 0>>
    <3>1. \E j \in 2 .. Len(out) : out[j] = <<k, 0>>
      <4>1. CASE k \in dev.keys
        <5>1. PICK j \in 1 .. Len(out) : out[j] = <<k, 0>>
          BY <4>1 DEF ChordPending
        <5>2. j # 1
          BY <2>0, <2>1, <5>1, <1>10
        <5> QED BY <5>1, <5>2, <1>6
      <4>2. CASE out[1] = <<k, 1>>
        <5>1. PICK j \in 1 + 1 .. Len(out) : out[j] = <<k, 0>>
          BY <4>2, <1>6 DEF ChordPending
        <5> QED BY <5>1
      <4> QED BY <2>0, <2>1, <4>1, <4>2, <1>8
    <3> QED BY <3>1, <1>6
  <2>2. ASSUME NEW n \in 1 .. Len(out'), out'[n] = <<k, 1>>
        PROVE  \E j \in n + 1 .. Len(out') : out'[j] = <<k, 0>>
    <3>1. n + 1 \in 1 .. Len(out) /\ out[n + 1] = <<k, 1>>
      BY <2>2, <1>6
    <3>2. PICK j \in (n + 1) + 1 .. Len(out) : out[j] = <<k, 0>>
      BY <3>1 DEF ChordPending
    <3>3. j \in 2 .. Len(out) /\ j - 1 \in n + 1 .. Len(out')
      BY <3>1, <1>6
    <3>4. out'[j - 1] = <<k, 0>>
      BY <3>2, <3>3, <1>6
    <3> QED BY <3>3, <3>4
  <2> QED BY <2>1, <2>2
<1>16. Len(out') # 0 => out'[Len(out')] = <<"SYN", 0>>
  <2> SUFFICES ASSUME Len(out') # 0 PROVE out'[Len(out')] = <<"SYN", 0>>
    OBVIOUS
  <2>1. Len(out') \in 1 .. Len(out') /\ Len(out') + 1 = Len(out)
    BY <1>6
  <2> QED BY <2>1, <1>6 DEF ChordPending
<1>17. Len(out') = 0 => dev'.frame \cap Chord = {}
  <2> SUFFICES ASSUME Len(out') = 0 PROVE dev'.frame \cap Chord = {}
    OBVIOUS
  <2>1. Len(out) = 1
    BY <1>6
  <2>2. out[1] = <<"SYN", 0>>
    BY <2>1 DEF ChordPending
  <2>3. dev'.frame = dev.keys
    BY <2>2, <1>4 DEF c
  <2>4. ASSUME NEW k \in dev.keys, k \in Chord PROVE FALSE
    <3>1. PICK j \in 1 .. Len(out) : out[j] = <<k, 0>>
      BY <2>4 DEF ChordPending
    <3>2. j = 1
      BY <2>1
    <3>3. k = "SYN"
      BY <3>1, <3>2, <2>2
    <3> QED BY <3>3, <2>4, <1>5
  <2> QED BY <2>3, <2>4
<1> QED BY <1>11, <1>12, <1>13, <1>14, <1>15, <1>16, <1>17 DEF ChordPending

\* The same outside of onKeyCode.
LEMMA WriteKeepsQuiet ==
  ASSUME TypeOK, SendEvent, lost' = 0, ChordQuiet
  PROVE  ChordQuiet'
<1>1. out[1][1] \notin Chord
  BY WriteStep DEF ChordQuiet
<1>2. dev'.keys \cap Chord = {}
  BY <1>1, WriteStep DEF ChordQuiet
<1>3. dev'.frame \cap Chord = {}
  BY WriteStep DEF ChordQuiet
<1>4. \A i \in 1 .. Len(out') : out'[i][1] \notin Chord
  BY WriteStep DEF ChordQuiet
<1> QED BY <1>2, <1>3, <1>4 DEF ChordQuiet

\* s gives each key of M the value v, with nothing but SYN between, and ends in SYN.
Sets(s, M, v) ==
  /\ s \in Seq(Event)
  /\ \A i \in 1 .. Len(s) : s[i] = <<"SYN", 0>> \/ \E m \in M : s[i] = <<m, v>>
  /\ \A m \in M : \E i \in 1 .. Len(s) : s[i] = <<m, v>>
  /\ Len(s) # 0 => s[Len(s)] = <<"SYN", 0>>

\* Two such groups make one.
LEMMA SetsJoined ==
  ASSUME NEW M, NEW N, NEW v, NEW s, NEW t, Sets(s, M, v), Sets(t, N, v)
  PROVE  Sets(s \o t, M \cup N, v)
<1> DEFINE q == s \o t
<1>1. s \in Seq(Event) /\ t \in Seq(Event)
  BY DEF Sets
<1>2. /\ q \in Seq(Event) /\ Len(q) = Len(s) + Len(t)
      /\ \A i \in 1 .. Len(s) + Len(t) : q[i] = IF i <= Len(s) THEN s[i] ELSE t[i - Len(s)]
  BY <1>1, ConcatProperties
<1>3. Len(s) \in Nat /\ Len(t) \in Nat
  BY <1>1, LenProperties
<1> HIDE DEF q
<1>4. /\ \A i \in 1 .. Len(s) : i \in 1 .. Len(q) /\ q[i] = s[i]
      /\ \A i \in 1 .. Len(t) : Len(s) + i \in 1 .. Len(q) /\ q[Len(s) + i] = t[i]
  BY <1>2, <1>3
<1>5. \A i \in 1 .. Len(q) :
        \/ i \in 1 .. Len(s) /\ q[i] = s[i]
        \/ i - Len(s) \in 1 .. Len(t) /\ q[i] = t[i - Len(s)]
  BY <1>2, <1>3
<1>6. \A i \in 1 .. Len(q) : q[i] = <<"SYN", 0>> \/ \E m \in M \cup N : q[i] = <<m, v>>
  BY <1>5 DEF Sets
<1>7. \A m \in M \cup N : \E i \in 1 .. Len(q) : q[i] = <<m, v>>
  <2>1. ASSUME NEW m \in M PROVE \E i \in 1 .. Len(q) : q[i] = <<m, v>>
    BY <1>4 DEF Sets
  <2>2. ASSUME NEW m \in N PROVE \E i \in 1 .. Len(q) : q[i] = <<m, v>>
    <3>1. PICK i \in 1 .. Len(t) : t[i] = <<m, v>>
      BY DEF Sets
    <3> QED BY <3>1, <1>4
  <2> QED BY <2>1, <2>2
<1>8. Len(q) # 0 => q[Len(q)] = <<"SYN", 0>>
  <2>1. CASE Len(t) = 0
    <3>1. Len(q) = Len(s)
      BY <1>2, <1>3, <2>1
    <3>2. Len(q) # 0 => Len(s) # 0 /\ Len(s) \in 1 .. Len(s)
      BY <1>3, <3>1
    <3> QED BY <3>1, <3>2, <1>4 DEF Sets
  <2>2. CASE Len(t) # 0
    <3>1. Len(t) \in 1 .. Len(t) /\ Len(q) = Len(s) + Len(t)
      BY <1>2, <1>3, <2>2
    <3> QED BY <3>1, <2>2, <1>4 DEF Sets
  <2> QED BY <2>1, <2>2
<1>9. Sets(q, M \cup N, v)
  BY <1>2, <1>6, <1>7, <1>8 DEF Sets
<1> QED BY <1>9 DEF q

\* The modifiers of the mask, pressed or released.
LEMMA ModifiersSet ==
  ASSUME NEW mods \in SUBSET Modifier, NEW v \in {0, 1}
  PROVE  Sets(Modifiers(mods, v), mods, v)
<1>1. ASSUME NEW m \in Modifier PROVE Sets(Press(m, mods, v), mods \cap {m}, v)
  <2>1. CASE m \notin mods
    <3>1. Press(m, mods, v) = <<>> /\ mods \cap {m} = {}
      BY <2>1 DEF Press
    <3>2. Len(<<>>) = 0 /\ <<>> \in Seq(Event) /\ 1 .. 0 = {}
      OBVIOUS
    <3> QED BY <3>1, <3>2 DEF Sets
  <2>2. CASE m \in mods
    <3> DEFINE e == <<m, v>>
               f == <<"SYN", 0>>
               q == <<e>> \o <<f>>
    <3>1. e \in Event /\ f \in Event
      BY DEF Event, Key
    <3>2. Press(m, mods, v) = q
      BY <2>2 DEF Press, Commit
    <3>3. f = <<"SYN", 0>> /\ e = <<m, v>>
      OBVIOUS
    <3> HIDE DEF e, f
    <3>4. q \in Seq(Event) /\ Len(q) = 2 /\ q[1] = e /\ q[2] = f
      BY <3>1
    <3>5. \A i \in 1 .. Len(q) : i = 1 \/ i = 2
      BY <3>4
    <3>6. 1 \in 1 .. Len(q) /\ 2 \in 1 .. Len(q)
      BY <3>4
    <3> HIDE DEF q
    <3>7. Sets(q, {m}, v)
      BY <3>3, <3>4, <3>5, <3>6 DEF Sets
    <3>8. mods \cap {m} = {m}
      BY <2>2
    <3> QED BY <3>2, <3>7, <3>8
  <2> QED BY <2>1, <2>2
<1> DEFINE a == Press("LEFTSHIFT", mods, v)
           b == Press("LEFTCTRL", mods, v)
           d == Press("LEFTALT", mods, v)
           A == mods \cap {"LEFTSHIFT"}
           B == mods \cap {"LEFTCTRL"}
           D == mods \cap {"LEFTALT"}
<1>2. Sets(a, A, v) /\ Sets(b, B, v) /\ Sets(d, D, v)
  BY <1>1 DEF Modifier
<1>3. (A \cup B) \cup D = mods
  BY DEF Modifier
<1>4. Modifiers(mods, v) = (a \o b) \o d
  BY DEF Modifiers
<1> HIDE DEF a, b, d, A, B, D
<1>5. Sets(a \o b, A \cup B, v)
  BY <1>2, SetsJoined
<1>6. Sets((a \o b) \o d, (A \cup B) \cup D, v)
  BY <1>2, <1>5, SetsJoined
<1> QED BY <1>3, <1>4, <1>6

\* The press and the release of a key, each with its frame.
LEMMA PlugShape ==
  ASSUME NEW k \in Key
  PROVE  /\ Plug(k) \in Seq(Event) /\ Len(Plug(k)) = 4
         /\ Plug(k)[1] = <<k, 1>> /\ Plug(k)[2] = <<"SYN", 0>>
         /\ Plug(k)[3] = <<k, 0>> /\ Plug(k)[4] = <<"SYN", 0>>
<1> DEFINE e == <<k, 1>>
           f == <<"SYN", 0>>
           g == <<k, 0>>
           r == <<e>> \o <<f>> \o <<g>>
<1>1. e \in Event /\ f \in Event /\ g \in Event
  BY DEF Event
<1>2. Plug(k) = r \o <<f>>
  BY DEF Plug, Commit
<1>3. e = <<k, 1>> /\ f = <<"SYN", 0>> /\ g = <<k, 0>>
  OBVIOUS
<1> HIDE DEF e, f, g
<1>4. r \in Seq(Event) /\ Len(r) = 3 /\ r[1] = e /\ r[2] = f /\ r[3] = g
  <2> DEFINE p == <<e>> \o <<f>>
  <2>1. p \in Seq(Event) /\ Len(p) = 2 /\ p[1] = e /\ p[2] = f
    BY <1>1
  <2> HIDE DEF p
  <2>2. p \o <<g>> \in Seq(Event)
    BY <2>1, <1>1, Events
  <2>3. /\ Len(p \o <<g>>) = 3 /\ (p \o <<g>>)[1] = p[1]
        /\ (p \o <<g>>)[2] = p[2] /\ (p \o <<g>>)[3] = g
    BY <2>1, <1>1, ThirdElement
  <2> QED BY <2>1, <2>2, <2>3 DEF p
<1> HIDE DEF r
<1>5. /\ Len(r \o <<f>>) = 4
      /\ (r \o <<f>>)[1] = r[1] /\ (r \o <<f>>)[2] = r[2]
      /\ (r \o <<f>>)[3] = r[3] /\ (r \o <<f>>)[4] = f
  BY <1>1, <1>4, FourthElement
<1>6. Plug(k) \in Seq(Event)
  BY Groups
<1> QED BY <1>2, <1>3, <1>4, <1>5, <1>6

\* The events of onKeyCode: the modifiers go down, the key goes down and up, the
\* modifiers go up.
LEMMA KeyEventsShape ==
  ASSUME NEW mods \in SUBSET Modifier
  PROVE  \E a, c \in Nat :
           /\ Len(KeyEvents(mods)) = a + 4 + c
           /\ \A i \in 1 .. a :
                \/ KeyEvents(mods)[i] = <<"SYN", 0>>
                \/ \E m \in mods : KeyEvents(mods)[i] = <<m, 1>>
           /\ KeyEvents(mods)[a + 1] = <<"SCAN", 1>> /\ KeyEvents(mods)[a + 2] = <<"SYN", 0>>
           /\ KeyEvents(mods)[a + 3] = <<"SCAN", 0>> /\ KeyEvents(mods)[a + 4] = <<"SYN", 0>>
           /\ \A i \in a + 5 .. a + 4 + c :
                \/ KeyEvents(mods)[i] = <<"SYN", 0>>
                \/ \E m \in mods : KeyEvents(mods)[i] = <<m, 0>>
           /\ \A m \in mods : \E i \in 1 .. a : KeyEvents(mods)[i] = <<m, 1>>
           /\ \A m \in mods : \E i \in a + 5 .. a + 4 + c : KeyEvents(mods)[i] = <<m, 0>>
           /\ c # 0 => KeyEvents(mods)[a + 4 + c] = <<"SYN", 0>>
<1> DEFINE s == Modifiers(mods, 1)
           p == Plug("SCAN")
           t == Modifiers(mods, 0)
           r == s \o p
           q == r \o t
           a == Len(s)
           c == Len(t)
<1>1. Sets(s, mods, 1) /\ Sets(t, mods, 0)
  BY ModifiersSet
<1>2. /\ p \in Seq(Event) /\ Len(p) = 4
      /\ p[1] = <<"SCAN", 1>> /\ p[2] = <<"SYN", 0>>
      /\ p[3] = <<"SCAN", 0>> /\ p[4] = <<"SYN", 0>>
  BY PlugShape DEF Key
<1>3. KeyEvents(mods) = q
  BY DEF KeyEvents
<1> HIDE DEF s, p, t
<1>4. s \in Seq(Event) /\ t \in Seq(Event) /\ a \in Nat /\ c \in Nat
  BY <1>1, LenProperties DEF Sets
<1>5. /\ r \in Seq(Event) /\ Len(r) = Len(s) + Len(p)
      /\ \A i \in 1 .. Len(s) + Len(p) : r[i] = IF i <= Len(s) THEN s[i] ELSE p[i - Len(s)]
  BY <1>2, <1>4, ConcatProperties
<1> HIDE DEF r
<1>6. /\ Len(q) = Len(r) + Len(t)
      /\ \A i \in 1 .. Len(r) + Len(t) : q[i] = IF i <= Len(r) THEN r[i] ELSE t[i - Len(r)]
  <2>1. r \in Seq(Event) /\ t \in Seq(Event)
    BY <1>4, <1>5
  <2> QED BY <2>1, ConcatProperties
<1> HIDE DEF q
<1>7. Len(q) = a + 4 + c
  BY <1>2, <1>4, <1>5, <1>6
<1>8. \A i \in 1 .. a : q[i] = s[i]
  BY <1>2, <1>4, <1>5, <1>6
<1>9. \A j \in 1 .. 4 : q[a + j] = p[j]
  <2> SUFFICES ASSUME NEW j \in 1 .. 4 PROVE q[a + j] = p[j]
    OBVIOUS
  <2>1. r[a + j] = p[j] /\ a + j \in 1 .. Len(r)
    BY <1>2, <1>4, <1>5
  <2>2. q[a + j] = r[a + j]
    BY <2>1, <1>2, <1>4, <1>5, <1>6
  <2> QED BY <2>1, <2>2
<1>10. \A j \in 1 .. c : q[a + 4 + j] = t[j]
  <2> SUFFICES ASSUME NEW j \in 1 .. c PROVE q[a + 4 + j] = t[j]
    OBVIOUS
  <2>1. a + 4 + j \in 1 .. Len(r) + Len(t) /\ a + 4 + j > Len(r) /\ (a + 4 + j) - Len(r) = j
    BY <1>2, <1>4, <1>5
  <2> QED BY <2>1, <1>6
<1>11. \A i \in a + 5 .. a + 4 + c : i - (a + 4) \in 1 .. c /\ q[i] = t[i - (a + 4)]
  <2> SUFFICES ASSUME NEW i \in a + 5 .. a + 4 + c
               PROVE  i - (a + 4) \in 1 .. c /\ q[i] = t[i - (a + 4)]
    OBVIOUS
  <2>1. i - (a + 4) \in 1 .. c /\ a + 4 + (i - (a + 4)) = i
    BY <1>4
  <2> QED BY <2>1, <1>10
<1>12. \A i \in 1 .. a : q[i] = <<"SYN", 0>> \/ \E m \in mods : q[i] = <<m, 1>>
  BY <1>1, <1>8 DEF Sets
<1>13. /\ q[a + 1] = <<"SCAN", 1>> /\ q[a + 2] = <<"SYN", 0>>
       /\ q[a + 3] = <<"SCAN", 0>> /\ q[a + 4] = <<"SYN", 0>>
  BY <1>2, <1>9
<1>14. \A i \in a + 5 .. a + 4 + c :
         q[i] = <<"SYN", 0>> \/ \E m \in mods : q[i] = <<m, 0>>
  BY <1>1, <1>11 DEF Sets
<1>15. \A m \in mods : \E i \in 1 .. a : q[i] = <<m, 1>>
  BY <1>1, <1>8 DEF Sets
<1>16. \A m \in mods : \E i \in a + 5 .. a + 4 + c : q[i] = <<m, 0>>
  <2> SUFFICES ASSUME NEW m \in mods PROVE \E i \in a + 5 .. a + 4 + c : q[i] = <<m, 0>>
    OBVIOUS
  <2>1. PICK j \in 1 .. c : t[j] = <<m, 0>>
    BY <1>1 DEF Sets
  <2>2. a + 4 + j \in a + 5 .. a + 4 + c
    BY <1>4
  <2> QED BY <2>1, <2>2, <1>10
<1>17. c # 0 => q[a + 4 + c] = <<"SYN", 0>>
  <2> SUFFICES ASSUME c # 0 PROVE q[a + 4 + c] = <<"SYN", 0>>
    OBVIOUS
  <2>1. c \in 1 .. c
    BY <1>4
  <2>2. t[c] = <<"SYN", 0>>
    BY <1>1 DEF Sets
  <2> QED BY <2>1, <2>2, <1>10
<1> HIDE DEF a, c
<1> QED BY <1>3, <1>4, <1>7, <1>12, <1>13, <1>14, <1>15, <1>16, <1>17

\* onKeyCode starts with its keys up and in the right order to come.
LEMMA ChordStarts ==
  ASSUME onKeyCode, ChordQuiet, dev.keys \subseteq Key
  PROVE  /\ ChordPending'
         /\ \A i \in 1 .. Len(out') : out'[i][1] \notin {"TRACKING_ID", "BTN_TOUCH"}
<1>0. PICK mods \in SUBSET Modifier : mask' = mods /\ out' = KeyEvents(mods)
  BY DEF onKeyCode
<1>1. dev' = dev
  BY DEF onKeyCode
<1> DEFINE q == KeyEvents(mods)
<1>2. PICK a \in Nat, c \in Nat :
        /\ Len(q) = a + 4 + c
        /\ \A i \in 1 .. a : q[i] = <<"SYN", 0>> \/ \E m \in mods : q[i] = <<m, 1>>
        /\ q[a + 1] = <<"SCAN", 1>> /\ q[a + 2] = <<"SYN", 0>>
        /\ q[a + 3] = <<"SCAN", 0>> /\ q[a + 4] = <<"SYN", 0>>
        /\ \A i \in a + 5 .. a + 4 + c :
             q[i] = <<"SYN", 0>> \/ \E m \in mods : q[i] = <<m, 0>>
        /\ \A m \in mods : \E i \in 1 .. a : q[i] = <<m, 1>>
        /\ \A m \in mods : \E i \in a + 5 .. a + 4 + c : q[i] = <<m, 0>>
        /\ c # 0 => q[a + 4 + c] = <<"SYN", 0>>
  BY KeyEventsShape
<1> HIDE DEF q
<1>3. \A i \in 1 .. Len(q) : \/ i \in 1 .. a
                             \/ i = a + 1 \/ i = a + 2 \/ i = a + 3 \/ i = a + 4
                             \/ i \in a + 5 .. a + 4 + c
  BY <1>2
<1>4. /\ a + 1 \in 1 .. Len(q) /\ a + 3 \in 1 .. Len(q)
      /\ \A i \in 1 .. a : i \in 1 .. Len(q)
      /\ \A i \in a + 5 .. a + 4 + c : i \in 1 .. Len(q)
  BY <1>2
<1>5. "SCAN" \notin Modifier /\ "SYN" \notin Modifier /\ mods \subseteq Modifier
  BY DEF Modifier
<1>6. ASSUME NEW i \in 1 .. Len(q)
      PROVE  /\ q[i] = <<"SCAN", 1>> => i = a + 1
             /\ q[i][1] = "SCAN" => i = a + 1 \/ i = a + 3
             /\ \A m \in Modifier : q[i] = <<m, 0>> => i \in a + 5 .. a + 4 + c
             /\ \A m \in Modifier : q[i] = <<m, 1>> => i \in 1 .. a /\ m \in mods
             /\ q[i][1] \in Chord \cup {"SYN"}
  <2>1. CASE i \in 1 .. a
    <3>1. q[i] = <<"SYN", 0>> \/ \E m \in mods : q[i] = <<m, 1>>
      BY <1>2, <2>1
    <3> QED BY <2>1, <3>1, <1>5 DEF Chord
  <2>2. CASE i = a + 1 \/ i = a + 2 \/ i = a + 3 \/ i = a + 4
    <3>1. \/ i = a + 1 /\ q[i] = <<"SCAN", 1>>
          \/ i = a + 3 /\ q[i] = <<"SCAN", 0>>
          \/ q[i] = <<"SYN", 0>>
      BY <1>2, <2>2
    <3>2. a + 3 # a + 1
      OBVIOUS
    <3> QED BY <3>1, <3>2, <1>5 DEF Chord
  <2>3. CASE i \in a + 5 .. a + 4 + c
    <3>1. q[i] = <<"SYN", 0>> \/ \E m \in mods : q[i] = <<m, 0>>
      BY <1>2, <2>3
    <3> QED BY <2>3, <3>1, <1>5 DEF Chord
  <2> QED BY <1>3, <2>1, <2>2, <2>3
<1>7. dev.keys \cap Chord = {} /\ dev.frame \cap Chord = {}
  BY DEF ChordQuiet
<1>8. "SCAN" \notin dev.keys /\ "SCAN" \notin dev.frame
  BY <1>7 DEF Chord
<1>9. \A i \in 1 .. Len(q), m \in mods :
        q[i] = <<"SCAN", 1>> => \E j \in 1 .. i - 1 : q[j] = <<m, 1>>
  <2> SUFFICES ASSUME NEW i \in 1 .. Len(q), NEW m \in mods, q[i] = <<"SCAN", 1>>
               PROVE  \E j \in 1 .. i - 1 : q[j] = <<m, 1>>
    OBVIOUS
  <2>1. i = a + 1
    BY <1>6
  <2>2. 1 .. i - 1 = 1 .. a
    BY <2>1
  <2> QED BY <2>2, <1>2
<1>10. \A i, j \in 1 .. Len(q), m \in Modifier :
         q[i] = <<m, 0>> /\ q[j][1] = "SCAN" => j < i
  <2> SUFFICES ASSUME NEW i \in 1 .. Len(q), NEW j \in 1 .. Len(q), NEW m \in Modifier,
                      q[i] = <<m, 0>>, q[j][1] = "SCAN"
               PROVE  j < i
    OBVIOUS
  <2>1. i \in a + 5 .. a + 4 + c
    BY <1>6
  <2>2. j = a + 1 \/ j = a + 3
    BY <1>6
  <2> QED BY <2>1, <2>2
<1>11. ASSUME NEW k \in Chord, NEW i \in 1 .. Len(q), q[i] = <<k, 1>>
       PROVE  \E j \in i + 1 .. Len(q) : q[j] = <<k, 0>>
  <2>1. CASE k = "SCAN"
    <3>1. i = a + 1
      BY <1>6, <1>11, <2>1
    <3>2. a + 3 \in i + 1 .. Len(q)
      BY <3>1, <1>2
    <3> QED BY <3>2, <1>2, <2>1
  <2>2. CASE k \in Modifier
    <3>1. i \in 1 .. a /\ k \in mods
      BY <1>6, <1>11, <2>2
    <3>2. PICK j \in a + 5 .. a + 4 + c : q[j] = <<k, 0>>
      BY <3>1, <1>2
    <3>3. j \in i + 1 .. Len(q)
      BY <3>1, <1>2
    <3> QED BY <3>2, <3>3
  <2> QED BY <2>1, <2>2 DEF Chord
<1>12. Len(q) # 0 /\ q[Len(q)] = <<"SYN", 0>>
  <2>1. CASE c = 0
    <3>1. Len(q) = a + 4
      BY <1>2, <2>1
    <3> QED BY <3>1, <1>2
  <2>2. CASE c # 0
    BY <1>2, <2>2
  <2> QED BY <2>1, <2>2
<1>13. out' = q
  BY <1>0 DEF q
<1>14. ChordPending'
  BY <1>0, <1>1, <1>7, <1>8, <1>9, <1>10, <1>11, <1>12, <1>13 DEF ChordPending
<1>15. \A i \in 1 .. Len(out') : out'[i][1] \notin {"TRACKING_ID", "BTN_TOUCH"}
  BY <1>6, <1>13 DEF Chord, Modifier
<1> QED BY <1>14, <1>15

\* The events of the joystick name no key of onKeyCode, no contact and not BTN_TOUCH.
LEMMA JoystickEvents ==
  ASSUME ProcessOneJoystickCommand
  PROVE  \A i \in 1 .. Len(out') :
           out'[i][1] \notin Chord \cup {"TRACKING_ID", "BTN_TOUCH"}
<1> DEFINE Other == {"SYN", "AXES", "BUTTON", "INSERT", "PULL"}
<1>0. \A k \in Other : k \notin Chord \cup {"TRACKING_ID", "BTN_TOUCH"}
  BY DEF Chord, Modifier
<1> SUFFICES \A i \in 1 .. Len(out') : out'[i][1] \in Other
  BY <1>0
<1>1. CASE out' = Commit
  BY <1>1 DEF Commit
<1>2. CASE out' = Axes
  BY <1>2 DEF Axes
<1>3. ASSUME NEW w \in {0, 1}, out' = <<<<"BUTTON", w>>>>
      PROVE  \A i \in 1 .. Len(out') : out'[i][1] \in Other
  BY <1>3
<1>4. ASSUME NEW k \in {"INSERT", "PULL"}, out' = Plug(k)
      PROVE  \A i \in 1 .. Len(out') : out'[i][1] \in Other
  <2>1. k \in Key
    BY DEF Key
  <2>2. /\ Len(out') = 4 /\ out'[1] = <<k, 1>> /\ out'[2] = <<"SYN", 0>>
        /\ out'[3] = <<k, 0>> /\ out'[4] = <<"SYN", 0>>
    BY <1>4, <2>1, PlugShape
  <2>3. \A i \in 1 .. Len(out') : i = 1 \/ i = 2 \/ i = 3 \/ i = 4
    BY <2>2
  <2> QED BY <2>2, <2>3
<1> QED BY <1>1, <1>2, <1>3, <1>4 DEF ProcessOneJoystickCommand

\* The events of a touch command name no key of onKeyCode.
LEMMA TouchEvents ==
  ASSUME TypeOK, NEW slot \in Named,
         SendCommit \/ SendReset \/ SendDown(slot) \/ SendUp(slot) \/ SendMove(slot)
           \/ Ignored
  PROVE  \A i \in 1 .. Len(out') : out'[i][1] \notin Chord
<1> DEFINE Plain(s) == s \in Seq(Event) /\ \A i \in 1 .. Len(s) : s[i][1] \notin Chord
<1> SUFFICES Plain(out')
  OBVIOUS
<1>0. {"SLOT", "TRACKING_ID", "BTN_TOUCH", "AXES", "SYN"} \cap Chord = {}
  BY DEF Chord, Modifier
<1>1. Plain(<<>>)
  OBVIOUS
<1>2. \A e \in Event : e[1] \notin Chord => Plain(<<e>>)
  OBVIOUS
<1>3. ASSUME NEW e \in Event, NEW f \in Event, e[1] \notin Chord, f[1] \notin Chord
      PROVE  Plain(<<e, f>>)
  <2>1. \A i \in 1 .. 2 : <<e, f>>[i] = e \/ <<e, f>>[i] = f
    OBVIOUS
  <2> QED BY <1>3, <2>1, Events
<1>4. ASSUME NEW s, NEW t, Plain(s), Plain(t) PROVE Plain(s \o t)
  <2>1. /\ s \o t \in Seq(Event) /\ Len(s \o t) = Len(s) + Len(t)
        /\ \A i \in 1 .. Len(s) + Len(t) :
             (s \o t)[i] = IF i <= Len(s) THEN s[i] ELSE t[i - Len(s)]
    BY <1>4, ConcatProperties
  <2>2. Len(s) \in Nat /\ Len(t) \in Nat
    BY <1>4, LenProperties
  <2> DEFINE q == s \o t
  <2>3. \A i \in 1 .. Len(q) :
          \/ i \in 1 .. Len(s) /\ q[i] = s[i]
          \/ i - Len(s) \in 1 .. Len(t) /\ q[i] = t[i - Len(s)]
    BY <2>1, <2>2
  <2> HIDE DEF q
  <2>4. \A i \in 1 .. Len(q) : q[i][1] \notin Chord
    BY <2>3, <1>4
  <2> QED BY <2>1, <2>4 DEF q
<1>5. /\ <<"SYN", 0>> \in Event /\ <<"AXES", 0>> \in Event
      /\ \A v \in {0, 1} : <<"BTN_TOUCH", v>> \in Event
      /\ \A s \in Slot : <<"SLOT", s>> \in Event
      /\ \A n \in Nat \cup {Up} : <<"TRACKING_ID", n>> \in Event
  BY DEF Event, Key
<1>6. Plain(Commit) /\ Plain(Axes)
  <2>1. <<"SYN", 0>>[1] \notin Chord /\ <<"AXES", 0>>[1] \notin Chord
    BY <1>0
  <2> HIDE DEF Plain
  <2> QED BY <2>1, <1>2, <1>5 DEF Commit, Axes
<1>7. \A b \in BOOLEAN, v \in {0, 1} : Plain(Touch(b, v))
  <2>1. \A v \in {0, 1} : <<"BTN_TOUCH", v>>[1] \notin Chord
    BY <1>0
  <2> HIDE DEF Plain
  <2> QED BY <2>1, <1>1, <1>2, <1>5 DEF Touch
<1>8. \A s \in Slot, n \in Nat \cup {Up} :
        Plain(<<<<"SLOT", s>>>>) /\ Plain(<<<<"SLOT", s>>, <<"TRACKING_ID", n>>>>)
  <2>1. /\ \A s \in Slot : <<"SLOT", s>>[1] \notin Chord
        /\ \A n \in Nat \cup {Up} : <<"TRACKING_ID", n>>[1] \notin Chord
    BY <1>0
  <2> HIDE DEF Plain
  <2> QED BY <2>1, <1>2, <1>3, <1>5
<1>9. Plain(ResetReport)
  <2> HIDE DEF Plain
  <2> QED BY <1>1, <1>6 DEF ResetReport
<1>10. enabled \subseteq Slot /\ mTrackingId \in Nat \cup {Up} /\ Up \in Nat \cup {Up}
  BY DEF TypeOK
<1> HIDE DEF Plain
<1>11. CASE SendCommit
  BY <1>6, <1>11 DEF SendCommit
<1>12. CASE SendReset
  BY <1>9, <1>12 DEF SendReset
<1>13. CASE SendDown(slot)
  <2>1. CASE slot \notin Slot
    BY <1>1, <1>13, <2>1 DEF SendDown
  <2>2. CASE slot \in Slot
    <3> DEFINE Pre == IF slot \in enabled \/ mEnabledSlots >= kMaxSlot
                      THEN ResetReport ELSE <<>>
               Two == <<<<"SLOT", slot>>, <<"TRACKING_ID", mTrackingId>>>>
               Btn == Touch(mEnabledSlots + 1 = 1, 1)
    <3>1. Plain(Pre) /\ Plain(Two) /\ Plain(Btn)
      BY <1>1, <1>7, <1>8, <1>9, <1>10, <2>2
    <3>2. out' = Pre \o Two \o Btn \o Axes
      BY <1>13, <2>2 DEF SendDown
    <3> HIDE DEF Pre, Two, Btn
    <3>3. Plain(Pre \o Two)
      BY <3>1, <1>4
    <3>4. Plain(Pre \o Two \o Btn)
      BY <3>1, <3>3, <1>4
    <3> QED BY <3>2, <3>4, <1>4, <1>6
  <2> QED BY <2>1, <2>2
<1>14. CASE SendUp(slot)
  <2>1. CASE mEnabledSlots = 0 \/ slot \notin Slot \/ slot \notin enabled
    BY <1>1, <1>14, <2>1 DEF SendUp
  <2>2. CASE ~(mEnabledSlots = 0 \/ slot \notin Slot \/ slot \notin enabled)
    <3> DEFINE Two == <<<<"SLOT", slot>>, <<"TRACKING_ID", Up>>>>
               Btn == Touch(mEnabledSlots - 1 = 0, 0)
    <3>1. Plain(Two) /\ Plain(Btn)
      BY <1>7, <1>8, <1>10, <2>2
    <3>2. out' = Two \o Btn
      BY <1>14, <2>2 DEF SendUp
    <3> HIDE DEF Two, Btn
    <3> QED BY <3>1, <3>2, <1>4
  <2> QED BY <2>1, <2>2
<1>15. CASE SendMove(slot)
  <2>1. CASE slot \in enabled
    <3> DEFINE One == <<<<"SLOT", slot>>>>
    <3>1. Plain(One)
      BY <1>8, <1>10, <2>1
    <3>2. out' = One \o Axes
      BY <1>15, <2>1 DEF SendMove
    <3> HIDE DEF One
    <3> QED BY <3>1, <3>2, <1>4, <1>6
  <2>2. CASE slot \notin enabled
    BY <1>1, <1>15, <2>2 DEF SendMove
  <2> QED BY <2>1, <2>2
<1>16. CASE Ignored
  BY <1>1, <1>16 DEF Ignored
<1> QED BY <1>11, <1>12, <1>13, <1>14, <1>15, <1>16

-----------------------------------------------------------------------------
(* The reader in step.                                                      *)

\* slipped stays once set, and only a command sets it.
LEMMA SlippedStays ==
  ASSUME TypeOK, [Next]_vars, ~slipped'
  PROVE  ~slipped
<1>1. CASE SendReset
  BY <1>1 DEF SendReset
<1>2. ASSUME NEW s \in Named, SendDown(s) PROVE ~slipped
  <2>1. CASE s \in Slot
    BY <1>2, <2>1 DEF SendDown
  <2>2. CASE s \notin Slot
    BY <1>2, <2>2 DEF SendDown, contacts
  <2> QED BY <2>1, <2>2
<1>3. ASSUME NEW s \in Named, SendUp(s) PROVE ~slipped
  BY <1>3 DEF SendUp, contacts
<1> QED BY <1>1, <1>2, <1>3, ContactsStep

\* One step keeps the reader on its way.
LEMMA ReaderStep ==
  ASSUME TypeOK, CountCoversContacts, ReaderInv, [Next]_vars, lost' = 0
  PROVE  /\ call' \in {"idle", "destroyed"} => out' = <<>>
         /\ ~slipped' => IdsPending' /\ TouchPending'
         /\ call' = "key" => ChordPending'
         /\ call' # "key" => ChordQuiet'
<1> DEFINE Goal == /\ call' \in {"idle", "destroyed"} => out' = <<>>
                   /\ ~slipped' => IdsPending' /\ TouchPending'
                   /\ call' = "key" => ChordPending'
                   /\ call' # "key" => ChordQuiet'
<1> SUFFICES Goal
  OBVIOUS
<1>0. ~slipped' => ~slipped
  BY SlippedStays
<1>1. CASE SendEvent
  <2>1. lost = 0 /\ call' = call /\ slipped' = slipped /\ Len(out) # 0
    BY <1>1, WriteStep
  <2>2. call \notin {"idle", "destroyed"}
    <3>1. out # <<>>
      BY <1>1 DEF SendEvent
    <3> QED BY <3>1, <2>1 DEF ReaderInv
  <2>3. ~slipped' => IdsPending' /\ TouchPending'
    BY <1>1, <2>1, WriteKeepsContacts DEF ReaderInv
  <2>4. call' = "key" => ChordPending'
    BY <1>1, <2>1, WriteKeepsChord DEF ReaderInv
  <2>5. call' # "key" => ChordQuiet'
    BY <1>1, <2>1, WriteKeepsQuiet DEF ReaderInv
  <2> QED BY <2>1, <2>2, <2>3, <2>4, <2>5
<1>2. CASE UNCHANGED vars
  <2>1. lost = 0 /\ UNCHANGED <<call, out, slipped, enabled, trackingId, dev, mask>>
    BY <1>2 DEF vars
  <2>2. ~slipped' => IdsPending' /\ TouchPending'
    BY <2>1 DEF ReaderInv, IdsPending, TouchPending, Expected
  <2>3. call' = "key" => ChordPending'
    <3>1. call' = "key" => ChordPending
      BY <2>1 DEF ReaderInv
    <3>2. out' = out /\ dev' = dev /\ mask' = mask
      BY <2>1
    <3>3. ChordPending => ChordPending'
      BY ONLY <3>2 DEF ChordPending
    <3> QED BY <3>1, <3>3
  <2> QED BY <2>1, <2>2, <2>3 DEF ReaderInv, ChordQuiet
<1>3. CASE Return
  <2>1. /\ lost = 0 /\ UNCHANGED <<out, slipped, enabled, trackingId, dev>>
        /\ call' = "idle" /\ out = <<>>
    BY <1>3 DEF Return, contacts
  <2>2. ~slipped' => IdsPending' /\ TouchPending'
    BY <2>1 DEF ReaderInv, IdsPending, TouchPending, Expected
  <2>3. ChordQuiet'
    <3>1. CASE call = "key"
      <4>1. Len(out) = 0 /\ 1 .. Len(out) = {}
        BY <2>1
      <4>2. ChordPending
        BY <2>1, <3>1 DEF ReaderInv
      <4>3. dev.frame \cap Chord = {} /\ \A k \in Chord : k \notin dev.keys
        BY <4>1, <4>2 DEF ChordPending
      <4> QED BY <2>1, <4>1, <4>3 DEF ChordQuiet
    <3>2. CASE call # "key"
      BY <2>1, <3>2 DEF ReaderInv, ChordQuiet
    <3> QED BY <3>1, <3>2
  <2> QED BY <2>1, <2>2, <2>3
<1>4. CASE Destroy \/ onInputMessage \/ onJoystickMessage
  <2>1. /\ lost = 0 /\ UNCHANGED <<out, slipped, enabled, trackingId, dev>>
        /\ call = "idle" /\ call' # "key"
    BY <1>4 DEF Destroy, onInputMessage, onJoystickMessage, Begin, contacts
  <2>2. ~slipped' => IdsPending' /\ TouchPending'
    BY <2>1 DEF ReaderInv, IdsPending, TouchPending, Expected
  <2> QED BY <2>1, <2>2 DEF ReaderInv, ChordQuiet
<1>5. CASE ProcessOneCommand
  <2>1. lost = 0 /\ dev' = dev /\ call = "touch" /\ call' = "touch" /\ out = <<>>
    BY <1>5 DEF ProcessOneCommand
  <2>2. PICK s \in Named : SendCommit \/ SendReset \/ SendDown(s) \/ SendUp(s)
                           \/ SendMove(s) \/ Ignored
    BY <1>5, InputAssumption DEF InputAssumption, ProcessOneCommand, Named
  <2>3. ~slipped' => IdsPending' /\ TouchPending'
    BY <1>0, <2>1, <2>2, CommandReported DEF ReaderInv
  <2>4. ChordQuiet'
    BY <2>1, <2>2, TouchEvents DEF ReaderInv, ChordQuiet
  <2> QED BY <2>1, <2>3, <2>4
<1>6. CASE ProcessOneJoystickCommand
  <2>1. /\ lost = 0 /\ UNCHANGED <<slipped, enabled, trackingId, dev>>
        /\ call = "joystick" /\ call' = "joystick" /\ out = <<>>
    BY <1>6 DEF ProcessOneJoystickCommand, contacts
  <2>2. \A i \in 1 .. Len(out') :
           out'[i][1] \notin Chord \cup {"TRACKING_ID", "BTN_TOUCH"}
    BY <1>6, JoystickEvents
  <2>3. ~slipped' => IdsPending' /\ TouchPending'
    BY <2>1, <2>2, OtherEvents DEF ReaderInv
  <2>4. ChordQuiet'
    BY <2>1, <2>2 DEF ReaderInv, ChordQuiet
  <2> QED BY <2>1, <2>3, <2>4
<1>7. CASE onKeyCode
  <2>1. /\ lost = 0 /\ UNCHANGED <<slipped, enabled, trackingId, dev>>
        /\ call = "idle" /\ call' = "key"
    BY <1>7 DEF onKeyCode, Begin, contacts
  <2>2. out = <<>> /\ ChordQuiet
    BY <2>1 DEF ReaderInv
  <2>3. dev.keys \subseteq Key
    BY DEF TypeOK
  <2>4. /\ ChordPending'
        /\ \A i \in 1 .. Len(out') : out'[i][1] \notin {"TRACKING_ID", "BTN_TOUCH"}
    BY <1>7, <2>2, <2>3, ChordStarts
  <2>5. ~slipped' => IdsPending' /\ TouchPending'
    BY <2>1, <2>2, <2>4, OtherEvents DEF ReaderInv
  <2> QED BY <2>1, <2>4, <2>5
<1> QED BY <1>1, <1>2, <1>3, <1>4, <1>5, <1>6, <1>7 DEF Next

\* Until an event is lost or SendReset finds contacts down, the reader has exactly
\* the contacts of the receiver between two commands, with their ids and
\* BTN_TOUCH; and onKeyCode shows a key only with its modifiers and leaves none
\* down.  Said of every number of slots and every sequence of calls.
THEOREM ReaderFollows == Spec => []ReaderInStep
<1>1. Init => ReaderInv
  <2> SUFFICES ASSUME Init PROVE ReaderInv
    OBVIOUS
  <2>1. /\ out = <<>> /\ enabled = {} /\ call = "idle" /\ dev.keys = {} /\ dev.frame = {}
        /\ \A s \in Slot : dev.ids[s] = Up
    BY DEF Init
  <2>2. 1 .. Len(out) = {}
    BY <2>1
  <2>3. IdsPending
    BY <2>1, <2>2 DEF IdsPending, Expected
  <2>4. TouchPending /\ ChordQuiet
    BY <2>1, <2>2 DEF TouchPending, ChordQuiet
  <2> QED BY <2>1, <2>3, <2>4 DEF ReaderInv
<1>2. TypeOK /\ CountCoversContacts /\ ReaderInv /\ [Next]_vars => ReaderInv'
  <2> SUFFICES ASSUME TypeOK, CountCoversContacts, ReaderInv, [Next]_vars PROVE ReaderInv'
    OBVIOUS
  <2> QED BY ReaderStep DEF ReaderInv
<1>3. ReaderInv => ReaderInStep
  <2> SUFFICES ASSUME ReaderInv, lost = 0
               PROVE  /\ ~slipped /\ out = <<>> =>
                           /\ \A s \in Slot :
                                dev.ids[s] = IF s \in enabled THEN trackingId[s] ELSE Up
                           /\ "BTN_TOUCH" \in dev.keys <=> enabled # {}
                      /\ call = "key" /\ "SCAN" \in dev.frame => mask \subseteq dev.frame
                      /\ call # "key" => dev.frame \cap Modifier = {}
    BY DEF ReaderInStep
  <2>1. ASSUME ~slipped, out = <<>>
        PROVE  /\ \A s \in Slot :
                    dev.ids[s] = IF s \in enabled THEN trackingId[s] ELSE Up
               /\ "BTN_TOUCH" \in dev.keys <=> enabled # {}
    <3>1. 1 .. Len(out) = {}
      BY <2>1
    <3> QED BY <2>1, <3>1 DEF ReaderInv, IdsPending, TouchPending, Expected
  <2>2. call = "key" /\ "SCAN" \in dev.frame => mask \subseteq dev.frame
    BY DEF ReaderInv, ChordPending
  <2>3. call # "key" => dev.frame \cap Modifier = {}
    BY DEF ReaderInv, ChordQuiet, Chord
  <2> QED BY <2>1, <2>2, <2>3
<1> QED BY <1>1, <1>2, <1>3, TypeCorrect, CountSound, PTL DEF Spec
=============================================================================
