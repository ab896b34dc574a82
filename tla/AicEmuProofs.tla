---------------------------- MODULE AicEmuProofs ----------------------------
(***************************************************************************)
(* What a recording and its replay keep for any set of remote handles, any *)
(* length of the session and any content, proved with TLAPS: above all     *)
(* that the replay is the recorded session.                                *)
(***************************************************************************)
EXTENDS AicEmu, ProfileLogProofs, FiniteSetTheorems, SequenceTheorems

-----------------------------------------------------------------------------
(* The session and its log.                                                 *)

BufferEvents == {"CREATE_BUFFER", "REMOVE_BUFFER", "DISPLAY_REQ"}

Message == [type : LogEvents, rh : Remote \cup {NoRemote}, ctrl : BOOLEAN, whole : BOOLEAN]

\* A message of the session; only buffer events are cut and have a handle that
\* counts, and only display requests have a display_control_t.
WellFormed(e) ==
  /\ e \in Message
  /\ e.type \in BufferEvents => e.rh \in Remote
  /\ e.type \notin BufferEvents => e.whole
  /\ e.type # "DISPLAY_REQ" => ~e.ctrl
  /\ e.type \in {"DISPINFO_REQ", "DISPPORT_REQ"} => e.rh = NoRemote

\* The log has a document for each message.
LogInv ==
  /\ session \in Seq(Message) /\ log \in Seq(Doc)
  /\ Len(log) = Len(session)
  /\ \A i \in 1 .. Len(session) : WellFormed(session[i]) /\ Matches(log[i], session[i])

\* After k messages the buffer r has been created and not been removed.
Listed(s, r, k) ==
  \E j \in 1 .. k :
    /\ s[j].type = "CREATE_BUFFER" /\ s[j].rh = r
    /\ \A i \in j + 1 .. k : s[i].type = "REMOVE_BUFFER" => s[i].rh # r

\* A server names only buffers it created.
LegalInv ==
  /\ created \subseteq Remote
  /\ \A r \in created : Listed(session, r, Len(session))
  /\ \A k \in 1 .. Len(session) :
       session[k].type \in {"REMOVE_BUFFER", "DISPLAY_REQ"} =>
         Listed(session, session[k].rh, k - 1)

-----------------------------------------------------------------------------
(* The emulator.                                                            *)

Before == {"record", "init", "gfx", "socket", "accept"}
Within == {"alloc", "frame", "copy", "write", "clear", "recv"}
Ended == {"exit", "done", "killed"}

\* Where the emulator is in the log.
PhaseInv ==
  /\ pc \in Before \cup {"next"} \cup Within \cup Ended
  /\ next \in 0 .. Len(session) /\ busy \in BOOLEAN
  /\ pc \in Before => next = 0 /\ ~busy /\ sent = <<>>
  /\ pc = "record" => src = "unset" /\ ~fault /\ peer = "none"
  /\ pc = "next" => ~busy
  /\ pc \in Within => next # 0
  /\ pc \in Within \ {"clear"} => busy
  /\ busy => next # 0

\* What the document is that it deals with.
EntryInv ==
  /\ pc = "alloc" => session[next].type = "CREATE_BUFFER" /\ session[next].whole
  /\ pc \in {"frame", "copy"} => session[next].type = "DISPLAY_REQ" /\ R!Replayable(session[next])
  /\ pc = "write" => \/ session[next].type \in R!Sendable /\ R!Replayable(session[next])
                     \/ session[next].type = "REMOVE_BUFFER"
  /\ pc = "recv" => session[next].type \in R!Awaitable /\ R!Replayable(session[next])
  /\ pc = "clear" => session[next].type = "REMOVE_BUFFER" /\ (busy <=> ~session[next].whole)

\* A buffer that the session has at this point is in the list.
ListInv ==
  /\ pc = "next" => \A r \in Remote : Listed(session, r, next) => boList[r] # NoObject
  /\ pc \in Within => \A r \in Remote : Listed(session, r, next - 1) => boList[r] # NoObject
  /\ pc = "write" /\ session[next].type = "CREATE_BUFFER" => boList[session[next].rh] # NoObject

\* The message of zeroes is the last.
ZeroInv ==
  (pc \in Before \cup {"next"} \cup Within) /\ (pc = "clear" => ~busy) =>
    \A i \in 1 .. Len(sent) : sent[i].type # "0"

ReplayInv == LogInv /\ LegalInv /\ PhaseInv /\ EntryInv /\ ListInv /\ ZeroInv

\* The messages that were written.
Sent == [type : R!Sendable \cup {"0"}, rh : Remote \cup {NoRemote}, obj : Nat, frame : 0 .. ClipFrames]

SentInv == sent \in Seq(Sent) /\ \A i \in 1 .. Len(sent) : sent[i].obj \in 0 .. Len(objects)

-----------------------------------------------------------------------------
(* The recording keeps the log and the session together.                    *)

\* A sequence that has grown.
LEMMA Grown ==
  ASSUME NEW S, NEW s \in Seq(S), NEW t \in Seq(S)
  PROVE  /\ s \o t \in Seq(S) /\ Len(s \o t) = Len(s) + Len(t)
         /\ Len(s) \in Nat /\ Len(t) \in Nat
         /\ \A i \in 1 .. Len(s) : (s \o t)[i] = s[i]
         /\ \A i \in Len(s) + 1 .. Len(s) + Len(t) :
              i - Len(s) \in 1 .. Len(t) /\ (s \o t)[i] = t[i - Len(s)]
         /\ SubSeq(s \o t, 1, Len(s)) = s
OBVIOUS

\* Documents and messages added in pairs that match keep the log.
LEMMA RecordLog ==
  ASSUME LogInv, NEW docs \in Seq(Doc), NEW events \in Seq(Message), Len(docs) = Len(events),
         \A i \in 1 .. Len(events) : WellFormed(events[i]) /\ Matches(docs[i], events[i]),
         log' = log \o docs, session' = session \o events
  PROVE  LogInv'
<1>1. /\ session' \in Seq(Message) /\ Len(session') = Len(session) + Len(events)
      /\ Len(session) \in Nat /\ Len(events) \in Nat
      /\ \A i \in 1 .. Len(session) : session'[i] = session[i]
      /\ \A i \in Len(session) + 1 .. Len(session) + Len(events) :
           i - Len(session) \in 1 .. Len(events) /\ session'[i] = events[i - Len(session)]
  BY Grown DEF LogInv
<1>2. /\ log' \in Seq(Doc) /\ Len(log') = Len(log) + Len(docs)
      /\ \A i \in 1 .. Len(log) : log'[i] = log[i]
      /\ \A i \in Len(log) + 1 .. Len(log) + Len(docs) : log'[i] = docs[i - Len(log)]
  BY Grown DEF LogInv
<1>3. Len(log) = Len(session) /\ Len(log') = Len(session')
  BY <1>1, <1>2 DEF LogInv
<1>4. ASSUME NEW i \in 1 .. Len(session')
      PROVE  WellFormed(session'[i]) /\ Matches(log'[i], session'[i])
  <2>1. CASE i \in 1 .. Len(session)
    BY <1>1, <1>2, <1>3, <2>1 DEF LogInv
  <2>2. CASE i \in Len(session) + 1 .. Len(session) + Len(events)
    BY <1>1, <1>2, <1>3, <2>2
  <2>3. i \in 1 .. Len(session) \/ i \in Len(session) + 1 .. Len(session) + Len(events)
    BY <1>1
  <2> QED BY <2>1, <2>2, <2>3
<1> QED BY <1>1, <1>2, <1>3, <1>4 DEF LogInv

\* A buffer that was there before is there still if it is not removed, and one
\* that was created last is there.
LEMMA ListedGrows ==
  ASSUME NEW s, NEW t, NEW m \in Nat, NEW n \in Nat, m <= n, NEW r,
         \A i \in 1 .. m : t[i] = s[i],
         Listed(s, r, m),
         \A i \in m + 1 .. n : t[i].type = "REMOVE_BUFFER" => t[i].rh # r
  PROVE  Listed(t, r, n)
<1>1. PICK j \in 1 .. m :
        /\ s[j].type = "CREATE_BUFFER" /\ s[j].rh = r
        /\ \A i \in j + 1 .. m : s[i].type = "REMOVE_BUFFER" => s[i].rh # r
  BY DEF Listed
<1>2. j \in 1 .. n /\ t[j] = s[j]
  OBVIOUS
<1>3. ASSUME NEW i \in j + 1 .. n, t[i].type = "REMOVE_BUFFER"
      PROVE  t[i].rh # r
  <2>1. CASE i \in j + 1 .. m
    BY <1>1, <1>3, <2>1
  <2>2. CASE i \in m + 1 .. n
    BY <1>3, <2>2
  <2> QED BY <2>1, <2>2
<1> QED BY <1>1, <1>2, <1>3 DEF Listed

\* Whether a buffer is listed after m messages depends on those only.
LEMMA ListedSame ==
  ASSUME NEW s, NEW t, NEW m \in Nat, NEW r, \A i \in 1 .. m : t[i] = s[i], Listed(s, r, m)
  PROVE  Listed(t, r, m)
<1>1. PICK j \in 1 .. m :
        /\ s[j].type = "CREATE_BUFFER" /\ s[j].rh = r
        /\ \A i \in j + 1 .. m : s[i].type = "REMOVE_BUFFER" => s[i].rh # r
  BY DEF Listed
<1>2. t[j] = s[j] /\ \A i \in j + 1 .. m : t[i] = s[i]
  OBVIOUS
<1> QED BY <1>1, <1>2 DEF Listed

\* A buffer is listed behind the message that creates it.
LEMMA ListedNew ==
  ASSUME NEW t, NEW n \in Nat, n # 0, NEW r, t[n].type = "CREATE_BUFFER", t[n].rh = r
  PROVE  Listed(t, r, n)
BY DEF Listed

\* What a recorded step adds is legal when it names buffers of this server.
LEMMA RecordLegal ==
  ASSUME LogInv, LegalInv, NEW events \in Seq(Message), Len(events) # 0,
         session' = session \o events, created' \subseteq Remote,
         \A i \in 1 .. Len(events) : events[i].type \in {"REMOVE_BUFFER", "DISPLAY_REQ"} =>
           i = 1 /\ events[i].rh \in created,
         \A r \in created' :
           \/ r \in created /\ (events[1].type = "REMOVE_BUFFER" => events[1].rh # r)
           \/ Len(events) = 1 /\ events[1].type = "CREATE_BUFFER" /\ events[1].rh = r
  PROVE  LegalInv'
<1> DEFINE m == Len(session)
           n == Len(session')
<1>1. /\ n = m + Len(events) /\ m \in Nat /\ Len(events) \in Nat
      /\ \A i \in 1 .. m : session'[i] = session[i]
      /\ \A i \in m + 1 .. n : i - m \in 1 .. Len(events) /\ session'[i] = events[i - m]
  BY Grown DEF LogInv
<1> HIDE DEF m, n
<1>2. m \in Nat /\ n \in Nat /\ m <= n /\ n # 0 /\ n \in m + 1 .. n
  BY <1>1
<1>6. \A i \in 1 .. m : session'[i] = session[i]
  BY <1>1
<1>7. \A i \in m + 1 .. n : session'[i] = events[i - m]
  BY <1>1
<1>3. \A r \in created : Listed(session, r, m)
  BY DEF LegalInv, m
<1>4. ASSUME NEW r \in created'
      PROVE  Listed(session', r, n)
  <2>1. CASE r \in created /\ (events[1].type = "REMOVE_BUFFER" => events[1].rh # r)
    <3>1. Listed(session, r, m)
      BY <1>3, <2>1
    <3>2. ASSUME NEW i \in m + 1 .. n, session'[i].type = "REMOVE_BUFFER"
          PROVE  session'[i].rh # r
      <4>1. i - m \in 1 .. Len(events) /\ session'[i] = events[i - m]
        BY <1>1
      <4>2. i - m = 1
        BY <3>2, <4>1
      <4> QED BY <2>1, <3>2, <4>1, <4>2
    <3>3. \A i \in m + 1 .. n : session'[i].type = "REMOVE_BUFFER" => session'[i].rh # r
      BY <3>2
    <3> QED BY <1>2, <1>6, <3>1, <3>3, ListedGrows
  <2>2. CASE Len(events) = 1 /\ events[1].type = "CREATE_BUFFER" /\ events[1].rh = r
    <3>1. n - m = 1
      BY <1>1, <2>2
    <3>2. session'[n] = events[n - m]
      BY <1>2, <1>7
    <3> QED BY <1>2, <2>2, <3>1, <3>2, ListedNew
  <2> QED BY <2>1, <2>2
<1>5. ASSUME NEW k \in 1 .. n, session'[k].type \in {"REMOVE_BUFFER", "DISPLAY_REQ"}
      PROVE  Listed(session', session'[k].rh, k - 1)
  <2>1. CASE k \in 1 .. m
    <3>1. session'[k] = session[k]
      BY <1>1, <2>1
    <3>2. Listed(session, session[k].rh, k - 1)
      BY <1>5, <2>1, <3>1 DEF LegalInv, m
    <3>3. k - 1 \in Nat /\ \A i \in 1 .. k - 1 : i \in 1 .. m
      BY <1>2, <2>1
    <3>4. \A i \in 1 .. k - 1 : session'[i] = session[i]
      BY <1>6, <3>3
    <3> QED BY <3>1, <3>2, <3>3, <3>4, ListedSame
  <2>2. CASE k \in m + 1 .. n
    <3>1. k - m \in 1 .. Len(events) /\ session'[k] = events[k - m]
      BY <1>1, <2>2
    <3>2. k - m = 1 /\ session'[k].rh \in created
      BY <1>5, <3>1
    <3>3. k - 1 = m
      BY <1>2, <2>2, <3>2
    <3>4. Listed(session, session'[k].rh, m)
      BY <1>3, <3>2
    <3>5. Listed(session', session'[k].rh, m)
      BY <1>2, <1>6, <3>4, ListedSame
    <3> QED BY <3>3, <3>5
  <2>3. k \in 1 .. m \/ k \in m + 1 .. n
    BY <1>2
  <2> QED BY <2>1, <2>2, <2>3
<1> QED BY <1>4, <1>5 DEF LegalInv, n

\* One or two messages and their documents.
LEMMA OneMessage ==
  ASSUME NEW e, WellFormed(e), NEW doc \in Doc, Matches(doc, e)
  PROVE  /\ <<e>> \in Seq(Message) /\ <<doc>> \in Seq(Doc) /\ Len(<<e>>) = 1 /\ Len(<<doc>>) = 1
         /\ <<e>>[1] = e
         /\ \A i \in 1 .. 1 : WellFormed(<<e>>[i]) /\ Matches(<<doc>>[i], <<e>>[i])
<1>1. e \in Message
  BY DEF WellFormed
<1> QED BY <1>1

\* A request and its acknowledgement, with their two documents.
LEMMA TwoMessages ==
  ASSUME NEW e, WellFormed(e), NEW doc \in Doc, Matches(doc, e),
         NEW f, WellFormed(f), NEW ack \in Doc, Matches(ack, f)
  PROVE  /\ <<e, f>> \in Seq(Message) /\ <<doc, ack>> \in Seq(Doc)
         /\ Len(<<e, f>>) = 2 /\ Len(<<doc, ack>>) = 2
         /\ <<e, f>>[1] = e /\ <<e, f>>[2] = f
         /\ \A i \in 1 .. 2 : WellFormed(<<e, f>>[i]) /\ Matches(<<doc, ack>>[i], <<e, f>>[i])
<1>1. e \in Message /\ f \in Message
  BY DEF WellFormed
<1>2. \A i \in 1 .. 2 : i = 1 \/ i = 2
  OBVIOUS
<1> QED BY <1>1, <1>2

\* The messages of a session are well formed.
LEMMA EventFields ==
  ASSUME NEW t, NEW r, NEW c, NEW w
  PROVE  LET e == Event(t, r, c, w) IN e.type = t /\ e.rh = r /\ e.ctrl = c /\ e.whole = w
BY DEF Event

\* The messages that the recording adds are well formed.
LEMMA EventFormed ==
  ASSUME NEW t \in LogEvents, NEW r \in Remote \cup {NoRemote}, NEW c \in BOOLEAN, NEW w \in BOOLEAN,
         t \in BufferEvents => r \in Remote,
         t \notin BufferEvents => w /\ (r = NoRemote \/ t = "DISPLAY_ACK"),
         t # "DISPLAY_REQ" => ~c
  PROVE  WellFormed(Event(t, r, c, w))
BY DEF WellFormed, Event, Message, BufferEvents

\* A single message is recorded.
LEMMA RecordsOne ==
  ASSUME LogInv, LegalInv, NEW e, WellFormed(e), NEW doc \in Doc, Matches(doc, e),
         log' = log \o <<doc>>, session' = session \o <<e>>,
         created' \subseteq Remote,
         e.type \in {"REMOVE_BUFFER", "DISPLAY_REQ"} => e.rh \in created,
         \A r \in created' : \/ r \in created /\ (e.type = "REMOVE_BUFFER" => e.rh # r)
                             \/ e.type = "CREATE_BUFFER" /\ e.rh = r
  PROVE  LogInv' /\ LegalInv'
<1> DEFINE events == <<e>>
           docs == <<doc>>
<1>1. /\ events \in Seq(Message) /\ docs \in Seq(Doc) /\ Len(events) = 1 /\ Len(docs) = 1
      /\ events[1] = e
      /\ \A i \in 1 .. 1 : WellFormed(events[i]) /\ Matches(docs[i], events[i])
  BY OneMessage
<1>2. log' = log \o docs /\ session' = session \o events
  OBVIOUS
<1> HIDE DEF events, docs
<1>3. LogInv'
  BY <1>1, <1>2, RecordLog
<1>4. \A i \in 1 .. Len(events) : i = 1
  BY <1>1
<1>5. LegalInv'
  BY <1>1, <1>2, <1>4, RecordLegal
<1> QED BY <1>3, <1>5

\* A request is recorded with the answer to it.
LEMMA RecordsTwo ==
  ASSUME LogInv, LegalInv, NEW e, WellFormed(e), NEW doc \in Doc, Matches(doc, e),
         NEW f, WellFormed(f), NEW ack \in Doc, Matches(ack, f),
         log' = log \o <<doc, ack>>, session' = session \o <<e, f>>, created' = created,
         e.type # "REMOVE_BUFFER", e.type = "DISPLAY_REQ" => e.rh \in created,
         f.type \notin {"REMOVE_BUFFER", "DISPLAY_REQ"}
  PROVE  LogInv' /\ LegalInv'
<1> DEFINE events == <<e, f>>
           docs == <<doc, ack>>
<1>1. /\ events \in Seq(Message) /\ docs \in Seq(Doc) /\ Len(events) = 2 /\ Len(docs) = 2
      /\ events[1] = e /\ events[2] = f
      /\ \A i \in 1 .. 2 : WellFormed(events[i]) /\ Matches(docs[i], events[i])
  BY TwoMessages
<1>2. log' = log \o docs /\ session' = session \o events
  OBVIOUS
<1> HIDE DEF events, docs
<1>3. LogInv'
  BY <1>1, <1>2, RecordLog
<1>4. \A i \in 1 .. Len(events) : i = 1 \/ i = 2
  BY <1>1
<1>5. created' \subseteq Remote
  BY DEF LegalInv
<1>6. LegalInv'
  <2>1. \A i \in 1 .. Len(events) : events[i].type \in {"REMOVE_BUFFER", "DISPLAY_REQ"} =>
          i = 1 /\ events[i].rh \in created
    BY <1>1, <1>4
  <2>2. \A r \in created' : r \in created /\ (events[1].type = "REMOVE_BUFFER" => events[1].rh # r)
    BY <1>1
  <2>3. Len(events) # 0
    BY <1>1
  <2> QED BY <1>1, <1>2, <1>5, <2>1, <2>2, <2>3, RecordLegal
<1> QED BY <1>3, <1>6

\* CreateBuffer() of the recording client keeps log and session together.
LEMMA CreateRecorded ==
  ASSUME LogInv, LegalInv, NEW r \in Remote, NEW whole \in BOOLEAN, RecordCreate(r, whole)
  PROVE  LogInv' /\ LegalInv'
<1> DEFINE e == Event("CREATE_BUFFER", r, FALSE, whole)
<1>1. PICK parts \in {0, 1, 2} :
        /\ whole <=> parts = 2
        /\ Record(CreateBuffer(r, parts), <<e>>, created \cup {r}, ~whole)
  BY DEF RecordCreate
<1>2. e.type = "CREATE_BUFFER" /\ e.rh = r /\ ~e.ctrl /\ e.ctrl \in BOOLEAN /\ (e.whole <=> whole)
  BY DEF Event
<1>3. WellFormed(e)
  BY EventFormed DEF LogEvents, RecvEvents, BufferEvents
<1>4. /\ log' = log \o CreateBuffer(r, parts) /\ session' = session \o <<e>>
      /\ created' = created \cup {r}
  BY <1>1 DEF Record
<1> HIDE DEF e
<1>5. PICK doc \in Doc : CreateBuffer(r, parts) = <<doc>> /\ Matches(doc, e)
  BY <1>1, <1>2, CreateDecoded
<1>6. created' \subseteq Remote /\ \A s \in created' : s \in created \/ s = r
  BY <1>4 DEF LegalInv
<1> QED BY <1>2, <1>3, <1>4, <1>5, <1>6, RecordsOne

\* RemoveBuffer(), complete or cut short, does too: what it removes was created.
LEMMA RemoveRecorded ==
  ASSUME LogInv, LegalInv, NEW r \in Remote, NEW whole \in BOOLEAN, RecordRemove(r, whole)
  PROVE  LogInv' /\ LegalInv'
<1> DEFINE e == Event("REMOVE_BUFFER", r, FALSE, whole)
           parts == IF whole THEN 1 ELSE 0
<1>1. r \in created /\ Record(RemoveBuffer(r, parts), <<e>>, created \ {r}, ~whole)
  BY DEF RecordRemove
<1>2. e.type = "REMOVE_BUFFER" /\ e.rh = r /\ ~e.ctrl /\ e.ctrl \in BOOLEAN /\ (e.whole <=> whole)
  BY DEF Event
<1>3. WellFormed(e)
  BY EventFormed DEF LogEvents, RecvEvents, BufferEvents
<1>4. /\ log' = log \o RemoveBuffer(r, parts) /\ session' = session \o <<e>>
      /\ created' = created \ {r}
  BY <1>1 DEF Record
<1>5. parts \in {0, 1} /\ (whole <=> parts = 1)
  OBVIOUS
<1> HIDE DEF e, parts
<1>6. PICK doc \in Doc : RemoveBuffer(r, parts) = <<doc>> /\ Matches(doc, e)
  BY <1>2, <1>5, RemoveDecoded
<1>7. created' \subseteq Remote /\ \A s \in created' : s \in created /\ s # r
  BY <1>4 DEF LegalInv
<1> QED BY <1>1, <1>2, <1>3, <1>4, <1>6, <1>7, RecordsOne

\* DisplayRequest() does too, with its acknowledgement if there is one.
LEMMA DisplayRecorded ==
  ASSUME LogInv, LegalInv, NEW r \in Remote, NEW ctrl \in BOOLEAN, NEW whole \in BOOLEAN,
         NEW acked \in BOOLEAN, RecordDisplay(r, ctrl, whole, acked)
  PROVE  LogInv' /\ LegalInv'
<1> DEFINE e == Event("DISPLAY_REQ", r, ctrl, whole)
           f == Event("DISPLAY_ACK", r, FALSE, TRUE)
<1>1. PICK parts \in {0, 1, 2} :
        /\ whole <=> parts = 2
        /\ parts = 1 => ctrl
        /\ Record(DisplayRequest(r, ctrl, parts, acked),
                  <<e>> \o IF acked THEN <<f>> ELSE <<>>, created, ~acked)
  BY DEF RecordDisplay
<1>2. e.type = "DISPLAY_REQ" /\ e.rh = r /\ e.ctrl = ctrl /\ e.ctrl \in BOOLEAN /\ (e.whole <=> whole)
  BY DEF Event
<1>3. WellFormed(e) /\ WellFormed(f) /\ f.type = "DISPLAY_ACK"
  <2>1. "DISPLAY_ACK" \in LogEvents /\ "DISPLAY_REQ" \in LogEvents /\ "DISPLAY_REQ" \in BufferEvents
        /\ "DISPLAY_ACK" \notin BufferEvents
    BY DEF LogEvents, RecvEvents, SendEvents, BufferEvents
  <2> QED BY <2>1, EventFormed DEF Event
<1>4. /\ log' = log \o DisplayRequest(r, ctrl, parts, acked)
      /\ session' = session \o (<<e>> \o IF acked THEN <<f>> ELSE <<>>)
      /\ created' = created
  BY <1>1 DEF Record
<1>5. r \in created /\ created \subseteq Remote
  BY DEF RecordDisplay, LegalInv
<1> HIDE DEF e, f
<1>6. PICK doc \in Doc : DisplayRequest(r, ctrl, parts, FALSE) = <<doc>> /\ Matches(doc, e)
  BY <1>1, <1>2, DisplayDecoded
<1>7. CASE ~acked
  <2>1. DisplayRequest(r, ctrl, parts, acked) = <<doc>>
    BY <1>6, <1>7
  <2>2. session' = session \o <<e>>
    BY <1>4, <1>7
  <2> QED BY <1>2, <1>3, <1>4, <1>5, <1>6, <2>1, <2>2, RecordsOne
<1>8. CASE acked
  <2>1. DisplayRequest(r, ctrl, parts, acked) = <<doc, AddBufferInfoEventStruct(r)>>
    BY <1>6, <1>8 DEF DisplayRequest
  <2>2. session' = session \o <<e, f>>
    BY <1>4, <1>8
  <2>3. AddBufferInfoEventStruct(r) \in Doc /\ Matches(AddBufferInfoEventStruct(r), f)
    BY <1>3, AckDecoded
  <2> QED BY <1>2, <1>3, <1>4, <1>5, <1>6, <2>1, <2>2, <2>3, RecordsTwo
<1> QED BY <1>7, <1>8

\* So do the display info, the port, an unknown event and the user's calls.
LEMMA OthersRecorded ==
  ASSUME LogInv, LegalInv,
         \/ \E accepted \in BOOLEAN : RecordDispInfo(accepted)
         \/ RecordDispPort
         \/ RecordUnknown
         \/ \E type \in {"SETUP_RESOLUTION", "SET_VIDEO_ALPHA_REQ"} : RecordUser(type)
  PROVE  LogInv' /\ LegalInv'
<1>0. created \subseteq Remote
  BY DEF LegalInv
<1>1. ASSUME NEW type \in LogEvents, type \notin BufferEvents
      PROVE  LET e == Event(type, NoRemote, FALSE, TRUE)
             IN WellFormed(e) /\ e.type = type /\ e.rh = NoRemote /\ ~e.ctrl
  BY <1>1, EventFormed DEF Event
<1>2. ASSUME NEW accepted \in BOOLEAN, RecordDispInfo(accepted)
      PROVE  LogInv' /\ LegalInv'
  <2> DEFINE e == Event("DISPINFO_REQ", NoRemote, FALSE, TRUE)
             f == Event("DISPINFO_ACK", NoRemote, FALSE, TRUE)
             doc == LogGenericEventInfo("DISPINFO_REQ", "DISPINFO_REQ", FALSE)
             ack == AddDisplayInfoEventStruct("DISPINFO_ACK")
  <2>1. /\ log' = log \o (IF accepted THEN <<doc, ack>> ELSE <<doc>>)
        /\ session' = session \o (IF accepted THEN <<e, f>> ELSE <<e>>)
        /\ created' = created
    <3>1. /\ log' = log \o (IF accepted THEN UpdateDispConfig ELSE <<UpdateDispConfig[1]>>)
          /\ session' = session \o (<<e>> \o IF accepted THEN <<f>> ELSE <<>>)
          /\ created' = created
      BY <1>2 DEF RecordDispInfo, Record
    <3> HIDE DEF e, f, doc, ack
    <3>2. UpdateDispConfig = <<doc, ack>>
      BY DEF UpdateDispConfig, doc, ack
    <3>3. UpdateDispConfig[1] = doc
      BY <3>2
    <3>4. accepted => session' = session \o <<e, f>>
      BY <3>1
    <3>5. ~accepted => session' = session \o <<e>>
      BY <3>1
    <3> QED BY <3>1, <3>2, <3>3, <3>4, <3>5
  <2>2. /\ WellFormed(e) /\ e.type = "DISPINFO_REQ" /\ e.rh = NoRemote /\ ~e.ctrl
        /\ WellFormed(f) /\ f.type = "DISPINFO_ACK"
    <3>1. /\ "DISPINFO_REQ" \in LogEvents /\ "DISPINFO_REQ" \notin BufferEvents
          /\ "DISPINFO_ACK" \in LogEvents /\ "DISPINFO_ACK" \notin BufferEvents
      BY DEF LogEvents, RecvEvents, SendEvents, BufferEvents
    <3> QED BY <1>1, <3>1
  <2> HIDE DEF e, f
  <2>3. doc \in Doc /\ Matches(doc, e)
    BY <2>2, PlainDecoded
  <2>4. ack \in Doc /\ Matches(ack, f)
    BY <2>2, ReplyDecoded
  <2> HIDE DEF doc, ack
  <2>5. CASE accepted
    BY <1>0, <2>1, <2>2, <2>3, <2>4, <2>5, RecordsTwo
  <2>6. CASE ~accepted
    BY <1>0, <2>1, <2>2, <2>3, <2>6, RecordsOne
  <2> QED BY <2>5, <2>6
<1>3. ASSUME RecordDispPort
      PROVE  LogInv' /\ LegalInv'
  <2> DEFINE e == Event("DISPPORT_REQ", NoRemote, FALSE, TRUE)
             f == Event("DISPPORT_ACK", NoRemote, FALSE, TRUE)
             doc == LogGenericEventInfo("DISPPORT_REQ", "DISPPORT_REQ", FALSE)
             ack == AddDisplayPortEventStruct
  <2>1. log' = log \o <<doc, ack>> /\ session' = session \o <<e, f>> /\ created' = created
    BY <1>3 DEF RecordDispPort, Record, UpdateDispPort
  <2>2. /\ WellFormed(e) /\ e.type = "DISPPORT_REQ" /\ e.rh = NoRemote /\ ~e.ctrl
        /\ WellFormed(f) /\ f.type = "DISPPORT_ACK"
    <3>1. /\ "DISPPORT_REQ" \in LogEvents /\ "DISPPORT_REQ" \notin BufferEvents
          /\ "DISPPORT_ACK" \in LogEvents /\ "DISPPORT_ACK" \notin BufferEvents
      BY DEF LogEvents, RecvEvents, SendEvents, BufferEvents
    <3> QED BY <1>1, <3>1
  <2> HIDE DEF e, f
  <2>3. doc \in Doc /\ Matches(doc, e)
    BY <2>2, PlainDecoded
  <2>4. ack \in Doc /\ Matches(ack, f)
    BY <2>2, ReplyDecoded
  <2> HIDE DEF doc, ack
  <2> QED BY <1>0, <2>1, <2>2, <2>3, <2>4, RecordsTwo
<1>4. ASSUME RecordUnknown
      PROVE  LogInv' /\ LegalInv'
  <2> DEFINE e == Event("UNKNOWN", NoRemote, FALSE, TRUE)
             doc == LogGenericEventInfo("UNKNOWN", "SERVER_IP_REQ", FALSE)
  <2>1. log' = log \o <<doc>> /\ session' = session \o <<e>> /\ created' = created
    BY <1>4 DEF RecordUnknown, Record
  <2>2. WellFormed(e) /\ e.type = "UNKNOWN"
    <3>1. "UNKNOWN" \in LogEvents /\ "UNKNOWN" \notin BufferEvents
      BY DEF LogEvents, BufferEvents
    <3> QED BY <1>1, <3>1
  <2> HIDE DEF e
  <2>3. doc \in Doc /\ Matches(doc, e)
    BY <2>2, UnknownDecoded
  <2> HIDE DEF doc
  <2> QED BY <1>0, <2>1, <2>2, <2>3, RecordsOne
<1>5. ASSUME NEW type \in {"SETUP_RESOLUTION", "SET_VIDEO_ALPHA_REQ"}, RecordUser(type)
      PROVE  LogInv' /\ LegalInv'
  <2> DEFINE e == Event(type, NoRemote, FALSE, TRUE)
             doc == IF type = "SETUP_RESOLUTION" THEN AddDisplayInfoEventStruct(type)
                    ELSE AddVideoAlphaEventStruct
  <2>1. log' = log \o <<doc>> /\ session' = session \o <<e>> /\ created' = created
    BY <1>5 DEF RecordUser, Record
  <2>2. WellFormed(e) /\ e.type = type
    <3>1. type \in LogEvents /\ type \notin BufferEvents
      BY DEF LogEvents, SendEvents, BufferEvents
    <3> QED BY <1>1, <3>1
  <2> HIDE DEF e
  <2>3. doc \in Doc /\ Matches(doc, e)
    <3>1. CASE type = "SETUP_RESOLUTION"
      BY <2>2, <3>1, ReplyDecoded
    <3>2. CASE type = "SET_VIDEO_ALPHA_REQ"
      BY <2>2, <3>2, ReplyDecoded
    <3> QED BY <3>1, <3>2
  <2> HIDE DEF doc
  <2>4. type \notin {"REMOVE_BUFFER", "DISPLAY_REQ"}
    OBVIOUS
  <2> QED BY <1>0, <2>1, <2>2, <2>3, <2>4, RecordsOne
<1> QED BY <1>2, <1>3, <1>4, <1>5

\* Every step of the recording.
LEMMA RecordingKeeps ==
  ASSUME LogInv, LegalInv, Recording
  PROVE  LogInv' /\ LegalInv'
<1>1. CASE RecordRestart
  BY <1>1 DEF RecordRestart, LogInv, LegalInv
<1> QED BY <1>1, CreateRecorded, RemoveRecorded, DisplayRecorded, OthersRecorded DEF Recording

-----------------------------------------------------------------------------
(* What the emulator makes of a document.                                   *)

\* What is not replayed is exactly what DataExchange refuses, but for a cut
\* REMOVE_BUFFER.
LEMMA DispatchFacts ==
  ASSUME LogInv, LegalInv, NEW k \in 1 .. Len(session),
         \A r \in Remote : Listed(session, r, k - 1) => boList[r] # NoObject
  PROVE  LET to == Dispatch(DecodeNode(log[k]))
             e == session[k]
         IN /\ to \in {"exit", "write", "alloc", "frame", "recv"}
            /\ to = "exit" => ~R!Replayable(e)
            /\ to = "alloc" => e.type = "CREATE_BUFFER" /\ e.whole
            /\ to = "frame" => e.type = "DISPLAY_REQ" /\ R!Replayable(e)
            /\ to = "write" => \/ e.type \in {"DISPINFO_REQ", "DISPPORT_REQ"} /\ R!Replayable(e)
                               \/ e.type = "REMOVE_BUFFER"
            /\ to = "recv" => e.type \in R!Awaitable /\ R!Replayable(e)
<1> DEFINE entry == DecodeNode(log[k])
           e == session[k]
<1>1. WellFormed(e) /\ Matches(log[k], e) /\ e.type \in LogEvents
  BY DEF LogInv, WellFormed, Message
<1>2. /\ entry.empty <=> e.type \in {"UNKNOWN", "SET_VIDEO_ALPHA_REQ"}
      /\ e.type \notin {"UNKNOWN", "SET_VIDEO_ALPHA_REQ"} =>
           /\ entry.type = e.type
           /\ entry.direction = IF e.type \in RecvEvents THEN "SEND" ELSE "RECEIVE"
  BY <1>1 DEF Matches
<1>3. e.type = "CREATE_BUFFER" => (entry.second <=> e.whole)
  BY <1>1 DEF Matches
<1>4. e.type = "DISPLAY_REQ" =>
        /\ ~entry.second
        /\ e.whole => entry.event.rh = e.rh /\ (entry.event.ctrl <=> e.ctrl)
        /\ ~e.whole => entry.event.rh = NoRemote \/ entry.event.ctrl
  BY <1>1 DEF Matches, Intact, ZeroEvent
<1>5. /\ e.type \notin BufferEvents => e.whole
      /\ e.type # "DISPLAY_REQ" => ~e.ctrl
      /\ e.type = "DISPLAY_REQ" => e.rh \in Remote
  BY <1>1 DEF WellFormed, BufferEvents
<1>6. e.type = "DISPLAY_REQ" => boList[e.rh] # NoObject
  BY <1>5 DEF LegalInv
<1>7. GetBo(NoRemote) = NoObject
  BY RemoteAssumption DEF GetBo
<1> HIDE DEF entry, e
<1>8. CASE e.type \in {"UNKNOWN", "SET_VIDEO_ALPHA_REQ"}
  BY <1>2, <1>8 DEF Dispatch, R!Replayable, R!Sendable, R!Awaitable, entry, e
<1>9. CASE e.type \in {"DISPINFO_REQ", "DISPPORT_REQ"}
  BY <1>2, <1>5, <1>9 DEF Dispatch, R!Replayable, R!Sendable, RecvEvents, BufferEvents, entry, e
<1>10. CASE e.type = "REMOVE_BUFFER"
  BY <1>2, <1>10 DEF Dispatch, RecvEvents, entry, e
<1>11. CASE e.type = "CREATE_BUFFER"
  BY <1>2, <1>3, <1>11 DEF Dispatch, R!Replayable, RecvEvents, entry, e
<1>12. CASE e.type = "DISPLAY_REQ"
  <2>1. Dispatch(entry) = IF \/ entry.event.ctrl /\ ~entry.second
                             \/ GetBo(entry.event.rh) = NoObject
                          THEN "exit" ELSE "frame"
    BY <1>2, <1>12 DEF Dispatch, RecvEvents
  <2>2. CASE ~e.whole
    BY <1>4, <1>7, <1>12, <2>1, <2>2 DEF R!Replayable, entry, e
  <2>3. CASE e.whole /\ e.ctrl
    BY <1>4, <1>12, <2>1, <2>3 DEF R!Replayable, entry, e
  <2>4. CASE e.whole /\ ~e.ctrl
    BY <1>4, <1>5, <1>6, <1>12, <2>1, <2>4 DEF R!Replayable, R!Sendable, GetBo, entry, e
  <2> QED BY <2>2, <2>3, <2>4
<1>13. CASE e.type \in {"DISPLAY_ACK", "DISPINFO_ACK", "DISPPORT_ACK", "SETUP_RESOLUTION"}
  BY <1>2, <1>5, <1>13 DEF Dispatch, R!Replayable, R!Sendable, R!Awaitable, RecvEvents, BufferEvents,
                           entry, e
<1> QED BY <1>1, <1>8, <1>9, <1>10, <1>11, <1>12, <1>13 DEF LogEvents, RecvEvents, SendEvents

\* What a buffer list has to hold after one more message.
LEMMA ListedStep ==
  ASSUME NEW s, NEW k \in Nat, k # 0, NEW r, Listed(s, r, k)
  PROVE  /\ Listed(s, r, k - 1) \/ (s[k].type = "CREATE_BUFFER" /\ s[k].rh = r)
         /\ ~(s[k].type = "REMOVE_BUFFER" /\ s[k].rh = r)
<1>1. PICK j \in 1 .. k :
        /\ s[j].type = "CREATE_BUFFER" /\ s[j].rh = r
        /\ \A i \in j + 1 .. k : s[i].type = "REMOVE_BUFFER" => s[i].rh # r
  BY DEF Listed
<1>2. CASE j = k
  BY <1>1, <1>2
<1>3. CASE j # k
  <2>1. j \in 1 .. k - 1 /\ k \in j + 1 .. k /\ \A i \in j + 1 .. k - 1 : i \in j + 1 .. k
    BY <1>3
  <2> QED BY <1>1, <2>1 DEF Listed
<1> QED BY <1>2, <1>3

\* The document at hand is the one of the message at hand.
LEMMA EntryFacts ==
  ASSUME LogInv, next \in 1 .. Len(session), session[next].type \notin {"UNKNOWN", "SET_VIDEO_ALPHA_REQ"}
  PROVE  /\ Entry.type = session[next].type
         /\ session[next].type \in R!Sendable /\ R!Replayable(session[next]) =>
              Entry.event.type = session[next].type /\ Entry.event.rh = session[next].rh
         /\ session[next].type = "REMOVE_BUFFER" /\ ~session[next].whole =>
              Entry.event.type = "0" /\ Entry.event.rh = NoRemote
         /\ session[next].rh \in Remote \cup {NoRemote}
         /\ session[next].type \in BufferEvents => session[next].rh \in Remote
<1> DEFINE e == session[next]
<1>1. WellFormed(e) /\ Matches(log[next], e)
  BY DEF LogInv
<1>2. e.rh \in Remote \cup {NoRemote} /\ (e.type \in BufferEvents => e.rh \in Remote)
  BY <1>1 DEF WellFormed, Message
<1>3. Entry.type = e.type
  BY <1>1 DEF Matches, Entry
<1>4. ASSUME e.type \in R!Sendable, R!Replayable(e)
      PROVE  Entry.event.type = e.type /\ Entry.event.rh = e.rh
  <2>1. e.whole
    BY <1>4 DEF R!Replayable
  <2>2. Intact(Entry.event, e)
    BY <1>1, <1>4, <2>1 DEF Matches, Entry, R!Sendable
  <2> QED BY <2>2 DEF Intact
<1>5. ASSUME e.type = "REMOVE_BUFFER", ~e.whole
      PROVE  Entry.event.type = "0" /\ Entry.event.rh = NoRemote
  <2>1. Entry.event = ZeroEvent
    BY <1>1, <1>5 DEF Matches, Entry
  <2> QED BY <2>1 DEF ZeroEvent
<1> QED BY <1>2, <1>3, <1>4, <1>5

\* A REMOVE_BUFFER is replayable when it is whole.
LEMMA WholeRemove ==
  ASSUME LogInv, NEW k \in 1 .. Len(session), session[k].type = "REMOVE_BUFFER"
  PROVE  R!Replayable(session[k]) <=> session[k].whole
<1>1. WellFormed(session[k])
  BY DEF LogInv
<1> QED BY <1>1 DEF WellFormed, R!Replayable, R!Sendable

\* The message that is written.
LEMMA MessageFacts ==
  ASSUME LogInv, PhaseInv, EntryInv, ListInv, LegalInv, GfxTypeOK, pFrame \in 0 .. ClipFrames, pc = "write"
  PROVE  /\ MessageOf(Entry) \in Sent /\ MessageOf(Entry).obj \in 0 .. Len(objects)
         /\ next \in 1 .. Len(session) /\ Entry.type = session[next].type
         /\ \/ /\ session[next].type \in R!Sendable /\ R!Replayable(session[next])
               /\ MessageOf(Entry).type = session[next].type
               /\ MessageOf(Entry).rh = session[next].rh
               /\ Entry.event.type # "0"
            \/ /\ session[next].type = "REMOVE_BUFFER" /\ ~session[next].whole
               /\ MessageOf(Entry).type = "0" /\ MessageOf(Entry).rh = NoRemote
               /\ Entry.event.type = "0"
<1>1. next \in 1 .. Len(session)
  BY DEF PhaseInv, Within
<1>2. \/ session[next].type \in R!Sendable /\ R!Replayable(session[next])
      \/ session[next].type = "REMOVE_BUFFER" /\ ~session[next].whole
  <2>1. CASE session[next].type = "REMOVE_BUFFER"
    BY <1>1, <2>1, WholeRemove DEF R!Sendable
  <2>2. CASE session[next].type # "REMOVE_BUFFER"
    BY <2>2 DEF EntryInv
  <2> QED BY <2>1, <2>2
<1>3. session[next].type \notin {"UNKNOWN", "SET_VIDEO_ALPHA_REQ"}
  BY <1>2 DEF R!Sendable
<1>4. \A r : GetBo(r) \in 0 .. Len(objects)
  <2>1. Len(objects) \in Nat /\ DOMAIN objects = 1 .. Len(objects)
    BY DEF GfxTypeOK
  <2>2. boList \in [Remote -> {NoObject} \cup DOMAIN objects]
    BY DEF GfxTypeOK
  <2> QED BY <2>1, <2>2 DEF GetBo, NoObject
<1>5. /\ MessageOf(Entry).type = Entry.event.type /\ MessageOf(Entry).rh = Entry.event.rh
      /\ MessageOf(Entry).obj = GetBo(Entry.event.rh)
      /\ MessageOf(Entry).frame \in 0 .. ClipFrames
  BY ClipAssumption DEF MessageOf
<1>6. Entry.event.type \in R!Sendable \cup {"0"} /\ Entry.event.rh \in Remote \cup {NoRemote}
  BY <1>1, <1>2, <1>3, EntryFacts
<1>7. Len(objects) \in Nat
  BY DEF GfxTypeOK
<1>8. GetBo(Entry.event.rh) \in Nat
  BY <1>4, <1>7
<1>9. MessageOf(Entry) \in Sent
  BY <1>6, <1>8, ClipAssumption DEF MessageOf, Sent
<1>10. session[next].type \in R!Sendable => session[next].type # "0"
  BY DEF R!Sendable
<1> QED BY <1>1, <1>2, <1>3, <1>4, <1>5, <1>9, <1>10, EntryFacts

-----------------------------------------------------------------------------
(* Every step keeps ReplayInv.                                              *)

\* Only the recording changes the session.
LEMMA SessionSame ==
  ASSUME LogInv, LegalInv, UNCHANGED recordVars
  PROVE  LogInv' /\ LegalInv'
BY DEF LogInv, LegalInv, recordVars

\* The recording is before all else.
LEMMA RecordingPhase ==
  ASSUME LogInv, LegalInv, PhaseInv, Recording
  PROVE  ReplayInv'
<1>1. LogInv' /\ LegalInv'
  BY RecordingKeeps
<1>2. pc = "record" /\ UNCHANGED <<emuVars, gfxVars, wireVars, clientVars>>
  BY DEF Recording, RecordCreate, RecordRemove, RecordDisplay, RecordDispInfo, RecordDispPort,
         RecordUnknown, RecordUser, Record, RecordRestart
<1>3. Len(session') \in Nat
  BY <1>1 DEF LogInv
<1>4. /\ next' = 0 /\ ~busy' /\ sent' = <<>> /\ src' = "unset" /\ ~fault' /\ peer' = "none"
      /\ pc' = "record" /\ busy' = busy
  BY <1>2 DEF PhaseInv, Before, emuVars, wireVars
<1>5. PhaseInv'
  BY <1>3, <1>4 DEF PhaseInv, Before, Within
<1>6. EntryInv' /\ ListInv' /\ ZeroInv'
  BY <1>4 DEF EntryInv, ListInv, ZeroInv, Within
<1> QED BY <1>1, <1>5, <1>6 DEF ReplayInv

\* The start.
LEMMA StartPhase ==
  ASSUME ReplayInv, ParseArgs \/ InitFiles \/ InitGfx \/ InitSocket \/ Accept
  PROVE  ReplayInv'
<1>1. /\ UNCHANGED recordVars /\ UNCHANGED <<next, busy, sent>>
      /\ pc \in Before
      /\ pc' \in {"init", "gfx", "socket", "accept", "next", "exit", "done"}
  BY DEF ParseArgs, InitFiles, InitGfx, InitSocket, Accept, Goto, wireVars, Before
<1>2. LogInv' /\ LegalInv'
  BY <1>1, SessionSame DEF ReplayInv
<1>3. session' = session
  BY <1>1 DEF recordVars
<1>4. /\ next = 0 /\ ~busy /\ sent = <<>> /\ busy \in BOOLEAN /\ Len(session) \in Nat
  BY <1>1 DEF ReplayInv, PhaseInv, LogInv
<1>5. PhaseInv'
  BY <1>1, <1>3, <1>4 DEF PhaseInv, Before, Within, Ended
<1>6. EntryInv' /\ ZeroInv'
  BY <1>1, <1>4 DEF EntryInv, ZeroInv, Within
<1>7. \A r : ~Listed(session, r, 0)
  BY DEF Listed
<1>8. ListInv'
  BY <1>1, <1>3, <1>4, <1>7 DEF ListInv, Within
<1> QED BY <1>2, <1>5, <1>6, <1>8 DEF ReplayInv

\* The next document is taken.
LEMMA NextPhase ==
  ASSUME ReplayInv, ProcessNextEntry
  PROVE  ReplayInv'
<1>1. UNCHANGED recordVars /\ UNCHANGED <<sent, boList>> /\ pc = "next"
  BY DEF ProcessNextEntry, Goto, wireVars, gfxVars
<1>2. LogInv' /\ LegalInv' /\ session' = session
  BY <1>1, SessionSame DEF ReplayInv, recordVars
<1>3. /\ next \in 0 .. Len(session) /\ Len(session) \in Nat /\ Len(log) = Len(session) /\ ~busy
      /\ busy \in BOOLEAN
      /\ \A r \in Remote : Listed(session, r, next) => boList[r] # NoObject
      /\ \A i \in 1 .. Len(sent) : sent[i].type # "0"
  BY <1>1 DEF ReplayInv, LogInv, PhaseInv, ListInv, ZeroInv
<1>4. CASE pc' = "exit" /\ UNCHANGED <<next, busy>>
  BY <1>1, <1>2, <1>3, <1>4 DEF ReplayInv, PhaseInv, EntryInv, ListInv, ZeroInv, Before, Within, Ended
<1>5. CASE next < Len(log) /\ next' = next + 1 /\ busy' = TRUE /\ pc' = Dispatch(DecodeNode(log[next + 1]))
  <2> DEFINE k == next + 1
             to == Dispatch(DecodeNode(log[k]))
             e == session[k]
  <2>1. k \in 1 .. Len(session) /\ k - 1 = next /\ k # 0
    BY <1>3, <1>5
  <2>2. next' = k /\ busy' = TRUE /\ pc' = to
    BY <1>5
  <2>3. \A r \in Remote : Listed(session, r, k - 1) => boList[r] # NoObject
    BY <1>3, <2>1
  <2>4. /\ to \in {"exit", "write", "alloc", "frame", "recv"}
        /\ to = "alloc" => e.type = "CREATE_BUFFER" /\ e.whole
        /\ to = "frame" => e.type = "DISPLAY_REQ" /\ R!Replayable(e)
        /\ to = "write" => \/ e.type \in {"DISPINFO_REQ", "DISPPORT_REQ"} /\ R!Replayable(e)
                           \/ e.type = "REMOVE_BUFFER"
        /\ to = "recv" => e.type \in R!Awaitable /\ R!Replayable(e)
    BY <2>1, <2>3, DispatchFacts DEF ReplayInv
  <2> HIDE DEF k, to
  <2>5. PhaseInv'
    BY <1>2, <1>3, <2>1, <2>2, <2>4 DEF PhaseInv, Before, Within, Ended
  <2>6. EntryInv'
    BY <1>2, <2>2, <2>4 DEF EntryInv, R!Sendable
  <2>7. ListInv'
    BY <1>1, <1>2, <2>2, <2>3, <2>4 DEF ListInv, Within
  <2>8. ZeroInv'
    BY <1>1, <1>3 DEF ZeroInv
  <2> QED BY <1>2, <2>5, <2>6, <2>7, <2>8 DEF ReplayInv
<1>6. CASE next < Len(log) /\ next' = next + 1 /\ busy' = TRUE /\ pc' = "exit"
  <2>1. next' \in 0 .. Len(session) /\ next' - 1 = next
    BY <1>3, <1>6
  <2> QED BY <1>1, <1>2, <1>3, <1>6, <2>1
          DEF ReplayInv, PhaseInv, EntryInv, ListInv, ZeroInv, Before, Within, Ended
<1> QED BY <1>4, <1>5, <1>6 DEF ProcessNextEntry, Goto

\* The emulator is over.
LEMMA OverPhase ==
  ASSUME ReplayInv, UNCHANGED <<recordVars, next, busy>>, pc' \in Ended
  PROVE  ReplayInv'
<1>1. LogInv' /\ LegalInv' /\ session' = session
  BY SessionSame DEF ReplayInv, recordVars
<1>2. PhaseInv'
  BY <1>1 DEF ReplayInv, PhaseInv, Before, Within, Ended
<1>3. EntryInv' /\ ListInv' /\ ZeroInv'
  BY DEF EntryInv, ListInv, ZeroInv, Before, Within, Ended
<1> QED BY <1>1, <1>2, <1>3 DEF ReplayInv

\* A buffer is allocated.
LEMMA AllocPhase ==
  ASSUME ReplayInv, GfxTypeOK, Alloc
  PROVE  ReplayInv'
<1>1. /\ UNCHANGED recordVars /\ UNCHANGED <<sent, next, busy>> /\ pc = "alloc"
  BY DEF Alloc, Goto, wireVars
<1>2. CASE pc' = "exit"
  BY <1>1, <1>2, OverPhase DEF Ended
<1>3. CASE pc' = "write" /\ AllocateBo(Entry.event.rh, TRUE)
  <2>1. LogInv' /\ LegalInv' /\ session' = session
    BY <1>1, SessionSame DEF ReplayInv, recordVars
  <2>2. next \in 1 .. Len(session) /\ session[next].type = "CREATE_BUFFER" /\ session[next].whole
    BY <1>1 DEF ReplayInv, PhaseInv, EntryInv, Within
  <2>3. R!Replayable(session[next]) /\ session[next].type \in R!Sendable
    <3>1. WellFormed(session[next])
      BY <2>2 DEF ReplayInv, LogInv
    <3> QED BY <2>2, <3>1 DEF R!Replayable, R!Sendable, WellFormed
  <2>4. Entry.event.rh = session[next].rh /\ session[next].rh \in Remote
    BY <2>2, <2>3, EntryFacts DEF ReplayInv, BufferEvents
  <2>5. /\ boList' = IF boList[session[next].rh] = NoObject
                     THEN [boList EXCEPT ![session[next].rh] = Len(objects) + 1] ELSE boList
    BY <1>3, <2>4 DEF AllocateBo
  <2>6. boList \in [Remote -> {NoObject} \cup DOMAIN objects] /\ Len(objects) \in Nat
    BY DEF GfxTypeOK
  <2>7. /\ boList'[session[next].rh] # NoObject
        /\ \A r \in Remote : boList[r] # NoObject => boList'[r] # NoObject
    BY <2>4, <2>5, <2>6 DEF NoObject
  <2>8. PhaseInv' /\ EntryInv'
    BY <1>1, <1>3, <2>1, <2>2, <2>3 DEF ReplayInv, PhaseInv, EntryInv, Before, Within
  <2>9. ListInv'
    BY <1>1, <1>3, <2>1, <2>7 DEF ReplayInv, ListInv, Within
  <2>10. ZeroInv'
    BY <1>1, <1>3 DEF ReplayInv, ZeroInv, Within
  <2> QED BY <2>1, <2>8, <2>9, <2>10 DEF ReplayInv
<1> QED BY <1>1, <1>2, <1>3 DEF Alloc, Goto

\* A frame is read and copied.
LEMMA FramePhase ==
  ASSUME ReplayInv, GetOneFrame \/ CopyFrame
  PROVE  ReplayInv'
<1>1. /\ UNCHANGED recordVars /\ UNCHANGED <<sent, next, busy, boList>>
      /\ pc \in {"frame", "copy"}
      /\ pc' \in Ended \/ (pc = "frame" /\ pc' = "copy") \/ (pc = "copy" /\ pc' = "write")
  BY DEF GetOneFrame, CopyFrame, Copy, Goto, wireVars, gfxVars, Ended
<1>2. CASE pc' \in Ended
  BY <1>1, <1>2, OverPhase
<1>3. CASE pc' \in {"copy", "write"}
  <2>1. LogInv' /\ LegalInv' /\ session' = session
    BY <1>1, SessionSame DEF ReplayInv, recordVars
  <2>2. session[next].type = "DISPLAY_REQ" /\ R!Replayable(session[next])
    BY <1>1 DEF ReplayInv, EntryInv
  <2>3. PhaseInv'
    BY <1>1, <1>3, <2>1 DEF ReplayInv, PhaseInv, Before, Within
  <2>4. EntryInv'
    BY <1>1, <1>3, <2>1, <2>2 DEF EntryInv, R!Sendable
  <2>5. ListInv'
    BY <1>1, <1>3, <2>1, <2>2 DEF ReplayInv, ListInv, Within
  <2>6. ZeroInv'
    BY <1>1, <1>3 DEF ReplayInv, ZeroInv, Within
  <2> QED BY <2>1, <2>3, <2>4, <2>5, <2>6 DEF ReplayInv
<1> QED BY <1>1, <1>2, <1>3

\* A reply is read.
LEMMA ReplyPhase ==
  ASSUME ReplayInv, ReadReply
  PROVE  ReplayInv'
<1>1. /\ UNCHANGED recordVars /\ UNCHANGED <<sent, next, boList>> /\ pc = "recv"
      /\ \/ pc' = "exit" /\ busy' = busy
         \/ pc' = "next" /\ busy' = FALSE
  BY DEF ReadReply, Goto, gfxVars
<1>2. CASE pc' = "exit" /\ busy' = busy
  BY <1>1, <1>2, OverPhase DEF Ended
<1>3. CASE pc' = "next" /\ busy' = FALSE
  <2>1. LogInv' /\ LegalInv' /\ session' = session
    BY <1>1, SessionSame DEF ReplayInv, recordVars
  <2>2. /\ next \in Nat /\ next # 0 /\ next \in 0 .. Len(session)
        /\ session[next].type \in R!Awaitable
    BY <1>1 DEF ReplayInv, LogInv, PhaseInv, EntryInv, Within
  <2>3. PhaseInv' /\ EntryInv' /\ ZeroInv'
    BY <1>1, <1>3, <2>1, <2>2 DEF ReplayInv, PhaseInv, EntryInv, ZeroInv, Before, Within
  <2>4. ASSUME NEW r \in Remote, Listed(session, r, next)
        PROVE  boList[r] # NoObject
    <3>1. Listed(session, r, next - 1)
      BY <2>2, <2>4, ListedStep DEF R!Awaitable
    <3> QED BY <1>1, <3>1 DEF ReplayInv, ListInv, Within
  <2>5. ListInv'
    BY <1>1, <1>3, <2>1, <2>4 DEF ListInv, Within
  <2> QED BY <2>1, <2>3, <2>5 DEF ReplayInv
<1> QED BY <1>1, <1>2, <1>3

\* The client does not change what the emulator has done.
LEMMA ClientPhase ==
  ASSUME ReplayInv, Client
  PROVE  ReplayInv'
<1>1. UNCHANGED <<recordVars, emuVars, gfxVars, sent>> /\ (peer' = peer \/ pc # "record")
  <2>1. CASE ClientConnect \/ ClientHandle \/ \E type \in {"SETUP_RESOLUTION", "SET_VIDEO_ALPHA_REQ"} : ClientUser(type)
    BY <2>1 DEF ClientConnect, ClientHandle, ClientUser
  <2>2. CASE ClientClose
    BY <2>2 DEF ClientClose, ReplayInv, PhaseInv
  <2> QED BY <2>1, <2>2 DEF Client
<1>2. LogInv' /\ LegalInv' /\ session' = session
  BY <1>1, SessionSame DEF ReplayInv, recordVars
<1>3. UNCHANGED <<pc, next, busy, sent, src, fault, boList>>
  BY <1>1 DEF emuVars, gfxVars
<1>4. PhaseInv'
  BY <1>1, <1>2, <1>3 DEF ReplayInv, PhaseInv
<1>5. EntryInv' /\ ListInv' /\ ZeroInv'
  BY <1>2, <1>3 DEF ReplayInv, EntryInv, ListInv, ZeroInv
<1> QED BY <1>2, <1>4, <1>5 DEF ReplayInv

\* What one more message means for the messages that were written.
LEMMA AppendSent ==
  ASSUME sent \in Seq(Sent), NEW m \in Sent
  PROVE  /\ Append(sent, m) \in Seq(Sent) /\ Len(Append(sent, m)) = Len(sent) + 1
         /\ Len(sent) \in Nat
         /\ \A i \in 1 .. Len(sent) : Append(sent, m)[i] = sent[i]
         /\ Append(sent, m)[Len(sent) + 1] = m
OBVIOUS

\* The last part of a message is written, or one before it, or none.
LEMMA WriteCases ==
  ASSUME WritePart
  PROVE  /\ UNCHANGED recordVars /\ UNCHANGED gfxVars /\ UNCHANGED clientVars
         /\ UNCHANGED <<peer, unread, src, next, clip, eof, pFrame>> /\ pc = "write"
         /\ \/ /\ UNCHANGED <<pc, sent, busy, fault>>
            \/ /\ sent' = Append(sent, MessageOf(Entry))
               /\ busy' = (Entry.event.type = "0")
               /\ pc' = IF Entry.type = "REMOVE_BUFFER" THEN "clear" ELSE "next"
               /\ UNCHANGED fault
            \/ /\ pc' \in Ended /\ UNCHANGED <<sent, busy>>
               /\ (peer = "closed" /\ UNCHANGED fault) \/ fault' = TRUE
BY DEF WritePart, Fails, Ended

\* Write() of a message, or of zeroes, goes on from a document that allows it.
LEMMA WritePhase ==
  ASSUME ReplayInv, GfxTypeOK, SentInv, pFrame \in 0 .. ClipFrames, WritePart
  PROVE  ReplayInv'
<1>1. /\ UNCHANGED recordVars /\ UNCHANGED <<next, boList>> /\ pc = "write"
  BY WriteCases DEF gfxVars
<1>2. LogInv' /\ LegalInv' /\ session' = session
  BY <1>1, SessionSame DEF ReplayInv, recordVars
<1>3. CASE UNCHANGED <<pc, sent, busy, fault>>
  <2>1. PhaseInv'
    BY <1>1, <1>2, <1>3 DEF ReplayInv, PhaseInv
  <2>2. EntryInv' /\ ListInv' /\ ZeroInv'
    BY <1>1, <1>2, <1>3 DEF ReplayInv, EntryInv, ListInv, ZeroInv
  <2> QED BY <1>2, <2>1, <2>2 DEF ReplayInv
<1>4. CASE pc' \in Ended /\ UNCHANGED <<sent, busy>>
  BY <1>1, <1>4, OverPhase
<1>5. CASE /\ sent' = Append(sent, MessageOf(Entry))
           /\ busy' = (Entry.event.type = "0")
           /\ pc' = IF Entry.type = "REMOVE_BUFFER" THEN "clear" ELSE "next"
  <2>1. /\ MessageOf(Entry) \in Sent
        /\ next \in 1 .. Len(session) /\ Entry.type = session[next].type
        /\ \/ /\ session[next].type \in R!Sendable /\ R!Replayable(session[next])
              /\ MessageOf(Entry).type = session[next].type
              /\ Entry.event.type # "0"
           \/ /\ session[next].type = "REMOVE_BUFFER" /\ ~session[next].whole
              /\ MessageOf(Entry).type = "0"
              /\ Entry.event.type = "0"
    BY <1>1, MessageFacts DEF ReplayInv
  <2>2. busy' \in BOOLEAN /\ next \in Nat /\ next # 0 /\ next \in 0 .. Len(session)
    BY <1>5, <2>1 DEF ReplayInv, LogInv
  <2>3. pc' = "next" => ~busy'
    BY <1>5, <2>1
  <2>4. pc' \in {"clear", "next"}
    BY <1>5
  <2>5. PhaseInv'
    BY <1>1, <1>2, <2>2, <2>3, <2>4 DEF PhaseInv, Before, Within
  <2>6. EntryInv'
    <3>1. pc' = "clear" => session[next].type = "REMOVE_BUFFER" /\ (busy' <=> ~session[next].whole)
      BY <1>5, <2>1 DEF R!Replayable
    <3> QED BY <1>1, <1>2, <2>4, <3>1 DEF EntryInv
  <2>7. ListInv'
    <3>1. ASSUME pc' = "next", NEW r \in Remote, Listed(session, r, next)
          PROVE  boList[r] # NoObject
      <4>1. CASE Listed(session, r, next - 1)
        BY <1>1, <4>1 DEF ReplayInv, ListInv, Within
      <4>2. CASE session[next].type = "CREATE_BUFFER" /\ session[next].rh = r
        BY <1>1, <4>2 DEF ReplayInv, ListInv
      <4> QED BY <2>2, <3>1, <4>1, <4>2, ListedStep
    <3>2. \A r \in Remote : Listed(session, r, next - 1) => boList[r] # NoObject
      BY <1>1 DEF ReplayInv, ListInv, Within
    <3> QED BY <1>1, <1>2, <2>4, <3>1, <3>2 DEF ListInv, Within
  <2>8. ZeroInv'
    <3>1. ASSUME pc' = "clear" => ~busy', NEW i \in 1 .. Len(sent')
          PROVE  sent'[i].type # "0"
      <4>1. MessageOf(Entry).type # "0"
        <5>1. "0" \notin R!Sendable
          BY DEF R!Sendable
        <5> QED BY <1>5, <2>1, <3>1, <5>1
      <4>2. \A j \in 1 .. Len(sent) : sent[j].type # "0"
        BY <1>1 DEF ReplayInv, ZeroInv, Within
      <4> QED BY <1>5, <2>1, <4>1, <4>2, AppendSent DEF SentInv
    <3> QED BY <3>1 DEF ZeroInv
  <2> QED BY <1>2, <2>5, <2>6, <2>7, <2>8 DEF ReplayInv
<1> QED BY <1>3, <1>4, <1>5, WriteCases

\* A buffer is removed.
LEMMA ClearPhase ==
  ASSUME ReplayInv, GfxTypeOK, Clear
  PROVE  ReplayInv'
<1>1. /\ UNCHANGED recordVars /\ UNCHANGED <<sent, next, busy>> /\ pc = "clear"
  BY DEF Clear, Goto, wireVars
<1>2. CASE pc' = "exit"
  BY <1>1, <1>2, OverPhase DEF Ended
<1>3. CASE pc' = "next" /\ ClearBo(Entry.event.rh, TRUE)
  <2>1. LogInv' /\ LegalInv' /\ session' = session
    BY <1>1, SessionSame DEF ReplayInv, recordVars
  <2>2. /\ next \in 1 .. Len(session) /\ next \in Nat /\ next # 0
        /\ session[next].type = "REMOVE_BUFFER" /\ (busy <=> ~session[next].whole)
        /\ session[next].type \notin {"UNKNOWN", "SET_VIDEO_ALPHA_REQ"}
    BY <1>1 DEF ReplayInv, LogInv, PhaseInv, EntryInv, Within
  <2>3. session[next].whole
    <3>1. GetBo(Entry.event.rh) # NoObject
      BY <1>3 DEF ClearBo
    <3>2. GetBo(NoRemote) = NoObject
      BY RemoteAssumption DEF GetBo
    <3>3. ~session[next].whole => Entry.event.rh = NoRemote
      BY <2>2, EntryFacts DEF ReplayInv
    <3> QED BY <3>1, <3>2, <3>3
  <2>4. R!Replayable(session[next]) /\ session[next].type \in R!Sendable
    BY <2>2, <2>3, WholeRemove DEF ReplayInv, R!Sendable
  <2>5. Entry.event.rh = session[next].rh
    BY <2>2, <2>4, EntryFacts DEF ReplayInv
  <2>6. boList' = [boList EXCEPT ![session[next].rh] = NoObject]
    BY <1>3, <2>5 DEF ClearBo
  <2>7. boList \in [Remote -> {NoObject} \cup DOMAIN objects]
    BY DEF GfxTypeOK
  <2>8. PhaseInv' /\ EntryInv' /\ ZeroInv'
    BY <1>1, <1>3, <2>1, <2>2, <2>3 DEF ReplayInv, PhaseInv, EntryInv, ZeroInv, Before, Within
  <2>9. ASSUME NEW r \in Remote, Listed(session, r, next)
        PROVE  boList'[r] # NoObject
    <3>1. Listed(session, r, next - 1) /\ session[next].rh # r
      BY <2>2, <2>9, ListedStep
    <3>2. boList[r] # NoObject
      BY <1>1, <3>1 DEF ReplayInv, ListInv, Within
    <3> QED BY <2>6, <2>7, <3>1, <3>2
  <2>10. ListInv'
    BY <1>1, <1>3, <2>1, <2>9 DEF ListInv, Within
  <2> QED BY <2>1, <2>8, <2>10 DEF ReplayInv
<1> QED BY <1>1, <1>2, <1>3 DEF Clear, Goto

\* Everything together.
LEMMA ReplayKeeps ==
  ASSUME ReplayInv, GfxTypeOK, SentInv, pFrame \in 0 .. ClipFrames, [Next]_vars
  PROVE  ReplayInv'
<1>1. CASE Exit
  BY <1>1, OverPhase DEF Exit, Goto, Ended
<1>2. CASE UNCHANGED vars
  <2>1. /\ UNCHANGED recordVars
        /\ UNCHANGED <<pc, next, busy, sent, src, fault, peer, boList>> /\ session' = session
    BY <1>2 DEF vars, recordVars, emuVars, gfxVars, wireVars
  <2>2. LogInv' /\ LegalInv'
    BY <2>1, SessionSame DEF ReplayInv
  <2>3. PhaseInv' /\ EntryInv' /\ ListInv' /\ ZeroInv'
    BY <2>1 DEF ReplayInv, PhaseInv, EntryInv, ListInv, ZeroInv
  <2> QED BY <2>2, <2>3 DEF ReplayInv
<1>3. CASE Recording
  BY <1>3, RecordingPhase DEF ReplayInv
<1>4. CASE ParseArgs
  BY <1>4, StartPhase
<1>5. CASE Emulator
  BY <1>1, <1>5, StartPhase, NextPhase, AllocPhase, FramePhase, WritePhase, ClearPhase, ReplyPhase
     DEF Emulator
<1>6. CASE Client
  BY <1>6, ClientPhase
<1> QED BY <1>2, <1>3, <1>4, <1>5, <1>6 DEF Next

-----------------------------------------------------------------------------
(* The types.                                                               *)

Object == [open : BOOLEAN, fd : BOOLEAN, maps : Nat, frame : Nat]

\* Setting an element within a sequence keeps its type and length.
LEMMA ObjectSet ==
  ASSUME NEW S, NEW s \in Seq(S), NEW o, NEW v, o \in 1 .. Len(s) => v \in S
  PROVE  [s EXCEPT ![o] = v] \in Seq(S) /\ Len([s EXCEPT ![o] = v]) = Len(s)
<1>1. Len(s) \in Nat /\ s \in [1 .. Len(s) -> S]
  OBVIOUS
<1>2. [s EXCEPT ![o] = v] \in [1 .. Len(s) -> S]
  BY <1>1
<1>3. [s EXCEPT ![o] = v] \in Seq(S)
  BY <1>1, <1>2
<1> QED BY <1>1, <1>2, <1>3

\* A mapping is made of an object, it is drawn to, and its handle is closed.
LEMMA ObjectKept ==
  ASSUME NEW obs \in Seq(Object), NEW o, NEW f \in Nat
  PROVE  /\ [obs EXCEPT ![o].maps = @ + 1] \in Seq(Object)
         /\ Len([obs EXCEPT ![o].maps = @ + 1]) = Len(obs)
         /\ [obs EXCEPT ![o].frame = f] \in Seq(Object)
         /\ Len([obs EXCEPT ![o].frame = f]) = Len(obs)
         /\ [obs EXCEPT ![o].open = FALSE] \in Seq(Object)
         /\ Len([obs EXCEPT ![o].open = FALSE]) = Len(obs)
<1>1. o \in 1 .. Len(obs) => obs[o] \in Object
  OBVIOUS
<1>2. o \in 1 .. Len(obs) => [obs[o] EXCEPT !.maps = obs[o].maps + 1] \in Object
  BY <1>1 DEF Object
<1>3. o \in 1 .. Len(obs) => [obs[o] EXCEPT !.frame = f] \in Object
  BY <1>1 DEF Object
<1>4. o \in 1 .. Len(obs) => [obs[o] EXCEPT !.open = FALSE] \in Object
  BY <1>1 DEF Object
<1> DEFINE a == [obs[o] EXCEPT !.maps = obs[o].maps + 1]
           b == [obs[o] EXCEPT !.frame = f]
           c == [obs[o] EXCEPT !.open = FALSE]
<1>5. /\ [obs EXCEPT ![o].maps = @ + 1] = [obs EXCEPT ![o] = a]
      /\ [obs EXCEPT ![o].frame = f] = [obs EXCEPT ![o] = b]
      /\ [obs EXCEPT ![o].open = FALSE] = [obs EXCEPT ![o] = c]
  OBVIOUS
<1> HIDE DEF a, b, c
<1>6. /\ o \in 1 .. Len(obs) => a \in Object
      /\ o \in 1 .. Len(obs) => b \in Object
      /\ o \in 1 .. Len(obs) => c \in Object
  BY <1>2, <1>3, <1>4 DEF a, b, c
<1>7. [obs EXCEPT ![o] = a] \in Seq(Object) /\ Len([obs EXCEPT ![o] = a]) = Len(obs)
  BY <1>6, ObjectSet
<1>8. [obs EXCEPT ![o] = b] \in Seq(Object) /\ Len([obs EXCEPT ![o] = b]) = Len(obs)
  BY <1>6, ObjectSet
<1>9. [obs EXCEPT ![o] = c] \in Seq(Object) /\ Len([obs EXCEPT ![o] = c]) = Len(obs)
  BY <1>6, ObjectSet
<1> QED BY <1>5, <1>7, <1>8, <1>9

\* Copying a frame into a buffer object leaves the objects in their type.
LEMMA ObjectShown ==
  ASSUME NEW obs \in Seq(Object), NEW o, NEW f \in Nat
  PROVE  /\ [obs EXCEPT ![o].maps = @ + 1, ![o].frame = f] \in Seq(Object)
         /\ Len([obs EXCEPT ![o].maps = @ + 1, ![o].frame = f]) = Len(obs)
<1> DEFINE mid == [obs EXCEPT ![o].maps = @ + 1]
           v == [mid[o] EXCEPT !.frame = f]
<1>1. mid \in Seq(Object) /\ Len(mid) = Len(obs)
  BY ObjectKept
<1>2. [obs EXCEPT ![o].maps = @ + 1, ![o].frame = f] = [mid EXCEPT ![o] = v]
  OBVIOUS
<1> HIDE DEF mid
<1>3. o \in 1 .. Len(mid) => mid[o] \in Object
  BY <1>1
<1>4. o \in 1 .. Len(mid) => v \in Object
  BY <1>3 DEF Object
<1> HIDE DEF v
<1>5. [mid EXCEPT ![o] = v] \in Seq(Object) /\ Len([mid EXCEPT ![o] = v]) = Len(mid)
  BY <1>1, <1>4, ObjectSet
<1> QED BY <1>1, <1>2, <1>5

\* What the device does keeps its types, and objects are never forgotten.
LEMMA GfxTypes ==
  ASSUME GfxTypeOK, pFrame \in 0 .. ClipFrames, [Next]_vars
  PROVE  GfxTypeOK' /\ Len(objects) \in Nat /\ Len(objects') \in Nat /\ Len(objects) <= Len(objects')
<1> USE DEF NoObject
<1>0. /\ objects \in Seq(Object) /\ Len(objects) \in Nat /\ DOMAIN objects = 1 .. Len(objects)
      /\ boList \in [Remote -> {0} \cup 1 .. Len(objects)]
      /\ device \in {"uninitialised", "open", "closed"}
  BY DEF GfxTypeOK, Object
<1>1. ASSUME objects' \in Seq(Object), Len(objects) <= Len(objects'),
             boList' \in [Remote -> {0} \cup 1 .. Len(objects')],
             device' \in {"uninitialised", "open", "closed"}
      PROVE  GfxTypeOK' /\ Len(objects) \in Nat /\ Len(objects') \in Nat /\ Len(objects) <= Len(objects')
  <2>1. Len(objects') \in Nat /\ DOMAIN objects' = 1 .. Len(objects')
    BY <1>1
  <2> QED BY <1>0, <1>1, <2>1 DEF GfxTypeOK, Object
<1>2. CASE UNCHANGED gfxVars
  BY <1>0, <1>1, <1>2 DEF gfxVars
<1>3. CASE InitGfx
  BY <1>0, <1>1, <1>3 DEF InitGfx, GfxInit
<1>4. CASE Alloc
  <2>1. ASSUME NEW fd \in BOOLEAN
        PROVE  /\ Append(objects, NewObject(fd)) \in Seq(Object)
               /\ Len(Append(objects, NewObject(fd))) = Len(objects) + 1
    <3>1. NewObject(fd) \in Object
      BY DEF NewObject, Object
    <3> QED BY <1>0, <3>1
  <2>2. UNCHANGED device
    BY <1>4 DEF Alloc, AllocateBo
  <2>3. \/ UNCHANGED <<boList, objects>>
        \/ \E fd \in BOOLEAN : objects' = Append(objects, NewObject(fd))
    BY <1>4 DEF Alloc, AllocateBo
  <2>4. boList' = boList \/
          (objects' = Append(objects, NewObject(TRUE)) /\
           \E r : boList' = [boList EXCEPT ![r] = Len(objects) + 1])
    BY <1>4 DEF Alloc, AllocateBo
  <2>5. objects' \in Seq(Object) /\ Len(objects) <= Len(objects')
    BY <1>0, <2>1, <2>3
  <2>6. boList' \in [Remote -> {0} \cup 1 .. Len(objects')]
    <3>1. Len(objects') \in Nat
      BY <2>5
    <3>2. CASE boList' = boList
      BY <1>0, <2>5, <3>1, <3>2
    <3>3. ASSUME objects' = Append(objects, NewObject(TRUE)),
                 NEW r, boList' = [boList EXCEPT ![r] = Len(objects) + 1]
          PROVE  boList' \in [Remote -> {0} \cup 1 .. Len(objects')]
      <4>1. Len(objects') = Len(objects) + 1
        BY <2>1, <3>3
      <4>2. Len(objects) + 1 \in 1 .. Len(objects') /\ \A i \in 1 .. Len(objects) : i \in 1 .. Len(objects')
        BY <1>0, <4>1
      <4> QED BY <1>0, <3>3, <4>2
    <3> QED BY <2>4, <3>2, <3>3
  <2> QED BY <1>0, <1>1, <2>2, <2>5, <2>6
<1>5. CASE CopyFrame
  <2>1. UNCHANGED <<boList, device>>
    BY <1>5 DEF CopyFrame, Copy
  <2>2. pFrame \in Nat
    BY ClipAssumption
  <2>3. \/ objects' = objects
        \/ \E o : objects' = [objects EXCEPT ![o].maps = @ + 1]
        \/ \E o : objects' = [objects EXCEPT ![o].maps = @ + 1, ![o].frame = pFrame]
    BY <1>5 DEF CopyFrame, Copy
  <2>4. objects' \in Seq(Object) /\ Len(objects') = Len(objects)
    <3>1. CASE objects' = objects
      BY <1>0, <3>1
    <3>2. ASSUME NEW o, objects' = [objects EXCEPT ![o].maps = @ + 1]
          PROVE  objects' \in Seq(Object) /\ Len(objects') = Len(objects)
      <4>1. objects \in Seq(Object)
        BY <1>0
      <4> QED BY ONLY <2>2, <3>2, <4>1, ObjectKept, Zenon
    <3>3. ASSUME NEW o, objects' = [objects EXCEPT ![o].maps = @ + 1, ![o].frame = pFrame]
          PROVE  objects' \in Seq(Object) /\ Len(objects') = Len(objects)
      <4>1. objects \in Seq(Object)
        BY <1>0
      <4> QED BY ONLY <2>2, <3>3, <4>1, ObjectShown, Zenon
    <3> QED BY <2>3, <3>1, <3>2, <3>3
  <2> QED BY <1>0, <1>1, <2>1, <2>4
<1>6. CASE Clear
  <2>1. UNCHANGED device
    BY <1>6 DEF Clear, ClearBo
  <2>2. objects' = objects \/ \E o : objects' = [objects EXCEPT ![o].open = FALSE]
    BY <1>6 DEF Clear, ClearBo
  <2>3. boList' = boList \/ \E r : boList' = [boList EXCEPT ![r] = 0]
    BY <1>6 DEF Clear, ClearBo
  <2>4. 0 \in Nat
    OBVIOUS
  <2>5. objects' \in Seq(Object) /\ Len(objects') = Len(objects)
    <3>1. CASE objects' = objects
      BY <1>0, <3>1
    <3>2. ASSUME NEW o, objects' = [objects EXCEPT ![o].open = FALSE]
          PROVE  objects' \in Seq(Object) /\ Len(objects') = Len(objects)
      <4>1. objects \in Seq(Object)
        BY <1>0
      <4> QED BY ONLY <2>4, <3>2, <4>1, ObjectKept, Zenon
    <3> QED BY <2>2, <3>1, <3>2
  <2>6. boList' \in [Remote -> {0} \cup 1 .. Len(objects)]
    BY <1>0, <2>3
  <2> QED BY <1>0, <1>1, <2>1, <2>5, <2>6
<1>7. CASE Exit
  <2>1. /\ boList' = [r \in Remote |-> 0] /\ device' = "closed"
        /\ objects' = [o \in 1 .. Len(objects) |-> [objects[o] EXCEPT !.open = FALSE]]
    BY <1>0, <1>7 DEF Exit, GfxDestroy
  <2>2. ASSUME NEW o \in 1 .. Len(objects)
        PROVE  [objects[o] EXCEPT !.open = FALSE] \in Object
    <3>1. objects[o] \in Object
      BY <1>0
    <3> QED BY <3>1 DEF Object
  <2>3. objects' \in [1 .. Len(objects) -> Object]
    BY <2>1, <2>2
  <2>4. objects' \in Seq(Object) /\ Len(objects') = Len(objects)
    BY <1>0, <2>3
  <2> QED BY <1>0, <1>1, <2>1, <2>4
<1>8. \/ UNCHANGED gfxVars \/ InitGfx \/ Alloc \/ CopyFrame \/ Clear \/ Exit
  <2>1. CASE UNCHANGED vars
    BY <2>1 DEF vars
  <2>2. CASE Recording
    BY <2>2 DEF Recording, RecordCreate, RecordRemove, RecordDisplay, RecordDispInfo, RecordDispPort,
                RecordUnknown, RecordUser, Record, RecordRestart
  <2>3. CASE ParseArgs
    BY <2>3 DEF ParseArgs
  <2>4. CASE Emulator
    BY <2>4, WriteCases DEF Emulator, InitFiles, InitSocket, Accept, ProcessNextEntry, GetOneFrame, ReadReply
  <2>5. CASE Client
    BY <2>5 DEF Client, ClientConnect, ClientHandle, ClientUser, ClientClose
  <2> QED BY <2>1, <2>2, <2>3, <2>4, <2>5 DEF Next
<1> QED BY <1>2, <1>3, <1>4, <1>5, <1>6, <1>7, <1>8

\* What is recorded, the content and the emulator's arguments.
LEMMA EmuTypes ==
  ASSUME TypeOK, [Next]_vars
  PROVE  /\ linked' \in BOOLEAN /\ servers' \in 1 .. MaxServers
         /\ src' \in {"unset", "good", "half", "small", "missing"} /\ fault' \in BOOLEAN
         /\ clip' \in 0 .. ClipFrames /\ eof' \in BOOLEAN /\ pFrame' \in 0 .. ClipFrames
<1>1. /\ linked \in BOOLEAN /\ servers \in 1 .. MaxServers
      /\ src \in {"unset", "good", "half", "small", "missing"} /\ fault \in BOOLEAN
      /\ clip \in 0 .. ClipFrames /\ eof \in BOOLEAN /\ pFrame \in 0 .. ClipFrames
  BY DEF TypeOK
<1>2. linked' \in BOOLEAN /\ servers' \in 1 .. MaxServers
  <2>1. CASE UNCHANGED recordVars
    BY <1>1, <2>1 DEF recordVars
  <2>2. CASE RecordRestart
    BY <1>1, <2>2, BoundsAssumption DEF RecordRestart
  <2>3. ASSUME NEW docs, NEW events, NEW live, NEW ended, Record(docs, events, live, ended)
        PROVE  linked' \in BOOLEAN /\ servers' \in 1 .. MaxServers
    BY <1>1, <2>3 DEF Record
  <2>4. CASE Recording
    BY <2>2, <2>3, <2>4
       DEF Recording, RecordCreate, RecordRemove, RecordDisplay, RecordDispInfo, RecordDispPort,
           RecordUnknown, RecordUser
  <2>5. CASE UNCHANGED vars
    BY <2>1, <2>5 DEF vars
  <2>6. CASE ParseArgs
    BY <2>1, <2>6 DEF ParseArgs
  <2>7. CASE Emulator
    BY <2>1, <2>7, WriteCases
       DEF Emulator, InitFiles, InitGfx, InitSocket, Accept, ProcessNextEntry, Alloc, GetOneFrame,
           CopyFrame, Clear, ReadReply, Exit
  <2>8. CASE Client
    BY <2>1, <2>8 DEF Client, ClientConnect, ClientHandle, ClientUser, ClientClose
  <2> QED BY <2>4, <2>5, <2>6, <2>7, <2>8 DEF Next
<1>3. /\ src' \in {"unset", "good", "half", "small", "missing"} /\ fault' \in BOOLEAN
      /\ clip' \in 0 .. ClipFrames /\ eof' \in BOOLEAN /\ pFrame' \in 0 .. ClipFrames
  <2>1. CASE UNCHANGED emuVars
    BY <1>1, <2>1 DEF emuVars
  <2>2. CASE GetOneFrame
    <3> DEFINE at == IF eof THEN 0 ELSE clip
    <3>1. at \in 0 .. ClipFrames /\ (at # ClipFrames => at + 1 \in 0 .. ClipFrames) /\ 0 \in 0 .. ClipFrames
      BY <1>1, ClipAssumption
    <3>2. /\ UNCHANGED fault \/ fault' = TRUE
          /\ \/ src' = "small" /\ clip' = at /\ eof' = FALSE /\ UNCHANGED pFrame
             \/ eof' = FALSE /\ UNCHANGED <<src, clip, pFrame>>
             \/ /\ UNCHANGED src
                /\ eof' = (at = ClipFrames)
                /\ clip' = IF at = ClipFrames THEN at ELSE at + 1
                /\ pFrame' = IF at = ClipFrames THEN 0 ELSE at + 1
      BY <2>2 DEF GetOneFrame, Fails
    <3> HIDE DEF at
    <3>3. src' \in {"unset", "good", "half", "small", "missing"} /\ fault' \in BOOLEAN /\ eof' \in BOOLEAN
      BY <1>1, <3>2
    <3>4. clip' \in 0 .. ClipFrames /\ pFrame' \in 0 .. ClipFrames
      BY <1>1, <3>1, <3>2
    <3> QED BY <3>3, <3>4
  <2>3. CASE /\ UNCHANGED <<clip, eof, pFrame>> /\ (UNCHANGED fault \/ fault' = TRUE)
             /\ UNCHANGED src \/ src' \in {"good", "half", "missing"}
    BY <1>1, <2>3
  <2>4. CASE Recording
    BY <2>1, <2>4
       DEF Recording, RecordCreate, RecordRemove, RecordDisplay, RecordDispInfo, RecordDispPort,
           RecordUnknown, RecordUser, Record, RecordRestart
  <2>5. CASE UNCHANGED vars
    BY <2>1, <2>5 DEF vars
  <2>6. CASE ParseArgs
    BY <2>3, <2>6 DEF ParseArgs
  <2>7. CASE Emulator
    BY <2>2, <2>3, <2>7, WriteCases
       DEF Emulator, InitFiles, InitGfx, InitSocket, Accept, ProcessNextEntry, Alloc,
           CopyFrame, Clear, ReadReply, Exit, Fails
  <2>8. CASE Client
    BY <2>1, <2>8 DEF Client, ClientConnect, ClientHandle, ClientUser, ClientClose
  <2> QED BY <2>4, <2>5, <2>6, <2>7, <2>8 DEF Next
<1> QED BY <1>2, <1>3

\* The words of a reply.
LEMMA ReplyTypes ==
  ASSUME NEW type \in {"DISPINFO_ACK", "SETUP_RESOLUTION", "DISPLAY_ACK", "DISPPORT_ACK",
                       "SET_VIDEO_ALPHA_REQ"}
  PROVE  Reply(type) \in Seq(BOOLEAN)
<1>1. ReplySize(type) \in Nat
  BY DEF ReplySize, display_event_t, display_info_t, display_port_t, buffer_info_t, set_video_alpha_t
<1>2. Reply(type) \in [1 .. ReplySize(type) -> BOOLEAN]
  BY DEF Reply
<1> QED BY <1>1, <1>2

\* The socket and the client.
LEMMA WireTypes ==
  ASSUME TypeOK, ReplayInv, SentInv, GfxTypeOK', Len(objects') \in Nat, Len(objects) <= Len(objects'),
         [Next]_vars
  PROVE  /\ peer' \in {"none", "open", "closed"} /\ unread' \in Seq(BOOLEAN)
         /\ handled' \in 0 .. Len(sent') /\ extra' \in 0 .. MaxExtra
         /\ handles' \in [Remote -> {NoObject} \cup DOMAIN objects']
         /\ SentInv'
<1> USE DEF NoObject
<1> DEFINE n == Len(objects)
           m == Len(objects')
<1>0. /\ n \in Nat /\ m \in Nat /\ n <= m /\ DOMAIN objects' = 1 .. m /\ DOMAIN objects = 1 .. n
      /\ handles \in [Remote -> {0} \cup 1 .. n]
  <2>1. objects' \in Seq(Object)
    BY DEF GfxTypeOK, Object
  <2>2. objects \in Seq(Object) /\ handles \in [Remote -> {0} \cup DOMAIN objects]
    BY DEF GfxTypeOK, TypeOK, Object
  <2>3. DOMAIN objects' = 1 .. m
    BY <2>1
  <2>4. DOMAIN objects = 1 .. n /\ n \in Nat
    BY <2>2
  <2> QED BY <2>2, <2>3, <2>4
<1>1. /\ peer \in {"none", "open", "closed"} /\ unread \in Seq(BOOLEAN)
      /\ handled \in 0 .. Len(sent) /\ extra \in 0 .. MaxExtra
      /\ sent \in Seq(Sent) /\ Len(sent) \in Nat
      /\ \A i \in 1 .. Len(sent) : sent[i].obj \in 0 .. n
  BY DEF TypeOK, SentInv
<1> HIDE DEF n, m
<1>2. \A f : f \in [Remote -> {0} \cup 1 .. n] => f \in [Remote -> {0} \cup 1 .. m]
  BY <1>0
<1>3. \A i \in 0 .. n : i \in 0 .. m
  BY <1>0
<1>4. ASSUME UNCHANGED sent
      PROVE  SentInv'
  BY <1>1, <1>3, <1>4 DEF SentInv, m
<1>5. ASSUME UNCHANGED handles
      PROVE  handles' \in [Remote -> {0} \cup 1 .. m]
  BY <1>0, <1>2, <1>5
<1>6. CASE UNCHANGED <<wireVars, clientVars>>
  BY <1>0, <1>1, <1>4, <1>5, <1>6 DEF wireVars, clientVars
<1>7. CASE WritePart
  <2>1. UNCHANGED <<peer, unread, handled, handles, extra>> /\ pc = "write" /\ UNCHANGED gfxVars
    BY <1>7, WriteCases DEF clientVars
  <2>2. sent' = sent \/ sent' = Append(sent, MessageOf(Entry))
    BY <1>7, WriteCases
  <2>3. CASE sent' = sent
    BY <1>0, <1>1, <1>4, <1>5, <2>1, <2>3
  <2>4. CASE sent' = Append(sent, MessageOf(Entry))
    <3>1. MessageOf(Entry) \in Sent /\ MessageOf(Entry).obj \in 0 .. n
      BY <2>1, MessageFacts DEF TypeOK, ReplayInv, n
    <3>2. /\ sent' \in Seq(Sent) /\ Len(sent') = Len(sent) + 1
          /\ \A i \in 1 .. Len(sent) : sent'[i] = sent[i]
          /\ sent'[Len(sent) + 1] = MessageOf(Entry)
      BY <1>1, <2>4, <3>1, AppendSent
    <3>3. \A i \in 1 .. Len(sent') : sent'[i].obj \in 0 .. m
      BY <1>1, <1>3, <3>1, <3>2
    <3>4. handled' \in 0 .. Len(sent')
      BY <1>1, <2>1, <3>2
    <3> QED BY <1>0, <1>1, <1>5, <2>1, <3>2, <3>3, <3>4 DEF SentInv, m
  <2> QED BY <2>2, <2>3, <2>4
<1>8. CASE ReadReply
  <2>1. UNCHANGED <<peer, sent, handled, handles, extra>> /\ pc = "recv"
    BY <1>8 DEF ReadReply, clientVars, Goto
  <2>2. unread' \in Seq(BOOLEAN)
    <3>1. CASE unread' = unread
      BY <1>1, <3>1
    <3>2. CASE unread' = SubSeq(unread, ReadSize(Entry.type) + 1, Len(unread))
      <4>1. next \in 1 .. Len(session) /\ session[next].type \in R!Awaitable
        BY <2>1 DEF ReplayInv, PhaseInv, EntryInv, Within
      <4>2. Entry.type \in R!Awaitable
        BY <4>1, EntryFacts DEF ReplayInv, R!Awaitable
      <4>3. ReadSize(Entry.type) \in Nat
        BY <4>2 DEF ReadSize, R!Awaitable, display_event_t, display_info_t, buffer_info_t
      <4>4. ReadSize(Entry.type) + 1 \in 1 .. Len(unread) + 1 \/ SubSeq(unread, ReadSize(Entry.type) + 1, Len(unread)) = <<>>
        BY <1>1, <4>3
      <4> QED BY <1>1, <3>2, <4>3, <4>4
    <3> QED BY <1>8, <3>1, <3>2 DEF ReadReply
  <2> QED BY <1>0, <1>1, <1>4, <1>5, <2>1, <2>2
<1>9. CASE ClientConnect \/ ClientClose
  BY <1>0, <1>1, <1>4, <1>5, <1>9 DEF ClientConnect, ClientClose, clientVars
<1>10. CASE \E type \in {"SETUP_RESOLUTION", "SET_VIDEO_ALPHA_REQ"} : ClientUser(type)
  <2>1. PICK type \in {"SETUP_RESOLUTION", "SET_VIDEO_ALPHA_REQ"} : ClientUser(type)
    BY <1>10
  <2>2. /\ UNCHANGED <<peer, sent, handled, handles>> /\ extra < MaxExtra /\ extra' = extra + 1
        /\ unread' = unread \o Reply(type)
    BY <2>1 DEF ClientUser
  <2>3. Reply(type) \in Seq(BOOLEAN)
    BY ReplyTypes
  <2>4. unread' \in Seq(BOOLEAN)
    BY <1>1, <2>2, <2>3
  <2>5. extra' \in 0 .. MaxExtra
    BY <1>1, <2>2, BoundsAssumption
  <2> QED BY <1>0, <1>1, <1>4, <1>5, <2>2, <2>4, <2>5
<1>11. CASE ClientHandle
  <2> DEFINE msg == sent[handled + 1]
             add == CASE msg.type = "DISPINFO_REQ" -> Reply("DISPINFO_ACK")
                      [] msg.type = "DISPPORT_REQ" -> Reply("DISPPORT_ACK")
                      [] msg.type = "DISPLAY_REQ" /\ handles[msg.rh] # NoObject -> Reply("DISPLAY_ACK")
                      [] OTHER -> <<>>
  <2>1. /\ UNCHANGED <<peer, sent, extra>> /\ handled < Len(sent) /\ handled' = handled + 1
        /\ unread' = unread \o add
        /\ \/ handles' = [handles EXCEPT ![msg.rh] = msg.obj]
           \/ handles' = [handles EXCEPT ![msg.rh] = 0]
           \/ handles' = handles
    BY <1>11 DEF ClientHandle
  <2>2. handled' \in 0 .. Len(sent) /\ handled + 1 \in 1 .. Len(sent)
    BY <1>1, <2>1
  <2>3. msg.obj \in {0} \cup 1 .. m
    BY <1>0, <1>1, <1>3, <2>2
  <2>4. add \in Seq(BOOLEAN)
    <3>1. /\ Reply("DISPINFO_ACK") \in Seq(BOOLEAN) /\ Reply("DISPPORT_ACK") \in Seq(BOOLEAN)
          /\ Reply("DISPLAY_ACK") \in Seq(BOOLEAN) /\ <<>> \in Seq(BOOLEAN)
      BY ReplyTypes
    <3> HIDE DEF msg
    <3> QED BY <3>1
  <2> HIDE DEF add, msg
  <2>5. unread' \in Seq(BOOLEAN)
    BY <1>1, <2>1, <2>4
  <2>6. handles' \in [Remote -> {0} \cup 1 .. m]
    BY <1>0, <1>2, <2>1, <2>3
  <2> QED BY <1>0, <1>1, <1>4, <2>1, <2>2, <2>5, <2>6
<1>12. \/ UNCHANGED <<wireVars, clientVars>> \/ WritePart \/ ReadReply \/ Client
  <2>1. CASE UNCHANGED vars
    BY <2>1 DEF vars
  <2>2. CASE Recording
    BY <2>2 DEF Recording, RecordCreate, RecordRemove, RecordDisplay, RecordDispInfo, RecordDispPort,
                RecordUnknown, RecordUser, Record, RecordRestart
  <2>3. CASE ParseArgs
    BY <2>3 DEF ParseArgs
  <2>4. CASE Emulator
    BY <2>4 DEF Emulator, InitFiles, InitGfx, InitSocket, Accept, ProcessNextEntry, Alloc, GetOneFrame,
                CopyFrame, Clear, Exit
  <2> QED BY <2>1, <2>2, <2>3, <2>4 DEF Next
<1> QED BY <1>6, <1>7, <1>8, <1>9, <1>10, <1>11, <1>12 DEF Client

\* The inductive invariant.
AicInv == TypeOK /\ SentInv /\ ReplayInv

\* The invariant holds before the recording.
LEMMA InvInit ==
  ASSUME Init
  PROVE  AicInv
<1>0. /\ log = <<>> /\ session = <<>> /\ sent = <<>> /\ objects = <<>> /\ unread = <<>>
      /\ created = {} /\ pc = "record" /\ next = 0 /\ busy = FALSE /\ src = "unset"
      /\ peer = "none" /\ fault = FALSE
  BY DEF Init, GfxNew
<1>1. GfxTypeOK
  BY DEF Init, GfxNew, GfxTypeOK
<1>2. TypeOK
  <2>1. /\ created \subseteq Remote /\ linked \in BOOLEAN /\ servers \in 1 .. MaxServers
        /\ extra \in 0 .. MaxExtra /\ clip \in 0 .. ClipFrames /\ eof \in BOOLEAN
        /\ pFrame \in 0 .. ClipFrames
    <3>1. /\ created = {} /\ linked = TRUE /\ servers = 1 /\ extra = 0 /\ clip = 0 /\ eof = FALSE
          /\ pFrame = 0
      BY DEF Init
    <3>2. created \subseteq Remote /\ linked \in BOOLEAN /\ eof \in BOOLEAN
      BY <3>1
    <3>3. 1 \in 1 .. MaxServers /\ 0 \in 0 .. MaxExtra /\ 0 \in 0 .. ClipFrames
      BY BoundsAssumption, ClipAssumption
    <3> QED BY <3>1, <3>2, <3>3
  <2>2. Len(log) = Len(session) /\ next \in 0 .. Len(log) /\ unread \in Seq(BOOLEAN)
    BY <1>0
  <2>3. handled \in 0 .. Len(sent) /\ handles \in [Remote -> {NoObject} \cup DOMAIN objects]
    BY <1>0 DEF Init
  <2> QED BY <1>0, <1>1, <2>1, <2>2, <2>3 DEF TypeOK
<1>3. SentInv
  BY <1>0 DEF SentInv
<1>4. LogInv /\ LegalInv
  BY <1>0 DEF LogInv, LegalInv
<1>5. PhaseInv
  <2>1. next \in 0 .. Len(session)
    BY <1>0
  <2>2. busy \in BOOLEAN
    BY <1>0
  <2> QED BY <1>0, <2>1, <2>2 DEF PhaseInv, Before, Within
<1>6. EntryInv /\ ListInv /\ ZeroInv
  BY <1>0 DEF EntryInv, ListInv, ZeroInv, Within
<1> QED BY <1>2, <1>3, <1>4, <1>5, <1>6 DEF AicInv, ReplayInv

\* Every step of recording, emulator and client keeps it.
LEMMA InvNext ==
  ASSUME AicInv, [Next]_vars
  PROVE  AicInv'
<1>1. GfxTypeOK /\ pFrame \in 0 .. ClipFrames
  BY DEF AicInv, TypeOK
<1>2. ReplayInv'
  BY <1>1, ReplayKeeps DEF AicInv
<1>3. GfxTypeOK' /\ Len(objects) \in Nat /\ Len(objects') \in Nat /\ Len(objects) <= Len(objects')
  BY <1>1, GfxTypes
<1>4. /\ linked' \in BOOLEAN /\ servers' \in 1 .. MaxServers
      /\ src' \in {"unset", "good", "half", "small", "missing"} /\ fault' \in BOOLEAN
      /\ clip' \in 0 .. ClipFrames /\ eof' \in BOOLEAN /\ pFrame' \in 0 .. ClipFrames
  BY EmuTypes DEF AicInv
<1>5. /\ peer' \in {"none", "open", "closed"} /\ unread' \in Seq(BOOLEAN)
      /\ handled' \in 0 .. Len(sent') /\ extra' \in 0 .. MaxExtra
      /\ handles' \in [Remote -> {NoObject} \cup DOMAIN objects']
      /\ SentInv'
  BY <1>3, WireTypes DEF AicInv
<1>6. /\ created' \subseteq Remote /\ Len(log') = Len(session') /\ next' \in 0 .. Len(log')
      /\ busy' \in BOOLEAN /\ pc' \in Before \cup {"next"} \cup Within \cup Ended
  BY <1>2 DEF ReplayInv, LogInv, LegalInv, PhaseInv
<1>7. TypeOK'
  BY <1>3, <1>4, <1>5, <1>6 DEF TypeOK, Before, Within, Ended
<1> QED BY <1>2, <1>5, <1>7 DEF AicInv

\* So it holds throughout.
LEMMA InvHolds == Spec => []AicInv
<1>1. Init => AicInv
  BY InvInit
<1>2. AicInv /\ [Next]_vars => AicInv'
  BY InvNext
<1> QED BY <1>1, <1>2, PTL DEF Spec

\* Every variable keeps its type: what the emulator decodes names an entry whose
\* reply has a size, the objects that the client and the messages refer to exist,
\* and the position in the log stays within it (TypeOK).
THEOREM TypeCorrect == Spec => []TypeOK
<1>1. AicInv => TypeOK
  BY DEF AicInv
<1> QED BY <1>1, InvHolds, PTL

-----------------------------------------------------------------------------
(* The replay is the recorded session.                                      *)

\* The variables of Replay.
Pos == IF busy THEN next - 1 ELSE next
Wire == [i \in DOMAIN sent |-> [type |-> sent[i].type, rh |-> sent[i].rh]]
Broken == fault \/ peer = "closed" \/ src \in {"half", "small", "missing"}
Over == pc \in {"exit", "done", "killed"}

\* What a step of the emulator can be to the replay.
LEMMA Stutters ==
  ASSUME UNCHANGED <<session, sent>>, Pos' = Pos, Broken' <=> Broken, Over' <=> Over
  PROVE  UNCHANGED R!vars
<1>1. Wire' = Wire
  BY DEF Wire
<1> QED BY <1>1 DEF R!vars, Pos, Wire, Broken, Over

\* A replay that ends does so behind the session, at what cannot be replayed, or broken.
LEMMA Stops ==
  ASSUME UNCHANGED <<session, sent>>, Pos' = Pos, ~Over, Over', Broken => Broken',
         \/ Pos = Len(session)
         \/ ~R!Replayable(session[Pos + 1])
         \/ Broken'
  PROVE  R!Next
<1>1. Wire' = Wire
  BY DEF Wire
<1> QED BY <1>1 DEF R!Next, R!Stop, Pos, Wire, Broken, Over

\* A call that fails, or a client that leaves, breaks the replay.
LEMMA Breaks ==
  ASSUME UNCHANGED <<session, sent>>, Pos' = Pos, ~Broken, Broken', Over' <=> Over
  PROVE  R!Next
<1>1. Wire' = Wire
  BY DEF Wire
<1> QED BY <1>1 DEF R!Next, R!Break, Pos, Wire, Broken, Over

\* A document handled to its end is a message of the session replayed.
LEMMA Plays ==
  ASSUME session' = session, ~Over, ~Over', Pos < Len(session), R!Replayable(session[Pos + 1]),
         Pos' = Pos + 1, Wire' = Wire \o R!Message(session[Pos + 1]), Broken => Broken'
  PROVE  R!Next
<1>1. Over' = Over
  BY DEF Over
<1> QED BY <1>1 DEF R!Next, R!Play, Pos, Wire, Broken, Over

\* A removal cut short in the log writes zeroes before its document is given up.
LEMMA PlaysCut ==
  ASSUME session' = session, ~Over, ~Over', Pos < Len(session), Pos' = Pos,
         session[Pos + 1].type = "REMOVE_BUFFER", ~session[Pos + 1].whole,
         \A i \in DOMAIN Wire : Wire[i] # R!NullMessage,
         Wire' = Append(Wire, R!NullMessage), Broken' <=> Broken
  PROVE  R!Next
<1>1. Over' = Over /\ Broken' = Broken
  BY DEF Broken, Over
<1> QED BY <1>1 DEF R!Next, R!PlayCut, Pos, Wire, Broken, Over

\* What is recorded before the replay extends the session.
LEMMA Records ==
  ASSUME Pos = 0, sent = <<>>, ~Over, Len(session') > Len(session),
         SubSeq(session', 1, Len(session)) = session,
         UNCHANGED <<next, busy, sent, fault, peer, src, pc>>
  PROVE  R!Next
<1>1. Wire = <<>> /\ Wire' = Wire
  BY DEF Wire
<1>2. Pos' = Pos /\ Broken' = Broken /\ Over' = Over
  BY DEF Pos, Broken, Over
<1> QED BY <1>1, <1>2 DEF R!Next, R!Record, Pos, Wire, Broken, Over

\* A call fails.
LEMMA CallFails ==
  ASSUME UNCHANGED <<session, sent, next, busy>>, ~Over, Over', fault'
  PROVE  R!Next
<1>1. Pos' = Pos /\ Broken'
  BY DEF Pos, Broken
<1> QED BY <1>1, Stops

\* One more message on the wire.
LEMMA WireAppend ==
  ASSUME sent \in Seq(Sent), NEW m \in Sent, sent' = Append(sent, m)
  PROVE  /\ Wire' = Append(Wire, [type |-> m.type, rh |-> m.rh])
         /\ Wire' = Wire \o <<[type |-> m.type, rh |-> m.rh]>>
<1> DEFINE n == Len(sent)
           x == [type |-> m.type, rh |-> m.rh]
           Pair == [type : R!Sendable \cup {"0"}, rh : Remote \cup {NoRemote}]
           W == [i \in 1 .. n |-> [type |-> sent[i].type, rh |-> sent[i].rh]]
           V == [i \in 1 .. n + 1 |-> [type |-> sent'[i].type, rh |-> sent'[i].rh]]
<1>1. /\ sent' \in Seq(Sent) /\ Len(sent') = n + 1 /\ n \in Nat
      /\ \A i \in 1 .. n : sent'[i] = sent[i]
      /\ sent'[n + 1] = m
  BY AppendSent
<1>2. DOMAIN sent = 1 .. n /\ DOMAIN sent' = 1 .. n + 1
  BY <1>1
<1>3. Wire = W /\ Wire' = V
  BY <1>2 DEF Wire
<1>4. x \in Pair
  BY DEF Sent
<1>5. ASSUME NEW i \in 1 .. n
      PROVE  [type |-> sent[i].type, rh |-> sent[i].rh] \in Pair
  <2>1. sent[i] \in Sent
    BY <1>1
  <2> QED BY <2>1 DEF Sent
<1>6. W \in [1 .. n -> Pair]
  BY <1>5
<1>7. ASSUME NEW i \in 1 .. n + 1
      PROVE  V[i] = IF i = n + 1 THEN x ELSE W[i]
  <2>1. CASE i = n + 1
    BY <1>1, <2>1
  <2>2. CASE i # n + 1
    <3>1. i \in 1 .. n
      BY <1>1, <2>2
    <3> QED BY <1>1, <2>2, <3>1
  <2> QED BY <2>1, <2>2
<1>8. V = [i \in 1 .. n + 1 |-> IF i = n + 1 THEN x ELSE W[i]]
  BY <1>7
<1>9. n \in Nat
  BY <1>1
<1> HIDE DEF W, x, n, Pair, V
<1>10. W \in Seq(Pair) /\ Len(W) = n
  BY <1>6, <1>9
<1>11. Append(W, x) = V
  <2> DEFINE A == Append(W, x)
  <2>1. /\ A \in Seq(Pair) /\ Len(A) = n + 1
        /\ \A i \in 1 .. n : A[i] = W[i]
        /\ A[n + 1] = x
    BY <1>4, <1>10, AppendProperties
  <2> HIDE DEF A
  <2>2. A \in [1 .. n + 1 -> Pair]
    BY <1>9, <2>1
  <2>3. \A i \in 1 .. n + 1 : A[i] = IF i = n + 1 THEN x ELSE W[i]
    BY <1>9, <2>1
  <2> QED BY <1>8, <2>2, <2>3 DEF A
<1>12. W \o <<x>> = V
  BY <1>4, <1>10, <1>11, AppendIsConcat
<1> QED BY <1>3, <1>11, <1>12 DEF x

\* A request, and the answer that the recording client logs behind it.
Answered(t, u) == \/ t = "DISPLAY_REQ" /\ u = "DISPLAY_ACK"
                  \/ t = "DISPINFO_REQ" /\ u = "DISPINFO_ACK"
                  \/ t = "DISPPORT_REQ" /\ u = "DISPPORT_ACK"

\* What is never logged alone.
Coupled == {"DISPLAY_ACK", "DISPINFO_ACK", "DISPPORT_ACK", "DISPPORT_REQ"}

\* What the recording adds to the session, and what it means for the buffers of
\* the server: a buffer is created when there is none of its name.
Added(events) ==
  /\ events \in Seq(Message) /\ Len(events) \in {1, 2} /\ Len(events) # 0
  /\ session' = session \o events /\ servers' = servers
  /\ events[1].type = "CREATE_BUFFER" => /\ events[1].rh \notin created
                                         /\ created' = created \cup {events[1].rh}
  /\ events[1].type = "REMOVE_BUFFER" => created' = created \ {events[1].rh}
  /\ events[1].type \notin {"CREATE_BUFFER", "REMOVE_BUFFER"} => created' = created
  /\ Len(events) = 1 => events[1].type \notin Coupled
  /\ Len(events) = 2 => Answered(events[1].type, events[2].type)

\* A step of the recording is a new server or adds events.
LEMMA RecordingCases ==
  ASSUME Recording
  PROVE  RecordRestart \/ \E events : Added(events)
<1>1. ASSUME NEW t \in LogEvents, NEW r \in Remote \cup {NoRemote}, NEW c \in BOOLEAN, NEW w \in BOOLEAN
      PROVE  LET e == Event(t, r, c, w) IN e \in Message /\ e.type = t /\ e.rh = r
  BY DEF Event, Message
<1>2. \A t \in {"CREATE_BUFFER", "REMOVE_BUFFER", "DISPLAY_REQ", "DISPINFO_REQ", "DISPPORT_REQ",
                "DISPLAY_ACK", "DISPINFO_ACK", "DISPPORT_ACK", "SETUP_RESOLUTION",
                "SET_VIDEO_ALPHA_REQ", "UNKNOWN"} : t \in LogEvents
  BY DEF LogEvents, RecvEvents, SendEvents
<1>3. ASSUME NEW e \in Message, session' = session \o <<e>>, servers' = servers,
             e.type = "CREATE_BUFFER" => e.rh \notin created /\ created' = created \cup {e.rh},
             e.type = "REMOVE_BUFFER" => created' = created \ {e.rh},
             e.type \notin {"CREATE_BUFFER", "REMOVE_BUFFER"} => created' = created,
             e.type \notin Coupled
      PROVE  \E events : Added(events)
  <2> DEFINE events == <<e>>
  <2>1. /\ events \in Seq(Message) /\ Len(events) = 1 /\ events[1] = e
        /\ session' = session \o events
    BY <1>3
  <2> HIDE DEF events
  <2>2. Added(events)
    BY <1>3, <2>1 DEF Added
  <2> QED BY <2>2
<1>4. ASSUME NEW e \in Message, NEW f \in Message, session' = session \o <<e, f>>, servers' = servers,
             created' = created, Answered(e.type, f.type)
      PROVE  \E events : Added(events)
  <2> DEFINE events == <<e, f>>
  <2>1. /\ events \in Seq(Message) /\ Len(events) = 2 /\ events[1] = e /\ events[2] = f
        /\ session' = session \o events
    BY <1>4
  <2> HIDE DEF events
  <2>2. Added(events)
    BY <1>4, <2>1 DEF Added, Answered
  <2> QED BY <2>2
<1>5. ASSUME NEW e \in Message, NEW f \in Message, NEW two \in BOOLEAN,
             session' = session \o (<<e>> \o IF two THEN <<f>> ELSE <<>>), servers' = servers,
             created' = created, Answered(e.type, f.type), e.type # "DISPPORT_REQ"
      PROVE  \E events : Added(events)
  <2>1. CASE two
    <3>1. session' = session \o <<e, f>>
      BY <1>5, <2>1
    <3> QED BY <1>4, <1>5, <3>1
  <2>2. CASE ~two
    <3>1. session' = session \o <<e>>
      BY <1>5, <2>2
    <3> QED BY <1>3, <1>5, <3>1 DEF Answered, Coupled
  <2> QED BY <2>1, <2>2
<1> DEFINE no == FALSE
           yes == TRUE
<1>6. no \in BOOLEAN /\ yes \in BOOLEAN
  OBVIOUS
<1>7. ASSUME NEW r \in Remote, NEW whole \in BOOLEAN, RecordCreate(r, whole)
      PROVE  \E events : Added(events)
  <2> DEFINE e == Event("CREATE_BUFFER", r, no, whole)
  <2>1. /\ session' = session \o <<e>> /\ created' = created \cup {r} /\ servers' = servers
        /\ r \notin created
    BY <1>7 DEF RecordCreate, Record
  <2> HIDE DEF no
  <2>2. e \in Message /\ e.type = "CREATE_BUFFER" /\ e.rh = r
    BY <1>1, <1>2, <1>6
  <2> HIDE DEF e
  <2> QED BY <1>3, <2>1, <2>2 DEF Coupled
<1>8. ASSUME NEW r \in Remote, NEW whole \in BOOLEAN, RecordRemove(r, whole)
      PROVE  \E events : Added(events)
  <2> DEFINE e == Event("REMOVE_BUFFER", r, no, whole)
  <2>1. session' = session \o <<e>> /\ created' = created \ {r} /\ servers' = servers
    BY <1>8 DEF RecordRemove, Record
  <2> HIDE DEF no
  <2>2. e \in Message /\ e.type = "REMOVE_BUFFER" /\ e.rh = r
    BY <1>1, <1>2, <1>6
  <2> HIDE DEF e
  <2> QED BY <1>3, <2>1, <2>2 DEF Coupled
<1>9. ASSUME NEW r \in Remote, NEW ctrl \in BOOLEAN, NEW whole \in BOOLEAN, NEW acked \in BOOLEAN,
             RecordDisplay(r, ctrl, whole, acked)
      PROVE  \E events : Added(events)
  <2> DEFINE e == Event("DISPLAY_REQ", r, ctrl, whole)
             f == Event("DISPLAY_ACK", r, no, yes)
  <2>1. /\ session' = session \o (<<e>> \o IF acked THEN <<f>> ELSE <<>>)
        /\ created' = created /\ servers' = servers
    BY <1>9 DEF RecordDisplay, Record
  <2> HIDE DEF no, yes
  <2>2. e \in Message /\ f \in Message /\ e.type = "DISPLAY_REQ" /\ f.type = "DISPLAY_ACK"
    <3>1. /\ "DISPLAY_REQ" \in LogEvents /\ "DISPLAY_ACK" \in LogEvents
          /\ NoRemote \in Remote \cup {NoRemote}
      BY <1>2
    <3> QED BY <1>1, <1>6, <3>1
  <2> HIDE DEF e, f
  <2> QED BY <1>5, <2>1, <2>2 DEF Answered
<1>10. ASSUME NEW accepted \in BOOLEAN, RecordDispInfo(accepted)
       PROVE  \E events : Added(events)
  <2> DEFINE e == Event("DISPINFO_REQ", NoRemote, no, yes)
             f == Event("DISPINFO_ACK", NoRemote, no, yes)
  <2>1. /\ session' = session \o (<<e>> \o IF accepted THEN <<f>> ELSE <<>>)
        /\ created' = created /\ servers' = servers
    BY <1>10 DEF RecordDispInfo, Record
  <2> HIDE DEF no, yes
  <2>2. e \in Message /\ f \in Message /\ e.type = "DISPINFO_REQ" /\ f.type = "DISPINFO_ACK"
    <3>1. /\ "DISPINFO_REQ" \in LogEvents /\ "DISPINFO_ACK" \in LogEvents
          /\ NoRemote \in Remote \cup {NoRemote}
      BY <1>2
    <3> QED BY <1>1, <1>6, <3>1
  <2> HIDE DEF e, f
  <2> QED BY <1>5, <2>1, <2>2 DEF Answered
<1>11. CASE RecordDispPort
  <2> DEFINE e == Event("DISPPORT_REQ", NoRemote, no, yes)
             f == Event("DISPPORT_ACK", NoRemote, no, yes)
  <2>1. session' = session \o <<e, f>> /\ created' = created /\ servers' = servers
    BY <1>11 DEF RecordDispPort, Record
  <2> HIDE DEF no, yes
  <2>2. e \in Message /\ f \in Message /\ e.type = "DISPPORT_REQ" /\ f.type = "DISPPORT_ACK"
    <3>1. /\ "DISPPORT_REQ" \in LogEvents /\ "DISPPORT_ACK" \in LogEvents
          /\ NoRemote \in Remote \cup {NoRemote}
      BY <1>2
    <3> QED BY <1>1, <1>6, <3>1
  <2> HIDE DEF e, f
  <2> QED BY <1>4, <2>1, <2>2 DEF Answered
<1>12. CASE RecordUnknown \/ \E type \in {"SETUP_RESOLUTION", "SET_VIDEO_ALPHA_REQ"} : RecordUser(type)
  <2>1. PICK t \in {"UNKNOWN", "SETUP_RESOLUTION", "SET_VIDEO_ALPHA_REQ"} :
          session' = session \o <<Event(t, NoRemote, no, yes)>> /\ created' = created /\ servers' = servers
    BY <1>12 DEF RecordUnknown, RecordUser, Record
  <2> DEFINE e == Event(t, NoRemote, no, yes)
  <2> HIDE DEF no, yes
  <2>2. t \in LogEvents /\ NoRemote \in Remote \cup {NoRemote}
    BY <1>2
  <2>3. e \in Message /\ e.type = t
    BY <1>1, <1>6, <2>2
  <2>4. session' = session \o <<e>>
    BY <2>1
  <2> HIDE DEF e
  <2> QED BY <1>3, <2>1, <2>3, <2>4 DEF Coupled
<1> QED BY <1>7, <1>8, <1>9, <1>10, <1>11, <1>12 DEF Recording

\* The recording.
LEMMA RecordStep ==
  ASSUME AicInv, Recording
  PROVE  R!Next \/ UNCHANGED R!vars
<1>1. pc = "record" /\ UNCHANGED <<emuVars, wireVars>>
  BY DEF Recording, RecordCreate, RecordRemove, RecordDisplay, RecordDispInfo, RecordDispPort,
         RecordUnknown, RecordUser, Record, RecordRestart
<1>2. UNCHANGED <<next, busy, sent, fault, peer, src, pc>>
  BY <1>1 DEF emuVars, wireVars
<1>3. Pos = 0 /\ sent = <<>> /\ ~Over /\ session \in Seq(Message)
  BY <1>1 DEF AicInv, ReplayInv, PhaseInv, LogInv, Pos, Over, Before
<1>4. CASE session' = session
  <2>1. Pos' = Pos /\ (Broken' <=> Broken) /\ (Over' <=> Over)
    BY <1>2 DEF Pos, Broken, Over
  <2> QED BY <1>2, <1>4, <2>1, Stutters
<1>5. ASSUME NEW events \in Seq(Message), Len(events) # 0, session' = session \o events
      PROVE  R!Next
  <2>1. /\ Len(session') = Len(session) + Len(events) /\ Len(session) \in Nat /\ Len(events) \in Nat
        /\ SubSeq(session', 1, Len(session)) = session
    BY <1>3, <1>5, Grown
  <2>2. Len(session') > Len(session)
    BY <1>5, <2>1
  <2> QED BY <1>2, <1>3, <2>1, <2>2, Records
<1>6. \/ session' = session
      \/ \E events \in Seq(Message) : Len(events) # 0 /\ session' = session \o events
  <2>1. CASE RecordRestart
    BY <2>1 DEF RecordRestart
  <2>2. CASE \E events : Added(events)
    BY <2>2 DEF Added
  <2> QED BY <2>1, <2>2, RecordingCases
<1> QED BY <1>4, <1>5, <1>6

\* The start of the emulator.
LEMMA StartStep ==
  ASSUME AicInv, ParseArgs \/ InitFiles \/ InitGfx \/ InitSocket \/ Accept
  PROVE  R!Next \/ UNCHANGED R!vars
<1>1. UNCHANGED <<session, sent, next, busy, peer>> /\ ~Over
  BY DEF ParseArgs, InitFiles, InitGfx, InitSocket, Accept, Goto, wireVars, recordVars, Over
<1>2. Pos' = Pos
  BY <1>1 DEF Pos
<1>3. CASE Over' /\ fault'
  BY <1>1, <1>3, CallFails
<1>4. CASE ParseArgs
  <2>1. ~Broken /\ fault' = fault
    BY <1>4 DEF ParseArgs, Goto, AicInv, ReplayInv, PhaseInv, Broken
  <2>2. CASE src' = "missing" /\ Over'
    BY <1>1, <1>2, <2>1, <2>2, Stops DEF Broken
  <2>3. CASE src' = "half" /\ ~Over'
    BY <1>1, <1>2, <2>1, <2>3, Breaks DEF Broken
  <2>4. CASE src' = "good" /\ ~Over'
    <3>1. ~Broken'
      BY <1>1, <2>1, <2>4 DEF Broken
    <3> QED BY <1>1, <1>2, <2>1, <2>4, <3>1, Stutters
  <2> QED BY <1>4, <2>2, <2>3, <2>4 DEF ParseArgs, Goto, Over
<1>5. CASE InitFiles \/ InitGfx \/ InitSocket \/ Accept
  <2>1. src' = src
    BY <1>5 DEF InitFiles, InitGfx, InitSocket, Accept
  <2>2. CASE ~Over' /\ fault' = fault
    <3>1. Broken' <=> Broken
      BY <1>1, <2>1, <2>2 DEF Broken
    <3> QED BY <1>1, <1>2, <2>2, <3>1, Stutters
  <2>3. CASE Over' /\ src = "half"
    BY <1>1, <1>2, <2>1, <2>3, Stops DEF Broken
  <2> QED BY <1>3, <1>5, <2>2, <2>3 DEF InitFiles, InitGfx, InitSocket, Accept, Goto, Fails, Over
<1> QED BY <1>4, <1>5

\* A document is taken.
LEMMA NextStep ==
  ASSUME AicInv, ProcessNextEntry
  PROVE  R!Next \/ UNCHANGED R!vars
<1>1. UNCHANGED <<session, sent, peer, src>> /\ pc = "next" /\ ~Over
  BY DEF ProcessNextEntry, Goto, wireVars, recordVars, Over
<1>2. /\ ~busy /\ next \in 0 .. Len(session) /\ Len(session) \in Nat /\ Len(log) = Len(session)
      /\ \A r \in Remote : Listed(session, r, next) => boList[r] # NoObject
  BY <1>1 DEF AicInv, ReplayInv, LogInv, PhaseInv, ListInv
<1>3. (fault' = fault => (Broken' <=> Broken)) /\ Pos = next
  BY <1>1, <1>2 DEF Broken, Pos
<1>4. CASE next = Len(log) /\ pc' = "exit" /\ UNCHANGED <<next, busy, fault>>
  <2>1. Over' /\ Pos' = Pos /\ Pos = Len(session)
    BY <1>2, <1>3, <1>4 DEF Over, Pos
  <2> QED BY <1>1, <1>3, <1>4, <2>1, Stops
<1>5. CASE /\ next < Len(log) /\ next' = next + 1 /\ busy' = TRUE
           /\ pc' = Dispatch(DecodeNode(log[next + 1])) /\ UNCHANGED fault
  <2> DEFINE k == next + 1
             to == Dispatch(DecodeNode(log[k]))
  <2>1. k \in 1 .. Len(session) /\ k - 1 = next
    BY <1>2, <1>5
  <2>2. Pos' = Pos /\ Pos + 1 = k
    BY <1>2, <1>3, <1>5 DEF Pos
  <2>3. \A r \in Remote : Listed(session, r, k - 1) => boList[r] # NoObject
    BY <1>2, <2>1
  <2>4. to \in {"exit", "write", "alloc", "frame", "recv"} /\ (to = "exit" => ~R!Replayable(session[k]))
    BY <2>1, <2>3, DispatchFacts DEF AicInv, ReplayInv
  <2>5. pc' = to
    BY <1>5
  <2> HIDE DEF k, to
  <2>6. CASE to = "exit"
    <3>1. Over' /\ ~R!Replayable(session[Pos + 1])
      BY <2>2, <2>4, <2>5, <2>6 DEF Over
    <3> QED BY <1>1, <1>3, <1>5, <2>2, <3>1, Stops
  <2>7. CASE to # "exit"
    <3>1. ~Over'
      BY <2>4, <2>5, <2>7 DEF Over
    <3> QED BY <1>1, <1>3, <1>5, <2>2, <3>1, Stutters
  <2> QED BY <2>6, <2>7
<1>6. CASE next < Len(log) /\ next' = next + 1 /\ busy' = TRUE /\ pc' = "exit" /\ fault' = TRUE
  <2>1. Pos' = Pos /\ Over' /\ Broken'
    BY <1>2, <1>3, <1>6 DEF Pos, Over, Broken
  <2> QED BY <1>1, <2>1, Stops
<1> QED BY <1>4, <1>5, <1>6 DEF ProcessNextEntry, Goto, Fails

\* A buffer is allocated, a frame is read and copied.
LEMMA DrawStep ==
  ASSUME AicInv, Alloc \/ GetOneFrame \/ CopyFrame
  PROVE  R!Next \/ UNCHANGED R!vars
<1>1. UNCHANGED <<session, sent, next, busy, peer>> /\ ~Over
  BY DEF Alloc, GetOneFrame, CopyFrame, Goto, wireVars, recordVars, Over
<1>2. Pos' = Pos
  BY <1>1 DEF Pos
<1>3. CASE Over' /\ fault'
  BY <1>1, <1>3, CallFails
<1>4. CASE Over' /\ src' = "small"
  BY <1>1, <1>2, <1>4, Stops DEF Broken
<1>5. CASE ~Over' /\ UNCHANGED <<src, fault>>
  <2>1. Broken' <=> Broken
    BY <1>1, <1>5 DEF Broken
  <2> QED BY <1>1, <1>2, <1>5, <2>1, Stutters
<1> QED BY <1>3, <1>4, <1>5 DEF Alloc, GetOneFrame, CopyFrame, Goto, Fails, Over

\* A part of a message is written: the last one makes it a message of the session.
LEMMA WriteStep ==
  ASSUME AicInv, WritePart
  PROVE  R!Next \/ UNCHANGED R!vars
<1>1. UNCHANGED <<session, peer, src, next>> /\ pc = "write" /\ ~Over
  BY WriteCases DEF recordVars, Over
<1>2. busy /\ busy \in BOOLEAN /\ next \in 1 .. Len(session) /\ Len(session) \in Nat
  BY <1>1 DEF AicInv, ReplayInv, LogInv, PhaseInv, Within
<1>3. Pos = next - 1 /\ Pos + 1 = next /\ Pos < Len(session)
  BY <1>2 DEF Pos
<1>4. CASE UNCHANGED <<pc, sent, busy, fault>>
  <2>1. Pos' = Pos /\ (Broken' <=> Broken) /\ (Over' <=> Over)
    BY <1>1, <1>4 DEF Pos, Broken, Over
  <2> QED BY <1>1, <1>4, <2>1, Stutters
<1>5. CASE pc' \in Ended /\ UNCHANGED <<sent, busy>> /\ ((peer = "closed" /\ UNCHANGED fault) \/ fault' = TRUE)
  <2>1. Pos' = Pos /\ Over' /\ Broken'
    BY <1>1, <1>5 DEF Pos, Over, Broken, Ended
  <2> QED BY <1>1, <1>5, <2>1, Stops
<1>6. CASE /\ sent' = Append(sent, MessageOf(Entry))
           /\ busy' = (Entry.event.type = "0")
           /\ pc' = IF Entry.type = "REMOVE_BUFFER" THEN "clear" ELSE "next"
           /\ UNCHANGED fault
  <2> DEFINE m == MessageOf(Entry)
             e == session[next]
  <2>1. /\ m \in Sent
        /\ \/ e.type \in R!Sendable /\ R!Replayable(e) /\ m.type = e.type /\ m.rh = e.rh
              /\ Entry.event.type # "0"
           \/ e.type = "REMOVE_BUFFER" /\ ~e.whole /\ m.type = "0" /\ m.rh = NoRemote
              /\ Entry.event.type = "0"
    BY <1>1, MessageFacts DEF AicInv, ReplayInv, TypeOK
  <2>2. sent \in Seq(Sent) /\ sent' = Append(sent, m)
    BY <1>6 DEF AicInv, SentInv
  <2>3. (Broken' <=> Broken) /\ ~Over'
    BY <1>1, <1>6 DEF Broken, Over
  <2> HIDE DEF m
  <2>4. /\ Wire' = Append(Wire, [type |-> m.type, rh |-> m.rh])
        /\ Wire' = Wire \o <<[type |-> m.type, rh |-> m.rh]>>
    BY <2>1, <2>2, WireAppend
  <2>5. CASE e.type \in R!Sendable /\ R!Replayable(e) /\ m.type = e.type /\ m.rh = e.rh
             /\ Entry.event.type # "0"
    <3>1. Pos' = Pos + 1
      BY <1>1, <1>3, <1>6, <2>5 DEF Pos
    <3>2. Wire' = Wire \o R!Message(e)
      BY <2>4, <2>5 DEF R!Message
    <3>3. e = session[Pos + 1]
      BY <1>3
    <3> HIDE DEF e
    <3> QED BY <1>1, <1>3, <2>3, <2>5, <3>1, <3>2, <3>3, Plays
  <2>6. CASE e.type = "REMOVE_BUFFER" /\ ~e.whole /\ m.type = "0" /\ m.rh = NoRemote
             /\ Entry.event.type = "0"
    <3>1. Pos' = Pos
      BY <1>1, <1>3, <1>6, <2>6 DEF Pos
    <3>2. Wire' = Append(Wire, R!NullMessage)
      BY <2>4, <2>6 DEF R!NullMessage
    <3>3. ASSUME NEW i \in DOMAIN Wire
          PROVE  Wire[i] # R!NullMessage
      <4>1. i \in 1 .. Len(sent) /\ Wire[i].type = sent[i].type
        BY <2>2 DEF Wire
      <4>2. sent[i].type # "0"
        BY <1>1, <4>1 DEF AicInv, ReplayInv, ZeroInv, Within
      <4>3. R!NullMessage.type = "0"
        BY DEF R!NullMessage
      <4> QED BY <4>1, <4>2, <4>3
    <3>4. e = session[Pos + 1]
      BY <1>3
    <3> HIDE DEF e
    <3> QED BY <1>1, <1>3, <2>3, <2>6, <3>1, <3>2, <3>3, <3>4, PlaysCut
  <2> QED BY <2>1, <2>5, <2>6
<1> QED BY <1>4, <1>5, <1>6, WriteCases

\* A buffer is removed.  Without a failing call this ends the replay only for a
\* REMOVE_BUFFER that was cut: a whole one names a buffer that is listed.
LEMMA ClearStep ==
  ASSUME AicInv, Clear
  PROVE  R!Next \/ UNCHANGED R!vars
<1>1. UNCHANGED <<session, sent, next, busy, peer, src>> /\ pc = "clear" /\ ~Over
  BY DEF Clear, Goto, wireVars, recordVars, Over
<1>2. Pos' = Pos
  BY <1>1 DEF Pos
<1>3. CASE Over' /\ fault'
  BY <1>1, <1>3, CallFails
<1>4. CASE ~Over' /\ fault' = fault
  <2>1. Broken' <=> Broken
    BY <1>1, <1>4 DEF Broken
  <2> QED BY <1>1, <1>2, <1>4, <2>1, Stutters
<1>5. CASE Over' /\ fault' = fault /\ GetBo(Entry.event.rh) = NoObject
  <2>1. /\ next \in 1 .. Len(session) /\ session[next].type = "REMOVE_BUFFER"
        /\ (busy <=> ~session[next].whole)
        /\ session[next].type \notin {"UNKNOWN", "SET_VIDEO_ALPHA_REQ"}
        /\ session[next].type \in BufferEvents
    BY <1>1 DEF AicInv, ReplayInv, PhaseInv, EntryInv, Within, BufferEvents
  <2>2. ~session[next].whole
    <3> SUFFICES ASSUME session[next].whole PROVE FALSE
      OBVIOUS
    <3>1. R!Replayable(session[next]) /\ session[next].type \in R!Sendable
      BY <2>1, WholeRemove DEF AicInv, ReplayInv, R!Sendable
    <3>2. Entry.event.rh = session[next].rh /\ session[next].rh \in Remote
      BY <2>1, <3>1, EntryFacts DEF AicInv, ReplayInv
    <3>3. Listed(session, session[next].rh, next - 1)
      BY <2>1 DEF AicInv, ReplayInv, LegalInv
    <3>4. boList[session[next].rh] # NoObject
      BY <1>1, <3>2, <3>3 DEF AicInv, ReplayInv, ListInv, Within
    <3> QED BY <1>5, <3>2, <3>4 DEF GetBo
  <2>3. Pos = next - 1
    BY <2>1, <2>2 DEF Pos
  <2>4. Pos + 1 = next
    BY <2>1, <2>3
  <2>5. ~R!Replayable(session[Pos + 1])
    BY <2>2, <2>4 DEF R!Replayable
  <2>6. Broken => Broken'
    BY <1>1, <1>5 DEF Broken
  <2> QED BY <1>1, <1>2, <1>5, <2>5, <2>6, Stops
<1> QED BY <1>3, <1>4, <1>5 DEF Clear, Goto, Fails, Over

\* A reply is read.
LEMMA ReplyStep ==
  ASSUME AicInv, ReadReply
  PROVE  R!Next \/ UNCHANGED R!vars
<1>1. UNCHANGED <<session, sent, next, peer, src>> /\ pc = "recv" /\ ~Over
  BY DEF ReadReply, Goto, recordVars, Over
<1>2. CASE pc' = "exit" /\ fault' /\ UNCHANGED busy
  <2>1. Over'
    BY <1>2 DEF Over
  <2> QED BY <1>1, <1>2, <2>1, CallFails
<1>3. CASE pc' = "next" /\ busy' = FALSE /\ fault' = fault
  <2>1. /\ busy /\ next \in 1 .. Len(session) /\ Len(session) \in Nat
        /\ session[next].type \in R!Awaitable /\ R!Replayable(session[next])
    BY <1>1 DEF AicInv, ReplayInv, LogInv, PhaseInv, EntryInv, Within
  <2>2. Pos = next - 1 /\ Pos + 1 = next /\ Pos < Len(session)
    BY <2>1 DEF Pos
  <2>3. Pos' = Pos + 1
    BY <1>1, <1>3, <2>2 DEF Pos
  <2>4. (Broken' <=> Broken) /\ ~Over'
    BY <1>1, <1>3 DEF Broken, Over
  <2>5. R!Message(session[next]) = <<>>
    BY <2>1 DEF R!Message, R!Awaitable, R!Sendable
  <2>6. Wire' = Wire /\ Wire \o <<>> = Wire
    <3>1. sent \in Seq(Sent) /\ Len(sent) \in Nat
      BY DEF AicInv, SentInv
    <3>2. DOMAIN sent = 1 .. Len(sent)
      BY <3>1
    <3> DEFINE Any == {[type |-> sent[i].type, rh |-> sent[i].rh] : i \in 1 .. Len(sent)}
    <3>3. Wire \in [1 .. Len(sent) -> Any]
      BY <3>2 DEF Wire
    <3> HIDE DEF Any
    <3>4. Wire \in Seq(Any)
      BY <3>1, <3>3
    <3>5. Wire \o <<>> = Wire
      BY <3>4, ConcatEmptySeq
    <3> QED BY <1>1, <3>5 DEF Wire
  <2> QED BY <1>1, <2>1, <2>2, <2>3, <2>4, <2>5, <2>6, Plays
<1> QED BY <1>2, <1>3 DEF ReadReply, Goto, Fails

\* The client can only break the replay.
LEMMA ClientStep ==
  ASSUME AicInv, Client
  PROVE  R!Next \/ UNCHANGED R!vars
<1>1. UNCHANGED <<recordVars, emuVars, sent>>
  BY DEF Client, ClientConnect, ClientHandle, ClientUser, ClientClose
<1>2. UNCHANGED <<session, sent, next, busy, fault, src, pc>>
  BY <1>1 DEF recordVars, emuVars
<1>3. Pos' = Pos /\ (Over' <=> Over)
  BY <1>2 DEF Pos, Over
<1>4. CASE peer' = peer \/ (peer = "none" /\ peer' = "open")
  <2>1. Broken' <=> Broken
    BY <1>2, <1>4 DEF Broken
  <2> QED BY <1>2, <1>3, <2>1, Stutters
<1>5. CASE peer' = "closed"
  <2>1. Broken'
    BY <1>5 DEF Broken
  <2> QED BY <1>2, <1>3, <2>1, Stutters, Breaks
<1> QED BY <1>4, <1>5 DEF Client, ClientConnect, ClientHandle, ClientUser, ClientClose

\* The log, the parser and the exchange together replay the session that was
\* recorded (ReplayFaithful): every step of them is one of Replay or none.
THEOREM ImplementsReplay == Spec => ReplayFaithful
<1>1. Init => R!Init
  <2> SUFFICES ASSUME Init PROVE R!Init
    OBVIOUS
  <2>1. /\ session = <<>> /\ next = 0 /\ busy = FALSE /\ sent = <<>> /\ fault = FALSE
        /\ peer = "none" /\ src = "unset" /\ pc = "record"
    BY DEF Init
  <2>2. Pos = 0 /\ Wire = <<>> /\ ~Broken /\ ~Over
    BY <2>1 DEF Pos, Wire, Broken, Over
  <2> QED BY <2>1, <2>2 DEF R!Init, Pos, Wire, Broken, Over
<1>2. AicInv /\ [Next]_vars => [R!Next]_(R!vars)
  <2> SUFFICES ASSUME AicInv, [Next]_vars PROVE R!Next \/ UNCHANGED R!vars
    OBVIOUS
  <2>1. CASE UNCHANGED vars
    <3>1. UNCHANGED <<session, sent, next, busy, fault, peer, src, pc>>
      BY <2>1 DEF vars, recordVars, emuVars, wireVars
    <3>2. Pos' = Pos /\ (Broken' <=> Broken) /\ (Over' <=> Over)
      BY <3>1 DEF Pos, Broken, Over
    <3> QED BY <3>1, <3>2, Stutters
  <2>2. CASE Exit
    <3>1. UNCHANGED <<session, sent, next, busy, fault, peer, src>> /\ pc = "exit" /\ pc' = "done"
      BY <2>2 DEF Exit, Goto, recordVars, wireVars
    <3>2. Pos' = Pos /\ (Broken' <=> Broken) /\ (Over' <=> Over)
      BY <3>1 DEF Pos, Broken, Over
    <3> QED BY <3>1, <3>2, Stutters
  <2>3. CASE Emulator
    BY <2>2, <2>3, StartStep, NextStep, DrawStep, WriteStep, ClearStep, ReplyStep DEF Emulator
  <2> QED BY <2>1, <2>3, RecordStep, StartStep, ClientStep DEF Next
<1> QED BY <1>1, <1>2, InvHolds, PTL DEF Spec, ReplayFaithful, R!Spec

-----------------------------------------------------------------------------
(* The content is shown in order.                                           *)

\* The frame last shown by the messages of s is f; 0 stands for none as well.
Tally(s, f) ==
  \/ f = 0 /\ \A j \in 1 .. Len(s) : s[j].type # "DISPLAY_REQ"
  \/ \E j \in 1 .. Len(s) : /\ s[j].type = "DISPLAY_REQ" /\ s[j].frame = f
                            /\ \A k \in j + 1 .. Len(s) : s[k].type # "DISPLAY_REQ"

\* The frame read is yet to be shown.
Drawn == pc = "copy" \/ (pc = "write" /\ session[next].type = "DISPLAY_REQ")

\* The stream stands where the frame last read says, and that frame is the one
\* shown last, or the one behind it.
FrameInv ==
  /\ pc \notin Ended => (IF eof THEN 0 ELSE clip) = pFrame
  /\ pc \notin Ended /\ Drawn =>
       \E f \in 0 .. ClipFrames : Tally(sent, f) /\ pFrame = (f + 1) % (ClipFrames + 1)
  /\ pc \notin Ended /\ ~Drawn => Tally(sent, pFrame)

\* The frame behind f; behind the last comes the empty one.
LEMMA FrameBehind ==
  ASSUME NEW f \in 0 .. ClipFrames
  PROVE  (f + 1) % (ClipFrames + 1) = IF f = ClipFrames THEN 0 ELSE f + 1
<1> DEFINE c == ClipFrames + 1
           g == f + 1
<1>1. c \in Nat /\ c > 0 /\ g \in 1 .. c
  BY ClipAssumption
<1> HIDE DEF c, g
<1>2. g = c => g % c = 0
  BY <1>1
<1>3. g # c => g % c = g
  BY <1>1
<1> QED BY <1>2, <1>3, ClipAssumption DEF c, g

\* One more message is written.
LEMMA ContentAppend ==
  ASSUME sent \in Seq(Sent), NEW m \in Sent, sent' = Append(sent, m), ContentInOrder,
         m.type = "DISPLAY_REQ" =>
           \E f \in 0 .. ClipFrames : Tally(sent, f) /\ m.frame = (f + 1) % (ClipFrames + 1)
  PROVE  ContentInOrder'
<1> DEFINE n == Len(sent)
<1>1. /\ sent' \in Seq(Sent) /\ Len(sent') = n + 1 /\ n \in Nat
      /\ \A i \in 1 .. n : sent'[i] = sent[i]
      /\ sent'[n + 1] = m
  BY AppendSent
<1>2. DOMAIN sent = 1 .. n /\ DOMAIN sent' = 1 .. n + 1
  BY <1>1
<1> HIDE DEF n
<1>3. \A i \in 1 .. n : Shows(i)' <=> Shows(i)
  BY <1>1 DEF Shows
<1>4. ASSUME NEW i \in DOMAIN sent', Shows(i)'
      PROVE  \/ sent'[i].frame = 1 /\ \A j \in 1 .. i - 1 : ~Shows(j)'
             \/ \E j \in 1 .. i - 1 : /\ Shows(j)' /\ \A k \in j + 1 .. i - 1 : ~Shows(k)'
                                      /\ sent'[i].frame = (sent'[j].frame + 1) % (ClipFrames + 1)
  <2>1. CASE i \in 1 .. n
    <3>1. Shows(i) /\ i \in DOMAIN sent /\ sent'[i] = sent[i]
      BY <1>1, <1>2, <1>3, <1>4, <2>1
    <3>2. \A j \in 1 .. i - 1 : j \in 1 .. n
      BY <1>1, <2>1
    <3>3. CASE sent[i].frame = 1 /\ \A j \in 1 .. i - 1 : ~Shows(j)
      BY <1>3, <3>1, <3>2, <3>3
    <3>4. ASSUME NEW j \in 1 .. i - 1, Shows(j), \A k \in j + 1 .. i - 1 : ~Shows(k),
                 sent[i].frame = (sent[j].frame + 1) % (ClipFrames + 1)
          PROVE  \E l \in 1 .. i - 1 : /\ Shows(l)' /\ \A k \in l + 1 .. i - 1 : ~Shows(k)'
                                       /\ sent'[i].frame = (sent'[l].frame + 1) % (ClipFrames + 1)
      <4>1. Shows(j)' /\ sent'[j] = sent[j]
        BY <1>1, <1>3, <3>2, <3>4
      <4>2. \A k \in j + 1 .. i - 1 : k \in 1 .. i - 1
        BY <2>1
      <4>3. \A k \in j + 1 .. i - 1 : ~Shows(k)'
        BY <1>3, <3>2, <3>4, <4>2
      <4> QED BY <3>1, <3>4, <4>1, <4>3
    <3> QED BY <3>1, <3>3, <3>4 DEF ContentInOrder
  <2>2. CASE i = n + 1
    <3>1. m.type = "DISPLAY_REQ" /\ sent'[i] = m /\ i - 1 = n
      BY <1>1, <1>4, <2>2 DEF Shows
    <3>2. PICK f \in 0 .. ClipFrames : Tally(sent, f) /\ m.frame = (f + 1) % (ClipFrames + 1)
      BY <3>1
    <3>3. CASE f = 0 /\ \A j \in 1 .. Len(sent) : sent[j].type # "DISPLAY_REQ"
      <4>1. m.frame = 1
        BY <3>2, <3>3, FrameBehind, ClipAssumption
      <4>2. \A j \in 1 .. n : ~Shows(j)'
        BY <1>3, <3>3 DEF Shows, n
      <4> QED BY <3>1, <4>1, <4>2
    <3>4. ASSUME NEW j \in 1 .. Len(sent), sent[j].type = "DISPLAY_REQ", sent[j].frame = f,
                 \A k \in j + 1 .. Len(sent) : sent[k].type # "DISPLAY_REQ"
          PROVE  \E l \in 1 .. i - 1 : /\ Shows(l)' /\ \A k \in l + 1 .. i - 1 : ~Shows(k)'
                                       /\ sent'[i].frame = (sent'[l].frame + 1) % (ClipFrames + 1)
      <4>1. j \in 1 .. n /\ Shows(j)' /\ sent'[j] = sent[j]
        BY <1>1, <1>3, <3>4 DEF Shows, n
      <4>2. \A k \in j + 1 .. n : k \in 1 .. n
        BY <1>1, <4>1
      <4>3. \A k \in j + 1 .. n : ~Shows(k)'
        BY <1>3, <3>4, <4>2 DEF Shows, n
      <4> QED BY <3>1, <3>2, <3>4, <4>1, <4>3
    <3> QED BY <3>2, <3>3, <3>4 DEF Tally
  <2> QED BY <1>1, <1>2, <2>1, <2>2
<1> QED BY <1>4 DEF ContentInOrder

\* The last frame shown after one more message.
LEMMA TallyAppend ==
  ASSUME sent \in Seq(Sent), NEW m \in Sent, NEW f, sent' = Append(sent, m),
         IF m.type = "DISPLAY_REQ" THEN m.frame = f ELSE Tally(sent, f)
  PROVE  Tally(sent', f)
<1> DEFINE n == Len(sent)
<1>1. /\ Len(sent') = n + 1 /\ n \in Nat
      /\ \A i \in 1 .. n : sent'[i] = sent[i]
      /\ sent'[n + 1] = m
  BY AppendSent
<1> HIDE DEF n
<1>2. CASE m.type = "DISPLAY_REQ"
  <2>1. n + 1 \in 1 .. Len(sent') /\ \A k \in n + 1 + 1 .. Len(sent') : FALSE
    BY <1>1
  <2> QED BY <1>1, <1>2, <2>1 DEF Tally
<1>3. CASE m.type # "DISPLAY_REQ"
  <2>1. CASE f = 0 /\ \A j \in 1 .. Len(sent) : sent[j].type # "DISPLAY_REQ"
    <3>1. \A j \in 1 .. n + 1 : j \in 1 .. n \/ j = n + 1
      BY <1>1
    <3> QED BY <1>1, <1>3, <2>1, <3>1 DEF Tally, n
  <2>2. ASSUME NEW j \in 1 .. Len(sent), sent[j].type = "DISPLAY_REQ", sent[j].frame = f,
               \A k \in j + 1 .. Len(sent) : sent[k].type # "DISPLAY_REQ"
        PROVE  Tally(sent', f)
    <3>1. j \in 1 .. n + 1 /\ j \in 1 .. n
      BY <1>1 DEF n
    <3>2. \A k \in j + 1 .. n + 1 : k = n + 1 \/ (k \in j + 1 .. n /\ k \in 1 .. n)
      BY <1>1, <3>1
    <3>3. \A k \in j + 1 .. n + 1 : sent'[k].type # "DISPLAY_REQ"
      BY <1>1, <1>3, <2>2, <3>2 DEF n
    <3> QED BY <1>1, <2>2, <3>1, <3>3 DEF Tally
  <2> QED BY <1>3, <2>1, <2>2 DEF Tally
<1> QED BY <1>2, <1>3

\* A step that leaves the stream and the messages alone keeps them in step.
LEMMA FrameSame ==
  ASSUME FrameInv, UNCHANGED <<sent, pFrame, clip, eof>>, pc' \in Ended \/ (pc \notin Ended /\ (Drawn' <=> Drawn))
  PROVE  FrameInv'
BY DEF FrameInv

\* A frame is read.
LEMMA FrameRead ==
  ASSUME TypeOK, ReplayInv, FrameInv, GetOneFrame
  PROVE  FrameInv'
<1> DEFINE at == IF eof THEN 0 ELSE clip
<1>1. at = pFrame /\ pFrame \in 0 .. ClipFrames /\ clip \in 0 .. ClipFrames /\ eof \in BOOLEAN
  BY DEF GetOneFrame, Goto, FrameInv, TypeOK, Ended
<1>2. sent' = sent /\ pc = "frame"
  BY DEF GetOneFrame, wireVars, Goto
<1>3. CASE pc' = "exit"
  BY <1>3 DEF FrameInv, Ended
<1>4. CASE /\ pc' = "copy"
           /\ eof' = (at = ClipFrames)
           /\ clip' = IF at = ClipFrames THEN at ELSE at + 1
           /\ pFrame' = IF at = ClipFrames THEN 0 ELSE at + 1
  <2>1. (IF eof' THEN 0 ELSE clip') = pFrame'
    BY <1>4
  <2>2. Tally(sent, pFrame)
    BY <1>2 DEF FrameInv, Drawn, Ended
  <2>3. pFrame' = (pFrame + 1) % (ClipFrames + 1)
    BY <1>1, <1>4, FrameBehind
  <2>4. Drawn'
    BY <1>4 DEF Drawn
  <2> QED BY <1>1, <1>2, <2>1, <2>2, <2>3, <2>4 DEF FrameInv
<1> QED BY <1>3, <1>4 DEF GetOneFrame, Goto

\* A message is written.
LEMMA FrameWritten ==
  ASSUME AicInv, FrameInv, ContentInOrder, WritePart
  PROVE  FrameInv' /\ ContentInOrder'
<1>1. UNCHANGED <<session, next, clip, eof, pFrame>> /\ pc = "write" /\ pc \notin Ended
  BY WriteCases DEF recordVars, Ended
<1>2. CASE UNCHANGED <<pc, sent>>
  <2>1. Drawn' <=> Drawn
    BY <1>1, <1>2 DEF Drawn
  <2> QED BY <1>1, <1>2, <2>1, FrameSame DEF ContentInOrder, Shows
<1>3. CASE pc' \in Ended /\ sent' = sent
  BY <1>1, <1>3, FrameSame DEF ContentInOrder, Shows
<1>4. CASE /\ sent' = Append(sent, MessageOf(Entry))
           /\ pc' = IF Entry.type = "REMOVE_BUFFER" THEN "clear" ELSE "next"
  <2> DEFINE m == MessageOf(Entry)
  <2>1. m \in Sent /\ Entry.type = session[next].type /\ (m.type = "DISPLAY_REQ" <=> session[next].type = "DISPLAY_REQ")
    BY <1>1, MessageFacts DEF AicInv, ReplayInv, TypeOK
  <2>2. m.type = "DISPLAY_REQ" => m.frame = pFrame
    BY <2>1 DEF MessageOf
  <2>3. sent \in Seq(Sent) /\ sent' = Append(sent, m)
    BY <1>4 DEF AicInv, SentInv
  <2> HIDE DEF m
  <2>4. Drawn <=> m.type = "DISPLAY_REQ"
    BY <1>1, <2>1 DEF Drawn
  <2>5. m.type = "DISPLAY_REQ" =>
          \E f \in 0 .. ClipFrames : Tally(sent, f) /\ m.frame = (f + 1) % (ClipFrames + 1)
    BY <1>1, <2>2, <2>4 DEF FrameInv
  <2>6. ContentInOrder'
    BY <2>1, <2>3, <2>5, ContentAppend
  <2>7. m.type # "DISPLAY_REQ" => Tally(sent, pFrame)
    BY <1>1, <2>4 DEF FrameInv
  <2>8. Tally(sent', pFrame)
    BY <2>1, <2>2, <2>3, <2>7, TallyAppend
  <2>9. ~Drawn'
    BY <1>4 DEF Drawn
  <2> QED BY <1>1, <2>6, <2>8, <2>9 DEF FrameInv
<1> QED BY <1>2, <1>3, <1>4, WriteCases

\* Every step keeps the frames in order.
LEMMA FrameKept ==
  ASSUME AicInv, FrameInv, ContentInOrder, [Next]_vars
  PROVE  FrameInv' /\ ContentInOrder'
<1>1. CASE GetOneFrame
  BY <1>1, FrameRead DEF AicInv, GetOneFrame, wireVars, ContentInOrder, Shows
<1>2. CASE WritePart
  BY <1>2, FrameWritten
<1>3. ASSUME UNCHANGED <<sent, pFrame, clip, eof>>, pc' \in Ended \/ (pc \notin Ended /\ (Drawn' <=> Drawn))
      PROVE  FrameInv' /\ ContentInOrder'
  BY <1>3, FrameSame DEF ContentInOrder, Shows
<1>4. CASE UNCHANGED vars
  BY <1>3, <1>4 DEF vars, recordVars, emuVars, wireVars, Drawn, Ended, FrameInv, ContentInOrder, Shows
<1>5. CASE Recording
  <2>1. pc = "record" /\ UNCHANGED <<emuVars, wireVars>>
    BY <1>5 DEF Recording, RecordCreate, RecordRemove, RecordDisplay, RecordDispInfo, RecordDispPort,
                RecordUnknown, RecordUser, Record, RecordRestart
  <2> QED BY <1>3, <2>1 DEF emuVars, wireVars, Drawn, Ended
<1>6. CASE Client
  <2>1. UNCHANGED <<recordVars, emuVars, sent>> /\ (pc \notin Ended)
    BY <1>6 DEF Client, ClientConnect, ClientHandle, ClientUser, ClientClose, Up, Ended
  <2> QED BY <1>3, <2>1 DEF recordVars, emuVars, Drawn
<1>7. CASE ParseArgs \/ InitFiles \/ InitGfx \/ InitSocket \/ Accept \/ Exit
  <2>1. UNCHANGED <<sent, pFrame, clip, eof>>
    BY <1>7 DEF ParseArgs, InitFiles, InitGfx, InitSocket, Accept, Exit, wireVars
  <2>2. pc' \in Ended \/ (pc \notin Ended /\ ~Drawn /\ ~Drawn')
    BY <1>7 DEF ParseArgs, InitFiles, InitGfx, InitSocket, Accept, Exit, Goto, Ended, Drawn
  <2> QED BY <1>3, <2>1, <2>2
<1>8. CASE ProcessNextEntry
  <2>1. UNCHANGED <<sent, pFrame, clip, eof, session>> /\ pc = "next"
    BY <1>8 DEF ProcessNextEntry, wireVars, recordVars, Goto
  <2>2. CASE pc' = "exit"
    BY <1>3, <2>1, <2>2 DEF Ended
  <2>3. CASE next < Len(log) /\ next' = next + 1 /\ pc' = Dispatch(DecodeNode(log[next + 1]))
    <3> DEFINE k == next + 1
               to == Dispatch(DecodeNode(log[k]))
    <3>1. /\ next \in 0 .. Len(session) /\ Len(session) \in Nat /\ Len(log) = Len(session)
          /\ \A r \in Remote : Listed(session, r, next) => boList[r] # NoObject
      BY <2>1 DEF AicInv, ReplayInv, LogInv, PhaseInv, ListInv
    <3>2. k \in 1 .. Len(session) /\ k - 1 = next
      BY <2>3, <3>1
    <3>3. \A r \in Remote : Listed(session, r, k - 1) => boList[r] # NoObject
      BY <3>1, <3>2
    <3>4. /\ to \in {"exit", "write", "alloc", "frame", "recv"}
          /\ to = "write" => session[k].type # "DISPLAY_REQ"
      BY <3>2, <3>3, DispatchFacts DEF AicInv, ReplayInv
    <3>5. pc' = to /\ next' = k
      BY <2>3
    <3> HIDE DEF k, to
    <3>6. ~Drawn /\ ~Drawn' /\ pc \notin Ended
      BY <2>1, <3>4, <3>5 DEF Drawn, Ended
    <3> QED BY <1>3, <2>1, <3>6
  <2> QED BY <1>8, <2>2, <2>3 DEF ProcessNextEntry, Goto
<1>9. CASE Alloc
  <2>1. UNCHANGED <<sent, pFrame, clip, eof, session, next>> /\ pc = "alloc" /\ pc' \in {"write", "exit"}
    BY <1>9 DEF Alloc, wireVars, recordVars, Goto
  <2>2. session[next].type = "CREATE_BUFFER"
    BY <2>1 DEF AicInv, ReplayInv, EntryInv
  <2> QED BY <1>3, <2>1, <2>2 DEF Drawn, Ended
<1>10. CASE CopyFrame
  <2>1. UNCHANGED <<sent, pFrame, clip, eof, session, next>> /\ pc = "copy" /\ pc' \in {"write", "exit", "killed"}
    BY <1>10 DEF CopyFrame, wireVars, recordVars, Goto
  <2>2. session[next].type = "DISPLAY_REQ"
    BY <2>1 DEF AicInv, ReplayInv, EntryInv
  <2> QED BY <1>3, <2>1, <2>2 DEF Drawn, Ended
<1>11. CASE Clear \/ ReadReply
  <2>1. /\ UNCHANGED <<sent, pFrame, clip, eof>> /\ pc \in {"clear", "recv"} /\ pc' \in {"next", "exit"}
    BY <1>11 DEF Clear, ReadReply, wireVars, Goto
  <2> QED BY <1>3, <2>1 DEF Drawn, Ended
<1> QED BY <1>1, <1>2, <1>4, <1>5, <1>6, <1>7, <1>8, <1>9, <1>10, <1>11 DEF Next, Emulator

\* The frames of the content are shown one after the other, the empty one behind
\* the last included (ContentInOrder), whatever the log asks for in between.
THEOREM FramesInOrder == Spec => []ContentInOrder
<1>1. Init => FrameInv /\ ContentInOrder
  <2> SUFFICES ASSUME Init PROVE FrameInv /\ ContentInOrder
    OBVIOUS
  <2>1. eof = FALSE /\ clip = 0 /\ pFrame = 0 /\ sent = <<>> /\ pc = "record"
    BY DEF Init
  <2>2. Tally(sent, 0) /\ ContentInOrder
    BY <2>1 DEF Tally, ContentInOrder
  <2> QED BY <2>1, <2>2 DEF FrameInv, Drawn
<1>2. AicInv /\ FrameInv /\ ContentInOrder /\ [Next]_vars => FrameInv' /\ ContentInOrder'
  BY FrameKept
<1> QED BY <1>1, <1>2, InvHolds, PTL DEF Spec

-----------------------------------------------------------------------------
(* The objects of the device.                                               *)

\* What a copy leaves alone.
LEMMA CopyFields ==
  ASSUME objects \in Seq(Object), CopyFrame
  PROVE  /\ UNCHANGED boList /\ Len(objects') = Len(objects)
         /\ \A i \in 1 .. Len(objects) : objects'[i].open = objects[i].open /\ objects'[i].fd = objects[i].fd
<1>1. boList' = boList /\ Len(objects) \in Nat /\ DOMAIN objects = 1 .. Len(objects)
  BY DEF CopyFrame, Copy
<1>2. \/ objects' = objects
      \/ \E o : objects' = [objects EXCEPT ![o].maps = @ + 1]
      \/ \E o : objects' = [objects EXCEPT ![o].maps = @ + 1, ![o].frame = pFrame]
  BY DEF CopyFrame, Copy
<1>3. CASE objects' = objects
  BY <1>1, <1>3
<1>4. ASSUME NEW o, NEW v, objects' = [objects EXCEPT ![o] = v],
             o \in 1 .. Len(objects) => v.open = objects[o].open /\ v.fd = objects[o].fd
      PROVE  /\ Len(objects') = Len(objects)
             /\ \A i \in 1 .. Len(objects) : objects'[i].open = objects[i].open /\ objects'[i].fd = objects[i].fd
  <2> DEFINE S == {objects[i] : i \in 1 .. Len(objects)} \cup {v}
  <2>1. objects \in [1 .. Len(objects) -> S] /\ v \in S
    BY <1>1
  <2> HIDE DEF S
  <2>2. objects \in Seq(S)
    BY <1>1, <2>1
  <2>3. Len(objects') = Len(objects)
    BY <1>4, <2>1, <2>2, ObjectSet
  <2> QED BY <1>1, <1>4, <2>3
<1>5. ASSUME NEW o, objects' = [objects EXCEPT ![o].maps = @ + 1]
      PROVE  \E v : /\ objects' = [objects EXCEPT ![o] = v]
                    /\ o \in 1 .. Len(objects) => v.open = objects[o].open /\ v.fd = objects[o].fd
  <2> DEFINE v == [objects[o] EXCEPT !.maps = objects[o].maps + 1]
  <2>1. objects' = [objects EXCEPT ![o] = v]
    BY <1>5
  <2>2. o \in 1 .. Len(objects) => objects[o] \in Object
    OBVIOUS
  <2>3. o \in 1 .. Len(objects) => v.open = objects[o].open /\ v.fd = objects[o].fd
    BY <2>2 DEF Object
  <2> HIDE DEF v
  <2> QED BY <2>1, <2>3
<1>6. ASSUME NEW o, objects' = [objects EXCEPT ![o].maps = @ + 1, ![o].frame = pFrame]
      PROVE  \E v : /\ objects' = [objects EXCEPT ![o] = v]
                    /\ o \in 1 .. Len(objects) => v.open = objects[o].open /\ v.fd = objects[o].fd
  <2> DEFINE mid == [objects[o] EXCEPT !.maps = objects[o].maps + 1]
             v == [mid EXCEPT !.frame = pFrame]
             obs == [objects EXCEPT ![o] = mid]
  <2>1. objects' = [obs EXCEPT ![o] = [obs[o] EXCEPT !.frame = pFrame]]
    BY <1>6
  <2>2. o \in 1 .. Len(objects) => objects[o] \in Object
    OBVIOUS
  <2>3. o \in 1 .. Len(objects) =>
          mid.open = objects[o].open /\ mid.fd = objects[o].fd /\ mid \in [{"open", "fd", "maps", "frame"} -> {mid.open, mid.fd, mid.maps, mid.frame}]
    BY <2>2 DEF Object
  <2>4. objects' = [objects EXCEPT ![o] = v]
    <3>1. CASE o \in DOMAIN objects
      <4>1. obs[o] = mid
        BY <3>1
      <4> HIDE DEF mid
      <4> QED BY <2>1, <3>1, <4>1
    <3>2. CASE o \notin DOMAIN objects
      <4> HIDE DEF mid
      <4> QED BY <2>1, <3>2
    <3> QED BY <3>1, <3>2
  <2>5. o \in 1 .. Len(objects) => v.open = objects[o].open /\ v.fd = objects[o].fd
    <3> HIDE DEF mid
    <3> QED BY <2>3
  <2> HIDE DEF v
  <2> QED BY <2>4, <2>5
<1> QED BY <1>1, <1>2, <1>3, <1>4, <1>5, <1>6

\* What a step can do to the objects and to the list of them.
SameFields(n) == \A i \in 1 .. n : objects'[i].open = objects[i].open /\ objects'[i].fd = objects[i].fd

Untouched == boList' = boList /\ Len(objects') = Len(objects) /\ SameFields(Len(objects))

Orphaned == /\ boList' = boList /\ Len(objects') = Len(objects) + 1 /\ SameFields(Len(objects))
            /\ pc' \in Ended /\ fault'

Allocated ==
  LET r == session[next].rh
  IN /\ pc = "alloc" /\ pc' = "write" /\ r \in Remote
     /\ Len(objects') = Len(objects) + 1 /\ SameFields(Len(objects))
     /\ objects'[Len(objects) + 1].open /\ objects'[Len(objects) + 1].fd
     /\ boList' = IF boList[r] = NoObject THEN [boList EXCEPT ![r] = Len(objects) + 1] ELSE boList

Cleared ==
  LET r == session[next].rh
  IN /\ pc = "clear" /\ pc' = "next" /\ r \in Remote /\ boList[r] # NoObject /\ session[next].whole
     /\ Len(objects') = Len(objects)
     /\ \A i \in 1 .. Len(objects) : /\ objects'[i].fd = objects[i].fd
                                     /\ objects'[i].open <=> objects[i].open /\ i # boList[r]
     /\ boList' = [boList EXCEPT ![r] = NoObject]

Destroyed == /\ boList' = [r \in Remote |-> NoObject] /\ Len(objects') = Len(objects) /\ pc' \in Ended
             /\ \A i \in 1 .. Len(objects) : ~objects'[i].open

\* What a step may do to the buffer objects and to the list.
LEMMA GfxCases ==
  ASSUME AicInv, [Next]_vars
  PROVE  Untouched \/ Orphaned \/ Allocated \/ Cleared \/ Destroyed
<1>0. /\ objects \in Seq(Object) /\ Len(objects) \in Nat /\ DOMAIN objects = 1 .. Len(objects)
      /\ boList \in [Remote -> {NoObject} \cup 1 .. Len(objects)]
  BY DEF AicInv, TypeOK, GfxTypeOK, Object
<1>1. CASE UNCHANGED <<boList, objects>>
  BY <1>1 DEF Untouched, SameFields
<1>2. CASE CopyFrame
  BY <1>0, <1>2, CopyFields DEF Untouched, SameFields
<1>3. CASE Alloc
  <2>1. ASSUME NEW fd \in BOOLEAN, objects' = Append(objects, NewObject(fd))
        PROVE  /\ Len(objects') = Len(objects) + 1 /\ SameFields(Len(objects))
               /\ objects'[Len(objects) + 1] = NewObject(fd)
    BY <1>0, <2>1 DEF SameFields
  <2>2. CASE pc' = "exit" /\ fault' /\ boList' = boList /\ objects' = Append(objects, NewObject(FALSE))
    BY <2>1, <2>2 DEF Orphaned, Ended
  <2>3. CASE pc' = "write" /\ AllocateBo(Entry.event.rh, TRUE)
    <3>1. pc = "alloc"
      BY <1>3 DEF Alloc, Goto
    <3>2. next \in 1 .. Len(session) /\ session[next].type = "CREATE_BUFFER" /\ session[next].whole
      BY <3>1 DEF AicInv, ReplayInv, PhaseInv, EntryInv, Within
    <3>3. R!Replayable(session[next]) /\ session[next].type \in R!Sendable
      <4>1. WellFormed(session[next])
        BY <3>2 DEF AicInv, ReplayInv, LogInv
      <4> QED BY <3>2, <4>1 DEF R!Replayable, R!Sendable, WellFormed
    <3>4. Entry.event.rh = session[next].rh /\ session[next].rh \in Remote
      BY <3>2, <3>3, EntryFacts DEF AicInv, ReplayInv, BufferEvents
    <3> DEFINE r == session[next].rh
    <3>5. /\ objects' = Append(objects, NewObject(TRUE))
          /\ boList' = IF boList[r] = NoObject THEN [boList EXCEPT ![r] = Len(objects) + 1] ELSE boList
      BY <2>3, <3>4 DEF AllocateBo
    <3>6. /\ Len(objects') = Len(objects) + 1 /\ SameFields(Len(objects))
          /\ objects'[Len(objects) + 1] = NewObject(TRUE)
      BY <2>1, <3>5
    <3>7. objects'[Len(objects) + 1].open /\ objects'[Len(objects) + 1].fd
      BY <3>6 DEF NewObject
    <3> QED BY <2>3, <3>1, <3>4, <3>5, <3>6, <3>7 DEF Allocated
  <2> QED BY <1>1, <1>3, <2>2, <2>3 DEF Alloc, AllocateBo, Goto, Fails
<1>4. CASE Clear
  <2>1. CASE pc' = "next" /\ ClearBo(Entry.event.rh, TRUE)
    <3>1. pc = "clear"
      BY <1>4 DEF Clear, Goto
    <3>2. /\ next \in 1 .. Len(session) /\ session[next].type = "REMOVE_BUFFER"
          /\ session[next].type \notin {"UNKNOWN", "SET_VIDEO_ALPHA_REQ"}
          /\ session[next].type \in BufferEvents
      BY <3>1 DEF AicInv, ReplayInv, PhaseInv, EntryInv, Within, BufferEvents
    <3>3. session[next].whole
      <4>1. GetBo(Entry.event.rh) # NoObject
        BY <2>1 DEF ClearBo
      <4>2. GetBo(NoRemote) = NoObject
        BY RemoteAssumption DEF GetBo
      <4>3. ~session[next].whole => Entry.event.rh = NoRemote
        BY <3>2, EntryFacts DEF AicInv, ReplayInv
      <4> QED BY <4>1, <4>2, <4>3
    <3>4. R!Replayable(session[next]) /\ session[next].type \in R!Sendable
      BY <3>2, <3>3, WholeRemove DEF AicInv, ReplayInv, R!Sendable
    <3>5. Entry.event.rh = session[next].rh /\ session[next].rh \in Remote
      BY <3>2, <3>4, EntryFacts DEF AicInv, ReplayInv
    <3> DEFINE r == session[next].rh
               o == boList[r]
               v == [objects[o] EXCEPT !.open = FALSE]
    <3>6. /\ boList[r] # NoObject /\ boList' = [boList EXCEPT ![r] = NoObject]
          /\ objects' = [objects EXCEPT ![o] = v]
      BY <2>1, <3>5 DEF ClearBo, GetBo
    <3>7. o \in 1 .. Len(objects) /\ objects[o] \in Object
      BY <1>0, <3>5, <3>6
    <3>8. v \in Object /\ ~v.open /\ v.fd = objects[o].fd
      BY <3>7 DEF Object
    <3> HIDE DEF v, o
    <3>9. Len(objects') = Len(objects)
      BY <1>0, <3>6, <3>8, ObjectSet
    <3>10. \A i \in 1 .. Len(objects) : objects'[i] = IF i = o THEN v ELSE objects[i]
      BY <1>0, <3>6
    <3>11. \A i \in 1 .. Len(objects) : /\ objects'[i].fd = objects[i].fd
                                        /\ objects'[i].open <=> objects[i].open /\ i # boList[r]
      BY <3>8, <3>10 DEF o
    <3> QED BY <2>1, <3>1, <3>3, <3>5, <3>6, <3>9, <3>11 DEF Cleared
  <2> QED BY <1>1, <1>4, <2>1 DEF Clear, ClearBo, Goto
<1>5. CASE Exit
  <2>1. /\ boList' = [r \in Remote |-> NoObject] /\ pc' = "done"
        /\ objects' = [o \in 1 .. Len(objects) |-> [objects[o] EXCEPT !.open = FALSE]]
    BY <1>0, <1>5 DEF Exit, GfxDestroy, Goto
  <2>2. \A i \in 1 .. Len(objects) : [objects[i] EXCEPT !.open = FALSE] \in Object
    <3>1. \A i \in 1 .. Len(objects) : objects[i] \in Object
      BY <1>0
    <3> QED BY <3>1 DEF Object
  <2>3. objects' \in [1 .. Len(objects) -> Object]
    BY <2>1, <2>2
  <2>4. Len(objects') = Len(objects)
    BY <1>0, <2>3
  <2>5. ASSUME NEW i \in 1 .. Len(objects)
        PROVE  ~objects'[i].open
    <3>1. objects[i] \in Object /\ objects'[i] = [objects[i] EXCEPT !.open = FALSE]
      BY <1>0, <2>1
    <3> QED BY <3>1 DEF Object
  <2> QED BY <2>1, <2>4, <2>5 DEF Destroyed, Ended
<1>6. \/ UNCHANGED <<boList, objects>> \/ Alloc \/ CopyFrame \/ Clear \/ Exit
  <2>1. CASE UNCHANGED vars
    BY <2>1 DEF vars, gfxVars
  <2>2. CASE Recording
    BY <2>2 DEF Recording, RecordCreate, RecordRemove, RecordDisplay, RecordDispInfo, RecordDispPort,
                RecordUnknown, RecordUser, Record, RecordRestart, gfxVars
  <2>3. CASE ParseArgs
    BY <2>3 DEF ParseArgs, gfxVars
  <2>4. CASE Emulator
    BY <2>4, WriteCases
       DEF Emulator, InitFiles, InitGfx, GfxInit, InitSocket, Accept, ProcessNextEntry, GetOneFrame,
           ReadReply, gfxVars
  <2>5. CASE Client
    BY <2>5 DEF Client, ClientConnect, ClientHandle, ClientUser, ClientClose, gfxVars
  <2> QED BY <2>1, <2>2, <2>3, <2>4, <2>5 DEF Next
<1> QED BY <1>1, <1>2, <1>3, <1>4, <1>5, <1>6

-----------------------------------------------------------------------------
(* The list and the client's map stay in step.                              *)

\* What is listed is open, has a descriptor and is listed once.
OpenInv ==
  /\ \A r \in Remote : boList[r] # NoObject => objects[boList[r]].open /\ objects[boList[r]].fd
  /\ \A r, s \in Remote : boList[r] = boList[s] => r = s \/ boList[r] = NoObject

\* Every step keeps what is listed open, and listed once.
LEMMA OpenKept ==
  ASSUME AicInv, AicInv', OpenInv, [Next]_vars
  PROVE  OpenInv'
<1> USE DEF NoObject
<1>0. Len(objects) \in Nat /\ boList \in [Remote -> {0} \cup 1 .. Len(objects)]
  <2>1. objects \in Seq(Object) /\ boList \in [Remote -> {0} \cup DOMAIN objects]
    BY DEF AicInv, TypeOK, GfxTypeOK, Object
  <2> QED BY <2>1
<1>1. CASE Untouched \/ Orphaned
  <2>1. boList' = boList /\ SameFields(Len(objects))
    BY <1>1 DEF Untouched, Orphaned
  <2> QED BY <1>0, <2>1 DEF OpenInv, SameFields
<1>2. CASE Allocated
  <2> DEFINE r == session[next].rh
             n == Len(objects)
  <2>1. /\ r \in Remote /\ SameFields(n) /\ objects'[n + 1].open /\ objects'[n + 1].fd
        /\ boList' = IF boList[r] = 0 THEN [boList EXCEPT ![r] = n + 1] ELSE boList
    BY <1>2 DEF Allocated
  <2> HIDE DEF r, n
  <2>2. /\ n \in Nat /\ boList \in [Remote -> {0} \cup 1 .. n]
        /\ \A s \in Remote : boList[s] # n + 1
    BY <1>0 DEF n
  <2>3. \A s \in Remote : boList[s] # 0 => boList[s] \in 1 .. n
    BY <2>2
  <2>4. CASE boList[r] # 0
    BY <2>1, <2>3, <2>4 DEF OpenInv, SameFields
  <2>5. CASE boList[r] = 0
    <3>1. \A s \in Remote : boList'[s] = IF s = r THEN n + 1 ELSE boList[s]
      BY <2>1, <2>2, <2>5
    <3>2. ASSUME NEW s \in Remote, boList'[s] # 0
          PROVE  objects'[boList'[s]].open /\ objects'[boList'[s]].fd
      <4>1. CASE s = r
        BY <2>1, <3>1, <4>1
      <4>2. CASE s # r
        BY <2>1, <2>3, <3>1, <3>2, <4>2 DEF OpenInv, SameFields
      <4> QED BY <4>1, <4>2
    <3>3. ASSUME NEW s \in Remote, NEW t \in Remote, boList'[s] = boList'[t], s # t
          PROVE  boList'[s] = 0
      BY <2>2, <3>1, <3>3 DEF OpenInv
    <3> QED BY <3>2, <3>3 DEF OpenInv
  <2> QED BY <2>4, <2>5
<1>3. CASE Cleared
  <2> DEFINE r == session[next].rh
  <2>1. /\ r \in Remote /\ boList[r] # 0
        /\ \A i \in 1 .. Len(objects) : /\ objects'[i].fd = objects[i].fd
                                        /\ objects'[i].open <=> objects[i].open /\ i # boList[r]
        /\ boList' = [boList EXCEPT ![r] = 0]
    BY <1>3 DEF Cleared
  <2> HIDE DEF r
  <2>2. \A s \in Remote : boList'[s] = IF s = r THEN 0 ELSE boList[s]
    BY <1>0, <2>1
  <2>3. \A s \in Remote : boList[s] # 0 => boList[s] \in 1 .. Len(objects)
    BY <1>0
  <2>4. ASSUME NEW s \in Remote, boList'[s] # 0
        PROVE  objects'[boList'[s]].open /\ objects'[boList'[s]].fd
    <3>1. s # r /\ boList'[s] = boList[s] /\ boList[s] \in 1 .. Len(objects) /\ boList[s] # boList[r]
      BY <2>1, <2>2, <2>3, <2>4 DEF OpenInv
    <3>2. objects[boList[s]].open /\ objects[boList[s]].fd
      BY <2>4, <3>1 DEF OpenInv
    <3> QED BY <2>1, <3>1, <3>2
  <2>5. ASSUME NEW s \in Remote, NEW t \in Remote, boList'[s] = boList'[t], s # t
        PROVE  boList'[s] = 0
    BY <2>2, <2>5 DEF OpenInv
  <2> QED BY <2>4, <2>5 DEF OpenInv
<1>4. CASE Destroyed
  <2>1. \A s \in Remote : boList'[s] = 0
    BY <1>4 DEF Destroyed
  <2> QED BY <2>1 DEF OpenInv
<1> QED BY <1>1, <1>2, <1>3, <1>4, GfxCases

\* A session with one server creates a buffer only when it has none of that name.
OnceInv ==
  servers = 1 =>
    /\ \A r \in Remote : Listed(session, r, Len(session)) => r \in created
    /\ \A k \in 1 .. Len(session) :
         session[k].type = "CREATE_BUFFER" => ~Listed(session, session[k].rh, k - 1)

\* A server that creates no buffer twice goes on doing so.
LEMMA OnceRecorded ==
  ASSUME LogInv, LogInv', OnceInv, servers = 1, NEW events, Added(events)
  PROVE  OnceInv'
<1> DEFINE m == Len(session)
           n == Len(session')
<1>1. /\ n = m + Len(events) /\ m \in Nat /\ Len(events) \in {1, 2}
      /\ \A i \in 1 .. m : session'[i] = session[i]
      /\ \A i \in m + 1 .. n : session'[i] = events[i - m]
  <2>1. events \in Seq(Message) /\ session' = session \o events /\ session \in Seq(Message)
        /\ Len(events) \in {1, 2}
    BY DEF Added, LogInv
  <2> QED BY <2>1, Grown
<1> HIDE DEF m, n
<1>2. m + 1 \in Nat /\ m + 1 # 0 /\ m + 1 \in m + 1 .. n /\ m + 1 - m = 1 /\ (m + 1) - 1 = m
      /\ m + 1 \in 1 .. n
  <2>1. n \in Nat /\ m \in Nat /\ m + 1 <= n
    BY <1>1
  <2> QED BY <2>1
<1>3. session'[m + 1] = events[1]
  BY <1>1, <1>2
<1>4. n # m + 1 => n = m + 2 /\ n \in Nat /\ n # 0 /\ n - 1 = m + 1 /\ n \in m + 1 .. n /\ n - m = 2
                   /\ Len(events) = 2
  <2>1. m \in Nat /\ (n = m + 1 \/ (n = m + 2 /\ Len(events) = 2))
    BY <1>1
  <2>2. CASE n = m + 2 /\ Len(events) = 2
    BY <2>1, <2>2
  <2> QED BY <2>1, <2>2
<1>5. n # m + 1 => session'[n] = events[2] /\ events[2].type \notin {"CREATE_BUFFER", "REMOVE_BUFFER"}
  BY <1>1, <1>4 DEF Added, Answered
<1>6. ASSUME NEW r, Listed(session', r, m)
      PROVE  Listed(session, r, m)
  BY <1>1, <1>6, ListedSame
<1>7. ASSUME NEW r \in Remote, Listed(session', r, n)
      PROVE  r \in created'
  <2>1. Listed(session', r, m + 1)
    <3>1. CASE n = m + 1
      BY <1>7, <3>1
    <3>2. CASE n # m + 1
      BY <1>4, <1>5, <1>7, <3>2, ListedStep
    <3> QED BY <3>1, <3>2
  <2>2. /\ Listed(session', r, m) \/ (events[1].type = "CREATE_BUFFER" /\ events[1].rh = r)
        /\ ~(events[1].type = "REMOVE_BUFFER" /\ events[1].rh = r)
    <3> DEFINE k == m + 1
    <3>1. k \in Nat /\ k # 0 /\ k - 1 = m /\ session'[k] = events[1] /\ Listed(session', r, k)
      BY <1>2, <1>3, <2>1
    <3> HIDE DEF k
    <3>2. /\ Listed(session', r, k - 1) \/ (session'[k].type = "CREATE_BUFFER" /\ session'[k].rh = r)
          /\ ~(session'[k].type = "REMOVE_BUFFER" /\ session'[k].rh = r)
      BY <3>1, ListedStep
    <3> QED BY <3>1, <3>2
  <2>3. Listed(session, r, m) => r \in created
    BY DEF OnceInv, m
  <2> QED BY <1>6, <2>2, <2>3 DEF Added
<1>8. ASSUME NEW k \in 1 .. n, session'[k].type = "CREATE_BUFFER", Listed(session', session'[k].rh, k - 1)
      PROVE  FALSE
  <2>1. CASE k \in 1 .. m
    <3>1. k - 1 \in Nat /\ (\A i \in 1 .. k - 1 : i \in 1 .. m) /\ session'[k] = session[k]
      BY <1>1, <2>1
    <3>2. \A i \in 1 .. k - 1 : session[i] = session'[i]
      BY <1>1, <3>1
    <3>3. Listed(session, session[k].rh, k - 1)
      BY <1>8, <3>1, <3>2, ListedSame
    <3> QED BY <1>8, <2>1, <3>1, <3>3 DEF OnceInv, m
  <2>2. CASE k = m + 1
    <3>1. events[1].type = "CREATE_BUFFER" /\ Listed(session, events[1].rh, m)
      <4>1. k - 1 = m /\ session'[k] = events[1]
        BY <1>2, <1>3, <2>2
      <4> QED BY <1>6, <1>8, <4>1
    <3>2. events[1].rh \notin created
      BY <3>1 DEF Added
    <3>3. WellFormed(session'[m + 1])
      BY <1>2 DEF LogInv, n
    <3>4. events[1].rh \in Remote
      BY <1>3, <3>1, <3>3 DEF WellFormed, BufferEvents
    <3> QED BY <3>1, <3>2, <3>4 DEF OnceInv, m
  <2>3. CASE k = n /\ n # m + 1
    BY <1>5, <1>8, <2>3
  <2>4. k \in 1 .. m \/ k = m + 1 \/ (k = n /\ n # m + 1)
    BY <1>1, <1>4
  <2> QED BY <2>1, <2>2, <2>3, <2>4
<1> QED BY <1>7, <1>8 DEF OnceInv, n

\* A failure is never forgotten, and the server is one only if there was one.
LEMMA HistoryKept ==
  ASSUME TypeOK, [Next]_vars
  PROVE  (fault => fault') /\ (servers' = 1 => servers = 1 /\ ~RecordRestart)
<1>1. fault => fault'
  <2>1. CASE UNCHANGED vars
    BY <2>1 DEF vars, emuVars
  <2>2. CASE Recording
    BY <2>2 DEF Recording, RecordCreate, RecordRemove, RecordDisplay, RecordDispInfo, RecordDispPort,
                RecordUnknown, RecordUser, Record, RecordRestart, emuVars
  <2>3. CASE ParseArgs
    BY <2>3 DEF ParseArgs
  <2>4. CASE Emulator
    BY <2>4 DEF Emulator, InitFiles, InitGfx, InitSocket, Accept, ProcessNextEntry, Alloc, GetOneFrame,
                CopyFrame, WritePart, Clear, ReadReply, Exit, Fails
  <2>5. CASE Client
    BY <2>5 DEF Client, ClientConnect, ClientHandle, ClientUser, ClientClose, emuVars
  <2> QED BY <2>1, <2>2, <2>3, <2>4, <2>5 DEF Next
<1>2. servers \in Nat /\ servers # 0
  BY BoundsAssumption DEF TypeOK
<1>3. CASE RecordRestart
  BY <1>1, <1>2, <1>3 DEF RecordRestart
<1>4. CASE ~RecordRestart
  <2>1. servers' = servers
    <3>1. CASE UNCHANGED vars
      BY <3>1 DEF vars, recordVars
    <3>2. CASE Recording
      BY <1>4, <3>2, RecordingCases DEF Added
    <3>3. CASE ParseArgs
      BY <3>3 DEF ParseArgs, recordVars
    <3>4. CASE Emulator
      BY <3>4, WriteCases
         DEF Emulator, InitFiles, InitGfx, InitSocket, Accept, ProcessNextEntry, Alloc, GetOneFrame,
             CopyFrame, Clear, ReadReply, Exit, recordVars
    <3>5. CASE Client
      BY <3>5 DEF Client, ClientConnect, ClientHandle, ClientUser, ClientClose, recordVars
    <3> QED BY <3>1, <3>2, <3>3, <3>4, <3>5 DEF Next
  <2> QED BY <1>1, <1>4, <2>1
<1> QED BY <1>3, <1>4

\* With one server, a buffer that is listed is one the session has at this point.
OnlyInv ==
  servers = 1 =>
    /\ pc \in Before => \A r \in Remote : boList[r] = NoObject
    /\ pc = "next" => \A r \in Remote : boList[r] # NoObject => Listed(session, r, next)
    /\ pc \in Within => \A r \in Remote : boList[r] # NoObject =>
         \/ Listed(session, r, next - 1)
         \/ pc = "write" /\ session[next].type = "CREATE_BUFFER" /\ session[next].rh = r

\* A buffer stays while it is not removed.
LEMMA ListedStays ==
  ASSUME NEW s, NEW k \in Nat, k # 0, NEW r, Listed(s, r, k - 1),
         s[k].type = "REMOVE_BUFFER" => s[k].rh # r
  PROVE  Listed(s, r, k)
<1> DEFINE m == k - 1
<1>1. m \in Nat /\ m <= k /\ \A i \in m + 1 .. k : i = k
  OBVIOUS
<1>2. Listed(s, r, m) /\ \A i \in 1 .. m : s[i] = s[i]
  OBVIOUS
<1> HIDE DEF m
<1>3. \A i \in m + 1 .. k : s[i].type = "REMOVE_BUFFER" => s[i].rh # r
  BY <1>1
<1> QED BY <1>1, <1>2, <1>3, ListedGrows

\* With one server, the list has nothing but the session's buffers.
LEMMA OnlyKept ==
  ASSUME AicInv, AicInv', OnlyInv, [Next]_vars, servers' = 1
  PROVE  OnlyInv'
<1>0. servers = 1 /\ ~RecordRestart
  BY HistoryKept DEF AicInv
<1>1. CASE pc' \in Ended
  BY <1>1 DEF OnlyInv, Before, Within, Ended
<1>2. CASE UNCHANGED <<pc, next, boList, session>>
  BY <1>0, <1>2 DEF OnlyInv
<1>3. CASE UNCHANGED boList /\ pc \in Before /\ pc' \in Before \cup {"next"}
  BY <1>0, <1>3 DEF OnlyInv, Before, Within
<1>4. CASE Recording
  <2>1. pc = "record" /\ pc' = pc /\ boList' = boList
    BY <1>4 DEF Recording, RecordCreate, RecordRemove, RecordDisplay, RecordDispInfo, RecordDispPort,
                RecordUnknown, RecordUser, Record, RecordRestart, emuVars, gfxVars
  <2> QED BY <1>3, <2>1 DEF Before
<1>5. CASE ParseArgs \/ InitFiles \/ InitGfx \/ InitSocket \/ Accept
  <2>1. boList' = boList /\ pc \in Before /\ pc' \in Before \cup {"next"} \cup Ended
    BY <1>5 DEF ParseArgs, InitFiles, InitGfx, GfxInit, InitSocket, Accept, Goto, gfxVars, Before, Ended
  <2> QED BY <1>1, <1>3, <2>1
<1>6. CASE ProcessNextEntry
  <2>1. UNCHANGED <<boList, session>> /\ pc = "next" /\ next \in Nat
    BY <1>6 DEF ProcessNextEntry, Goto, gfxVars, recordVars, AicInv, ReplayInv, PhaseInv, LogInv
  <2>2. CASE pc' = "exit"
    BY <1>1, <2>2 DEF Ended
  <2>3. CASE next' = next + 1 /\ busy' = TRUE
    <3>1. next' - 1 = next
      BY <2>1, <2>3
    <3>2. pc' # "next" /\ pc' \notin Before
      BY <2>3 DEF AicInv, ReplayInv, PhaseInv
    <3>3. \A r \in Remote : boList[r] # NoObject => Listed(session, r, next)
      BY <1>0, <2>1 DEF OnlyInv
    <3> QED BY <2>1, <3>1, <3>2, <3>3 DEF OnlyInv
  <2> QED BY <1>6, <2>2, <2>3 DEF ProcessNextEntry, Goto
<1>7. CASE GetOneFrame \/ CopyFrame
  <2>1. /\ UNCHANGED <<boList, session, next>> /\ pc \in {"frame", "copy"}
        /\ pc' \in {"copy", "write"} \cup Ended
    BY <1>7 DEF GetOneFrame, CopyFrame, Copy, Goto, gfxVars, recordVars, Ended
  <2>2. pc' \in {"copy", "write"} => pc' \in Within /\ pc' \notin Before /\ pc' # "next"
    BY DEF Within, Before
  <2> QED BY <1>0, <1>1, <2>1, <2>2 DEF OnlyInv, Within
<1>8. CASE Alloc
  <2>1. UNCHANGED <<session, next>> /\ pc = "alloc" /\ pc' \in {"write", "exit"}
    BY <1>8 DEF Alloc, Goto, recordVars
  <2>2. CASE pc' = "exit"
    BY <1>1, <2>2 DEF Ended
  <2>3. CASE pc' = "write"
    <3>1. session[next].type = "CREATE_BUFFER" /\ boList \in [Remote -> {NoObject} \cup DOMAIN objects]
      BY <2>1 DEF AicInv, ReplayInv, EntryInv, TypeOK, GfxTypeOK
    <3>2. boList' = boList \/ Allocated
      BY <2>1, <2>3, GfxCases DEF Untouched, Orphaned, Cleared, Destroyed, Ended
    <3>3. \A r \in Remote : r = session[next].rh \/ boList'[r] = boList[r]
      BY <3>1, <3>2 DEF Allocated
    <3>4. \A r \in Remote : boList[r] # NoObject => Listed(session, r, next - 1)
      BY <1>0, <2>1 DEF OnlyInv, Within
    <3>5. \A r \in Remote : boList'[r] # NoObject =>
            Listed(session, r, next - 1) \/ session[next].rh = r
      BY <3>3, <3>4
    <3>6. pc' \notin Before /\ pc' # "next"
      BY <2>3 DEF Before
    <3> QED BY <2>1, <2>3, <3>1, <3>5, <3>6 DEF OnlyInv
  <2> QED BY <2>1, <2>2, <2>3
<1>9. CASE WritePart
  <2>1. UNCHANGED <<boList, session, next>> /\ pc = "write"
    BY <1>9, WriteCases DEF recordVars, gfxVars
  <2>2. CASE UNCHANGED pc
    BY <1>2, <2>1, <2>2
  <2>3. CASE pc' = IF Entry.type = "REMOVE_BUFFER" THEN "clear" ELSE "next"
    <3>1. next \in Nat /\ next # 0 /\ next \in 1 .. Len(session) /\ Entry.type = session[next].type
      BY <2>1, MessageFacts DEF AicInv, ReplayInv, TypeOK, LogInv
    <3>2. \A r \in Remote : boList[r] # NoObject =>
            Listed(session, r, next - 1) \/ (session[next].type = "CREATE_BUFFER" /\ session[next].rh = r)
      BY <1>0, <2>1 DEF OnlyInv, Within
    <3>3. CASE Entry.type = "REMOVE_BUFFER"
      BY <2>1, <2>3, <3>1, <3>2, <3>3 DEF OnlyInv, Before, Within
    <3>4. CASE Entry.type # "REMOVE_BUFFER"
      <4>1. ASSUME NEW r \in Remote, boList[r] # NoObject
            PROVE  Listed(session, r, next)
        BY <3>1, <3>2, <3>4, <4>1, ListedStays, ListedNew
      <4> QED BY <2>1, <2>3, <3>4, <4>1 DEF OnlyInv, Before, Within
    <3> QED BY <3>3, <3>4
  <2> QED BY <1>1, <1>9, <2>2, <2>3, WriteCases
<1>10. CASE Clear
  <2>1. UNCHANGED <<session, next>> /\ pc = "clear" /\ pc' \in {"next", "exit"}
    BY <1>10 DEF Clear, Goto, recordVars
  <2>2. CASE pc' = "exit"
    BY <1>1, <2>2 DEF Ended
  <2>3. CASE pc' = "next"
    <3>1. next \in Nat /\ next # 0 /\ boList \in [Remote -> {NoObject} \cup DOMAIN objects]
      BY <2>1 DEF AicInv, ReplayInv, PhaseInv, LogInv, Within, TypeOK, GfxTypeOK
    <3>2. Cleared
      <4>1. ClearBo(Entry.event.rh, TRUE)
        BY <1>10, <2>3 DEF Clear, Goto
      <4>2. GetBo(Entry.event.rh) # NoObject
        BY <4>1 DEF ClearBo
      <4>3. Entry.event.rh \in Remote /\ boList[Entry.event.rh] # NoObject
        BY <4>2 DEF GetBo
      <4>4. boList' # boList
        BY <3>1, <4>1, <4>3 DEF ClearBo
      <4> QED BY <2>1, <2>3, <4>4, GfxCases DEF Untouched, Orphaned, Allocated, Destroyed, Ended
    <3>3. ASSUME NEW r \in Remote, boList'[r] # NoObject
          PROVE  Listed(session, r, next)
      <4>1. r # session[next].rh /\ boList[r] # NoObject
        BY <3>1, <3>2, <3>3 DEF Cleared
      <4>2. Listed(session, r, next - 1)
        BY <1>0, <2>1, <4>1 DEF OnlyInv, Within
      <4> QED BY <3>1, <4>1, <4>2, ListedStays
    <3> QED BY <2>1, <2>3, <3>3 DEF OnlyInv, Before, Within
  <2> QED BY <2>1, <2>2, <2>3
<1>11. CASE ReadReply
  <2>1. UNCHANGED <<boList, session, next>> /\ pc = "recv" /\ pc' \in {"next", "exit"}
    BY <1>11 DEF ReadReply, Goto, recordVars, gfxVars
  <2>2. CASE pc' = "exit"
    BY <1>1, <2>2 DEF Ended
  <2>3. CASE pc' = "next"
    <3>1. next \in Nat /\ next # 0 /\ session[next].type # "REMOVE_BUFFER"
      BY <2>1 DEF AicInv, ReplayInv, PhaseInv, LogInv, EntryInv, Within, R!Awaitable
    <3>2. ASSUME NEW r \in Remote, boList[r] # NoObject
          PROVE  Listed(session, r, next)
      <4>1. Listed(session, r, next - 1)
        BY <1>0, <2>1, <3>2 DEF OnlyInv, Within
      <4> QED BY <3>1, <4>1, ListedStays
    <3> QED BY <2>1, <2>3, <3>2 DEF OnlyInv, Before, Within
  <2> QED BY <2>1, <2>2, <2>3
<1>12. CASE Exit
  BY <1>1, <1>12 DEF Exit, Goto, Ended
<1>13. CASE Client \/ UNCHANGED vars
  <2>1. UNCHANGED <<pc, next, boList, session>>
    BY <1>13 DEF Client, ClientConnect, ClientHandle, ClientUser, ClientClose, vars, recordVars, emuVars, gfxVars
  <2> QED BY <1>2, <2>1
<1> QED BY <1>4, <1>5, <1>6, <1>7, <1>8, <1>9, <1>10, <1>11, <1>12, <1>13 DEF Next, Emulator

\* With one server and no failing call every open object is listed.
AllInv ==
  ~fault /\ servers = 1 =>
    \A o \in 1 .. Len(objects) : objects[o].open => \E r \in Remote : boList[r] = o

\* With one server and no fault, no open object is lost from the list.
LEMMA AllKept ==
  ASSUME AicInv, OnceInv, OnlyInv, AllInv, [Next]_vars
  PROVE  AllInv'
<1> USE DEF NoObject
<1> SUFFICES ASSUME ~fault', servers' = 1
             PROVE  \A o \in 1 .. Len(objects') : objects'[o].open => \E r \in Remote : boList'[r] = o
  BY DEF AllInv
<1>0. Len(objects) \in Nat /\ boList \in [Remote -> {0} \cup 1 .. Len(objects)]
  <2>1. objects \in Seq(Object) /\ boList \in [Remote -> {0} \cup DOMAIN objects]
    BY DEF AicInv, TypeOK, GfxTypeOK, Object
  <2> QED BY <2>1
<1>1. ~fault /\ servers = 1
  BY HistoryKept DEF AicInv
<1>2. \A o \in 1 .. Len(objects) : objects[o].open => \E r \in Remote : boList[r] = o
  BY <1>1 DEF AllInv
<1>3. CASE Untouched
  BY <1>2, <1>3 DEF Untouched, SameFields
<1>4. CASE Orphaned
  BY <1>4 DEF Orphaned
<1>5. CASE Allocated
  <2> DEFINE r == session[next].rh
             n == Len(objects)
  <2>1. /\ r \in Remote /\ SameFields(n) /\ Len(objects') = n + 1 /\ pc = "alloc"
        /\ boList' = IF boList[r] = 0 THEN [boList EXCEPT ![r] = n + 1] ELSE boList
    BY <1>5 DEF Allocated
  <2>2. next \in 1 .. Len(session) /\ session[next].type = "CREATE_BUFFER"
    BY <2>1 DEF AicInv, ReplayInv, PhaseInv, EntryInv, Within
  <2>3. ~Listed(session, r, next - 1)
    BY <1>1, <2>2 DEF OnceInv
  <2>4. boList[r] = 0
    BY <1>1, <2>1, <2>3 DEF OnlyInv, Within
  <2> HIDE DEF r, n
  <2>5. \A s \in Remote : boList'[s] = IF s = r THEN n + 1 ELSE boList[s]
    BY <1>0, <2>1, <2>4
  <2>6. ASSUME NEW o \in 1 .. n + 1, objects'[o].open
        PROVE  \E s \in Remote : boList'[s] = o
    <3>1. CASE o = n + 1
      BY <2>1, <2>5, <3>1
    <3>2. CASE o # n + 1
      <4>1. o \in 1 .. n /\ o # 0
        BY <1>0, <3>2 DEF n
      <4>2. PICK s \in Remote : boList[s] = o
        BY <1>2, <2>1, <2>6, <4>1 DEF SameFields, n
      <4>3. s # r
        BY <2>4, <4>1, <4>2
      <4> QED BY <2>5, <4>2, <4>3
    <3> QED BY <3>1, <3>2
  <2> QED BY <2>1, <2>6
<1>6. CASE Cleared
  <2> DEFINE r == session[next].rh
  <2>1. /\ r \in Remote /\ Len(objects') = Len(objects)
        /\ \A i \in 1 .. Len(objects) : objects'[i].open => objects[i].open /\ i # boList[r]
        /\ boList' = [boList EXCEPT ![r] = 0]
    BY <1>6 DEF Cleared
  <2> HIDE DEF r
  <2>2. \A s \in Remote : s # r => boList'[s] = boList[s]
    BY <1>0, <2>1
  <2> QED BY <1>2, <2>1, <2>2
<1>7. CASE Destroyed
  BY <1>7 DEF Destroyed
<1> QED BY <1>3, <1>4, <1>5, <1>6, <1>7, GfxCases

\* What a message does to the client's map.
Applied(h, msg) ==
  CASE msg.type = "CREATE_BUFFER" /\ h[msg.rh] = NoObject -> [h EXCEPT ![msg.rh] = msg.obj]
    [] msg.type = "REMOVE_BUFFER" -> [h EXCEPT ![msg.rh] = NoObject]
    [] OTHER -> h

Maps == [Remote -> Nat]

\* The maps that the client will have, message by message.
Run(h) ==
  /\ h \in [Nat -> Maps]
  /\ h[handled] = handles
  /\ \A i \in Nat : handled <= i /\ i < Len(sent) => h[i + 1] = Applied(h[i], sent[i + 1])

\* In the end it is the emulator's list, but for the message at hand.
Creating == pc = "write" /\ session[next].type = "CREATE_BUFFER"
Removing == pc = "clear" /\ ~busy

Agrees(e) ==
  /\ Creating => Applied(e, MessageOf(Entry)) = boList
  /\ Removing => e = [boList EXCEPT ![session[next].rh] = NoObject]
  /\ ~Creating /\ ~Removing => e = boList

AgreeInv == pc \notin Ended => \E h : Run(h) /\ Agrees(h[Len(sent)])

\* Handling a message leaves the client with a map.
LEMMA AppliedType ==
  ASSUME NEW h \in Maps, NEW msg, msg.obj \in Nat
  PROVE  Applied(h, msg) \in Maps
BY DEF Applied, Maps, NoObject

\* A step that neither writes nor handles keeps the run of maps.
LEMMA AgreeSame ==
  ASSUME AgreeInv, UNCHANGED <<handled, handles, sent>>, Len(sent) \in Nat,
         pc' \in Ended \/ (pc \notin Ended /\ \A e \in Maps : Agrees(e) => Agrees(e)')
  PROVE  AgreeInv'
<1>1. CASE pc' \in Ended
  BY <1>1 DEF AgreeInv
<1>2. CASE pc \notin Ended /\ \A e \in Maps : Agrees(e) => Agrees(e)'
  <2>1. PICK h : Run(h) /\ Agrees(h[Len(sent)])
    BY <1>2 DEF AgreeInv
  <2>2. h[Len(sent)] \in Maps
    BY <2>1 DEF Run
  <2>3. Run(h)'
    BY <2>1 DEF Run
  <2>4. Agrees(h[Len(sent)])'
    BY <1>2, <2>1, <2>2
  <2> QED BY <2>3, <2>4 DEF AgreeInv
<1> QED BY <1>1, <1>2

\* The last part of a message is written.
LEMMA AgreeWritten ==
  ASSUME AicInv, AgreeInv, WritePart
  PROVE  AgreeInv'
<1>1. /\ UNCHANGED <<handled, handles, session, log, next, boList, pFrame>> /\ pc = "write"
      /\ pc \notin Ended
  BY WriteCases DEF recordVars, gfxVars, clientVars, Ended
<1>2. sent \in Seq(Sent) /\ Len(sent) \in Nat /\ handled \in 0 .. Len(sent)
  BY DEF AicInv, SentInv, TypeOK
<1>3. CASE UNCHANGED <<pc, sent, busy>>
  <2>1. MessageOf(Entry)' = MessageOf(Entry)
    BY <1>1 DEF MessageOf, Entry, GetBo
  <2>2. (Creating' <=> Creating) /\ (Removing' <=> Removing)
    BY <1>1, <1>3 DEF Creating, Removing
  <2>3. \A e \in Maps : Agrees(e) => Agrees(e)'
    BY <1>1, <2>1, <2>2 DEF Agrees
  <2> QED BY <1>1, <1>2, <1>3, <2>3, AgreeSame
<1>4. CASE pc' \in Ended /\ sent' = sent
  BY <1>4 DEF AgreeInv
<1>5. CASE /\ sent' = Append(sent, MessageOf(Entry))
           /\ busy' = (Entry.event.type = "0")
           /\ pc' = IF Entry.type = "REMOVE_BUFFER" THEN "clear" ELSE "next"
  <2> DEFINE m == MessageOf(Entry)
             n == Len(sent)
             rh == session[next].rh
  <2>1. /\ m \in Sent /\ Entry.type = session[next].type
        /\ \/ /\ session[next].type \in R!Sendable /\ R!Replayable(session[next])
              /\ m.type = session[next].type /\ m.rh = rh /\ Entry.event.type # "0"
           \/ /\ session[next].type = "REMOVE_BUFFER"
              /\ m.type = "0" /\ Entry.event.type = "0"
    BY <1>1, MessageFacts DEF AicInv, ReplayInv, TypeOK
  <2>2. /\ sent' \in Seq(Sent) /\ Len(sent') = n + 1 /\ n \in Nat
        /\ \A i \in 1 .. n : sent'[i] = sent[i]
        /\ sent'[n + 1] = m
    BY <1>2, <1>5, <2>1, AppendSent
  <2>3. PICK h : Run(h) /\ Agrees(h[n])
    BY <1>1 DEF AgreeInv
  <2>4. m.obj \in Nat
    BY <2>1 DEF Sent
  <2>5. Creating => Applied(h[n], m) = boList
    BY <2>3 DEF Agrees
  <2>6. Creating <=> session[next].type = "CREATE_BUFFER"
    BY <1>1 DEF Creating
  <2>7. ~Creating => h[n] = boList
    BY <1>1, <2>3 DEF Agrees, Removing
  <2> HIDE DEF m, n
  <2>8. h \in [Nat -> Maps] /\ Applied(h[n], m) \in Maps
    BY <2>2, <2>3, <2>4, AppliedType DEF Run
  <2>9. PICK x \in Maps : x = Applied(h[n], m)
    BY <2>8
  <2>10. PICK g \in [Nat -> Maps] : g[n + 1] = x /\ \A i \in 0 .. n : g[i] = h[i]
    <3>1. /\ [h EXCEPT ![n + 1] = x] \in [Nat -> Maps]
          /\ [h EXCEPT ![n + 1] = x][n + 1] = x
          /\ \A i \in 0 .. n : [h EXCEPT ![n + 1] = x][i] = h[i]
      BY <2>2, <2>8
    <3> QED BY <3>1
  <2>11. Run(g)'
    <3>1. g[handled] = handles
      BY <1>2, <2>3, <2>10 DEF Run, n
    <3>2. ASSUME NEW i \in Nat, handled <= i, i < n + 1
          PROVE  g[i + 1] = Applied(g[i], sent'[i + 1])
      <4>1. CASE i = n
        BY <2>2, <2>10, <2>9, <4>1
      <4>2. CASE i # n
        <5>1. i \in 0 .. n /\ i + 1 \in 0 .. n /\ i + 1 \in 1 .. n /\ i < n
          BY <2>2, <3>2, <4>2
        <5>2. h[i + 1] = Applied(h[i], sent[i + 1])
          BY <2>3, <3>2, <5>1 DEF Run, n
        <5> QED BY <2>2, <2>10, <5>1, <5>2
      <4> QED BY <4>1, <4>2
    <3> QED BY <1>1, <2>2, <2>10, <3>1, <3>2 DEF Run
  <2>12. Agrees(x)'
    <3>1. CASE session[next].type = "CREATE_BUFFER"
      <4>1. pc' = "next"
        BY <1>5, <2>1, <3>1
      <4> QED BY <1>1, <2>5, <2>6, <2>9, <3>1, <4>1 DEF Agrees, Creating, Removing
    <3>2. CASE session[next].type = "REMOVE_BUFFER" /\ m.type = "REMOVE_BUFFER"
      <4>1. pc' = "clear" /\ ~busy' /\ m.rh = rh
        BY <1>5, <2>1, <3>2
      <4>2. h[n] = boList
        BY <2>6, <2>7, <3>2
      <4>3. x = [boList EXCEPT ![rh] = NoObject]
        BY <2>9, <3>2, <4>1, <4>2 DEF Applied
      <4> QED BY <1>1, <4>1, <4>3 DEF Agrees, Creating, Removing
    <3>3. CASE session[next].type = "REMOVE_BUFFER" /\ m.type = "0"
      <4>1. pc' = "clear" /\ busy'
        BY <1>5, <2>1, <3>3 DEF R!Sendable
      <4>2. x = boList
        BY <2>6, <2>7, <2>9, <3>3 DEF Applied
      <4> QED BY <1>1, <4>1, <4>2 DEF Agrees, Creating, Removing
    <3>4. CASE session[next].type \notin {"CREATE_BUFFER", "REMOVE_BUFFER"}
      <4>1. pc' = "next" /\ m.type \notin {"CREATE_BUFFER", "REMOVE_BUFFER"}
        BY <1>5, <2>1, <3>4
      <4>2. x = boList
        BY <2>6, <2>7, <2>9, <3>4, <4>1 DEF Applied
      <4> QED BY <1>1, <4>1, <4>2 DEF Agrees, Creating, Removing
    <3> QED BY <2>1, <3>1, <3>2, <3>3, <3>4
  <2>13. Agrees(g[Len(sent)])'
    BY <2>2, <2>10, <2>12
  <2> QED BY <2>11, <2>13 DEF AgreeInv
<1> QED BY <1>3, <1>4, <1>5, WriteCases

\* The client deals with a message.
LEMMA AgreeHandled ==
  ASSUME AicInv, AgreeInv, ClientHandle
  PROVE  AgreeInv'
<1> DEFINE msg == sent[handled + 1]
<1>1. /\ UNCHANGED <<session, log, next, busy, boList, pFrame, pc, sent>> /\ handled < Len(sent)
      /\ handled' = handled + 1
      /\ pc \notin Ended
  BY DEF ClientHandle, recordVars, emuVars, gfxVars, Up, Ended
<1>2. handles' = Applied(handles, msg)
  BY DEF ClientHandle, Applied
<1>3. sent \in Seq(Sent) /\ Len(sent) \in Nat /\ handled \in 0 .. Len(sent)
  BY DEF AicInv, SentInv, TypeOK
<1>4. PICK h : Run(h) /\ Agrees(h[Len(sent)])
  BY <1>1 DEF AgreeInv
<1>5. h[handled + 1] = handles'
  BY <1>1, <1>2, <1>3, <1>4 DEF Run
<1>6. Run(h)'
  <2>1. \A i \in Nat : handled + 1 <= i => handled <= i
    BY <1>3
  <2> QED BY <1>1, <1>4, <1>5, <2>1 DEF Run
<1>7. Agrees(h[Len(sent)])'
  <2>1. MessageOf(Entry)' = MessageOf(Entry)
    BY <1>1 DEF MessageOf, Entry, GetBo
  <2>2. (Creating' <=> Creating) /\ (Removing' <=> Removing)
    BY <1>1 DEF Creating, Removing
  <2> QED BY <1>1, <1>4, <2>1, <2>2 DEF Agrees
<1> QED BY <1>6, <1>7 DEF AgreeInv

\* Every step keeps a run of maps that ends in agreement with the list.
LEMMA AgreeKept ==
  ASSUME AicInv, AgreeInv, [Next]_vars
  PROVE  AgreeInv'
<1>0. Len(sent) \in Nat
  BY DEF AicInv, SentInv
<1>1. CASE pc' \in Ended
  BY <1>1 DEF AgreeInv
<1>2. ASSUME UNCHANGED <<handled, handles, sent, boList>>, pc \notin Ended,
             ~Creating, ~Removing, ~Creating', ~Removing'
      PROVE  AgreeInv'
  <2>1. \A e \in Maps : Agrees(e) => Agrees(e)'
    BY <1>2 DEF Agrees
  <2> QED BY <1>0, <1>2, <2>1, AgreeSame
<1>3. ASSUME UNCHANGED <<handled, handles, sent, boList, pc, session, log, next, busy, pFrame>>, pc \notin Ended
      PROVE  AgreeInv'
  <2>1. MessageOf(Entry)' = MessageOf(Entry)
    BY <1>3 DEF MessageOf, Entry, GetBo
  <2>2. (Creating' <=> Creating) /\ (Removing' <=> Removing)
    BY <1>3 DEF Creating, Removing
  <2>3. \A e \in Maps : Agrees(e) => Agrees(e)'
    BY <1>3, <2>1, <2>2 DEF Agrees
  <2> QED BY <1>0, <1>3, <2>3, AgreeSame
<1>4. CASE Recording \/ ParseArgs \/ InitFiles \/ InitGfx \/ InitSocket \/ Accept
  <2>1. UNCHANGED <<handled, handles, sent, boList>>
    <3>1. CASE Recording
      BY <3>1 DEF Recording, RecordCreate, RecordRemove, RecordDisplay, RecordDispInfo, RecordDispPort,
                  RecordUnknown, RecordUser, Record, RecordRestart, gfxVars, wireVars, clientVars
    <3>2. CASE ParseArgs \/ InitFiles \/ InitGfx \/ InitSocket \/ Accept
      BY <3>2 DEF ParseArgs, InitFiles, InitGfx, GfxInit, InitSocket, Accept, gfxVars, wireVars, clientVars
    <3> QED BY <1>4, <3>1, <3>2
  <2>2. pc \in Before /\ pc' \in Before \cup {"next"} \cup Ended
    <3>1. CASE Recording
      BY <3>1 DEF Recording, RecordCreate, RecordRemove, RecordDisplay, RecordDispInfo, RecordDispPort,
                  RecordUnknown, RecordUser, Record, RecordRestart, emuVars, Before
    <3>2. CASE ParseArgs \/ InitFiles \/ InitGfx \/ InitSocket \/ Accept
      BY <3>2 DEF ParseArgs, InitFiles, InitGfx, InitSocket, Accept, Goto, Before, Ended
    <3> QED BY <1>4, <3>1, <3>2
  <2> QED BY <1>1, <1>2, <2>1, <2>2 DEF Before, Ended, Creating, Removing
<1>5. CASE ProcessNextEntry
  <2>1. UNCHANGED <<handled, handles, sent, boList, session>> /\ pc = "next"
    BY <1>5 DEF ProcessNextEntry, Goto, gfxVars, wireVars, clientVars, recordVars
  <2>2. CASE next < Len(log) /\ next' = next + 1 /\ pc' = Dispatch(DecodeNode(log[next + 1]))
    <3> DEFINE k == next + 1
               to == Dispatch(DecodeNode(log[k]))
    <3>1. /\ next \in 0 .. Len(session) /\ Len(session) \in Nat /\ Len(log) = Len(session)
          /\ \A r \in Remote : Listed(session, r, next) => boList[r] # NoObject
      BY <2>1 DEF AicInv, ReplayInv, LogInv, PhaseInv, ListInv
    <3>2. k \in 1 .. Len(session) /\ k - 1 = next
      BY <2>2, <3>1
    <3>3. \A r \in Remote : Listed(session, r, k - 1) => boList[r] # NoObject
      BY <3>1, <3>2
    <3>4. /\ to \in {"exit", "write", "alloc", "frame", "recv"}
          /\ to = "write" => session[k].type # "CREATE_BUFFER"
      BY <3>2, <3>3, DispatchFacts DEF AicInv, ReplayInv
    <3>5. pc' = to /\ next' = k
      BY <2>2
    <3> HIDE DEF k, to
    <3> QED BY <1>1, <1>2, <2>1, <3>4, <3>5 DEF Ended, Creating, Removing
  <2> QED BY <1>1, <1>5, <2>2 DEF ProcessNextEntry, Goto, Ended
<1>6. CASE Alloc
  <2>1. /\ UNCHANGED <<handled, handles, sent, session, log, next>> /\ pc = "alloc"
        /\ pc' \in {"write", "exit"}
    BY <1>6 DEF Alloc, Goto, wireVars, clientVars, recordVars
  <2>2. CASE pc' = "write"
    <3> DEFINE r == session[next].rh
    <3>1. /\ next \in 1 .. Len(session) /\ session[next].type = "CREATE_BUFFER" /\ session[next].whole
          /\ boList \in [Remote -> {NoObject} \cup DOMAIN objects]
      BY <2>1 DEF AicInv, ReplayInv, PhaseInv, EntryInv, Within, TypeOK, GfxTypeOK
    <3>2. R!Replayable(session[next]) /\ session[next].type \in R!Sendable
      <4>1. WellFormed(session[next])
        BY <3>1 DEF AicInv, ReplayInv, LogInv
      <4> QED BY <3>1, <4>1 DEF R!Replayable, R!Sendable, WellFormed
    <3>3. Entry.event.type = "CREATE_BUFFER" /\ Entry.event.rh = r /\ r \in Remote
      BY <3>1, <3>2, EntryFacts DEF AicInv, ReplayInv, BufferEvents
    <3>4. boList' = IF boList[r] = NoObject THEN [boList EXCEPT ![r] = Len(objects) + 1] ELSE boList
      BY <1>6, <2>2, <3>3 DEF Alloc, AllocateBo, Goto
    <3>5. Entry' = Entry
      BY <2>1 DEF Entry
    <3>6. /\ MessageOf(Entry)'.type = "CREATE_BUFFER" /\ MessageOf(Entry)'.rh = r
          /\ MessageOf(Entry)'.obj = boList'[r]
      BY <3>3, <3>5 DEF MessageOf, GetBo
    <3>7. Applied(boList, MessageOf(Entry)') = boList'
      <4> DEFINE m == MessageOf(Entry)'
      <4>1. m.type = "CREATE_BUFFER" /\ m.rh = r /\ m.obj = boList'[r]
        BY <3>6
      <4> HIDE DEF m
      <4>2. CASE boList[r] = NoObject
        <5>1. boList' = [boList EXCEPT ![r] = Len(objects) + 1] /\ boList'[r] = Len(objects) + 1
          BY <3>1, <3>3, <3>4, <4>2
        <5>2. Applied(boList, m) = [boList EXCEPT ![r] = m.obj]
          BY <4>1, <4>2 DEF Applied
        <5> QED BY <4>1, <5>1, <5>2 DEF m
      <4>3. CASE boList[r] # NoObject
        <5>1. Applied(boList, m) = boList
          BY <4>1, <4>3 DEF Applied
        <5> QED BY <3>4, <4>3, <5>1 DEF m
      <4> QED BY <4>2, <4>3
    <3>8. ~Creating /\ ~Removing /\ Creating' /\ ~Removing'
      BY <2>1, <2>2, <3>1 DEF Creating, Removing
    <3>9. \A e \in Maps : Agrees(e) => Agrees(e)'
      <4> SUFFICES ASSUME NEW e \in Maps, Agrees(e) PROVE Agrees(e)'
        OBVIOUS
      <4>1. e = boList
        BY <3>8 DEF Agrees
      <4>2. Applied(e, MessageOf(Entry)') = boList'
        BY <3>7, <4>1
      <4> QED BY <3>8, <4>2 DEF Agrees
    <3> QED BY <1>0, <2>1, <3>9, AgreeSame DEF Ended
  <2> QED BY <1>1, <2>1, <2>2 DEF Ended
<1>7. CASE GetOneFrame \/ CopyFrame
  <2>1. /\ UNCHANGED <<handled, handles, sent, boList, session, next>> /\ pc \in {"frame", "copy"}
        /\ pc' \in {"copy", "write"} \cup Ended
    BY <1>7 DEF GetOneFrame, CopyFrame, Copy, Goto, wireVars, clientVars, recordVars, gfxVars, Ended
  <2>2. session[next].type = "DISPLAY_REQ"
    BY <2>1 DEF AicInv, ReplayInv, EntryInv
  <2> QED BY <1>1, <1>2, <2>1, <2>2 DEF Ended, Creating, Removing
<1>8. CASE Clear
  <2>1. UNCHANGED <<handled, handles, sent, session, next, busy>> /\ pc = "clear" /\ pc' \in {"next", "exit"}
    BY <1>8 DEF Clear, Goto, wireVars, clientVars, recordVars
  <2>2. CASE pc' = "next"
    <3>1. /\ next \in 1 .. Len(session) /\ session[next].type = "REMOVE_BUFFER"
          /\ (busy <=> ~session[next].whole)
          /\ session[next].type \notin {"UNKNOWN", "SET_VIDEO_ALPHA_REQ"}
      BY <2>1 DEF AicInv, ReplayInv, PhaseInv, EntryInv, Within
    <3>2. ClearBo(Entry.event.rh, TRUE)
      BY <1>8, <2>2 DEF Clear, Goto
    <3>3. session[next].whole
      <4>1. GetBo(Entry.event.rh) # NoObject
        BY <3>2 DEF ClearBo
      <4>2. GetBo(NoRemote) = NoObject
        BY RemoteAssumption DEF GetBo
      <4>3. ~session[next].whole => Entry.event.rh = NoRemote
        BY <3>1, EntryFacts DEF AicInv, ReplayInv
      <4> QED BY <4>1, <4>2, <4>3
    <3>4. R!Replayable(session[next]) /\ session[next].type \in R!Sendable
      BY <3>1, <3>3, WholeRemove DEF AicInv, ReplayInv, R!Sendable
    <3>5. Entry.event.rh = session[next].rh
      BY <3>1, <3>4, EntryFacts DEF AicInv, ReplayInv
    <3>6. boList' = [boList EXCEPT ![session[next].rh] = NoObject]
      BY <3>2, <3>5 DEF ClearBo
    <3>7. Removing /\ ~Creating /\ ~Removing' /\ ~Creating'
      BY <2>1, <2>2, <3>1, <3>3 DEF Removing, Creating
    <3>8. \A e \in Maps : Agrees(e) => Agrees(e)'
      BY <3>6, <3>7 DEF Agrees
    <3> QED BY <1>0, <2>1, <3>8, AgreeSame DEF Ended
  <2> QED BY <1>1, <2>1, <2>2 DEF Ended
<1>9. CASE ReadReply
  <2>1. UNCHANGED <<handled, handles, sent, boList>> /\ pc = "recv" /\ pc' \in {"next", "exit"}
    BY <1>9 DEF ReadReply, Goto, clientVars, gfxVars
  <2> QED BY <1>1, <1>2, <2>1 DEF Ended, Creating, Removing
<1>10. CASE Exit
  BY <1>1, <1>10 DEF Exit, Goto, Ended
<1>11. CASE ClientConnect \/ ClientClose \/ \E type \in {"SETUP_RESOLUTION", "SET_VIDEO_ALPHA_REQ"} : ClientUser(type)
  <2>1. /\ UNCHANGED <<recordVars, emuVars, gfxVars, sent, handled, handles>> /\ pc \notin Ended
    BY <1>11 DEF ClientConnect, ClientClose, ClientUser, clientVars, Up, Ended
  <2> QED BY <1>3, <2>1 DEF recordVars, emuVars, gfxVars
<1>12. CASE UNCHANGED vars
  <2>1. UNCHANGED <<handled, handles, sent, boList, pc, session, log, next, busy, pFrame>>
    BY <1>12 DEF vars, recordVars, emuVars, gfxVars, wireVars, clientVars
  <2> QED BY <1>1, <1>3, <2>1
<1> QED BY <1>4, <1>5, <1>6, <1>7, <1>8, <1>9, <1>10, <1>11, <1>12, AgreeWritten, AgreeHandled
        DEF Next, Emulator, Client

\* No step of one server lists a buffer twice.
LEMMA OnceKept ==
  ASSUME AicInv, AicInv', OnceInv, [Next]_vars
  PROVE  OnceInv'
<1> SUFFICES ASSUME servers' = 1 PROVE OnceInv'
  BY DEF OnceInv
<1>1. servers = 1 /\ ~RecordRestart
  BY HistoryKept DEF AicInv
<1>2. CASE Recording
  BY <1>1, <1>2, RecordingCases, OnceRecorded DEF AicInv, ReplayInv
<1>3. CASE UNCHANGED <<session, created>>
  BY <1>1, <1>3 DEF OnceInv
<1>4. CASE UNCHANGED recordVars
  BY <1>3, <1>4 DEF recordVars
<1>5. CASE Emulator
  BY <1>4, <1>5, WriteCases
     DEF Emulator, InitFiles, InitGfx, InitSocket, Accept, ProcessNextEntry, Alloc, GetOneFrame,
         CopyFrame, Clear, ReadReply, Exit
<1> QED BY <1>2, <1>4, <1>5
        DEF Next, ParseArgs, Client, ClientConnect, ClientHandle, ClientUser, ClientClose, vars

\* The emulator's list and the client's map agree (BuffersInStep): what is listed
\* can be used, a client that has caught up holds exactly what is listed, and
\* nothing is lost from the list but by a second server or a failing call.
THEOREM StaysInStep == Spec => []BuffersInStep
<1> DEFINE Inv == OpenInv /\ OnceInv /\ OnlyInv /\ AllInv /\ AgreeInv
<1>1. Init => Inv
  <2> SUFFICES ASSUME Init PROVE Inv
    OBVIOUS
  <2>1. /\ session = <<>> /\ sent = <<>> /\ objects = <<>> /\ pc = "record" /\ handled = 0
        /\ boList = [r \in Remote |-> NoObject] /\ handles = boList
    BY DEF Init, GfxNew
  <2>2. \A r \in Remote : boList[r] = NoObject
    BY <2>1
  <2>3. OpenInv /\ OnlyInv
    BY <2>1, <2>2 DEF OpenInv, OnlyInv, Within
  <2>4. OnceInv
    BY <2>1 DEF OnceInv, Listed
  <2>5. AllInv
    BY <2>1 DEF AllInv
  <2>6. AgreeInv
    <3>1. boList \in Maps
      BY <2>1 DEF Maps, NoObject
    <3>2. PICK h \in [Nat -> Maps] : h[0] = handles
      <4>1. [i \in Nat |-> handles] \in [Nat -> Maps] /\ [i \in Nat |-> handles][0] = handles
        BY <2>1, <3>1
      <4> QED BY <4>1
    <3>3. Len(sent) = 0
      BY <2>1
    <3>4. Run(h)
      BY <2>1, <3>2, <3>3 DEF Run
    <3>5. Agrees(h[Len(sent)])
      BY <2>1, <3>2, <3>3 DEF Agrees, Creating, Removing
    <3> QED BY <3>4, <3>5 DEF AgreeInv
  <2> QED BY <2>3, <2>4, <2>5, <2>6
<1>2. AicInv /\ AicInv' /\ Inv /\ [Next]_vars => Inv'
  <2> SUFFICES ASSUME AicInv, AicInv', Inv, [Next]_vars PROVE Inv'
    OBVIOUS
  <2>1. OpenInv' /\ OnceInv' /\ AllInv' /\ AgreeInv'
    BY OpenKept, OnceKept, AllKept, AgreeKept
  <2>2. OnlyInv'
    <3>1. CASE servers' = 1
      BY <3>1, OnlyKept
    <3>2. CASE servers' # 1
      BY <3>2 DEF OnlyInv
    <3> QED BY <3>1, <3>2
  <2> QED BY <2>1, <2>2
<1>3. AicInv /\ Inv => BuffersInStep
  <2> SUFFICES ASSUME AicInv, Inv PROVE BuffersInStep
    OBVIOUS
  <2>1. DOMAIN objects = 1 .. Len(objects)
    BY DEF AicInv, TypeOK, GfxTypeOK
  <2>2. pc = "next" /\ handled = Len(sent) => handles = boList
    <3> SUFFICES ASSUME pc = "next", handled = Len(sent) PROVE handles = boList
      OBVIOUS
    <3>1. PICK h : Run(h) /\ Agrees(h[Len(sent)])
      BY DEF AgreeInv, Ended
    <3> QED BY <3>1 DEF Run, Agrees, Creating, Removing
  <2> QED BY <2>1, <2>2 DEF BuffersInStep, OpenInv, AllInv
<1> HIDE DEF Inv
<1> QED BY <1>1, <1>2, <1>3, InvHolds, PTL DEF Spec

-----------------------------------------------------------------------------
(* How far the emulator gets ahead of the client, and what it draws to.     *)

\* The messages of s behind the a-th, up to the b-th, that are of a type in T.
Positions(s, a, b, T) == {k \in a + 1 .. b : s[k].type \in T}
Count(s, a, b, T) == Cardinality(Positions(s, a, b, T))

\* They are finitely many.
LEMMA CountNat ==
  ASSUME NEW s, NEW a \in Nat, NEW b \in Nat, NEW T
  PROVE  Count(s, a, b, T) \in Nat /\ IsFiniteSet(Positions(s, a, b, T))
<1>1. IsFiniteSet(a + 1 .. b)
  BY FS_Interval
<1>2. Positions(s, a, b, T) \in SUBSET (a + 1 .. b)
  BY DEF Positions
<1>3. IsFiniteSet(Positions(s, a, b, T))
  BY <1>1, <1>2, FS_Subset
<1> QED BY <1>3, FS_CardinalityType DEF Count

\* Those of fewer types are no more.
LEMMA CountWithin ==
  ASSUME NEW s, NEW a \in Nat, NEW b \in Nat, NEW T, NEW V \in SUBSET T
  PROVE  Count(s, a, b, V) <= Count(s, a, b, T)
<1>1. Positions(s, a, b, V) \in SUBSET Positions(s, a, b, T)
  BY DEF Positions
<1> QED BY <1>1, CountNat, FS_Subset DEF Count

\* One more message, behind the others.
LEMMA CountLast ==
  ASSUME NEW s, NEW t, NEW a \in Nat, NEW b \in Nat, a <= b, NEW T,
         \A k \in 1 .. b : t[k] = s[k]
  PROVE  Count(t, a, b + 1, T) = IF t[b + 1].type \in T THEN Count(s, a, b, T) + 1 ELSE Count(s, a, b, T)
<1> DEFINE P == Positions(s, a, b, T)
<1>1. b + 1 \notin P /\ IsFiniteSet(P)
  <2>1. b + 1 \notin a + 1 .. b
    OBVIOUS
  <2>2. b + 1 \notin P
    BY <2>1 DEF Positions
  <2> QED BY <2>2, CountNat
<1>2. \A k \in a + 1 .. b + 1 : k = b + 1 \/ k \in a + 1 .. b
  OBVIOUS
<1>3. \A k \in a + 1 .. b : k \in 1 .. b /\ k \in a + 1 .. b + 1
  OBVIOUS
<1>4. b + 1 \in a + 1 .. b + 1
  OBVIOUS
<1>5. CASE t[b + 1].type \in T
  <2>1. Positions(t, a, b + 1, T) = P \cup {b + 1}
    BY <1>2, <1>3, <1>4, <1>5 DEF Positions
  <2> HIDE DEF P
  <2>2. Cardinality(P \cup {b + 1}) = Cardinality(P) + 1
    BY <1>1, FS_AddElement
  <2> QED BY <1>5, <2>1, <2>2 DEF Count, P
<1>6. CASE t[b + 1].type \notin T
  <2>1. Positions(t, a, b + 1, T) = P
    BY <1>2, <1>3, <1>6 DEF Positions
  <2> QED BY <1>6, <2>1 DEF Count
<1> QED BY <1>5, <1>6

\* The first of them is left out.
LEMMA CountFirst ==
  ASSUME NEW s, NEW a \in Nat, NEW b \in Nat, a < b, NEW T
  PROVE  Count(s, a + 1, b, T) = IF s[a + 1].type \in T THEN Count(s, a, b, T) - 1 ELSE Count(s, a, b, T)
<1> DEFINE P == Positions(s, a, b, T)
<1>1. IsFiniteSet(P)
  BY CountNat
<1>2. \A k \in a + 1 .. b : k = a + 1 \/ k \in (a + 1) + 1 .. b
  OBVIOUS
<1>3. \A k \in (a + 1) + 1 .. b : k # a + 1 /\ k \in a + 1 .. b
  OBVIOUS
<1>4. a + 1 \in a + 1 .. b
  OBVIOUS
<1>5. Positions(s, a + 1, b, T) = P \ {a + 1}
  BY <1>2, <1>3 DEF Positions
<1>6. a + 1 \in P <=> s[a + 1].type \in T
  BY <1>4 DEF Positions
<1> HIDE DEF P
<1>7. Cardinality(P \ {a + 1}) = IF a + 1 \in P THEN Cardinality(P) - 1 ELSE Cardinality(P)
  BY <1>1, FS_RemoveElement
<1> QED BY <1>5, <1>6, <1>7 DEF Count, P

\* What the emulator may be ahead by, from what there was of each.
Bound(n, x, u) == IF x + u = 0 /\ n <= 1 THEN n ELSE 2 * n + 3 * x + u

\* It only grows.
LEMMA BoundGrows ==
  ASSUME NEW n \in Nat, NEW x \in Nat, NEW u \in Nat, NEW m \in Nat, NEW y \in Nat, NEW v \in Nat,
         n <= m, x <= y, u <= v
  PROVE  Bound(n, x, u) <= Bound(m, y, v) /\ Bound(n, x, u) \in Nat
BY DEF Bound

\* The account of p requests with the client, q of them for its display, and w
\* words to be read, against n, x and u as above.  A turn of 1 is that of a reply to
\* be read yet for the request last sent, of 2 that of the reply to a DISPINFO_REQ.  A
\* read takes 6 words or more, if they are there; of the first reply of 15 words,
\* which is the only thing under way, it takes 11.
Balance(p, q, w, n, x, u, turn) ==
  LET a == IF turn = 0 THEN 0 ELSE 1
  IN /\ w <= 6 * (2 * n + 3 * x + u + a - p - 2 * q)
     /\ x + u = 0 /\ n = 1 => \/ q = 0 /\ w <= 6 * (1 + a - p)
                              \/ turn = 2 /\ p = 1 /\ q = 1 /\ w = 0
                              \/ turn = 2 /\ p = 0 /\ q = 0 /\ w = 15

Turns == {0, 1, 2}

\* When it is not waiting, it is as far ahead as it may be.
LEMMA BalanceAhead ==
  ASSUME NEW p \in Nat, NEW q \in Nat, NEW w \in Nat, NEW n \in Nat, NEW x \in Nat, NEW u \in Nat,
         Balance(p, q, w, n, x, u, 0)
  PROVE  p <= Bound(n, x, u)
BY DEF Balance, Bound

\* A request is written.
LEMMA BalanceWrite ==
  ASSUME NEW p \in Nat, NEW q \in Nat, NEW w \in Nat, NEW n \in Nat, NEW x \in Nat, NEW u \in Nat,
         Balance(p, q, w, n, x, u, 0)
  PROVE  Balance(p + 1, q, w, n, x, u, 1) /\ Balance(p + 1, q + 1, w, n + 1, x, u, 2)
BY DEF Balance

\* The next document is taken: it is the answer, or there is none in the log.
LEMMA BalanceNext ==
  ASSUME NEW p \in Nat, NEW q \in Nat, NEW w \in Nat, NEW n \in Nat, NEW x \in Nat, NEW u \in Nat,
         NEW t \in Turns, NEW t2 \in Turns, NEW u2 \in Nat, Balance(p, q, w, n, x, u, t),
         \/ t = 0 /\ u2 = u
         \/ u2 = u + 1
         \/ t2 = t /\ u2 = u
  PROVE  Balance(p, q, w, n, x, u2, t2)
BY DEF Balance, Turns

\* A reply is read, or what there is of it.
LEMMA BalanceRead ==
  ASSUME NEW p \in Nat, NEW q \in Nat, NEW w \in Nat, NEW n \in Nat, NEW x \in Nat, NEW u \in Nat,
         NEW t \in Turns, Balance(p, q, w, n, x, u, t), NEW size \in Nat, size >= 6,
         t = 2 => size = 11, w > 0
  PROVE  Balance(p, q, IF w <= size THEN 0 ELSE w - size, n, x, u, 0)
BY DEF Balance, Turns

\* The client answers a request; another one is not known to it.
LEMMA BalanceAnswer ==
  ASSUME NEW p \in Nat, NEW q \in Nat, NEW w \in Nat, NEW n \in Nat, NEW x \in Nat, NEW u \in Nat,
         NEW t \in Turns, Balance(p, q, w, n, x, u, t)
  PROVE  /\ q <= p - 1 => Balance(p - 1, q, w, n, x, u, t) /\ Balance(p - 1, q, w + 6, n, x, u, t)
         /\ q >= 1 => Balance(p - 1, q - 1, w + 15, n, x, u, t)
BY DEF Balance, Turns

\* The client's user sends a message.
LEMMA BalanceUser ==
  ASSUME NEW p \in Nat, NEW q \in Nat, NEW w \in Nat, NEW n \in Nat, NEW x \in Nat, NEW u \in Nat,
         NEW t \in Turns, Balance(p, q, w, n, x, u, t), NEW d \in Nat, d <= 15
  PROVE  Balance(p, q, w + d, n, x + 1, u, t)
BY DEF Balance, Turns

\* The requests for the client's display among the messages.
LEMMA InfosCount ==
  ASSUME NEW s \in Seq(Sent)
  PROVE  Cardinality({k \in DOMAIN s : s[k].type = "DISPINFO_REQ"}) = Count(s, 0, Len(s), {"DISPINFO_REQ"})
<1>1. DOMAIN s = 0 + 1 .. Len(s)
  OBVIOUS
<1>2. {k \in DOMAIN s : s[k].type = "DISPINFO_REQ"} = Positions(s, 0, Len(s), {"DISPINFO_REQ"})
  BY <1>1 DEF Positions
<1> QED BY <1>2 DEF Count

\* The entries of s before the n-th that are requests without their answer.
Gap(s, k) == s[k].type \in Requests /\ s[k + 1].type # AnswerTo(s[k].type)
Gaps(s, n) == {k \in 1 .. n - 1 : Gap(s, k)}

\* The entry that is taken adds the one before it, if the answer is missing.
LEMMA GapsNext ==
  ASSUME NEW s, NEW n \in Nat
  PROVE  /\ Cardinality(Gaps(s, n)) \in Nat
         /\ Cardinality(Gaps(s, n + 1)) = IF n # 0 /\ Gap(s, n) THEN Cardinality(Gaps(s, n)) + 1
                                          ELSE Cardinality(Gaps(s, n))
<1> DEFINE G == Gaps(s, n)
<1>1. n \notin 1 .. n - 1 /\ (n + 1) - 1 = n /\ (n # 0 => n \in 1 .. n)
  OBVIOUS
<1>2. \A k \in 1 .. n : (k = n /\ n # 0) \/ k \in 1 .. n - 1
  OBVIOUS
<1>3. \A k \in 1 .. n - 1 : k \in 1 .. n
  OBVIOUS
<1>4. IsFiniteSet(G) /\ n \notin G
  <2>1. IsFiniteSet(1 .. n - 1)
    BY FS_Interval
  <2>2. G \in SUBSET (1 .. n - 1)
    BY DEF Gaps
  <2> QED BY <1>1, <2>1, <2>2, FS_Subset
<1>5. CASE n # 0 /\ Gap(s, n)
  <2>1. Gaps(s, n + 1) = G \cup {n}
    BY <1>1, <1>2, <1>3, <1>5 DEF Gaps
  <2> HIDE DEF G
  <2> QED BY <1>4, <1>5, <2>1, FS_AddElement, FS_CardinalityType DEF G
<1>6. CASE ~(n # 0 /\ Gap(s, n))
  <2>1. Gaps(s, n + 1) = G
    BY <1>1, <1>2, <1>3, <1>6 DEF Gaps
  <2> QED BY <1>4, <1>6, <2>1, FS_CardinalityType
<1> QED BY <1>5, <1>6

\* The terms of the account, of this state.
Asks == Count(sent, handled, Len(sent), Requests)
AsksInfo == Count(sent, handled, Len(sent), {"DISPINFO_REQ"})

Turn == CASE pc = "next" /\ next # 0 /\ session[next].type = "DISPINFO_REQ" -> 2
          [] pc = "next" /\ next # 0 /\ session[next].type \in {"DISPLAY_REQ", "DISPPORT_REQ"} -> 1
          [] pc = "recv" /\ session[next].type = "DISPINFO_ACK" -> 2
          [] pc = "recv" /\ session[next].type = "DISPLAY_ACK" -> 1
          [] OTHER -> 0

Account == Balance(Asks, AsksInfo, Len(unread), Infos, extra, Unanswered, Turn)

\* While the emulator runs, the account with a client that is there is balanced.
AheadInv ==
  /\ peer = "none" => unread = <<>>
  /\ peer = "open" /\ pc \notin Ended => Account

\* All of them are numbers.
LEMMA TermsNat ==
  ASSUME AicInv
  PROVE  /\ Asks \in Nat /\ AsksInfo \in Nat /\ Len(unread) \in Nat /\ Infos \in Nat /\ extra \in Nat
         /\ Unanswered \in Nat /\ Turn \in Turns /\ AsksInfo <= Asks
<1>1. /\ handled \in Nat /\ Len(sent) \in Nat /\ sent \in Seq(Sent) /\ next \in Nat /\ extra \in Nat
      /\ Len(unread) \in Nat
  BY BoundsAssumption DEF AicInv, SentInv, TypeOK, ReplayInv, PhaseInv, LogInv
<1>2. {"DISPINFO_REQ"} \in SUBSET Requests
  BY DEF Requests
<1>3. Asks \in Nat /\ AsksInfo \in Nat /\ AsksInfo <= Asks
  BY <1>1, <1>2, CountNat, CountWithin DEF Asks, AsksInfo
<1>4. Infos \in Nat
  BY <1>1, InfosCount, CountNat DEF Infos
<1>5. Unanswered \in Nat
  BY <1>1, GapsNext DEF Unanswered, Gaps, Gap
<1>6. Turn \in Turns
  BY DEF Turn, Turns
<1> QED BY <1>1, <1>3, <1>4, <1>5, <1>6

\* A step that changes none of it.
LEMMA AccountSame ==
  ASSUME Account, UNCHANGED <<sent, handled, unread, extra, session, next>>, Turn' = Turn
  PROVE  Account'
<1>1. Asks' = Asks /\ AsksInfo' = AsksInfo /\ Infos' = Infos /\ Unanswered' = Unanswered
  BY DEF Asks, AsksInfo, Infos, Unanswered
<1> QED BY <1>1 DEF Account

\* A message is written: what is to be answered is with the client from now on.
LEMMA WriteAhead ==
  ASSUME AicInv, AheadInv, WritePart
  PROVE  AheadInv'
<1>1. /\ UNCHANGED <<session, handled, extra, peer, unread, next>> /\ pc = "write" /\ pc \notin Ended
  BY WriteCases DEF recordVars, clientVars, Ended
<1>2. Turn = 0
  BY <1>1 DEF Turn
<1> SUFFICES ASSUME peer = "open", pc' \notin Ended, Account PROVE Account'
  BY <1>1 DEF AheadInv
<1>3. CASE UNCHANGED <<pc, sent>>
  <2>1. Turn' = Turn
    BY <1>1, <1>3 DEF Turn
  <2> QED BY <1>1, <1>3, <2>1, AccountSame
<1>4. CASE /\ sent' = Append(sent, MessageOf(Entry))
           /\ pc' = IF Entry.type = "REMOVE_BUFFER" THEN "clear" ELSE "next"
  <2> DEFINE m == MessageOf(Entry)
  <2>1. /\ m \in Sent /\ Entry.type = session[next].type /\ next \in 1 .. Len(session)
        /\ m.type = session[next].type \/ (m.type = "0" /\ session[next].type = "REMOVE_BUFFER")
    BY <1>1, MessageFacts DEF AicInv, ReplayInv, TypeOK
  <2>2. PICK n \in Nat : n = Len(sent)
    BY DEF AicInv, SentInv
  <2>3. /\ sent \in Seq(Sent) /\ sent' \in Seq(Sent) /\ Len(sent') = n + 1
        /\ \A i \in 1 .. n : sent'[i] = sent[i]
        /\ sent'[n + 1] = m
    BY <1>4, <2>1, <2>2, AppendSent DEF AicInv, SentInv
  <2>4. handled \in 0 .. n /\ handled \in Nat /\ 0 \in Nat /\ 0 <= n /\ handled <= n
    BY <2>2 DEF AicInv, TypeOK
  <2> HIDE DEF m
  <2>5. /\ Asks' = Count(sent', handled, n + 1, Requests) /\ Asks = Count(sent, handled, n, Requests)
        /\ AsksInfo' = Count(sent', handled, n + 1, {"DISPINFO_REQ"})
        /\ AsksInfo = Count(sent, handled, n, {"DISPINFO_REQ"})
        /\ Infos' = Count(sent', 0, n + 1, {"DISPINFO_REQ"}) /\ Infos = Count(sent, 0, n, {"DISPINFO_REQ"})
    BY <1>1, <2>2, <2>3, InfosCount DEF Asks, AsksInfo, Infos
  <2>6. ASSUME NEW T, NEW h \in Nat, h <= n
        PROVE  Count(sent', h, n + 1, T) = IF m.type \in T THEN Count(sent, h, n, T) + 1 ELSE Count(sent, h, n, T)
    <3>1. Count(sent', h, n + 1, T) = IF sent'[n + 1].type \in T THEN Count(sent, h, n, T) + 1
                                      ELSE Count(sent, h, n, T)
      <4>1. PICK s, t : s = sent /\ t = sent'
        OBVIOUS
      <4>2. \A i \in 1 .. n : t[i] = s[i]
        BY <2>3, <4>1
      <4>3. Count(t, h, n + 1, T) = IF t[n + 1].type \in T THEN Count(s, h, n, T) + 1 ELSE Count(s, h, n, T)
        BY ONLY <4>2, n \in Nat, h \in Nat, h <= n, CountLast
      <4> QED BY <4>1, <4>3
    <3> QED BY <2>3, <3>1
  <2>7. Asks' = IF m.type \in Requests THEN Asks + 1 ELSE Asks
    BY <2>4, <2>5, <2>6
  <2>8. /\ AsksInfo' = IF m.type = "DISPINFO_REQ" THEN AsksInfo + 1 ELSE AsksInfo
        /\ Infos' = IF m.type = "DISPINFO_REQ" THEN Infos + 1 ELSE Infos
    BY <2>4, <2>5, <2>6
  <2>9. Unanswered' = Unanswered /\ Len(unread') = Len(unread) /\ extra' = extra
    BY <1>1 DEF Unanswered
  <2>10. next # 0
    BY <2>1
  <2>11. Balance(Asks, AsksInfo, Len(unread), Infos, extra, Unanswered, 0)
    BY <1>2 DEF Account
  <2>12. CASE m.type = "DISPINFO_REQ"
    <3>1. Turn' = 2
      BY <1>1, <1>4, <2>1, <2>10, <2>12 DEF Turn
    <3>2. Asks' = Asks + 1 /\ AsksInfo' = AsksInfo + 1 /\ Infos' = Infos + 1
      BY <2>7, <2>8, <2>12 DEF Requests
    <3> QED BY <2>9, <2>11, <3>1, <3>2, TermsNat, BalanceWrite DEF Account
  <2>13. CASE m.type \in {"DISPLAY_REQ", "DISPPORT_REQ"}
    <3>1. Turn' = 1
      BY <1>1, <1>4, <2>1, <2>10, <2>13 DEF Turn
    <3>2. Asks' = Asks + 1 /\ AsksInfo' = AsksInfo /\ Infos' = Infos
      BY <2>7, <2>8, <2>13 DEF Requests
    <3> QED BY <2>9, <2>11, <3>1, <3>2, TermsNat, BalanceWrite DEF Account
  <2>14. CASE m.type \notin Requests
    <3>1. Turn' = 0
      BY <1>1, <1>4, <2>1, <2>14 DEF Turn, Requests
    <3>2. Asks' = Asks /\ AsksInfo' = AsksInfo /\ Infos' = Infos
      BY <2>7, <2>8, <2>14 DEF Requests
    <3> QED BY <2>9, <2>11, <3>1, <3>2 DEF Account
  <2> QED BY <2>12, <2>13, <2>14 DEF Requests
<1> QED BY <1>3, <1>4, WriteCases

\* A document is taken: behind a request it is the answer, which is waited for, or
\* what the replay ends at, or the log has none.
LEMMA NextAhead ==
  ASSUME AicInv, AheadInv, ProcessNextEntry
  PROVE  AheadInv'
<1>1. /\ UNCHANGED <<session, extra, sent, handled, peer, unread>> /\ pc = "next" /\ pc \notin Ended
  BY DEF ProcessNextEntry, recordVars, clientVars, wireVars, Goto, Ended
<1> SUFFICES ASSUME peer = "open", pc' \notin Ended, Account PROVE Account'
  BY <1>1 DEF AheadInv
<1>2. next < Len(log) /\ next' = next + 1 /\ pc' = Dispatch(DecodeNode(log[next + 1]))
  BY DEF ProcessNextEntry, Goto, Ended
<1> DEFINE k == next + 1
           to == Dispatch(DecodeNode(log[k]))
<1>3. /\ next \in 0 .. Len(session) /\ Len(session) \in Nat /\ Len(log) = Len(session)
      /\ \A r \in Remote : Listed(session, r, next) => boList[r] # NoObject
  BY <1>1 DEF AicInv, ReplayInv, LogInv, PhaseInv, ListInv
<1>4. k \in 1 .. Len(session) /\ k - 1 = next /\ next \in Nat
  BY <1>2, <1>3
<1>5. \A r \in Remote : Listed(session, r, k - 1) => boList[r] # NoObject
  BY <1>3, <1>4
<1>6. /\ to \in {"exit", "write", "alloc", "frame", "recv"}
      /\ to = "alloc" => session[k].type = "CREATE_BUFFER"
      /\ to = "frame" => session[k].type = "DISPLAY_REQ"
      /\ to = "write" => session[k].type \in {"DISPINFO_REQ", "DISPPORT_REQ", "REMOVE_BUFFER"}
      /\ to = "recv" => session[k].type \in R!Awaitable
  BY <1>4, <1>5, DispatchFacts DEF AicInv, ReplayInv
<1>7. pc' = to /\ next' = k /\ to # "exit"
  BY <1>2 DEF Ended
<1>8. Asks' = Asks /\ AsksInfo' = AsksInfo /\ Infos' = Infos /\ Len(unread') = Len(unread) /\ extra' = extra
  BY <1>1 DEF Asks, AsksInfo, Infos
<1>9. Unanswered' = IF next # 0 /\ Gap(session, next) THEN Unanswered + 1 ELSE Unanswered
  <2>1. Unanswered = Cardinality(Gaps(session, next)) /\ Unanswered' = Cardinality(Gaps(session, next + 1))
    BY <1>1, <1>2 DEF Unanswered, Gaps, Gap
  <2> QED BY <1>4, <2>1, GapsNext
<1>10. CASE Turn = 0
  <2>1. ~(next # 0 /\ Gap(session, next))
    BY <1>1, <1>10 DEF Turn, Gap, Requests
  <2>2. Turn' \in Turns /\ Unanswered' = Unanswered
    BY <1>9, <2>1 DEF Turn, Turns
  <2> QED BY <1>8, <1>10, <2>2, TermsNat, BalanceNext DEF Account
<1>11. CASE next # 0 /\ Gap(session, next)
  <2>1. Turn' \in Turns /\ Unanswered' = Unanswered + 1 /\ Unanswered' \in Nat
    BY <1>9, <1>11, TermsNat DEF Turn, Turns
  <2> QED BY <1>8, <2>1, TermsNat, BalanceNext DEF Account
<1>12. CASE Turn # 0 /\ ~(next # 0 /\ Gap(session, next))
  <2>1. next # 0 /\ session[next].type \in Requests
    BY <1>1, <1>12 DEF Turn, Requests
  <2>2. session[k].type = AnswerTo(session[next].type)
    BY <1>12, <2>1 DEF Gap
  <2>3. session[next].type # "DISPPORT_REQ"
    BY <1>6, <1>7, <2>2 DEF AnswerTo, R!Awaitable
  <2>4. \/ session[next].type = "DISPLAY_REQ" /\ session[k].type = "DISPLAY_ACK"
        \/ session[next].type = "DISPINFO_REQ" /\ session[k].type = "DISPINFO_ACK"
    BY <2>1, <2>2, <2>3 DEF AnswerTo, Requests
  <2>5. to = "recv"
    BY <1>6, <1>7, <2>4
  <2> HIDE DEF to, k
  <2>6. Turn' = Turn
    <3>1. session'[next'] = session[k] /\ pc' = "recv"
      BY <1>1, <1>7, <2>5
    <3> QED BY <1>1, <2>1, <2>4, <3>1 DEF Turn
  <2>7. Unanswered' = Unanswered
    BY <1>9, <1>12
  <2> QED BY <1>8, <2>6, <2>7 DEF Account
<1> QED BY <1>10, <1>11, <1>12

\* A reply is read, with all that is there and no more than it takes.
LEMMA ReadAhead ==
  ASSUME AicInv, AheadInv, ReadReply
  PROVE  AheadInv'
<1>1. /\ UNCHANGED <<session, extra, sent, handled, peer, next>> /\ pc = "recv" /\ pc \notin Ended
  BY DEF ReadReply, recordVars, clientVars, Goto, Ended
<1>2. CASE pc' = "exit" /\ unread' = unread
  BY <1>1, <1>2 DEF AheadInv, Ended
<1>3. CASE pc' = "next" /\ (unread # <<>> \/ peer = "closed")
           /\ unread' = SubSeq(unread, ReadSize(Entry.type) + 1, Len(unread))
  <2>1. peer # "none"
    BY <1>3 DEF AheadInv
  <2> SUFFICES ASSUME peer = "open", Account PROVE Account'
    BY <1>1, <2>1 DEF AheadInv
  <2> DEFINE w == Len(unread)
             size == ReadSize(Entry.type)
  <2>2. next \in 1 .. Len(session) /\ session[next].type \in R!Awaitable
    BY <1>1 DEF AicInv, ReplayInv, LogInv, PhaseInv, EntryInv, Within
  <2>3. Entry.type = session[next].type
    BY <2>2, EntryFacts DEF AicInv, ReplayInv, R!Awaitable
  <2>4. size = IF session[next].type = "DISPLAY_ACK" THEN 6 ELSE 11
    BY <2>2, <2>3 DEF ReadSize, R!Awaitable, display_event_t, display_info_t, buffer_info_t
  <2>5. size \in Nat /\ size >= 6 /\ (Turn = 2 => size = 11)
    BY <1>1, <2>4 DEF Turn
  <2>6. unread \in Seq(BOOLEAN) /\ unread # <<>> /\ w \in Nat /\ w > 0
    BY <1>3 DEF AicInv, TypeOK
  <2> HIDE DEF size
  <2>7. Len(unread') = IF w <= size THEN 0 ELSE w - size
    <3>1. unread' = SubSeq(unread, size + 1, Len(unread))
      BY <1>3 DEF size
    <3> QED BY <2>5, <2>6, <3>1
  <2>8. Turn' = 0
    BY <1>1, <1>3, <2>2 DEF Turn, R!Awaitable
  <2>9. /\ Asks' = Asks /\ AsksInfo' = AsksInfo /\ Infos' = Infos /\ extra' = extra
        /\ Unanswered' = Unanswered
    BY <1>1 DEF Asks, AsksInfo, Infos, Unanswered
  <2>10. Balance(Asks, AsksInfo, IF w <= size THEN 0 ELSE w - size, Infos, extra, Unanswered, 0)
    BY <2>5, <2>6, TermsNat, BalanceRead DEF Account
  <2> QED BY <2>7, <2>8, <2>9, <2>10 DEF Account
<1> QED BY <1>2, <1>3 DEF ReadReply, Goto

\* The replies and their lengths.
LEMMA ReplyLengths ==
  /\ Len(Reply("DISPINFO_ACK")) = 15 /\ Len(Reply("DISPPORT_ACK")) = 6 /\ Len(Reply("DISPLAY_ACK")) = 6
  /\ Len(Reply("SETUP_RESOLUTION")) = 15 /\ Len(Reply("SET_VIDEO_ALPHA_REQ")) = 8
BY DEF Reply, ReplySize, display_event_t, display_info_t, display_port_t, buffer_info_t, set_video_alpha_t

\* The client handles a message: a request becomes the words of its reply.
LEMMA HandleAhead ==
  ASSUME AicInv, AheadInv, ClientHandle
  PROVE  AheadInv'
<1> DEFINE msg == sent[handled + 1]
           words == CASE msg.type = "DISPINFO_REQ" -> Reply("DISPINFO_ACK")
                      [] msg.type = "DISPPORT_REQ" -> Reply("DISPPORT_ACK")
                      [] msg.type = "DISPLAY_REQ" /\ handles[msg.rh] # NoObject -> Reply("DISPLAY_ACK")
                      [] OTHER -> <<>>
<1>1. /\ UNCHANGED <<session, extra, sent, peer, next, pc>>
      /\ pc \notin Ended /\ peer = "open" /\ handled < Len(sent) /\ handled' = handled + 1
      /\ unread' = unread \o words
  BY DEF ClientHandle, recordVars, emuVars, Up, Ended
<1> SUFFICES ASSUME Account PROVE Account'
  BY <1>1 DEF AheadInv
<1>2. handled \in Nat /\ Len(sent) \in Nat
  BY DEF AicInv, SentInv, TypeOK
<1>3. /\ msg.type \notin Requests => words = <<>>
      /\ msg.type = "DISPINFO_REQ" => words = Reply("DISPINFO_ACK")
      /\ msg.type = "DISPPORT_REQ" => words = Reply("DISPPORT_ACK")
      /\ msg.type = "DISPLAY_REQ" => words = <<>> \/ words = Reply("DISPLAY_ACK")
  BY DEF Requests
<1>4. /\ Reply("DISPINFO_ACK") \in Seq(BOOLEAN) /\ Reply("DISPPORT_ACK") \in Seq(BOOLEAN)
      /\ Reply("DISPLAY_ACK") \in Seq(BOOLEAN) /\ <<>> \in Seq(BOOLEAN) /\ unread \in Seq(BOOLEAN)
  BY ReplyTypes DEF AicInv, TypeOK
<1> HIDE DEF msg, words
<1>5. words \in Seq(BOOLEAN)
  BY <1>3, <1>4 DEF Requests
<1>6. Len(unread') = Len(unread) + Len(words)
  BY <1>1, <1>4, <1>5
<1>7. /\ msg.type \notin Requests => Len(words) = 0
      /\ msg.type = "DISPINFO_REQ" => Len(words) = 15
      /\ msg.type = "DISPPORT_REQ" => Len(words) = 6
      /\ msg.type = "DISPLAY_REQ" => Len(words) \in {0, 6}
  BY <1>3, ReplyLengths
<1>8. /\ Infos' = Infos /\ extra' = extra /\ Unanswered' = Unanswered /\ Turn' = Turn
  BY <1>1 DEF Infos, Unanswered, Turn
<1>9. /\ Asks' = Count(sent, handled + 1, Len(sent), Requests)
      /\ AsksInfo' = Count(sent, handled + 1, Len(sent), {"DISPINFO_REQ"})
  BY <1>1 DEF Asks, AsksInfo
<1>10. Asks' = IF msg.type \in Requests THEN Asks - 1 ELSE Asks
  BY <1>1, <1>2, <1>9, CountFirst DEF Asks, msg
<1>11. AsksInfo' = IF msg.type = "DISPINFO_REQ" THEN AsksInfo - 1 ELSE AsksInfo
  <2>1. AsksInfo' = IF msg.type \in {"DISPINFO_REQ"} THEN AsksInfo - 1 ELSE AsksInfo
    BY <1>1, <1>2, <1>9, CountFirst DEF AsksInfo, msg
  <2> QED BY <2>1
<1>12. Asks' \in Nat /\ AsksInfo' \in Nat /\ AsksInfo' <= Asks'
  <2>1. handled + 1 \in Nat /\ {"DISPINFO_REQ"} \in SUBSET Requests
    BY <1>2 DEF Requests
  <2> QED BY <1>2, <1>9, <2>1, CountNat, CountWithin
<1>13. CASE msg.type = "DISPINFO_REQ"
  <2>1. AsksInfo' = AsksInfo - 1 /\ Asks' = Asks - 1 /\ Len(unread') = Len(unread) + 15
    BY <1>6, <1>7, <1>10, <1>11, <1>13 DEF Requests
  <2>2. AsksInfo >= 1
    BY <1>12, <2>1, TermsNat
  <2>3. Balance(Asks - 1, AsksInfo - 1, Len(unread) + 15, Infos, extra, Unanswered, Turn)
    BY <2>2, TermsNat, BalanceAnswer DEF Account
  <2> QED BY <1>8, <2>1, <2>3 DEF Account
<1>14. CASE msg.type \in {"DISPLAY_REQ", "DISPPORT_REQ"}
  <2>1. AsksInfo' = AsksInfo /\ Asks' = Asks - 1
    BY <1>10, <1>11, <1>14 DEF Requests
  <2>2. AsksInfo <= Asks - 1
    BY <1>12, <2>1
  <2>3. Len(unread') = Len(unread) \/ Len(unread') = Len(unread) + 6
    <3>1. Len(words) \in {0, 6}
      BY <1>7, <1>14
    <3>2. PICK w \in Nat : w = Len(unread)
      BY TermsNat
    <3>3. CASE Len(words) = 0
      BY ONLY <1>6, <3>2, <3>3, w \in Nat
    <3>4. CASE Len(words) = 6
      BY <1>6, <3>4
    <3> QED BY <3>1, <3>3, <3>4
  <2>4. /\ Balance(Asks - 1, AsksInfo, Len(unread), Infos, extra, Unanswered, Turn)
        /\ Balance(Asks - 1, AsksInfo, Len(unread) + 6, Infos, extra, Unanswered, Turn)
    BY <2>2, TermsNat, BalanceAnswer DEF Account
  <2> QED BY <1>8, <2>1, <2>3, <2>4 DEF Account
<1>15. CASE msg.type \notin Requests
  <2>1. AsksInfo' = AsksInfo /\ Asks' = Asks /\ Len(unread') = Len(unread)
    BY <1>6, <1>7, <1>10, <1>11, <1>15, TermsNat DEF Requests
  <2> QED BY <1>8, <2>1 DEF Account
<1> QED BY <1>13, <1>14, <1>15 DEF Requests

\* The client's user sends a message.
LEMMA UserAhead ==
  ASSUME AicInv, AheadInv, NEW type \in {"SETUP_RESOLUTION", "SET_VIDEO_ALPHA_REQ"}, ClientUser(type)
  PROVE  AheadInv'
<1>1. /\ UNCHANGED <<session, next, pc, sent, handled, peer>> /\ peer = "open" /\ extra' = extra + 1
      /\ unread' = unread \o Reply(type)
  BY DEF ClientUser, recordVars, emuVars
<1> SUFFICES ASSUME Account PROVE Account'
  BY <1>1 DEF AheadInv
<1>2. PICK d \in Nat : d = Len(Reply(type)) /\ d <= 15
  <2>1. type = "SETUP_RESOLUTION" \/ type = "SET_VIDEO_ALPHA_REQ"
    OBVIOUS
  <2>2. Len(Reply(type)) = 15 \/ Len(Reply(type)) = 8
    BY ONLY <2>1, ReplyLengths, Zenon
  <2>3. 15 \in Nat /\ 15 <= 15 /\ 8 \in Nat /\ 8 <= 15
    OBVIOUS
  <2> QED BY ONLY <2>2, <2>3, Zenon
<1>3. unread \in Seq(BOOLEAN) /\ Reply(type) \in Seq(BOOLEAN)
  BY ReplyTypes DEF AicInv, TypeOK
<1>4. Len(unread') = Len(unread) + d
  BY <1>1, <1>2, <1>3
<1>5. /\ Asks' = Asks /\ AsksInfo' = AsksInfo /\ Infos' = Infos /\ Unanswered' = Unanswered /\ Turn' = Turn
  BY <1>1 DEF Asks, AsksInfo, Infos, Unanswered, Turn
<1>6. Balance(Asks, AsksInfo, Len(unread) + d, Infos, extra + 1, Unanswered, Turn)
  BY <1>2, TermsNat, BalanceUser DEF Account
<1> QED BY <1>1, <1>4, <1>5, <1>6 DEF Account

\* Nothing is under way with a client that has just come.
LEMMA ConnectAhead ==
  ASSUME AicInv, AheadInv, ClientConnect
  PROVE  AheadInv'
<1>1. /\ UNCHANGED <<session, pc, next, sent, unread, handled, extra>> /\ pc = "accept"
      /\ peer = "none" /\ peer' = "open"
  BY DEF ClientConnect, recordVars, emuVars, clientVars
<1>2. sent = <<>> /\ unread = <<>> /\ handled \in Nat
  BY <1>1 DEF AicInv, ReplayInv, PhaseInv, Before, AheadInv, TypeOK
<1>3. Len(sent) = 0 /\ Len(unread) = 0
  BY <1>2
<1>4. ASSUME NEW T
      PROVE  Count(sent, handled, Len(sent), T) = 0
  <2>1. PICK h \in Nat : h = handled
    BY <1>2
  <2>2. \A i \in h + 1 .. 0 : FALSE
    BY ONLY h \in Nat
  <2>3. Positions(sent, handled, Len(sent), T) = {}
    BY <1>3, <2>1, <2>2 DEF Positions
  <2> QED BY <2>3, FS_EmptySet DEF Count
<1>5. Asks = 0 /\ AsksInfo = 0 /\ Turn = 0
  BY <1>1, <1>4 DEF Asks, AsksInfo, Turn
<1>6. Balance(0, 0, 0, Infos, extra, Unanswered, 0)
  BY TermsNat DEF Balance
<1>7. Account
  BY <1>3, <1>5, <1>6 DEF Account
<1>8. Turn' = Turn
  BY <1>1 DEF Turn
<1>9. Account'
  BY <1>1, <1>7, <1>8, AccountSame
<1> QED BY <1>1, <1>9 DEF AheadInv

\* What the emulator does with its files and buffers has no part in the account.
Inner == ParseArgs \/ InitFiles \/ InitGfx \/ InitSocket \/ Accept \/ Alloc \/ GetOneFrame \/ CopyFrame \/ Clear

\* They leave it alone, and no reply is awaited before them or behind them.
LEMMA InnerSteps ==
  ASSUME AicInv, Inner
  PROVE  /\ UNCHANGED <<session, extra, sent, handled, peer, unread, next, busy>> /\ pc \notin Ended
         /\ Turn = 0 /\ (pc' \in Ended \/ Turn' = 0)
<1>1. UNCHANGED <<session, extra, sent, handled, peer, unread, next, busy>>
  BY DEF Inner, ParseArgs, InitFiles, InitGfx, InitSocket, Accept, Alloc, GetOneFrame, CopyFrame, Clear,
         recordVars, wireVars, clientVars
<1>2. /\ pc \in Before \cup {"alloc", "frame", "copy", "clear"}
      /\ \/ pc' \in Ended
         \/ pc' \in Before \cup {"copy", "write"}
         \/ pc = "accept" /\ pc' = "next"
         \/ pc = "clear" /\ pc' = "next"
  BY DEF Inner, ParseArgs, InitFiles, InitGfx, InitSocket, Accept, Alloc, GetOneFrame, CopyFrame, Clear, Goto,
         Ended, Before
<1>3. pc = "accept" => next = 0
  BY DEF AicInv, ReplayInv, PhaseInv, Before
<1>4. pc = "clear" => session[next].type = "REMOVE_BUFFER"
  BY DEF AicInv, ReplayInv, EntryInv
<1>5. pc \notin Ended /\ Turn = 0
  BY <1>2 DEF Turn, Before, Ended
<1>6. pc' \in Ended \/ Turn' = 0
  BY <1>1, <1>2, <1>3, <1>4 DEF Turn, Before
<1> QED BY <1>1, <1>5, <1>6

\* Every step keeps the account.
LEMMA AheadKept ==
  ASSUME AicInv, AheadInv, [Next]_vars
  PROVE  AheadInv'
<1>1. CASE UNCHANGED vars
  <2>1. UNCHANGED <<sent, handled, unread, extra, session, next, pc, peer>>
    BY <1>1 DEF vars, recordVars, emuVars, wireVars, clientVars
  <2>2. Turn' = Turn
    BY <2>1 DEF Turn
  <2> QED BY <2>1, <2>2, AccountSame DEF AheadInv
<1>2. CASE Recording
  <2>1. pc = "record" /\ UNCHANGED <<emuVars, wireVars>>
    BY <1>2 DEF Recording, RecordCreate, RecordRemove, RecordDisplay, RecordDispInfo, RecordDispPort,
                RecordUnknown, RecordUser, Record, RecordRestart
  <2>2. peer' = "none" /\ unread' = unread /\ peer = "none"
    BY <2>1 DEF AicInv, ReplayInv, PhaseInv, emuVars, wireVars
  <2> QED BY <2>2 DEF AheadInv
<1>3. CASE Inner
  <2>1. /\ UNCHANGED <<session, extra, sent, handled, peer, unread, next>> /\ pc \notin Ended
        /\ Turn = 0 /\ (pc' \in Ended \/ Turn' = 0)
    BY <1>3, InnerSteps
  <2> QED BY <2>1, AccountSame DEF AheadInv
<1>4. CASE Exit
  BY <1>4 DEF Exit, wireVars, Goto, Ended, AheadInv
<1>5. CASE ClientClose
  BY <1>5 DEF ClientClose, AheadInv
<1> QED BY <1>1, <1>2, <1>3, <1>4, <1>5, WriteAhead, NextAhead, ReadAhead, HandleAhead, UserAhead, ConnectAhead
        DEF Next, Emulator, Client, Inner

\* The buffer of a display request holds the frame copied for it.
Kept(i) == sent[i].obj \in 1 .. Len(objects) /\ objects[sent[i].obj].frame = sent[i].frame

\* It was drawn to for a later request, and not too early.
Overtaken(i) == \E j \in i + 1 .. Len(sent) + 1 :
                  ShowsBuffer(j, sent[i].rh) /\ Cardinality(Outstanding(j - 1)) <= MayBeAhead

\* Before the request is written.
Ready == LET o == boList[session[next].rh]
         IN o \in 1 .. Len(objects) /\ objects[o].frame = pFrame

ReadyInv == pc = "write" /\ session[next].type = "DISPLAY_REQ" => Ready

\* An object that was shown is listed for the handle it was shown by, or for none.
OwnInv == \A i \in 1 .. Len(sent) : sent[i].type = "DISPLAY_REQ" =>
            /\ sent[i].obj \in 1 .. Len(objects)
            /\ \A r \in Remote : boList[r] = sent[i].obj => r = sent[i].rh

\* What the client has yet to handle can still be shown, or was given up in time.
DrawInv == peer = "open" =>
             \A i \in handled + 1 .. Len(sent) : sent[i].type = "DISPLAY_REQ" => Kept(i) \/ Overtaken(i)

\* The buffer that a display request names is listed.
LEMMA DisplayListed ==
  ASSUME AicInv, pc \in {"copy", "write"}, session[next].type = "DISPLAY_REQ"
  PROVE  /\ Entry.event.rh = session[next].rh /\ session[next].rh \in Remote
         /\ boList[session[next].rh] \in 1 .. Len(objects) /\ Entry.type = "DISPLAY_REQ"
         /\ R!Replayable(session[next])
<1>1. next \in 1 .. Len(session)
  BY DEF AicInv, ReplayInv, PhaseInv, Within
<1>2. R!Replayable(session[next]) /\ session[next].type \in R!Sendable
  BY DEF AicInv, ReplayInv, EntryInv, R!Sendable
<1>3. Entry.event.rh = session[next].rh /\ session[next].rh \in Remote /\ Entry.type = "DISPLAY_REQ"
  BY <1>1, <1>2, EntryFacts DEF AicInv, ReplayInv, BufferEvents
<1>4. boList[session[next].rh] # NoObject
  BY <1>1, <1>3 DEF AicInv, ReplayInv, LegalInv, ListInv, Within
<1>5. boList \in [Remote -> {NoObject} \cup DOMAIN objects] /\ DOMAIN objects = 1 .. Len(objects)
  BY DEF AicInv, TypeOK, GfxTypeOK
<1> QED BY <1>2, <1>3, <1>4, <1>5

\* A copy leaves the buffer with the frame that was read.
LEMMA CopyReady ==
  ASSUME AicInv, CopyFrame, pc' = "write"
  PROVE  Ready'
<1> DEFINE o == boList[session[next].rh]
           mid == [objects EXCEPT ![o].maps = @ + 1]
           v == [mid[o] EXCEPT !.frame = pFrame]
<1>1. /\ pc = "copy" /\ Copy(Entry.event.rh, pFrame, "ok")
      /\ UNCHANGED <<session, next, pFrame, boList>>
  BY DEF CopyFrame, Goto, Copy, recordVars
<1>2. session[next].type = "DISPLAY_REQ"
  BY <1>1 DEF AicInv, ReplayInv, EntryInv
<1>3. Entry.event.rh = session[next].rh /\ o \in 1 .. Len(objects)
  BY <1>1, <1>2, DisplayListed
<1>4. objects' = [objects EXCEPT ![o].maps = @ + 1, ![o].frame = pFrame]
  BY <1>1, <1>3 DEF Copy
<1>5. objects' = [mid EXCEPT ![o] = v]
  BY <1>4
<1>6. objects \in Seq(Object) /\ pFrame \in Nat
  BY ClipAssumption DEF AicInv, TypeOK, GfxTypeOK, Object
<1>7. mid \in Seq(Object) /\ Len(mid) = Len(objects)
  BY <1>6, ObjectKept
<1>8. Len(objects') = Len(objects)
  BY <1>4, <1>6, ObjectShown
<1>9. o' = o
  BY <1>1
<1> HIDE DEF mid, o
<1>10. o \in 1 .. Len(mid) /\ mid[o] \in Object
  BY <1>3, <1>7
<1>11. v.frame = pFrame
  BY <1>10 DEF Object
<1>12. objects'[o] = v
  <2> HIDE DEF v
  <2> QED BY <1>5, <1>7, <1>10
<1> QED BY <1>1, <1>3, <1>8, <1>9, <1>11, <1>12 DEF Ready, o

\* Of a step behind the recording: what was sent and counted stays.
LEMMA Onward ==
  ASSUME AicInv, [Next]_vars, pc # "record"
  PROVE  /\ session' = session /\ next' \in {next, next + 1} /\ extra' \in {extra, extra + 1}
         /\ handled' \in {handled, handled + 1}
         /\ sent' = sent \/ (WritePart /\ sent' = Append(sent, MessageOf(Entry)))
         /\ next' = next \/ ProcessNextEntry
         /\ busy' = busy \/ ProcessNextEntry \/ ReadReply \/ WritePart
<1>1. CASE UNCHANGED vars
  BY <1>1 DEF vars, recordVars, emuVars, wireVars, clientVars
<1>2. CASE Recording \/ ParseArgs
  BY <1>2 DEF Recording, RecordCreate, RecordRemove, RecordDisplay, RecordDispInfo, RecordDispPort,
              RecordUnknown, RecordUser, Record, RecordRestart, ParseArgs, Goto
<1>3. CASE Inner
  BY <1>3, InnerSteps
<1>4. CASE WritePart
  BY <1>4, WriteCases DEF recordVars, clientVars
<1>5. CASE ProcessNextEntry
  BY <1>5 DEF ProcessNextEntry, recordVars, wireVars, clientVars
<1>6. CASE ReadReply \/ Exit
  BY <1>6 DEF ReadReply, Exit, recordVars, wireVars, clientVars
<1>7. CASE Client
  BY <1>7 DEF Client, ClientConnect, ClientHandle, ClientUser, ClientClose, recordVars, emuVars, clientVars
<1> QED BY <1>1, <1>2, <1>3, <1>4, <1>5, <1>6, <1>7 DEF Next, Emulator, Inner

\* The messages are those of before, with at most one more.
LEMMA SentGrows ==
  ASSUME AicInv, AicInv', [Next]_vars, pc # "record"
  PROVE  /\ Len(sent) \in Nat /\ Len(sent') \in {Len(sent), Len(sent) + 1}
         /\ \A k \in 1 .. Len(sent) : sent'[k] = sent[k]
<1>1. sent' = sent \/ (WritePart /\ sent' = Append(sent, MessageOf(Entry)))
  BY Onward
<1>2. sent \in Seq(Sent)
  BY DEF AicInv, SentInv
<1>3. CASE sent' = sent
  BY <1>2, <1>3
<1>4. CASE WritePart /\ sent' = Append(sent, MessageOf(Entry))
  <2>1. MessageOf(Entry) \in Sent
    BY <1>4, WriteCases, MessageFacts DEF AicInv, ReplayInv, TypeOK
  <2> QED BY <1>2, <1>4, <2>1, AppendSent
<1> QED BY <1>1, <1>3, <1>4

\* What the emulator may be ahead by only grows.
LEMMA AheadGrows ==
  ASSUME AicInv, AicInv', [Next]_vars, pc # "record"
  PROVE  MayBeAhead <= MayBeAhead' /\ MayBeAhead \in Nat /\ MayBeAhead' \in Nat
<1>1. /\ Infos \in Nat /\ extra \in Nat /\ Unanswered \in Nat
      /\ Infos' \in Nat /\ extra' \in Nat /\ Unanswered' \in Nat
  <2>1. /\ sent \in Seq(Sent) /\ Len(sent) \in Nat /\ sent' \in Seq(Sent) /\ Len(sent') \in Nat
        /\ extra' \in Nat /\ next' \in Nat
    <3>1. sent \in Seq(Sent) /\ sent' \in Seq(Sent)
      BY DEF AicInv, SentInv
    <3>2. extra' \in Nat
      BY BoundsAssumption DEF AicInv, TypeOK
    <3>3. next' \in Nat
      BY DEF AicInv, ReplayInv, PhaseInv
    <3> QED BY <3>1, <3>2, <3>3
  <2>2. Infos' \in Nat
    BY <2>1, InfosCount, CountNat DEF Infos
  <2>3. Unanswered' \in Nat
    BY <2>1, GapsNext DEF Unanswered, Gaps, Gap
  <2> QED BY <2>1, <2>2, <2>3, TermsNat
<1>2. Infos <= Infos'
  <2> DEFINE S == {k \in DOMAIN sent : sent[k].type = "DISPINFO_REQ"}
             V == {k \in DOMAIN sent' : sent'[k].type = "DISPINFO_REQ"}
  <2>1. sent \in Seq(Sent) /\ sent' \in Seq(Sent)
    BY DEF AicInv, SentInv
  <2>2. DOMAIN sent = 1 .. Len(sent) /\ DOMAIN sent' = 1 .. Len(sent') /\ Len(sent) \in Nat /\ Len(sent') \in Nat
    BY <2>1
  <2>3. S \in SUBSET V
    <3>1. /\ Len(sent') \in {Len(sent), Len(sent) + 1}
          /\ \A k \in 1 .. Len(sent) : sent'[k] = sent[k]
      BY SentGrows
    <3>2. \A k \in 1 .. Len(sent) : k \in 1 .. Len(sent')
      <4>1. PICK n \in Nat, m \in Nat : n = Len(sent) /\ m = Len(sent')
        BY <2>2
      <4>2. m = n \/ m = n + 1
        BY <3>1, <4>1
      <4>3. \A k \in 1 .. n : k \in 1 .. m
        BY ONLY <4>2, n \in Nat, m \in Nat
      <4> QED BY <4>1, <4>3
    <3> QED BY <2>2, <3>1, <3>2
  <2>4. IsFiniteSet(V)
    <3>1. IsFiniteSet(1 .. Len(sent'))
      BY <2>2, FS_Interval
    <3> QED BY <2>2, <3>1, FS_Subset
  <2>5. Cardinality(S) <= Cardinality(V)
    <3> HIDE DEF S, V
    <3> QED BY <2>3, <2>4, FS_Subset
  <2> QED BY <2>5 DEF Infos
<1>3. Unanswered <= Unanswered'
  <2>1. next \in Nat /\ session' = session /\ next' \in {next, next + 1}
    BY Onward DEF AicInv, ReplayInv, PhaseInv, LogInv
  <2>2. Unanswered = Cardinality(Gaps(session, next)) /\ Unanswered' = Cardinality(Gaps(session, next'))
    BY <2>1 DEF Unanswered, Gaps, Gap
  <2>3. Cardinality(Gaps(session, next)) <= Cardinality(Gaps(session, next + 1))
    BY <2>1, GapsNext
  <2> QED BY <1>1, <2>1, <2>2, <2>3
<1>4. extra <= extra'
  BY <1>1, Onward
<1>5. MayBeAhead = Bound(Infos, extra, Unanswered) /\ MayBeAhead' = Bound(Infos', extra', Unanswered')
  BY DEF MayBeAhead, Bound
<1>6. Bound(Infos, extra, Unanswered) <= Bound(Infos', extra', Unanswered')
  BY <1>1, <1>2, <1>3, <1>4, BoundGrows
<1>7. Bound(Infos, extra, Unanswered) \in Nat /\ Bound(Infos', extra', Unanswered') \in Nat
  <2>1. \A n, x, u \in Nat : Bound(n, x, u) \in Nat
    BY DEF Bound
  <2> QED BY <1>1, <2>1
<1> QED BY <1>5, <1>6, <1>7

\* A request that comes to be sent is the one that was being made.
LEMMA ShowsStays ==
  ASSUME AicInv, AicInv', [Next]_vars, pc # "record", NEW n \in Nat, n = Len(sent), NEW r,
         ShowsBuffer(n + 1, r)
  PROVE  ShowsBuffer(n + 1, r)'
<1>1. sent \in Seq(Sent) /\ sent' \in Seq(Sent)
  BY DEF AicInv, SentInv
<1>2. n + 1 \notin DOMAIN sent
  BY <1>1
<1>3. busy /\ session[next].type = "DISPLAY_REQ" /\ session[next].rh = r
  BY <1>2 DEF ShowsBuffer
<1>4. ~ProcessNextEntry /\ ~ReadReply
  <2>1. pc # "next"
    BY <1>3 DEF AicInv, ReplayInv, PhaseInv
  <2>2. pc # "recv"
    BY <1>3 DEF AicInv, ReplayInv, EntryInv, R!Awaitable
  <2> QED BY <2>1, <2>2 DEF ProcessNextEntry, ReadReply, Goto
<1>5. session' = session /\ next' = next /\ (busy' = busy \/ WritePart)
  BY <1>4, Onward
<1>6. CASE sent' = sent /\ busy' = busy
  BY <1>3, <1>5, <1>6 DEF ShowsBuffer
<1>7. CASE WritePart /\ sent' = Append(sent, MessageOf(Entry))
  <2> DEFINE m == MessageOf(Entry)
  <2>1. m \in Sent /\ m.type = "DISPLAY_REQ" /\ m.rh = r
    BY <1>3, <1>7, WriteCases, MessageFacts DEF AicInv, ReplayInv, TypeOK
  <2> HIDE DEF m
  <2>2. sent' = Append(sent, m)
    BY <1>7 DEF m
  <2>3. Len(sent') = n + 1 /\ sent'[n + 1] = m
    BY <1>1, <2>1, <2>2, AppendSent
  <2>4. n + 1 \in DOMAIN sent'
    BY <1>1, <2>3
  <2> QED BY <2>1, <2>3, <2>4 DEF ShowsBuffer
<1>8. WritePart => sent' = Append(sent, MessageOf(Entry)) \/ (sent' = sent /\ busy' = busy)
  BY WriteCases
<1>9. sent' = sent \/ WritePart
  BY Onward
<1> QED BY <1>5, <1>6, <1>7, <1>8, <1>9

\* A request that was overtaken in time stays so.
LEMMA OvertakenStays ==
  ASSUME AicInv, AicInv', [Next]_vars, pc # "record", NEW i \in 1 .. Len(sent), Overtaken(i)
  PROVE  Overtaken(i)'
<1>1. PICK n \in Nat : n = Len(sent)
  BY DEF AicInv, SentInv
<1>2. PICK j \in i + 1 .. n + 1 : ShowsBuffer(j, sent[i].rh) /\ Cardinality(Outstanding(j - 1)) <= MayBeAhead
  BY <1>1 DEF Overtaken
<1>3. i \in 1 .. n /\ j \in Nat /\ j - 1 \in 0 .. n
  BY <1>1, <1>2
<1>4. PICK m \in Nat : m = Len(sent') /\ m \in {n, n + 1}
  BY <1>1, SentGrows
<1>5. /\ \A k \in 1 .. n : sent'[k] = sent[k]
      /\ sent \in Seq(Sent) /\ sent' \in Seq(Sent)
  BY <1>1, SentGrows DEF AicInv, SentInv
<1>6. j \in i + 1 .. m + 1
  BY ONLY <1>2, <1>3, <1>4, n \in Nat, m \in Nat
<1>7. sent'[i].rh = sent[i].rh
  BY <1>3, <1>5
<1>8. ShowsBuffer(j, sent[i].rh)'
  <2>1. PICK r : r = sent[i].rh
    OBVIOUS
  <2>2. CASE j = n + 1
    <3>1. ShowsBuffer(n + 1, r)
      BY <1>2, <2>1, <2>2
    <3>2. ShowsBuffer(n + 1, r)'
      BY <1>1, <3>1, ShowsStays
    <3> QED BY <1>7, <2>1, <2>2, <3>2
  <2>3. CASE j # n + 1
    <3>1. j \in 1 .. n /\ j \in 1 .. m
      BY ONLY <1>2, <1>3, <1>4, <2>3, n \in Nat, m \in Nat
    <3>2. sent[j].type = "DISPLAY_REQ" /\ sent[j].rh = r
      BY <1>1, <1>2, <2>1, <2>3 DEF ShowsBuffer
    <3>3. j \in DOMAIN sent' /\ sent'[j] = sent[j]
      BY <1>4, <1>5, <3>1
    <3> QED BY <1>7, <2>1, <3>2, <3>3 DEF ShowsBuffer
  <2> QED BY <2>2, <2>3
<1>9. Cardinality(Outstanding(j - 1)') <= Cardinality(Outstanding(j - 1))
  <2>1. PICK h \in Nat, h2 \in Nat : h = handled /\ h2 = handled' /\ h <= h2
    <3>1. handled \in Nat /\ handled' \in Nat
      BY DEF AicInv, TypeOK
    <3>2. handled <= handled'
      BY <3>1, Onward
    <3> QED BY <3>1, <3>2
  <2>2. \A k \in h2 + 1 .. j - 1 : k \in h + 1 .. j - 1 /\ k \in 1 .. n
    <3>1. PICK b \in 0 .. n : b = j - 1
      BY <1>3
    <3>2. h <= h2
      BY <2>1
    <3>3. \A k \in h2 + 1 .. b : k \in h + 1 .. b /\ k \in 1 .. n
      BY ONLY <3>2, b \in 0 .. n, n \in Nat, h \in Nat, h2 \in Nat
    <3> QED BY <3>1, <3>3
  <2>3. Outstanding(j - 1)' \in SUBSET Outstanding(j - 1)
    BY <1>5, <2>1, <2>2 DEF Outstanding
  <2>4. IsFiniteSet(Outstanding(j - 1))
    <3>1. j - 1 \in Nat /\ handled \in Nat
      BY <1>3, <2>1
    <3>2. Outstanding(j - 1) = Positions(sent, handled, j - 1, Requests)
      BY DEF Outstanding, Positions
    <3> QED BY <3>1, <3>2, CountNat
  <2> QED BY <2>3, <2>4, FS_Subset
<1>10. Cardinality(Outstanding(j - 1)') <= MayBeAhead'
  <2>1. MayBeAhead <= MayBeAhead' /\ MayBeAhead \in Nat /\ MayBeAhead' \in Nat
    BY AheadGrows
  <2>2. Cardinality(Outstanding(j - 1)) \in Nat /\ Cardinality(Outstanding(j - 1)') \in Nat
    <3>1. j - 1 \in Nat /\ handled \in Nat /\ handled' \in Nat
      BY <1>3 DEF AicInv, TypeOK
    <3>2. /\ Cardinality(Outstanding(j - 1)) = Count(sent, handled, j - 1, Requests)
          /\ Cardinality(Outstanding(j - 1)') = Count(sent', handled', j - 1, Requests)
      BY DEF Outstanding, Positions, Count
    <3> QED BY <3>1, <3>2, CountNat
  <2> QED BY <1>2, <1>9, <2>1, <2>2
<1> QED BY <1>4, <1>6, <1>8, <1>10 DEF Overtaken

\* Nothing but a copy changes what a buffer shows, and that only of its own.
LEMMA FrameStays ==
  ASSUME AicInv, [Next]_vars, NEW o \in 1 .. Len(objects)
  PROVE  /\ o \in 1 .. Len(objects')
         /\ objects'[o].frame = objects[o].frame \/ (CopyFrame /\ o = boList[session[next].rh])
<1>0. objects \in Seq(Object) /\ Len(objects) \in Nat /\ DOMAIN objects = 1 .. Len(objects)
  BY DEF AicInv, TypeOK, GfxTypeOK, Object
<1>1. objects[o] \in Object
  BY <1>0
<1>2. o \in 1 .. Len(objects')
  <2>1. Len(objects') = Len(objects) \/ Len(objects') = Len(objects) + 1
    BY GfxCases DEF Untouched, Orphaned, Allocated, Cleared, Destroyed
  <2> QED BY <1>0, <2>1
<1>3. CASE objects' = objects
  BY <1>2, <1>3
<1>4. CASE Alloc
  <2>1. objects' = objects \/ \E v : objects' = Append(objects, v)
    BY <1>4 DEF Alloc, AllocateBo
  <2>2. ASSUME NEW v, objects' = Append(objects, v)
        PROVE  objects'[o] = objects[o]
    <3>1. objects \in Seq(Object \cup {v})
      BY <1>0
    <3> QED BY <2>2, <3>1
  <2> QED BY <1>2, <1>3, <2>1, <2>2
<1>5. CASE Clear
  <2>1. objects' = objects \/ \E b : objects' = [objects EXCEPT ![b].open = FALSE]
    BY <1>5 DEF Clear, ClearBo
  <2>2. ASSUME NEW b, objects' = [objects EXCEPT ![b].open = FALSE]
        PROVE  objects'[o].frame = objects[o].frame
    <3>1. CASE o = b
      <4>1. objects'[o] = [objects[o] EXCEPT !.open = FALSE]
        BY <1>0, <2>2, <3>1
      <4> QED BY <1>1, <4>1 DEF Object
    <3>2. CASE o # b
      BY <1>0, <2>2, <3>2
    <3> QED BY <3>1, <3>2
  <2> QED BY <1>2, <1>3, <2>1, <2>2
<1>6. CASE Exit
  <2>1. objects' = [j \in 1 .. Len(objects) |-> [objects[j] EXCEPT !.open = FALSE]]
    BY <1>0, <1>6 DEF Exit, GfxDestroy
  <2>2. objects'[o] = [objects[o] EXCEPT !.open = FALSE]
    BY <2>1
  <2>3. objects'[o].frame = objects[o].frame
    BY <1>1, <2>2 DEF Object
  <2> QED BY <1>2, <2>3
<1>7. CASE CopyFrame
  <2>1. Entry.event.rh = session[next].rh
    <3>1. pc = "copy"
      BY <1>7 DEF CopyFrame, Goto
    <3>2. session[next].type = "DISPLAY_REQ"
      BY <3>1 DEF AicInv, ReplayInv, EntryInv
    <3> QED BY <3>1, <3>2, DisplayListed
  <2>2. PICK b : b = boList[session[next].rh]
    OBVIOUS
  <2>3. \/ objects' = objects
        \/ objects' = [objects EXCEPT ![b].maps = @ + 1]
        \/ objects' = [objects EXCEPT ![b].maps = @ + 1, ![b].frame = pFrame]
    BY <1>7, <2>1, <2>2 DEF CopyFrame, Copy
  <2>4. o # b => objects'[o] = objects[o]
    BY <1>0, <2>3
  <2> QED BY <1>2, <1>7, <2>2, <2>4
<1>8. CASE UNCHANGED gfxVars
  BY <1>3, <1>8 DEF gfxVars
<1>9. CASE Recording
  BY <1>8, <1>9 DEF Recording, RecordCreate, RecordRemove, RecordDisplay, RecordDispInfo, RecordDispPort,
                   RecordUnknown, RecordUser, Record, RecordRestart
<1>10. CASE InitGfx
  BY <1>3, <1>10 DEF InitGfx, GfxInit
<1>11. CASE WritePart
  BY <1>8, <1>11, WriteCases
<1> QED BY <1>4, <1>5, <1>6, <1>7, <1>8, <1>9, <1>10, <1>11
        DEF Next, ParseArgs, Emulator, InitFiles, InitSocket, Accept, ProcessNextEntry, GetOneFrame, ReadReply,
            Client, ClientConnect, ClientHandle, ClientUser, ClientClose, vars

\* Every step keeps the objects under their handles.
LEMMA OwnKept ==
  ASSUME AicInv, AicInv', OpenInv, OwnInv, [Next]_vars
  PROVE  OwnInv'
<1> USE DEF NoObject
<1>0. Len(objects) \in Nat /\ boList \in [Remote -> {0} \cup 1 .. Len(objects)] /\ sent \in Seq(Sent)
  <2>1. objects \in Seq(Object) /\ boList \in [Remote -> {0} \cup DOMAIN objects]
    BY DEF AicInv, TypeOK, GfxTypeOK, Object
  <2> QED BY <2>1 DEF AicInv, SentInv
<1>1. ASSUME NEW i \in 1 .. Len(sent), sent[i].type = "DISPLAY_REQ"
      PROVE  /\ sent[i].obj \in 1 .. Len(objects')
             /\ \A r \in Remote : boList'[r] = sent[i].obj => r = sent[i].rh
  <2>1. sent[i].obj \in 1 .. Len(objects) /\ \A r \in Remote : boList[r] = sent[i].obj => r = sent[i].rh
    BY <1>1 DEF OwnInv
  <2>2. sent[i].obj \in 1 .. Len(objects')
    BY <2>1, FrameStays
  <2>3. sent[i].obj # Len(objects) + 1 /\ sent[i].obj # 0
    BY <1>0, <2>1
  <2>4. CASE Untouched \/ Orphaned
    BY <2>1, <2>2, <2>4 DEF Untouched, Orphaned
  <2>5. CASE Allocated
    BY <1>0, <2>1, <2>2, <2>3, <2>5 DEF Allocated
  <2>6. CASE Cleared
    BY <1>0, <2>1, <2>2, <2>3, <2>6 DEF Cleared
  <2>7. CASE Destroyed
    BY <2>2, <2>3, <2>7 DEF Destroyed
  <2> QED BY <2>4, <2>5, <2>6, <2>7, GfxCases
<1>2. CASE sent' = sent
  BY <1>1, <1>2 DEF OwnInv
<1>3. CASE WritePart /\ sent' = Append(sent, MessageOf(Entry))
  <2> DEFINE m == MessageOf(Entry)
  <2>0. PICK n \in Nat : n = Len(sent)
    BY <1>0
  <2>1. m \in Sent /\ pc = "write" /\ boList' = boList /\ objects' = objects
        /\ (m.type = "DISPLAY_REQ" => session[next].type = "DISPLAY_REQ" /\ m.rh = session[next].rh)
    BY <1>3, WriteCases, MessageFacts DEF AicInv, ReplayInv, TypeOK, gfxVars
  <2>2. m.type = "DISPLAY_REQ" => /\ m.obj = boList[m.rh] /\ m.rh \in Remote
                                  /\ boList[m.rh] \in 1 .. Len(objects)
    <3> SUFFICES ASSUME m.type = "DISPLAY_REQ" PROVE /\ m.obj = boList[m.rh] /\ m.rh \in Remote
                                                     /\ boList[m.rh] \in 1 .. Len(objects)
      OBVIOUS
    <3>1. Entry.event.rh = session[next].rh /\ session[next].rh \in Remote
          /\ boList[session[next].rh] \in 1 .. Len(objects)
      BY <2>1, DisplayListed
    <3>2. m.obj = boList[session[next].rh]
      BY <3>1 DEF MessageOf, GetBo
    <3> QED BY <2>1, <3>1, <3>2
  <2> HIDE DEF m
  <2>3. /\ Len(sent') = n + 1 /\ \A i \in 1 .. n : sent'[i] = sent[i]
        /\ sent'[n + 1] = m
    <3>1. sent' = Append(sent, m)
      BY <1>3 DEF m
    <3> QED BY <1>0, <2>0, <2>1, <3>1, AppendSent
  <2>4. m.type = "DISPLAY_REQ" => /\ m.obj \in 1 .. Len(objects)
                                  /\ \A r \in Remote : boList[r] = m.obj => r = m.rh
    BY <1>0, <2>2 DEF OpenInv
  <2>5. \A i \in 1 .. n + 1 : i \in 1 .. n \/ i = n + 1
    OBVIOUS
  <2> QED BY <1>1, <2>0, <2>1, <2>3, <2>4, <2>5 DEF OwnInv
<1>4. CASE pc = "record"
  <2>1. sent' = sent
    BY <1>4 DEF Next, Recording, RecordCreate, RecordRemove, RecordDisplay, RecordDispInfo, RecordDispPort,
                RecordUnknown, RecordUser, Record, RecordRestart, ParseArgs, Emulator, InitFiles, InitGfx,
                InitSocket, Accept, ProcessNextEntry, Alloc, GetOneFrame, CopyFrame, WritePart, Clear, ReadReply,
                Exit, Client, ClientConnect, ClientHandle, ClientUser, ClientClose, Goto, wireVars, vars
  <2> QED BY <1>2, <2>1
<1> QED BY <1>2, <1>3, <1>4, Onward

\* A display request is written only with the frame in its buffer.
LEMMA ReadyKept ==
  ASSUME AicInv, AicInv', ReadyInv, [Next]_vars
  PROVE  ReadyInv'
<1> SUFFICES ASSUME pc' = "write", session'[next'].type = "DISPLAY_REQ" PROVE Ready'
  BY DEF ReadyInv
<1>1. CASE UNCHANGED <<pc, session, next, boList, objects, pFrame>>
  BY <1>1 DEF ReadyInv, Ready
<1>2. CASE CopyFrame
  BY <1>2, CopyReady
<1>3. CASE WritePart
  <2>1. pc' = pc
    BY <1>3, WriteCases DEF Ended
  <2> QED BY <1>1, <1>3, <2>1, WriteCases DEF recordVars, gfxVars
<1>4. CASE Alloc
  <2>1. pc = "alloc" /\ UNCHANGED <<session, next>>
    BY <1>4 DEF Alloc, Goto, recordVars
  <2> QED BY <2>1 DEF AicInv, ReplayInv, EntryInv
<1>5. CASE ProcessNextEntry
  <2>1. /\ pc = "next" /\ session' = session /\ next < Len(log) /\ next' = next + 1
        /\ Dispatch(DecodeNode(log[next + 1])) = "write"
    BY <1>5 DEF ProcessNextEntry, Goto, recordVars
  <2>2. /\ next \in 0 .. Len(session) /\ Len(session) \in Nat /\ Len(log) = Len(session)
        /\ \A r \in Remote : Listed(session, r, next) => boList[r] # NoObject
    BY <2>1 DEF AicInv, ReplayInv, LogInv, PhaseInv, ListInv
  <2>3. next + 1 \in 1 .. Len(session) /\ (next + 1) - 1 = next
    BY <2>1, <2>2
  <2>4. \A r \in Remote : Listed(session, r, (next + 1) - 1) => boList[r] # NoObject
    BY <2>2, <2>3
  <2>5. session[next + 1].type # "DISPLAY_REQ"
    BY <2>1, <2>3, <2>4, DispatchFacts DEF AicInv, ReplayInv
  <2> QED BY <2>1, <2>5
<1>6. pc # "record"
  BY DEF Next, Recording, RecordCreate, RecordRemove, RecordDisplay, RecordDispInfo, RecordDispPort,
         RecordUnknown, RecordUser, Record, RecordRestart, ParseArgs, Emulator, InitFiles, InitGfx,
         InitSocket, Accept, ProcessNextEntry, Alloc, GetOneFrame, CopyFrame, WritePart, Clear, ReadReply,
         Exit, Client, ClientConnect, ClientHandle, ClientUser, ClientClose, Goto, emuVars, vars
<1>7. ~Recording
  BY <1>6 DEF Recording, RecordCreate, RecordRemove, RecordDisplay, RecordDispInfo, RecordDispPort,
              RecordUnknown, RecordUser, Record, RecordRestart
<1>8. CASE Client
  BY <1>1, <1>8 DEF Client, ClientConnect, ClientHandle, ClientUser, ClientClose, recordVars, emuVars, gfxVars
<1>9. CASE UNCHANGED vars
  BY <1>1, <1>9 DEF vars, recordVars, emuVars, gfxVars
<1> QED BY <1>2, <1>3, <1>4, <1>5, <1>7, <1>8, <1>9
        DEF Next, ParseArgs, Emulator, InitFiles, InitGfx, InitSocket, Accept, GetOneFrame, Clear, ReadReply,
            Exit, Goto

\* A buffer that a request is yet to be handled for is drawn to only when the account
\* lets the emulator go on.
LEMMA DrawnInTime ==
  ASSUME AicInv, AheadInv, OwnInv, CopyFrame, peer = "open", NEW i \in 1 .. Len(sent),
         sent[i].type = "DISPLAY_REQ", sent[i].obj = boList[session[next].rh]
  PROVE  Overtaken(i)'
<1>1. UNCHANGED <<session, next, busy, sent, handled, extra>> /\ pc = "copy" /\ pc \notin Ended
  BY DEF CopyFrame, Goto, recordVars, wireVars, clientVars, Ended
<1>2. session[next].type = "DISPLAY_REQ" /\ busy
  BY <1>1 DEF AicInv, ReplayInv, EntryInv, PhaseInv, Within
<1>3. session[next].rh = sent[i].rh
  BY <1>1, <1>2, DisplayListed DEF OwnInv
<1>4. Turn = 0
  BY <1>1 DEF Turn
<1>5. Balance(Asks, AsksInfo, Len(unread), Infos, extra, Unanswered, 0)
  BY <1>1, <1>4 DEF AheadInv, Account
<1>6. Asks <= MayBeAhead
  <2>1. MayBeAhead = Bound(Infos, extra, Unanswered)
    BY DEF MayBeAhead, Bound
  <2> QED BY <1>5, <2>1, TermsNat, BalanceAhead
<1>7. PICK n \in Nat : n = Len(sent)
  BY DEF AicInv, SentInv
<1>8. n + 1 \in i + 1 .. n + 1 /\ (n + 1) - 1 = n
  BY <1>7
<1>9. ShowsBuffer(n + 1, sent[i].rh)'
  BY <1>1, <1>2, <1>3, <1>7 DEF ShowsBuffer
<1>10. Cardinality(Outstanding(n)) = Asks
  BY <1>7 DEF Outstanding, Asks, Count, Positions
<1>11. (Cardinality(Outstanding(n)) <= MayBeAhead)'
  <2>1. Outstanding(n)' = Outstanding(n) /\ MayBeAhead' = MayBeAhead
    BY <1>1 DEF Outstanding, MayBeAhead, Infos, Unanswered
  <2> QED BY <1>6, <1>10, <2>1
<1> QED BY <1>1, <1>7, <1>8, <1>9, <1>11 DEF Overtaken

\* Every step keeps what is yet to be shown, or overtakes it in time.
LEMMA DrawKept ==
  ASSUME AicInv, AicInv', AheadInv, ReadyInv, OwnInv, DrawInv, [Next]_vars
  PROVE  DrawInv'
<1> SUFFICES ASSUME peer' = "open", NEW i \in handled' + 1 .. Len(sent'), sent'[i].type = "DISPLAY_REQ"
             PROVE  Kept(i)' \/ Overtaken(i)'
  BY DEF DrawInv
<1>1. pc # "record"
  <2> SUFFICES ASSUME pc = "record" PROVE FALSE
    OBVIOUS
  <2>1. peer = "none"
    BY DEF AicInv, ReplayInv, PhaseInv
  <2> QED BY <2>1
      DEF Next, Recording, RecordCreate, RecordRemove, RecordDisplay, RecordDispInfo, RecordDispPort,
          RecordUnknown, RecordUser, Record, RecordRestart, ParseArgs, Emulator, InitFiles, InitGfx,
          InitSocket, Accept, ProcessNextEntry, Alloc, GetOneFrame, CopyFrame, WritePart, Clear, ReadReply,
          Exit, Client, ClientConnect, ClientHandle, ClientUser, ClientClose, Goto, wireVars, vars
<1>2. PICK n \in Nat, m \in Nat : n = Len(sent) /\ m = Len(sent') /\ m \in {n, n + 1}
  BY <1>1, SentGrows
<1>3. PICK h \in Nat, h2 \in Nat : h = handled /\ h2 = handled' /\ h <= h2
  <2>1. handled \in Nat /\ handled' \in Nat
    BY DEF AicInv, TypeOK
  <2>2. handled <= handled'
    BY <1>1, <2>1, Onward
  <2> QED BY <2>1, <2>2
<1>4. i \in h2 + 1 .. m /\ \A k \in 1 .. n : sent'[k] = sent[k]
  BY <1>1, <1>2, <1>3, SentGrows
<1>5. (i \in 1 .. n /\ i \in h + 1 .. n) \/ (i = n + 1 /\ m = n + 1)
  <2>1. i \in h2 + 1 .. m /\ h <= h2 /\ (m = n \/ m = n + 1)
    BY <1>2, <1>3, <1>4
  <2> QED BY ONLY <2>1, n \in Nat, m \in Nat, h \in Nat, h2 \in Nat
<1>6. CASE i = n + 1 /\ m = n + 1
  <2>1. WritePart /\ sent' = Append(sent, MessageOf(Entry))
    <3>1. n # n + 1
      OBVIOUS
    <3>2. sent' # sent
      BY <1>2, <1>6, <3>1
    <3> QED BY <1>1, <3>2, Onward
  <2> DEFINE e == MessageOf(Entry)
  <2>2. /\ UNCHANGED <<objects, boList>> /\ pc = "write" /\ e \in Sent
        /\ e.type = "DISPLAY_REQ" => session[next].type = "DISPLAY_REQ"
    BY <2>1, WriteCases, MessageFacts DEF AicInv, ReplayInv, TypeOK, gfxVars
  <2>3. sent'[i] = e
    <3> HIDE DEF e
    <3>1. sent' = Append(sent, e)
      BY <2>1 DEF e
    <3> QED BY <1>2, <1>6, <2>2, <3>1, AppendSent DEF AicInv, SentInv
  <2>4. session[next].type = "DISPLAY_REQ"
    BY <2>2, <2>3
  <2>5. Entry.event.rh = session[next].rh /\ session[next].rh \in Remote /\ Entry.type = "DISPLAY_REQ"
    BY <2>2, <2>4, DisplayListed
  <2>6. e.obj = boList[session[next].rh] /\ e.frame = pFrame
    BY <2>5 DEF MessageOf, GetBo
  <2>7. Ready
    BY <2>2, <2>4 DEF ReadyInv
  <2> HIDE DEF e
  <2>8. sent'[i].obj \in 1 .. Len(objects) /\ objects[sent'[i].obj].frame = sent'[i].frame
    BY <2>3, <2>6, <2>7 DEF Ready
  <2> QED BY <2>2, <2>8 DEF Kept
<1>7. CASE i \in 1 .. n /\ i \in h + 1 .. n
  <2>1. sent'[i] = sent[i] /\ sent[i].type = "DISPLAY_REQ" /\ i \in 1 .. Len(sent) /\ i \in handled + 1 .. Len(sent)
    BY <1>2, <1>3, <1>4, <1>7
  <2>2. peer = "open"
    <3>1. peer = "open" \/ ClientConnect
      BY <1>1 DEF Next, Recording, RecordCreate, RecordRemove, RecordDisplay, RecordDispInfo, RecordDispPort,
                  RecordUnknown, RecordUser, Record, RecordRestart, ParseArgs, Emulator, InitFiles, InitGfx,
                  InitSocket, Accept, ProcessNextEntry, Alloc, GetOneFrame, CopyFrame, WritePart, Clear, ReadReply,
                  Exit, Client, ClientHandle, ClientUser, ClientClose, Goto, wireVars, vars
    <3>2. ASSUME ClientConnect PROVE FALSE
      <4>1. sent = <<>>
        BY <3>2 DEF ClientConnect, AicInv, ReplayInv, PhaseInv, Before
      <4>2. Len(sent) = 0
        BY <4>1
      <4> QED BY <2>1, <4>2
    <3> QED BY <3>1, <3>2
  <2>3. Kept(i) \/ Overtaken(i)
    BY <2>1, <2>2 DEF DrawInv
  <2>4. CASE Overtaken(i)
    BY <1>1, <2>1, <2>4, OvertakenStays
  <2>5. CASE Kept(i)
    <3>1. sent[i].obj \in 1 .. Len(objects) /\ objects[sent[i].obj].frame = sent[i].frame
      BY <2>5 DEF Kept
    <3>2. PICK o \in 1 .. Len(objects) : o = sent[i].obj
      BY <3>1
    <3>3. /\ o \in 1 .. Len(objects')
          /\ objects'[o].frame = objects[o].frame \/ (CopyFrame /\ o = boList[session[next].rh])
      BY FrameStays
    <3>4. CASE objects'[o].frame = objects[o].frame
      BY <2>1, <3>1, <3>2, <3>3, <3>4 DEF Kept
    <3>5. CASE CopyFrame /\ o = boList[session[next].rh]
      BY <2>1, <2>2, <3>2, <3>5, DrawnInTime
    <3> QED BY <3>3, <3>4, <3>5
  <2> QED BY <2>3, <2>4, <2>5
<1> QED BY <1>5, <1>6, <1>7

\* In every session, with any client and whatever its user sends, a client that is
\* there finds the buffer of a request as it was when the request was written, or the
\* emulator was entitled to draw to it for a later one (FramesStable): it never runs
\* further ahead of the client than the replies that are read short, the messages
\* sent unasked and the answers missing from the log account for.  The argument is
\* the account of AheadInv, of requests with the client and words not yet read.
THEOREM FramesKept == Spec => []FramesStable
<1> DEFINE Inv == OpenInv /\ AheadInv /\ ReadyInv /\ OwnInv /\ DrawInv
<1>1. Init => Inv
  <2> SUFFICES ASSUME Init PROVE Inv
    OBVIOUS
  <2>1. /\ sent = <<>> /\ pc = "record" /\ peer = "none" /\ unread = <<>>
        /\ boList = [r \in Remote |-> NoObject]
    BY DEF Init, GfxNew
  <2>2. Len(sent) = 0
    BY <2>1
  <2> QED BY <2>1, <2>2 DEF OpenInv, AheadInv, ReadyInv, OwnInv, DrawInv
<1>2. AicInv /\ AicInv' /\ Inv /\ [Next]_vars => Inv'
  BY OpenKept, AheadKept, ReadyKept, OwnKept, DrawKept
<1>3. Inv => FramesStable
  BY DEF DrawInv, FramesStable, Kept, Overtaken
<1> HIDE DEF Inv
<1> QED BY <1>1, <1>2, <1>3, InvHolds, PTL DEF Spec

=============================================================================
