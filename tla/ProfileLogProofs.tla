-------------------------- MODULE ProfileLogProofs --------------------------
(***************************************************************************)
(* What the emulator's parser makes of each document that ProfileLogger    *)
(* writes.  The two agree on the nesting of the structs for all documents  *)
(* but one: a display_control_t is written into buffer_info_event_t and    *)
(* looked for in "event", so it is never found.                            *)
(***************************************************************************)
EXTENDS ProfileLog, TLAPS

\* A document, field by field.
Document(name, direction, structs, open, type, ctrl, rh) ==
  [name |-> name, direction |-> direction, structs |-> structs, open |-> open,
   type |-> type, ctrl |-> ctrl, rh |-> rh]

-----------------------------------------------------------------------------
(* ProfileLogger.                                                           *)

\* AddStruct puts one struct into the document, and leaves the rest.
LEMMA AddOuter ==
  ASSUME NEW n, NEW d, NEW s, NEW o, NEW t, NEW c, NEW r, NEW name
  PROVE  AddStruct(Document(n, d, s, o, t, c, r), 1, name)
           = Document(n, d, s \cup {<<"event", name>>}, name, t, c, r)
<1> DEFINE doc == Document(n, d, s, o, t, c, r)
           e == [doc EXCEPT !.structs = @ \cup {<<"event", name>>}]
<1>1. e = Document(n, d, s \cup {<<"event", name>>}, o, t, c, r)
  BY DEF Document
<1>2. [e EXCEPT !.open = name]
        = Document(n, d, s \cup {<<"event", name>>}, name, t, c, r)
  <2> HIDE DEF e
  <2> QED BY <1>1 DEF Document
<1>3. AddStruct(doc, 1, name) = [e EXCEPT !.open = name]
  <2> HIDE DEF doc
  <2> QED BY DEF AddStruct
<1> QED BY <1>2, <1>3

\* A struct added at the second level lies in the one opened last.
LEMMA AddInner ==
  ASSUME NEW n, NEW d, NEW s, NEW o, NEW t, NEW c, NEW r, NEW name
  PROVE  AddStruct(Document(n, d, s, o, t, c, r), 2, name)
           = Document(n, d, s \cup {<<o, name>>}, o, t, c, r)
<1> DEFINE doc == Document(n, d, s, o, t, c, r)
           e == [doc EXCEPT !.structs = @ \cup {<<o, name>>}]
<1>1. doc.open = o
  BY DEF Document
<1>2. e = Document(n, d, s \cup {<<o, name>>}, o, t, c, r)
  BY DEF Document
<1>3. [e EXCEPT !.open = @] = e
  <2> HIDE DEF e
  <2> QED BY <1>2 DEF Document
<1>4. AddStruct(doc, 2, name) = [e EXCEPT !.open = @]
  <2>1. AddStruct(doc, 2, name)
          = [doc EXCEPT !.structs = @ \cup {<<doc.open, name>>}, !.open = @]
    <3> HIDE DEF doc
    <3> QED BY DEF AddStruct
  <2> QED BY <1>1, <2>1
<1> QED BY <1>2, <1>3, <1>4

\* With the event the type and the size are written.
LEMMA AddEvent ==
  ASSUME NEW n, NEW d, NEW s, NEW o, NEW t, NEW c, NEW r, NEW type, NEW ctrl,
         NEW u, NEW p, NEW level,
         AddStruct(Document(n, d, s, o, t, c, r), level, "display_event_t")
           = Document(n, d, u, p, t, c, r)
  PROVE  AddDisplayEventStruct(Document(n, d, s, o, t, c, r), type, ctrl, level)
           = Document(n, d, u, p, type, ctrl, r)
<1> DEFINE doc == AddStruct(Document(n, d, s, o, t, c, r), level, "display_event_t")
           e == [doc EXCEPT !.type = type]
<1>1. e = Document(n, d, u, p, type, c, r)
  <2> HIDE DEF doc
  <2>1. doc = Document(n, d, u, p, t, c, r)
    BY DEF doc
  <2> QED BY <2>1 DEF Document
<1>2. [e EXCEPT !.ctrl = ctrl] = Document(n, d, u, p, type, ctrl, r)
  <2> HIDE DEF e
  <2> QED BY <1>1 DEF Document
<1>3. AddDisplayEventStruct(Document(n, d, s, o, t, c, r), type, ctrl, level)
        = [e EXCEPT !.ctrl = ctrl]
  BY DEF AddDisplayEventStruct
<1> QED BY <1>2, <1>3

\* The event struct at the first level is opened, and sets type and ctrl.
LEMMA AddEventOuter ==
  ASSUME NEW n, NEW d, NEW s, NEW o, NEW t, NEW c, NEW r, NEW type, NEW ctrl
  PROVE  AddDisplayEventStruct(Document(n, d, s, o, t, c, r), type, ctrl, 1)
           = Document(n, d, s \cup {<<"event", "display_event_t">>}, "display_event_t",
                      type, ctrl, r)
BY AddOuter, AddEvent

\* At the second level it lies in the open one.
LEMMA AddEventInner ==
  ASSUME NEW n, NEW d, NEW s, NEW o, NEW t, NEW c, NEW r, NEW type, NEW ctrl
  PROVE  AddDisplayEventStruct(Document(n, d, s, o, t, c, r), type, ctrl, 2)
           = Document(n, d, s \cup {<<o, "display_event_t">>}, o, type, ctrl, r)
BY AddInner, AddEvent

\* The remote handle.
LEMMA AddInfo ==
  ASSUME NEW n, NEW d, NEW s, NEW o, NEW t, NEW c, NEW r, NEW rh
  PROVE  AddBufferInfoStruct(Document(n, d, s, o, t, c, r), rh, 2)
           = Document(n, d, s \cup {<<o, "buffer_info_t">>}, o, t, c, rh)
<1> DEFINE doc == AddStruct(Document(n, d, s, o, t, c, r), 2, "buffer_info_t")
<1>1. doc = Document(n, d, s \cup {<<o, "buffer_info_t">>}, o, t, c, r)
  BY AddInner
<1>2. [doc EXCEPT !.rh = rh] = Document(n, d, s \cup {<<o, "buffer_info_t">>}, o, t, c, rh)
  <2> HIDE DEF doc
  <2> QED BY <1>1 DEF Document
<1> QED BY <1>2, Zenon DEF AddBufferInfoStruct

-----------------------------------------------------------------------------
(* The documents.                                                           *)

\* The struct around the parts of a buffer event, and the paths in it.
Outer == "buffer_info_event_t"
BufferHead == {} \cup {<<"event", Outer>>} \cup {<<Outer, "display_event_t">>}

\* The head of a buffer event of the server.
LEMMA BufferEventDoc ==
  ASSUME NEW event \in {"CREATE_BUFFER", "REMOVE_BUFFER", "DISPLAY_REQ"}, NEW type, NEW ctrl
  PROVE  LogGenericEventInfo(event, type, ctrl)
           = Document(event, "receive", BufferHead, Outer, type, ctrl, NoRemote)
<1> DEFINE no == FALSE
           head == Document(event, "receive", {}, "event", "0", no, NoRemote)
           outer == Document(event, "receive", {} \cup {<<"event", Outer>>}, Outer, "0", no, NoRemote)
<1>1. Metadata(event) = head
  BY DEF Metadata, isSendEvent, RecvEvents, Document
<1>2. CheckProtocol_BufferInfoEvent(event) = 2
  BY DEF CheckProtocol_BufferInfoEvent
<1>3. LogGenericEventInfo(event, type, ctrl)
        = AddDisplayEventStruct(AddStruct(Metadata(event), 1, Outer), type, ctrl, 2)
  BY <1>2 DEF LogGenericEventInfo, Outer
<1> HIDE DEF no
<1>4. AddStruct(head, 1, Outer) = outer
  BY AddOuter
<1>5. AddDisplayEventStruct(outer, type, ctrl, 2)
        = Document(event, "receive", BufferHead, Outer, type, ctrl, NoRemote)
  BY AddEventInner DEF BufferHead
<1> HIDE DEF head, outer
<1> QED BY <1>1, <1>3, <1>4, <1>5

\* Any other event of the server.
LEMMA PlainEventDoc ==
  ASSUME NEW event \in {"DISPINFO_REQ", "DISPPORT_REQ", "UNKNOWN"}, NEW type, NEW ctrl
  PROVE  LogGenericEventInfo(event, type, ctrl)
           = Document(event, IF event = "UNKNOWN" THEN "send" ELSE "receive",
                      {} \cup {<<"event", "display_event_t">>}, "display_event_t", type, ctrl,
                      NoRemote)
<1> DEFINE dir == IF event = "UNKNOWN" THEN "send" ELSE "receive"
           no == FALSE
           head == Document(event, dir, {}, "event", "0", no, NoRemote)
<1>1. Metadata(event) = head
  BY DEF Metadata, isSendEvent, RecvEvents, Document
<1>2. CheckProtocol_BufferInfoEvent(event) = 1
  BY DEF CheckProtocol_BufferInfoEvent
<1>3. LogGenericEventInfo(event, type, ctrl)
        = AddDisplayEventStruct(Metadata(event), type, ctrl, 1)
  BY <1>2 DEF LogGenericEventInfo
<1> HIDE DEF dir, no
<1>4. AddDisplayEventStruct(head, type, ctrl, 1)
        = Document(event, dir, {} \cup {<<"event", "display_event_t">>}, "display_event_t",
                   type, ctrl, NoRemote)
  BY AddEventOuter
<1> HIDE DEF head
<1> QED BY <1>1, <1>3, <1>4 DEF dir

\* A message of the client.
LEMMA ClientEventDoc ==
  ASSUME NEW event \in SendEvents, NEW outer, NEW inner
  PROVE  AddEventStruct(event, outer, inner)
           = Document(event, "send", {} \cup {<<"event", outer>>} \cup {<<outer, "display_event_t">>}
                                        \cup {<<outer, inner>>}, outer, event, FALSE, NoRemote)
<1> DEFINE no == FALSE
           one == {} \cup {<<"event", outer>>}
           two == one \cup {<<outer, "display_event_t">>}
           head == Document(event, "send", {}, "event", "0", no, NoRemote)
           opened == Document(event, "send", one, outer, "0", no, NoRemote)
           typed == Document(event, "send", two, outer, event, no, NoRemote)
<1>1. Metadata(event) = head
  BY DEF Metadata, isSendEvent, RecvEvents, SendEvents, Document
<1>2. AddEventStruct(event, outer, inner)
        = AddStruct(AddDisplayEventStruct(AddStruct(Metadata(event), 1, outer), event, no, 2), 2, inner)
  BY DEF AddEventStruct
<1> HIDE DEF no
<1>3. AddStruct(head, 1, outer) = opened
  BY AddOuter
<1> HIDE DEF one
<1>4. AddDisplayEventStruct(opened, event, no, 2) = typed
  BY AddEventInner
<1> HIDE DEF two
<1>5. AddStruct(typed, 2, inner)
        = Document(event, "send", two \cup {<<outer, inner>>}, outer, event, no, NoRemote)
  BY AddInner
<1> HIDE DEF head, opened, typed
<1> QED BY <1>1, <1>2, <1>3, <1>4, <1>5 DEF one, two, no

-----------------------------------------------------------------------------
(* The parser.                                                              *)

\* The documents.
Struct == {"event", "display_event_t", "buffer_info_event_t", "buffer_info_t",
           "cros_gralloc_handle_t", "display_control_t", "display_info_event_t", "display_info_t",
           "display_port_event_t", "display_port_t", "display_set_video_alpha_event_t",
           "set_video_alpha_t"}

Doc == [name : LogEvents, direction : {"send", "receive"}, structs : SUBSET (Struct \X Struct),
        open : Struct, type : LogEvents \cup {"SERVER_IP_REQ"}, ctrl : BOOLEAN,
        rh : Remote \cup {NoRemote}]

\* An event that was decoded as it was logged.
Intact(event, e) == event.type = e.type /\ event.rh = e.rh /\ (event.ctrl <=> e.ctrl)

\* What DecodeNode makes of the document of a message e, of which the client
\* received all or only the beginning.
Matches(doc, e) ==
  LET entry == DecodeNode(doc)
  IN /\ entry.empty <=> e.type \in {"UNKNOWN", "SET_VIDEO_ALPHA_REQ"}
     /\ e.type \notin {"UNKNOWN", "SET_VIDEO_ALPHA_REQ"} =>
          /\ entry.type = e.type
          /\ entry.direction = IF e.type \in RecvEvents THEN "SEND" ELSE "RECEIVE"
     /\ e.type \in {"CREATE_BUFFER", "REMOVE_BUFFER", "DISPLAY_REQ"} =>
          /\ e.whole => Intact(entry.event, e)
          /\ ~e.whole /\ e.type = "CREATE_BUFFER" => ~entry.second
          /\ ~e.whole /\ e.type = "REMOVE_BUFFER" => entry.event = ZeroEvent
          /\ ~e.whole /\ e.type = "DISPLAY_REQ" => entry.event = ZeroEvent \/ entry.event.ctrl
     /\ e.type = "CREATE_BUFFER" /\ e.whole => entry.second
     /\ e.type = "DISPLAY_REQ" => ~entry.second
     /\ e.type \in {"DISPINFO_REQ", "DISPPORT_REQ"} => Intact(entry.event, e)

\* The fields of a payload.
LEMMA DecodeFields ==
  ASSUME NEW doc
  PROVE  LET type == GetEventCode(doc.name)
             entry == DecodeNode(doc)
         IN /\ entry.type = type
            /\ entry.direction = Direction(doc)
            /\ entry.empty = (type = "0")
            /\ type \in {"DISPINFO_REQ", "DISPPORT_REQ"} => entry.event = DecodeDisplayEvent(doc)
            /\ type \in {"CREATE_BUFFER", "REMOVE_BUFFER", "DISPLAY_REQ"} =>
                 entry.event = DecodeBufferInfoEvent(doc)
            /\ type = "CREATE_BUFFER" => entry.second = DecodeCrosGralloc(doc)
            /\ type = "DISPLAY_REQ" =>
                 entry.second = (DecodeBufferInfoEvent(doc).ctrl /\ DecodeDisplayCtrl(doc))
<1> DEFINE type == GetEventCode(doc.name)
<1> HIDE DEF type
<1> QED BY DEF DecodeNode, type

\* A buffer event is found when both its structs are where they are looked for.
LEMMA BufferDecoded ==
  ASSUME NEW n \in {"CREATE_BUFFER", "REMOVE_BUFFER", "DISPLAY_REQ"}, NEW s, NEW o, NEW t, NEW c,
         NEW r, <<Outer, "display_event_t">> \in s, <<"event", "display_control_t">> \notin s
  PROVE  LET doc == Document(n, "receive", s, o, t, c, r)
             entry == DecodeNode(doc)
         IN /\ entry.type = n /\ entry.direction = "SEND" /\ ~entry.empty
            /\ <<Outer, "buffer_info_t">> \in s =>
                 entry.event.type = t /\ entry.event.rh = r /\ entry.event.ctrl = c
            /\ <<Outer, "buffer_info_t">> \notin s => entry.event = ZeroEvent
            /\ n = "CREATE_BUFFER" => (entry.second <=> <<Outer, "cros_gralloc_handle_t">> \in s)
            /\ n = "DISPLAY_REQ" => ~entry.second
<1> DEFINE doc == Document(n, "receive", s, o, t, c, r)
<1>1. /\ doc.name = n /\ doc.direction = "receive" /\ doc.structs = s
      /\ doc.type = t /\ doc.ctrl = c /\ doc.rh = r
  BY DEF Document
<1> HIDE DEF doc
<1>2. GetEventCode(doc.name) = n /\ n # "0"
  BY <1>1 DEF GetEventCode, LogEvents, RecvEvents, SendEvents
<1>3. Direction(doc) = "SEND"
  BY <1>1 DEF Direction
<1>4. DecodeBufferInfoEvent(doc) = IF <<Outer, "buffer_info_t">> \in s
                                   THEN [type |-> t, ctrl |-> c, rh |-> r] ELSE ZeroEvent
  BY <1>1 DEF DecodeBufferInfoEvent, Has, Outer
<1>5. DecodeCrosGralloc(doc) = (<<Outer, "cros_gralloc_handle_t">> \in s)
  BY <1>1 DEF DecodeCrosGralloc, Has, Outer
<1>6. ~DecodeDisplayCtrl(doc)
  BY <1>1 DEF DecodeDisplayCtrl, Has
<1>7. DecodeNode(doc).type = n /\ DecodeNode(doc).direction = "SEND" /\ ~DecodeNode(doc).empty
  BY <1>2, <1>3, DecodeFields
<1>8. DecodeNode(doc).event = DecodeBufferInfoEvent(doc)
  BY <1>2, DecodeFields
<1>9. n = "CREATE_BUFFER" => DecodeNode(doc).second = DecodeCrosGralloc(doc)
  BY <1>2, DecodeFields
<1>10. n = "DISPLAY_REQ" =>
         DecodeNode(doc).second = (DecodeBufferInfoEvent(doc).ctrl /\ DecodeDisplayCtrl(doc))
  BY <1>2, DecodeFields
<1>11. /\ <<Outer, "buffer_info_t">> \in s =>
            /\ DecodeNode(doc).event.type = t /\ DecodeNode(doc).event.rh = r
            /\ DecodeNode(doc).event.ctrl = c
       /\ <<Outer, "buffer_info_t">> \notin s => DecodeNode(doc).event = ZeroEvent
  BY <1>4, <1>8
<1> QED BY <1>5, <1>6, <1>7, <1>9, <1>10, <1>11 DEF doc

\* The paths of a buffer event.
LEMMA Paths ==
  /\ BufferHead \in SUBSET (Struct \X Struct)
  /\ <<Outer, "buffer_info_t">> \in Struct \X Struct
  /\ <<Outer, "cros_gralloc_handle_t">> \in Struct \X Struct
  /\ <<Outer, "display_control_t">> \in Struct \X Struct
  /\ <<Outer, "display_event_t">> \in BufferHead
  /\ <<Outer, "buffer_info_t">> \notin BufferHead
  /\ <<Outer, "cros_gralloc_handle_t">> \notin BufferHead
  /\ <<"event", "display_control_t">> \notin BufferHead
  /\ <<Outer, "buffer_info_t">> # <<Outer, "cros_gralloc_handle_t">>
  /\ <<"event", "display_control_t">> \notin {<<Outer, "buffer_info_t">>, <<Outer, "display_control_t">>}
BY DEF BufferHead, Outer, Struct

\* A buffer event's document with the structs s matches the message.
LEMMA BufferMatches ==
  ASSUME NEW n \in {"CREATE_BUFFER", "REMOVE_BUFFER", "DISPLAY_REQ"}, NEW s, NEW o, NEW c, NEW r,
         NEW e, e.type = n, <<Outer, "display_event_t">> \in s,
         <<"event", "display_control_t">> \notin s,
         e.whole => e.rh = r /\ e.ctrl = c /\ <<Outer, "buffer_info_t">> \in s,
         n = "CREATE_BUFFER" => (e.whole <=> <<Outer, "cros_gralloc_handle_t">> \in s),
         n = "REMOVE_BUFFER" /\ ~e.whole => <<Outer, "buffer_info_t">> \notin s,
         n = "DISPLAY_REQ" /\ ~e.whole => c \/ <<Outer, "buffer_info_t">> \notin s
  PROVE  Matches(Document(n, "receive", s, o, n, c, r), e)
<1> DEFINE entry == DecodeNode(Document(n, "receive", s, o, n, c, r))
<1>1. /\ entry.type = n /\ entry.direction = "SEND" /\ ~entry.empty
      /\ <<Outer, "buffer_info_t">> \in s =>
           entry.event.type = n /\ entry.event.rh = r /\ entry.event.ctrl = c
      /\ <<Outer, "buffer_info_t">> \notin s => entry.event = ZeroEvent
      /\ n = "CREATE_BUFFER" => (entry.second <=> <<Outer, "cros_gralloc_handle_t">> \in s)
      /\ n = "DISPLAY_REQ" => ~entry.second
  BY BufferDecoded
<1> HIDE DEF entry
<1>2. e.whole => Intact(entry.event, e)
  BY <1>1 DEF Intact
<1>3. ~e.whole /\ n = "DISPLAY_REQ" => entry.event = ZeroEvent \/ entry.event.ctrl
  BY <1>1
<1> QED BY <1>1, <1>2, <1>3 DEF Matches, entry, RecvEvents

\* Buffer events with the structs that were received.
LEMMA CreateDecoded ==
  ASSUME NEW r \in Remote, NEW e, e.type = "CREATE_BUFFER", e.rh = r, ~e.ctrl, e.ctrl \in BOOLEAN,
         NEW parts \in {0, 1, 2}, e.whole <=> parts = 2
  PROVE  \E doc \in Doc : CreateBuffer(r, parts) = <<doc>> /\ Matches(doc, e)
<1> DEFINE no == FALSE
           n == "CREATE_BUFFER"
           one == BufferHead \cup {<<Outer, "buffer_info_t">>}
           two == one \cup {<<Outer, "cros_gralloc_handle_t">>}
           head == Document(n, "receive", BufferHead, Outer, n, no, NoRemote)
           info == Document(n, "receive", one, Outer, n, no, r)
           full == Document(n, "receive", two, Outer, n, no, r)
<1>1. LogGenericEventInfo(n, n, no) = head
  BY BufferEventDoc
<1>2. AddBufferInfoStruct(head, r, 2) = info
  <2> HIDE DEF no
  <2> QED BY AddInfo
<1>3. AddGrallocHandleStruct(info, 2) = full
  <2> HIDE DEF no, one
  <2> QED BY AddInner DEF AddGrallocHandleStruct
<1>4. /\ CreateBuffer(r, 0) = <<LogGenericEventInfo(n, n, no)>>
      /\ CreateBuffer(r, 1) = <<AddBufferInfoStruct(LogGenericEventInfo(n, n, no), r, 2)>>
      /\ CreateBuffer(r, 2) = <<AddGrallocHandleStruct(
                                  AddBufferInfoStruct(LogGenericEventInfo(n, n, no), r, 2), 2)>>
  BY DEF CreateBuffer
<1>5. CreateBuffer(r, 0) = <<head>> /\ CreateBuffer(r, 1) = <<info>> /\ CreateBuffer(r, 2) = <<full>>
  <2> HIDE DEF head, info, full, no
  <2> QED BY <1>1, <1>2, <1>3, <1>4
<1>6. /\ <<Outer, "display_event_t">> \in one /\ <<Outer, "display_event_t">> \in two
      /\ <<Outer, "buffer_info_t">> \in two
      /\ <<Outer, "cros_gralloc_handle_t">> \notin one /\ <<Outer, "cros_gralloc_handle_t">> \in two
      /\ <<"event", "display_control_t">> \notin one /\ <<"event", "display_control_t">> \notin two
      /\ one \in SUBSET (Struct \X Struct) /\ two \in SUBSET (Struct \X Struct)
  BY Paths DEF Outer
<1> HIDE DEF one, two
<1>7. head \in Doc /\ info \in Doc /\ full \in Doc
  BY <1>6, Paths DEF Doc, Document, Outer, LogEvents, RecvEvents, Struct
<1>8. n \in {"CREATE_BUFFER", "REMOVE_BUFFER", "DISPLAY_REQ"} /\ e.ctrl = no
  OBVIOUS
<1> HIDE DEF no, n
<1>9. CASE parts = 0
  <2>1. Matches(head, e)
    BY <1>8, <1>9, Paths, BufferMatches DEF n
  <2> QED BY <1>5, <1>7, <1>9, <2>1
<1>10. CASE parts = 1
  <2>1. Matches(info, e)
    BY <1>6, <1>8, <1>10, BufferMatches DEF n
  <2> QED BY <1>5, <1>7, <1>10, <2>1
<1>11. CASE parts = 2
  <2>1. Matches(full, e)
    BY <1>6, <1>8, <1>11, BufferMatches DEF n
  <2> QED BY <1>5, <1>7, <1>11, <2>1
<1> QED BY <1>9, <1>10, <1>11

\* The document of RemoveBuffer() is decoded as the removal it records.
LEMMA RemoveDecoded ==
  ASSUME NEW r \in Remote, NEW e, e.type = "REMOVE_BUFFER", e.rh = r, ~e.ctrl, e.ctrl \in BOOLEAN,
         NEW parts \in {0, 1}, e.whole <=> parts = 1
  PROVE  \E doc \in Doc : RemoveBuffer(r, parts) = <<doc>> /\ Matches(doc, e)
<1> DEFINE no == FALSE
           n == "REMOVE_BUFFER"
           one == BufferHead \cup {<<Outer, "buffer_info_t">>}
           head == Document(n, "receive", BufferHead, Outer, n, no, NoRemote)
           info == Document(n, "receive", one, Outer, n, no, r)
<1>1. LogGenericEventInfo(n, n, no) = head
  BY BufferEventDoc
<1>2. AddBufferInfoStruct(head, r, 2) = info
  <2> HIDE DEF no
  <2> QED BY AddInfo
<1>3. /\ RemoveBuffer(r, 0) = <<LogGenericEventInfo(n, n, no)>>
      /\ RemoveBuffer(r, 1) = <<AddBufferInfoStruct(LogGenericEventInfo(n, n, no), r, 2)>>
  BY DEF RemoveBuffer
<1>4. RemoveBuffer(r, 0) = <<head>> /\ RemoveBuffer(r, 1) = <<info>>
  <2> HIDE DEF head, info, no
  <2> QED BY <1>1, <1>2, <1>3
<1>5. /\ <<Outer, "display_event_t">> \in one /\ <<Outer, "buffer_info_t">> \in one
      /\ <<"event", "display_control_t">> \notin one
      /\ one \in SUBSET (Struct \X Struct)
  BY Paths DEF Outer
<1> HIDE DEF one
<1>6. head \in Doc /\ info \in Doc
  BY <1>5, Paths DEF Doc, Document, Outer, LogEvents, RecvEvents, Struct
<1>7. n \in {"CREATE_BUFFER", "REMOVE_BUFFER", "DISPLAY_REQ"} /\ e.ctrl = no
  OBVIOUS
<1> HIDE DEF no, n
<1>8. CASE parts = 0
  <2>1. Matches(head, e)
    BY <1>7, <1>8, Paths, BufferMatches DEF n
  <2> QED BY <1>4, <1>6, <1>8, <2>1
<1>9. CASE parts = 1
  <2>1. Matches(info, e)
    BY <1>5, <1>7, <1>9, BufferMatches DEF n
  <2> QED BY <1>4, <1>6, <1>9, <2>1
<1> QED BY <1>8, <1>9

\* The display_control_t that is received with a request is not where it is
\* looked for, and a request that announces one is not found to have it.
LEMMA DisplayDecoded ==
  ASSUME NEW r \in Remote, NEW e, e.type = "DISPLAY_REQ", e.rh = r, e.ctrl \in BOOLEAN,
         NEW parts \in {0, 1, 2}, e.whole <=> parts = 2, parts = 1 => e.ctrl
  PROVE  \E doc \in Doc : DisplayRequest(r, e.ctrl, parts, FALSE) = <<doc>> /\ Matches(doc, e)
<1> DEFINE c == e.ctrl
           n == "DISPLAY_REQ"
           one == BufferHead \cup {<<Outer, "buffer_info_t">>}
           two == one \cup {<<Outer, "display_control_t">>}
           head == Document(n, "receive", BufferHead, Outer, n, c, NoRemote)
           info == Document(n, "receive", one, Outer, n, c, r)
           full == Document(n, "receive", two, Outer, n, c, r)
<1>0. c \in BOOLEAN
  OBVIOUS
<1>1. LogGenericEventInfo(n, n, c) = head
  BY BufferEventDoc
<1>2. AddBufferInfoStruct(head, r, 2) = info
  <2> HIDE DEF c
  <2> QED BY AddInfo
<1>3. AddDisplayControlStruct(info, 2) = full
  <2> HIDE DEF c, one
  <2> QED BY AddInner DEF AddDisplayControlStruct
<1>4. /\ DisplayRequest(r, c, 0, FALSE) = <<LogGenericEventInfo(n, n, c)>>
      /\ DisplayRequest(r, c, 1, FALSE) = <<AddBufferInfoStruct(LogGenericEventInfo(n, n, c), r, 2)>>
      /\ ~c => DisplayRequest(r, c, 2, FALSE)
                 = <<AddBufferInfoStruct(LogGenericEventInfo(n, n, c), r, 2)>>
      /\ c => DisplayRequest(r, c, 2, FALSE)
                = <<AddDisplayControlStruct(
                      AddBufferInfoStruct(LogGenericEventInfo(n, n, c), r, 2), 2)>>
  BY DEF DisplayRequest
<1>5. /\ DisplayRequest(r, c, 0, FALSE) = <<head>>
      /\ DisplayRequest(r, c, 1, FALSE) = <<info>>
      /\ ~c => DisplayRequest(r, c, 2, FALSE) = <<info>>
      /\ c => DisplayRequest(r, c, 2, FALSE) = <<full>>
  <2> HIDE DEF head, info, full
  <2> QED BY <1>1, <1>2, <1>3, <1>4
<1>6. /\ <<Outer, "display_event_t">> \in one /\ <<Outer, "display_event_t">> \in two
      /\ <<Outer, "buffer_info_t">> \in one /\ <<Outer, "buffer_info_t">> \in two
      /\ <<"event", "display_control_t">> \notin one /\ <<"event", "display_control_t">> \notin two
      /\ one \in SUBSET (Struct \X Struct) /\ two \in SUBSET (Struct \X Struct)
  BY Paths DEF Outer
<1> HIDE DEF one, two
<1>7. head \in Doc /\ info \in Doc /\ full \in Doc
  BY <1>0, <1>6, Paths DEF Doc, Document, Outer, LogEvents, RecvEvents, Struct
<1>8. n \in {"CREATE_BUFFER", "REMOVE_BUFFER", "DISPLAY_REQ"}
  OBVIOUS
<1> HIDE DEF n
<1>9. CASE parts = 0
  <2>1. Matches(head, e)
    BY <1>8, <1>9, Paths, BufferMatches DEF n
  <2> QED BY <1>5, <1>7, <1>9, <2>1
<1>10. CASE parts = 1
  <2>1. Matches(info, e)
    BY <1>6, <1>8, <1>10, BufferMatches DEF n
  <2> QED BY <1>5, <1>7, <1>10, <2>1
<1>11. CASE parts = 2 /\ c
  <2>1. Matches(full, e)
    BY <1>6, <1>8, <1>11, BufferMatches DEF n
  <2> QED BY <1>5, <1>7, <1>11, <2>1
<1>12. CASE parts = 2 /\ ~c
  <2>1. Matches(info, e)
    BY <1>6, <1>8, <1>12, BufferMatches DEF n
  <2> QED BY <1>5, <1>7, <1>12, <2>1
<1> QED BY <1>9, <1>10, <1>11, <1>12

\* An event of the server without a buffer.
LEMMA PlainDecoded ==
  ASSUME NEW n \in {"DISPINFO_REQ", "DISPPORT_REQ"}, NEW e, e.type = n, e.rh = NoRemote, ~e.ctrl,
         NEW d, d = LogGenericEventInfo(n, n, FALSE)
  PROVE  d \in Doc /\ Matches(d, e)
<1> DEFINE no == FALSE
           doc == Document(n, "receive", {} \cup {<<"event", "display_event_t">>}, "display_event_t", n,
                           no, NoRemote)
<1>1. n \in {"DISPINFO_REQ", "DISPPORT_REQ"}
  OBVIOUS
<1>2. LogGenericEventInfo(n, n, no) = doc
  <2> HIDE DEF no
  <2>1. n # "UNKNOWN" /\ n \in {"DISPINFO_REQ", "DISPPORT_REQ", "UNKNOWN"}
    BY <1>1
  <2> QED BY <2>1, PlainEventDoc
<1>3. doc \in Doc
  BY <1>1 DEF Doc, Document, Struct, LogEvents, RecvEvents
<1>4. /\ doc.name = n /\ doc.direction = "receive" /\ doc.type = n
      /\ <<"event", "display_event_t">> \in doc.structs
  BY DEF Document
<1> HIDE DEF doc
<1>5. GetEventCode(doc.name) = n /\ n # "0"
  BY <1>1, <1>4 DEF GetEventCode, LogEvents, RecvEvents, SendEvents
<1>6. DecodeNode(doc).type = n /\ DecodeNode(doc).direction = "SEND" /\ ~DecodeNode(doc).empty
  BY <1>4, <1>5, DecodeFields DEF Direction
<1>7. DecodeNode(doc).event = [ZeroEvent EXCEPT !.type = n]
  BY <1>1, <1>4, <1>5, DecodeFields DEF DecodeDisplayEvent, Has
<1>8. /\ DecodeNode(doc).event.type = n /\ DecodeNode(doc).event.rh = NoRemote
      /\ ~DecodeNode(doc).event.ctrl
  BY <1>7 DEF ZeroEvent
<1>9. Intact(DecodeNode(doc).event, e)
  BY <1>8 DEF Intact
<1>10. Matches(doc, e)
  BY <1>1, <1>6, <1>9 DEF Matches, RecvEvents
<1> QED BY <1>2, <1>3, <1>10

\* One that the client does not know is not known to the emulator either.
LEMMA UnknownDecoded ==
  ASSUME NEW e, e.type = "UNKNOWN"
  PROVE  /\ LogGenericEventInfo("UNKNOWN", "SERVER_IP_REQ", FALSE) \in Doc
         /\ Matches(LogGenericEventInfo("UNKNOWN", "SERVER_IP_REQ", FALSE), e)
<1> DEFINE n == "UNKNOWN"
           no == FALSE
           doc == Document(n, "send", {} \cup {<<"event", "display_event_t">>}, "display_event_t",
                           "SERVER_IP_REQ", no, NoRemote)
<1>1. LogGenericEventInfo(n, "SERVER_IP_REQ", no) = doc
  <2> HIDE DEF no, n
  <2>1. n = "UNKNOWN" /\ n \in {"DISPINFO_REQ", "DISPPORT_REQ", "UNKNOWN"}
    BY DEF n
  <2> QED BY <2>1, PlainEventDoc
<1>2. doc \in Doc
  BY DEF Doc, Document, Struct, LogEvents
<1>3. doc.name = "UNKNOWN"
  BY DEF Document
<1> HIDE DEF doc
<1>4. GetEventCode(doc.name) = "0"
  BY <1>3 DEF GetEventCode
<1>5. DecodeNode(doc).empty
  BY <1>4, DecodeFields
<1>6. Matches(doc, e)
  BY <1>5 DEF Matches
<1> QED BY <1>1, <1>2, <1>6

\* A message of the client: its name and direction are all that is used.
LEMMA ClientDecoded ==
  ASSUME NEW e, e.type \in SendEvents, NEW doc, doc.name = e.type, doc.direction = "send"
  PROVE  Matches(doc, e)
<1>1. e.type # "SET_VIDEO_ALPHA_REQ" => GetEventCode(doc.name) = e.type /\ e.type # "0"
  BY DEF GetEventCode, LogEvents, SendEvents
<1>2. e.type = "SET_VIDEO_ALPHA_REQ" => GetEventCode(doc.name) = "0"
  BY DEF GetEventCode
<1>3. /\ DecodeNode(doc).type = GetEventCode(doc.name)
      /\ DecodeNode(doc).direction = "RECEIVE"
      /\ DecodeNode(doc).empty <=> GetEventCode(doc.name) = "0"
  BY DecodeFields DEF Direction
<1> QED BY <1>1, <1>2, <1>3 DEF Matches, RecvEvents, SendEvents

\* The documents of messages that the client sends.
LEMMA ClientTyped ==
  ASSUME NEW event \in SendEvents, NEW outer \in Struct, NEW inner \in Struct
  PROVE  LET doc == AddEventStruct(event, outer, inner)
         IN doc \in Doc /\ doc.name = event /\ doc.direction = "send"
<1> DEFINE s == {} \cup {<<"event", outer>>} \cup {<<outer, "display_event_t">>}
                  \cup {<<outer, inner>>}
<1>1. AddEventStruct(event, outer, inner) = Document(event, "send", s, outer, event, FALSE, NoRemote)
  BY ClientEventDoc
<1>2. s \in SUBSET (Struct \X Struct)
  BY DEF Struct
<1> HIDE DEF s
<1>3. Document(event, "send", s, outer, event, FALSE, NoRemote) \in Doc
  BY <1>2 DEF Doc, Document, LogEvents
<1>4. /\ Document(event, "send", s, outer, event, FALSE, NoRemote).name = event
      /\ Document(event, "send", s, outer, event, FALSE, NoRemote).direction = "send"
  BY DEF Document
<1> QED BY <1>1, <1>3, <1>4

\* The messages of the client.
LEMMA ReplyDecoded ==
  ASSUME NEW e
  PROVE  /\ e.type \in {"DISPINFO_ACK", "SETUP_RESOLUTION"} =>
              /\ AddDisplayInfoEventStruct(e.type) \in Doc
              /\ Matches(AddDisplayInfoEventStruct(e.type), e)
         /\ e.type = "DISPPORT_ACK" =>
              AddDisplayPortEventStruct \in Doc /\ Matches(AddDisplayPortEventStruct, e)
         /\ e.type = "SET_VIDEO_ALPHA_REQ" =>
              AddVideoAlphaEventStruct \in Doc /\ Matches(AddVideoAlphaEventStruct, e)
<1>1. ASSUME e.type \in {"DISPINFO_ACK", "SETUP_RESOLUTION"}
      PROVE  /\ AddDisplayInfoEventStruct(e.type) \in Doc
             /\ Matches(AddDisplayInfoEventStruct(e.type), e)
  <2>1. e.type \in SendEvents /\ "display_info_event_t" \in Struct /\ "display_info_t" \in Struct
    BY <1>1 DEF SendEvents, Struct
  <2> QED BY <2>1, ClientTyped, ClientDecoded DEF AddDisplayInfoEventStruct
<1>2. ASSUME e.type = "DISPPORT_ACK"
      PROVE  AddDisplayPortEventStruct \in Doc /\ Matches(AddDisplayPortEventStruct, e)
  <2>1. e.type \in SendEvents /\ "display_port_event_t" \in Struct /\ "display_port_t" \in Struct
    BY <1>2 DEF SendEvents, Struct
  <2>2. AddDisplayPortEventStruct = AddEventStruct(e.type, "display_port_event_t", "display_port_t")
    BY <1>2 DEF AddDisplayPortEventStruct
  <2> QED BY <2>1, <2>2, ClientTyped, ClientDecoded
<1>3. ASSUME e.type = "SET_VIDEO_ALPHA_REQ"
      PROVE  AddVideoAlphaEventStruct \in Doc /\ Matches(AddVideoAlphaEventStruct, e)
  <2>1. /\ e.type \in SendEvents /\ "display_set_video_alpha_event_t" \in Struct
        /\ "set_video_alpha_t" \in Struct
    BY <1>3 DEF SendEvents, Struct
  <2>2. AddVideoAlphaEventStruct
          = AddEventStruct(e.type, "display_set_video_alpha_event_t", "set_video_alpha_t")
    BY <1>3 DEF AddVideoAlphaEventStruct
  <2> QED BY <2>1, <2>2, ClientTyped, ClientDecoded
<1> QED BY <1>1, <1>2, <1>3

\* The acknowledgement of a display request.
LEMMA AckDecoded ==
  ASSUME NEW r \in Remote, NEW e, e.type = "DISPLAY_ACK"
  PROVE  AddBufferInfoEventStruct(r) \in Doc /\ Matches(AddBufferInfoEventStruct(r), e)
<1> DEFINE doc == AddEventStruct("DISPLAY_ACK", "buffer_info_event_t", "buffer_info_t")
<1>1. "DISPLAY_ACK" \in SendEvents /\ "buffer_info_event_t" \in Struct /\ "buffer_info_t" \in Struct
  BY DEF SendEvents, Struct
<1>2. doc \in Doc /\ doc.name = e.type /\ doc.direction = "send"
  BY <1>1, ClientTyped
<1>3. AddBufferInfoEventStruct(r) = [doc EXCEPT !.rh = r]
  BY DEF AddBufferInfoEventStruct
<1> HIDE DEF doc
<1>4. /\ AddBufferInfoEventStruct(r) \in Doc
      /\ AddBufferInfoEventStruct(r).name = e.type /\ AddBufferInfoEventStruct(r).direction = "send"
  BY <1>2, <1>3 DEF Doc
<1> QED BY <1>1, <1>4, ClientDecoded
=============================================================================
