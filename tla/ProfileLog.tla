----------------------------- MODULE ProfileLog -----------------------------
(***************************************************************************)
(* The YML event log: what ProfileLogger (source/hwc_profile_log.cc)       *)
(* writes of each message of a session, and what the AiC emulator          *)
(* (aic-emu/YmlParser.cc, CmdHandler::DecodeNode) reads back of it.        *)
(*                                                                         *)
(* A document is kept as the set of its structs, each with the node it is  *)
(* nested in, which is what the indentation of the file decides and what   *)
(* the parser looks up.  Of the fields only those are kept that decide     *)
(* what the emulator does: the event's name and direction, the type in the *)
(* display_event_t, whether its size announces a display_control_t, and    *)
(* the remote_handle.                                                      *)
(***************************************************************************)
EXTENDS Naturals, Sequences

CONSTANTS
  Remote,     \* remote_handle values
  NoRemote    \* the remote_handle of a zeroed buffer_info_t

ASSUME RemoteAssumption == Remote \subseteq Nat \ {NoRemote}

-----------------------------------------------------------------------------
(* ProfileLogger.                                                           *)

RecvEvents == {"CREATE_BUFFER", "REMOVE_BUFFER", "DISPLAY_REQ", "DISPINFO_REQ",
               "DISPPORT_REQ"}
SendEvents == {"DISPLAY_ACK", "DISPINFO_ACK", "DISPPORT_ACK", "SETUP_RESOLUTION",
               "SET_VIDEO_ALPHA_REQ"}
LogEvents == RecvEvents \cup SendEvents \cup {"UNKNOWN"}

TranslateEvType(type) ==
  IF type \in RecvEvents \cup SendEvents THEN type ELSE "UNKNOWN"

\* event >= SEND_EVENTS_START; EVENT_UNKNOWN comes last in the enumeration.
isSendEvent(event) == event \notin RecvEvents

\* One more struct, at a level of indentation: directly under "event", or in
\* the struct that was last opened there.
AddStruct(doc, level, name) ==
  [doc EXCEPT !.structs = @ \cup {<<IF level = 1 THEN "event" ELSE doc.open, name>>},
              !.open = IF level = 1 THEN name ELSE @]

AddDisplayEventStruct(doc, type, ctrl, level) ==
  [AddStruct(doc, level, "display_event_t") EXCEPT !.type = type, !.ctrl = ctrl]

AddBufferInfoStruct(doc, r, level) ==
  [AddStruct(doc, level, "buffer_info_t") EXCEPT !.rh = r]

AddGrallocHandleStruct(doc, level) == AddStruct(doc, level, "cros_gralloc_handle_t")

AddDisplayControlStruct(doc, level) == AddStruct(doc, level, "display_control_t")

\* Mutant: one of the buffer events is forgotten.
RemoveLoggedFlat(event) ==
  IF event \in {"CREATE_BUFFER", "DISPLAY_REQ"} THEN 2 ELSE 1

\* A buffer event's display_event_t is written as part of a buffer_info_event_t.
CheckProtocol_BufferInfoEvent(event) ==
  IF event \in {"CREATE_BUFFER", "REMOVE_BUFFER", "DISPLAY_REQ"} THEN 2 ELSE 1

\* The head of a document, without an event struct.
Metadata(event) ==
  [name |-> event, direction |-> IF isSendEvent(event) THEN "send" ELSE "receive",
   structs |-> {}, open |-> "event", type |-> "0", ctrl |-> FALSE, rh |-> NoRemote]

LogGenericEventInfo(event, type, ctrl) ==
  LET level == CheckProtocol_BufferInfoEvent(event)
      doc   == Metadata(event)
  IN AddDisplayEventStruct(IF level = 2 THEN AddStruct(doc, 1, "buffer_info_event_t")
                           ELSE doc, type, ctrl, level)

\* The document of a message of the client: an event of its own.
AddEventStruct(event, outer, inner) ==
  LET doc == AddStruct(Metadata(event), 1, outer)
  IN AddStruct(AddDisplayEventStruct(doc, event, FALSE, 2), 2, inner)

AddBufferInfoEventStruct(r) ==
  [AddEventStruct("DISPLAY_ACK", "buffer_info_event_t", "buffer_info_t")
     EXCEPT !.rh = r]

AddDisplayInfoEventStruct(event) ==
  AddEventStruct(event, "display_info_event_t", "display_info_t")

AddDisplayPortEventStruct ==
  AddEventStruct("DISPPORT_ACK", "display_port_event_t", "display_port_t")

AddVideoAlphaEventStruct ==
  AddEventStruct("SET_VIDEO_ALPHA_REQ", "display_set_video_alpha_event_t",
                 "set_video_alpha_t")

-----------------------------------------------------------------------------
(* What VirtualHwcReceiver logs while it handles a message of the server.   *)
(* "parts" says how many structs behind the header it received.             *)

CreateBuffer(r, parts) ==
  LET head == LogGenericEventInfo("CREATE_BUFFER", "CREATE_BUFFER", FALSE)
      info == IF parts >= 1 THEN AddBufferInfoStruct(head, r, 2) ELSE head
  IN <<IF parts = 2 THEN AddGrallocHandleStruct(info, 2) ELSE info>>

RemoveBuffer(r, parts) ==
  LET head == LogGenericEventInfo("REMOVE_BUFFER", "REMOVE_BUFFER", FALSE)
  IN <<IF parts >= 1 THEN AddBufferInfoStruct(head, r, 2) ELSE head>>

\* The acknowledgement is logged only when it was sent.
DisplayRequest(r, ctrl, parts, acked) ==
  LET head == LogGenericEventInfo("DISPLAY_REQ", "DISPLAY_REQ", ctrl)
      info == IF parts >= 1 THEN AddBufferInfoStruct(head, r, 2) ELSE head
      doc  == IF ctrl /\ parts = 2 THEN AddDisplayControlStruct(info, 2) ELSE info
  IN IF acked THEN <<doc, AddBufferInfoEventStruct(r)>> ELSE <<doc>>

UpdateDispConfig ==
  <<LogGenericEventInfo("DISPINFO_REQ", "DISPINFO_REQ", FALSE),
    AddDisplayInfoEventStruct("DISPINFO_ACK")>>

UpdateDispPort ==
  <<LogGenericEventInfo("DISPPORT_REQ", "DISPPORT_REQ", FALSE),
    AddDisplayPortEventStruct>>

-----------------------------------------------------------------------------
(* The emulator's parser.  A struct that is not where it is looked for      *)
(* leaves the zeroes of make_shared in its place.                           *)

\* The name of SET_VIDEO_ALPHA_REQ is not in the list.
GetEventCode(name) ==
  IF name \in LogEvents \ {"SET_VIDEO_ALPHA_REQ", "UNKNOWN"} THEN name ELSE "0"

\* The log is written from the client's side.
Direction(doc) == IF doc.direction = "send" THEN "RECEIVE" ELSE "SEND"

Has(doc, outer, inner) == <<outer, inner>> \in doc.structs

ZeroEvent == [type |-> "0", ctrl |-> FALSE, rh |-> NoRemote]

DecodeDisplayEvent(doc) ==
  IF Has(doc, "event", "display_event_t")
  THEN [ZeroEvent EXCEPT !.type = doc.type] ELSE ZeroEvent

DecodeBufferInfoEvent(doc) ==
  IF /\ Has(doc, "buffer_info_event_t", "display_event_t")
     /\ Has(doc, "buffer_info_event_t", "buffer_info_t")
  THEN [type |-> doc.type, ctrl |-> doc.ctrl, rh |-> doc.rh]
  ELSE ZeroEvent

DecodeCrosGralloc(doc) == Has(doc, "buffer_info_event_t", "cros_gralloc_handle_t")

DecodeDisplayCtrl(doc) == Has(doc, "event", "display_control_t")

\* The payload: an event, whether a second struct was decoded, or nothing.
\* What a message of the client contains is not looked at.
DecodeNode(doc) ==
  LET type == GetEventCode(doc.name)
  IN [type |-> type, direction |-> Direction(doc), empty |-> type = "0",
      event |-> CASE type \in {"DISPINFO_REQ", "DISPPORT_REQ"} -> DecodeDisplayEvent(doc)
                  [] type \in {"CREATE_BUFFER", "REMOVE_BUFFER", "DISPLAY_REQ",
                               "DISPLAY_ACK"} -> DecodeBufferInfoEvent(doc)
                  [] OTHER -> ZeroEvent,
      second |-> CASE type = "CREATE_BUFFER" -> DecodeCrosGralloc(doc)
                   [] type = "DISPLAY_REQ" ->
                        DecodeBufferInfoEvent(doc).ctrl /\ DecodeDisplayCtrl(doc)
                   [] OTHER -> FALSE]
=============================================================================
