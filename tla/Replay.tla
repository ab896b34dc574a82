------------------------------- MODULE Replay -------------------------------
(***************************************************************************)
(* What a replay of a recorded session promises: the client is sent the    *)
(* server's messages of the session, in their order and with their         *)
(* contents, none twice and none left out.  The replay may end before the  *)
(* session does only at an entry that cannot be replayed, or when          *)
(* something broke.                                                        *)
(***************************************************************************)
EXTENDS Naturals, Sequences

CONSTANT NoRemote   \* the remote_handle of a message of zeroes

VARIABLES
  script,     \* the recorded entries
  pos,        \* how many of them have been replayed
  sent,       \* the messages the client was sent
  broken,     \* a call failed, the peer has gone or the arguments are wrong
  over        \* the replay has ended

vars == <<script, pos, sent, broken, over>>

Sendable == {"CREATE_BUFFER", "REMOVE_BUFFER", "DISPLAY_REQ", "DISPINFO_REQ",
             "DISPPORT_REQ"}
Awaitable == {"DISPLAY_ACK", "DISPINFO_ACK", "SETUP_RESOLUTION"}

\* A display request with a display_control_t, the answer to a display port
\* request, a video alpha message, an unknown message and one that the
\* recording saw only the beginning of are not replayed.
Replayable(e) == /\ e.whole
                 /\ e.type \in Sendable \cup Awaitable
                 /\ ~e.ctrl

Message(e) == IF e.type \in Sendable THEN <<[type |-> e.type, rh |-> e.rh]>> ELSE <<>>

\* The message of zeroes that a cut REMOVE_BUFFER is replayed as.
NullMessage == [type |-> "0", rh |-> NoRemote]

Init == /\ script = <<>> /\ pos = 0 /\ sent = <<>>
        /\ broken = FALSE /\ over = FALSE

Record ==
  /\ pos = 0 /\ sent = <<>> /\ ~over
  /\ Len(script') > Len(script)
  /\ SubSeq(script', 1, Len(script)) = script
  /\ UNCHANGED <<pos, sent, broken, over>>

Play ==
  /\ ~over /\ pos < Len(script)
  /\ Replayable(script[pos + 1])
  /\ pos' = pos + 1
  /\ sent' = sent \o Message(script[pos + 1])
  /\ UNCHANGED <<script, over>>
  /\ broken => broken'

PlayCut ==
  /\ ~over /\ pos < Len(script)
  /\ script[pos + 1].type = "REMOVE_BUFFER" /\ ~script[pos + 1].whole
  /\ \A i \in DOMAIN sent : sent[i] # NullMessage
  /\ sent' = Append(sent, NullMessage)
  /\ UNCHANGED <<script, pos, broken, over>>

Break ==
  /\ ~broken /\ broken'
  /\ UNCHANGED <<script, pos, sent, over>>

Stop ==
  /\ ~over /\ over'
  /\ \/ pos = Len(script)
     \/ ~Replayable(script[pos + 1])
     \/ broken'
  /\ broken => broken'
  /\ UNCHANGED <<script, pos, sent>>

Next == Record \/ Play \/ PlayCut \/ Break \/ Stop

Spec == Init /\ [][Next]_vars
=============================================================================
