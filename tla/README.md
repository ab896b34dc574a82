# A TLA+ model of libvhal-client

libvhal-client is the C++ library with which a streaming client (CG-Proxy,
Streamer, the AiC emulator) talks to the virtual HALs of an Android container:
display, camera, touch and keys, commands, GPS, sensors, audio.  It is small, and
almost everything in it that is hard runs on two or three threads around one
socket.  This directory models those parts, checks them with TLC on small
instances, and proves the main safety results with TLAPS for every instance.

## 1. The system

All components of the library are clients.  Each object owns a worker thread ("talker") that is
started by the constructor or by `start()`, keeps a stream socket connected, reads
what the VHAL sends and calls a callback of the application.  The application's own
threads call the object's methods, most of which write to the same socket.
`should_continue_` tells the worker to end; the destructor or `stop()` joins it.

The other direction is the AiC emulator (`aic-emu/`), a stand-in for the HWC server.
The HWC receiver can record a session in a YML log (`hwc_profile_log`); the emulator
parses that log and plays the server's side of it to a client, allocating the buffers
and copying frames of a content file into them.

| component | source | state it keeps | operations | what makes it correct |
|---|---|---|---|---|
| HWC receiver | `source/hwc_vhal_impl.h` | `should_continue_`, the work thread, `mHandles` (remote to local buffer handle), allocations and their plane fds, display configuration | `start`, `stop`, destructor, `setMode`, `setVideoAlpha`; events create/remove buffer, display request, display info, display port | a handle is freed once and never used afterwards; the application sees create before display before remove; `stop` joins and returns; nothing leaks |
| profile log | `source/hwc_profile_log.cc` | a mutex, the current YML document, counters | log an event, log a struct, acquire and release the mutex | documents of two threads do not mix; no path keeps the mutex |
| camera video sink | `source/video_sink_impl.h` | the talker, a condition variable, `cmd_capability_`, the socket | `GetCameraCapabilty`, `SetCameraCapabilty`, `SendDataPacket`, destructor; packets capability, ack, camera config | a call is woken by its own answer; the talker reconnects; the server can parse what three threads write |
| virtual input receiver | `source/virtual_input_receiver.cc` | `mContacts`, `mEnabledSlots`, `mTrackingId`, the FIFO | touch, joystick and key messages, destructor | slots in range; the count matches the contacts; the reader of the FIFO sees the contacts and the chords |
| command channel | `source/command_channel_interface_impl.h` | three talkers, two receive buffers, three sockets | `SendDataPacket`, destructor; a message from one of three services | a callback sees the message it is called for; lengths are bounded; joins return |
| socket clients | `source/{unix,tcp,vsock}_stream_socket_client*` | `fd_`, `connected_` | `Connect`, `Close`, `Connected`, `Send`, `Recv` | a caller can tell a short read from a whole one |
| GPS receiver | `source/virtual_gps_receiver.cc` | `mSockGps`, worker | `Write`, `Read`, destructor | the socket is closed once, the join returns, the worker reconnects |
| sensors | `source/sensor_interface_impl.h` | talker, socket | `SendDataPacket` | packets are whole, checks are not stale |
| audio sink, source | `source/audio_*_impl.h` | talker, socket | `SendDataPacket`, `ReadDataPacket` | reader and talker do not take each other's bytes |
| AiC emulator | `aic-emu/AicEmu.cc`, `CmdHandler`, `SocketServer` | the documents of the log and the next one, the content stream, the client's socket | the start, `ProcessNextEntry` with `DecodeNode` and `DataExchange`, the end | the replay is the recorded session; a frame is not overwritten before it is shown; replies are read whole; the run ends |
| emulator graphics, log parser | `aic-emu/GfxHandler`, `YmlParser` | the list of buffer objects, the device | allocate, look up, copy, clear; decode a document | the list and the client's map of handles agree; parser and log writer agree |
| GPS sample | `examples/virtual_gps_receiver_sample.cc` | `loop_quit`, `injection_thread_flag`, the injection thread | the command handler, the injection loop | one injection thread; STOP returns |

What is hard in it, and a test would seldom meet:

* `stop()` frees from one thread what handlers of another use; only a join is between;
* requests and answers meet through a condition variable with no predicate;
* headers and payloads are separate `Send`s, without a lock, on a socket the
  talker may be renewing;
* two talkers receive into one vector;
* reads may be short, and a failed one leaves the stream in the middle of a message;
* a write of one event of several is lost and the rest goes out;
* a log is written by one program and read by another, which agree by indentation, and
  the emulator reads replies by sizes of its own;
* a command handler joins a thread that is writing to the handler's own socket.

`PROJECT.json` lists these hazards, each at its line, with the properties that are
about it, or a note that says why none is.

## 2. The modules

| module | models | composed of |
|---|---|---|
| `FrameLifecycle` | what the frame callback promises of a buffer, abstractly | |
| `HwcReceiver` | the HWC receiver, its socket, the log's mutex and document, an abstract HWC server | implements `FrameLifecycle` |
| `MCHwcReceiver` | event sets and symmetry for TLC | `HwcReceiver` |
| `HwcReceiverProofs` | theorems | `HwcReceiver` |
| `VideoSink` | the camera sink, its socket, an abstract camera server | |
| `VideoSinkProofs` | theorems | `VideoSink` |
| `InputReceiver` | the input receiver, the FIFO, the multi-touch state of its reader | |
| `InputReceiverProofs` | theorems | `InputReceiver` |
| `CommandChannel` | the command channel, its sockets, abstract services | |
| `CommandChannelProofs` | theorems | `CommandChannel` |
| `MessageTalker` | the sensor interface, the audio sink and the audio source, an abstract VHAL | |
| `MessageTalkerProofs` | theorems | `MessageTalker` |
| `GpsReceiver` | the GPS receiver, the process's descriptor table, an abstract GPS server | |
| `GpsInjection` | the sample's command handler and injection thread | `GpsReceiver` |
| `GpsInjectionProofs` | theorems | `GpsInjection` |
| `ProfileLog` | what the log writer puts into a document and what the emulator's parser finds there | |
| `ProfileLogProofs` | lemmas: what each document decodes to | `ProfileLog` |
| `GfxHandler` | the emulator's buffer objects | |
| `Replay` | what a replay promises, abstractly | |
| `AicEmu` | recording, emulator and the client replayed to | `ProfileLog`, `GfxHandler`; implements `Replay` |
| `AicEmuProofs` | theorems | `AicEmu`, `ProfileLogProofs` |

`map` in `PROJECT.json` gives the source lines of every definition.  Variables have
the names of the members they stand for where there is one (`mHandles`,
`should_continue`, `mEnabledSlots`, `acs_client_buf`).  A thread is a program counter
whose values name the places where another thread can act: before each blocking call,
each lock and each write to something shared.  What lies between two such places is
one action, calls included.

### HwcReceiver

Three threads: the work thread (`work`), the thread that calls `start`, `stop` and the
destructor (`api`), and the one that calls `setMode` and `setVideoAlpha` (`pipe`, after
the comment in `hwc_profile_log.h`).  The byte stream is a sequence of tokens, one for
each struct the server sends: a header, a `buffer_info_t`, a gralloc handle, the message
with the plane fds, a `display_control_t`.  A read that meets a token of another kind
(the stream is out of step because a body was not read: a `CREATE_BUFFER` of an
unexpected size, a failed `malloc`) returns arbitrary data and may or may not consume
the token.  An event kind is a header together with what its fields decide (is the
display info acceptable, does the size fit, does a control struct follow).  Every early
return of `CreateBuffer`, `RemoveBuffer`, `DisplayRequest` and `recvFds` is a disjunct.
`heap`, `openFds`, `life` and `screen` follow each allocation: whether it is live, how
many fds it has open, what the callback said of it, and which one was last shown.

The server is abstract: it sends any of `Events`, finishes a message it began unless it
closes, and creates a buffer under one remote value at most once per connection.

### VideoSink

The talker (`talker`), one thread in a capability call (`caller`) and one that streams
frames (`data`).  The server's side of the framing is `expect`: what it parses next, or
`"broken"` once a payload came where it expected a header.  `notify_one` wakes a caller
only if it is already waiting, because the code has no predicate and the talker does
not take the mutex; `std::condition_variable` is assumed not to wake by itself.
A short read (the unix client drops `MSG_WAITALL`) is `RecvFails` with
`PartialReads`.  After a failed read the code polls the descriptor it has closed; this
is the third disjunct of `TalkerPoll`.  `renewed` is a history variable: the talker has
replaced `*cmd_capability_` after it woke the caller and before the caller returned.

### InputReceiver

A call is split into commands; a command changes the contacts and leaves its events in
`out`; `SendEvent` writes them one by one, and a failed write loses the event, reopens
the FIFO (which may fail as well) and goes on, as the code does.  `dev` is the reader:
the kernel's slot protocol (current slot, a tracking id per slot), keys, and the keys at
the last `SYN_REPORT`.  `ProcessOneCommand` lets `slot == kMaxSlot` through, so commands
range over `0..kMaxSlot`.  The five axis values of a contact are one event.  `slipped`
(a reset has found contacts down) and `lost` are history variables.  The joystick's `k`, `a`
and `m` pass on any code and value; the model takes callers that name buttons and axes, as
the examples of the API's comment do (section 5).

### CommandChannel

Three talkers run the same code with their own locals; `Buf` says which vector each
receives into, and the File Transfer talker's is the Aic Command talker's.  A vector
is known by its size: one that grows has moved, and a pointer taken before (`data`) no
longer points into it.  `SendDataPacket` is two steps, `SendLength` and `SendPayload`,
between which the talker may reconnect.

### MessageTalker

The three classes have the same talker, so one module models them and `object`, chosen
initially, says which class it is; where they differ (the test of the user id, the
client's `Recv`, who else uses the socket) the definitions ask `object`.  A message
travels in two parts, which arrive one by one.  The unix client's `Recv` returns the part
that is there, the TCP client waits for the second.  The audio source's callback reads
what follows a `kData` message with `ReadDataPacket`; the application of the others
sends data once a callback has asked for it, as the examples do, and goes on over
reconnects.  `greeted`, `first` and `conn` record what the VHAL has heard on the
current connection.  The inner loop leaves an open connection only when the destructor
has been called, so `TalkerWhile` has no step for a connected talker that goes on;
`GreetedOnce` checks that there is none.

### GpsReceiver

The work thread (`pc["worker"]`) and the destructor (`pc["dtor"]`) both run
`Disconnect`, one step per system call and per assignment of `mSockGps`; `Write` is one
`write()` of the application, called from `GpsInjection`.  `mSockGps` is a number, so the
model keeps what that number refers to: `fds` says of each descriptor whether it is free, the receiver's or
another file's, and the rest of the process opens and closes files (`OthersOpen`,
`OthersClose`) with the kernel's rule that the lowest free number is given out.  A
socket in `connect()` or `read()` outlives its descriptor.  A `read` of a descriptor
that has become another file's returns at once, with anything.  `written` and `shut`
are history variables.

### GpsInjection

The sample's `cmd_handler` runs on the work thread: START starts a thread, STOP asks it
to end and joins it, during which the work thread does not read.  Injection threads are
counted by where they are, `looking` at `loop_quit` or `injecting` in `Write`, so that a
second one would show.  A failed `Write` ends a thread without telling anyone.  The
sample itself never ends, because its `fgets(str, 1, stdin)` reads no character; the
model lets the receiver be destroyed at any time.

### ProfileLog

A document is the set of its structs, each with the node it is nested in.  That is all
the indentation decides and all the parser asks: `AddStruct` is `WriteYmlLog` with a
level, `Has` is `node["..."]`.  Beside them a document has the event's name, the
direction, the `type` of its `display_event_t`, whether its size announces a
`display_control_t`, and the `remote_handle`.  The first half are the operations of
`ProfileLogger` and the documents the handlers of the HWC receiver produce with them,
including those of messages of which only the first structs arrived; the second half
are the decoders and `DecodeNode`, where a struct that is not found leaves the zeroes of
`make_shared`.

### GfxHandler

`objects` holds every GEM object ever made, `boList` is `m_boList`.  Each operation is
an action with its result as argument; one that runs several ioctls has a disjunct for
each that may fail, with what the earlier ones leave behind.  Nothing is unmapped and no
descriptor closed, as in the code.

### AicEmu and Replay

A behaviour first records: a legal server talks to the recording client, and each
message appends its documents to `log` and itself to `session`; the server may be lost
in the middle of a message, the client restarted for another server.  Then
`main()` runs over the log.  `Dispatch` is the first thing `DataExchange` does with a
document, or the status with which it returns; writes, reads, allocation, copy and
removal are steps of their own, so that the client may handle a message, send one of
its own, or close in between.  `fault` records a call that failed: an ioctl, a read or a
write, a document of which a field cannot be converted (the `catch (...)` of
`ProcessNextEntry`), a content stream that cannot be rewound (`GetOneFrame`).  The words
the client sends are kept one by one, marked where a reply begins, because the emulator reads them by its own sizes.  A write to a
client that has gone ends the process by `SIGPIPE`, except `sendmsg`, which asks for
`MSG_NOSIGNAL`.

`Replay` states the promise without any of this: a script, a position, the messages
sent so far, and the three reasons to stop early.  `AicEmu` implements it
(`ReplayFaithful`) under the mapping `script <- session`, `pos <- next` less the
document in hand, `sent` without the objects and frames, `broken <-` a failed call, a
closed peer or bad arguments, `over <-` the process has ended.  What may not be replayed
is part of the promise (`Replayable`), and is what the code does: see section 3.

## 3. The runs

Passing runs:

| run | instance | shows |
|---|---|---|
| `hwc_stream` | 1 remote value, 2 handles, all events, 0 or 1 planes of at most 1, signals, log on, 2 messages | `NoUseAfterFree`, `StoppedMeansJoined`, `LogDocumentsWhole`, and refinement of `FrameLifecycle`, also when the stream is out of step |
| `hwc_stop` | 2 remote values, 3 handles, buffer events, no signals, log on, 3 messages, fair | `HandlesLive`, `NoLeakedHandle`, and `StopReturns` |
| `sink_main` | user id, caller and data thread, closes, short reads, 2 packets waiting, fair | `WokenByItsAnswer`, `DefaultOnlyAfterReconnect`, `Reconnects` |
| `input_main` | 2 slots, all commands and calls, 3 downs, 1 lost event | `CountCoversContacts`, `TrackingIdsDistinct`, `ReaderInStep` |
| `channel_main` | 2 services that listen and 1 that does not, lengths 2 (the vector grows to the maximum) and 3 (too long), one service closes, 2 connections each, sends to that service, fair | `CallbackSeesItsMessage`, `BodyFits`, `FramingLostOnlyByReconnect`, `Reconnects`, `DestroyReturns` |
| `talker_main` | the 3 classes, all kinds of user id, 3 parts waiting, 2 connections, fair | `CallbackWhole`, `GreetedOnce`, `DataAheadOfUserId`, `Reconnects` |
| `gps_main` | descriptors 0, 1 and 2, shared with the rest of the process, 1 command waiting, the sample's handler and injection thread, fair | `SocketOwned`, `OneInjector`, `KeptWhileUp`, `ShutdownEndsJoin`, `ConnectsInTheEnd`, `StopCommandReturns` |
| `aic_main` | 2 remote handles, 4 messages, 2 servers, 1 message of the client's user, content of 1 frame, failing calls, fair | `BuffersInStep`, `FramesStable`, `ContentInOrder`, refinement of `Replay` (`ReplayFaithful`), `ReplayEnds` |

Runs that show a disagreement between the code and what the repository says of it
(each with its quotation in `findings`):

| run | property | what happens |
|---|---|---|
| `hwc_leak` | `NoLeakedHandle` | a failed `poll()` reconnects with the old `mHandles`; `insert()` does not replace the entry, and the new handle is in no map |
| `sink_wakeup` | `CallsReturn` | the answer is notified before the caller waits, and the call never returns |
| `channel_shared` | `TypeMatchesData` | one talker overwrites the other's message before the callback has read it |
| `aic_replies` | `ReadsWholeReplies` | of a display info reply or a change of resolution 44 of 60 bytes are read, and every later reply is read from the rest of the one before |

Others have no run.  In the library:

* a `start()` after the work thread has ended by itself answers "Already started!"
  though the thread's last message asks for `re-start()`;
* `RemoveBuffer` and `stop()` close only the first plane fd of a handle;
* `VideoSink::SendDataPacket` sends header and payload separately with no lock against
  the talker, so that a reconnect in between gives the server a payload where it expects
  a header (`expect` becomes `"broken"`);
* `r` of the input receiver lifts no contact at the reader, though the repository's
  README says that it creates the `u` events; `onInputMessage` reports success whatever
  was lost;
* `GetCameraCapabilty` may return an empty object if the talker reconnects behind the answer
  (the passing property `DefaultOnlyAfterReconnect` says that it happens only then);
* `UpdateEventCount` counts display port requests as display info requests.

In the emulator and the GPS sample:

* a `display_control_t` is logged inside `buffer_info_event_t` (`hwc_vhal_impl.h:507`) and
  looked for outside it (`CmdHandler.cc:509`), so that a replay ends at the first display
  request that has one; `DISPPORT_ACK` and `SET_VIDEO_ALPHA_REQ` end it as well, the one
  because `DataExchange` has no case for it, the other because `GetEventCode` does not know
  its name (`Replayable` lists all of them);
* a clip that wraps shows one frame of uninitialised memory, because the end is noticed
  only by the read behind the last frame (`ContentInOrder` says that it is exactly one; it
  does not call that right);
* behind a display info reply the emulator draws a frame early, into a buffer that the client
  may have yet to show, because it takes what is left of that reply for the next
  acknowledgement (`FramesStable` says by how many requests it may be early);
* a failed `mmap()` is not reported, and the copy goes to address 0; `UnmapBo` does not
  unmap, and only one plane fd is sent;
* the count in "End of Run" includes the call that found the end of the log;
* an injection thread that ended after a failed `Write` leaves `injection_thread_flag`
  set, so that the next START starts nothing; `fgets(str, 1, stdin)` never reads the `q`.

**Bounds.**  `MaxMsgs` 2 allows a create with a remove, a display or a second create on
it, with a restart or reconnect anywhere between; 3 adds a buffer that comes back under
its old remote value.  There are as many handles as messages in `hwc_stop`, so that
`malloc` does not fail there; in `hwc_stream` and `hwc_leak` it may.  Two slots are the
fewest with which an event can land on the wrong one; with three downs both slots are
taken and a tracking id is given anew; one lost event is enough to put the reader out of
step, for the rest of the behaviour.  Two services with separate vectors are enough for
the interference `CallbackSeesItsMessage` excludes; of the lengths one makes the vector
grow to its limit and one is above it.  Two connections are enough for a reconnect
between two `Send`s.  Three descriptors are 0, which `Connected()` takes for none, and
two others: with one taken by another file the receiver still has a free one to connect
with, and with all taken `socket()` fails.  `MaxCmds` 1 tells a read with data from one
without.  With `MaxParts` 3 a message may be begun behind one that is not read yet, or
that is read in part.  `MaxInbox` only limits when the server or the
application starts something new.

Four messages are the fewest with which a buffer is created, shown twice and removed, or
created, shown, removed and created again.  With two servers a remote handle is created
while the emulator still lists it.  A clip of one frame makes the second request meet its
end and the third wrap.  One message of the client's user, sent at any time, is enough
to put the replies out of step with the log.  Of the three ways in
which `FramesStable` lets a buffer be drawn to early, the short read of a display info reply needs six messages; with six, one remote
handle and two messages of the user all three happen and the invariants hold, but that takes
longer than a run should.  Two reductions keep the run small: nothing
is recorded behind an entry that ends every replay (`Open`; `ReplayFaithful` is what
shows that it does), and remote handles, which differ in nothing, first appear in one
order (`InOrder`).

**Deadlock** is checked except for the input receiver, whose behaviours end with its
destructor or with a reader that never opens the FIFO again, and the emulator, which
ends.  A terminated object
stutters in the others.

**Fairness.**  Threads that can run do (`WF` of each thread's steps): the operating
system's scheduling.  Calls that have begun go on.  A listening service is reached in
the end (`WF` of the successful connect): without it the retry loops rightly go on for
ever.  The servers send the body they announced and, for the camera, the answers they
owe: `recv` has no timeout, so that a server which stalls in the middle of a message
keeps `stop()` waiting.  That is a hazard of the code (listed), not something the model
may assume away silently: `StopReturns` holds under this assumption only, and only for
streams that stay in step.  Nothing makes a server send a new message or close.
The GPS receiver's successful connect has strong fairness, because each attempt is a
`connect()` of its own that may fail: a server that is asked without end accepts one.
In the emulator fairness is of the steps that do not fail, so that a call which waits is
not rescued by a fault; the client connects, as its loop retries every second, and handles
what it was sent.  Its user need not do anything, which is why a replay may wait for ever
for a change of resolution (`WaitsForUser`).

## 4. What is proved

`HwcReceiverProofs`, for any sets `Remote`, `Handle`, `Events`, `Planes`, any
`MaxPlanes > 0`, log and signals on or off, assuming only `HwcAssumption`:

* `TypeCorrect`: `TypeOK`; in particular a handle never has more than `MaxPlanes` fds or
  fewer than none;
* `HandlesStayLive`, `HandlersSafe`, `StopJoins`, `LogSafe`: the invariants
  `HandlesLive`, `NoUseAfterFree`, `StoppedMeansJoined`, `LogDocumentsWhole`;
* `ImplementsFrameLifecycle`: every step is a step of `FrameLifecycle` or leaves its
  variables alone;
* `HandlesAccounted`: `NoLeakedHandle`, where `Conforming` holds: no call is interrupted,
  the server sends no CREATE_BUFFER of a size that the receiver skips, and its counts of fds
  are ones that `recvFds` takes.  The constants of `hwc_stop` are of this kind; without the
  first the property is false (`hwc_leak`).

None of these is inductive alone.  The inductive invariant relates, for each place of
the work thread, the handler's local handle to `mHandles` and `heap`: a handle being
created is live, in no map, and unknown to the application; one being removed is the
entry of `rh`; one being shown is an entry.  Beside it stand: entries are live, distinct
and have at least one open fd (so that closing `fds[0]` never closes more than there
is); `stop()` frees only when there is no work thread; and the mutex belongs to a thread
exactly while it is in a handler.  The action-by-action proof is grouped by the
variables an action can disturb.

`HandlesAccounted` has to know more: a handle is lost when `insert()` meets an entry, so it
must be shown that a CREATE_BUFFER never names a buffer that is in `mHandles`, which the
server decides by what it has sent and the receiver sees later.  `LeakInv` therefore follows
the stream.  `Leads` says what one token does to a reader that knows what comes next and
which buffers there are, `Reads` what a sequence of tokens does, and `Tracks` that a reader
at the place of the work thread (`Place`), with the buffers it has (`Held`), can read all
that is under way, finds every buffer new that is created, and ends with exactly the buffers
the server has created.  Sending adds a message to the far end of this, a `recv()` takes a
token from the near end, and a lost connection leaves no tokens; a failing `recv()` happens
only there.  When the set of handles is used up, `malloc()` fails, the body stays in the stream
and `Tracks` is lost, but no handle is made any more (`DryInv`).

`InputReceiverProofs`, for every `kMaxSlot > 0`, assuming only `InputAssumption`:

* `TypeCorrect`: no command stores or sends a slot that does not exist, though the
  parser lets one through.  `TypeOK` is inductive; the work is in the event sequences;
* `CountSound`: `CountCoversContacts`, both its parts inductive together over `TypeOK`
  (which gives the finiteness of the set of contacts).  The limit test of `SendDown`
  only resets, in a receiver whose count is exact, when contacts are down;
* `IdsUnique`: `TrackingIdsDistinct`.  Its inductive form `IdsInv` adds what is on its way:
  the events still to be written hold at most one tracking id, drawn from `mTrackingId`
  and not yet with the reader, and every id of the reader is below `mTrackingId`.  A lost
  event only removes one;
* `ReaderFollows`: `ReaderInStep`.  `ReaderInv` says it in the middle of a command: what
  the reader will have once it has read the events still to be written is what the receiver
  has now, slot by slot (`IdsPending`) and for `BTN_TOUCH` (`TouchPending`, which uses
  `CountSound`); in `onKeyCode` each key that is down, or goes down, has its release behind
  it, and the modifiers are not released before the key (`ChordPending`).

`CommandChannelProofs`, for any services, lengths, buffer size and number of connections,
assuming only `ChannelAssumption`:

* `TypeCorrect`, `BodyHasRoom`: `TypeOK` and `BodyFits`, inductive together with
  `LengthChecked`, that a length past the check stays in its range until the callback
  returns.  No vector shrinks, so `BodyFits` holds for services that share one too;
* `FramingKept`: `FramingLostOnlyByReconnect`, a property of steps.  It needs that a service
  expects a payload only from the call that sent it the length (`PayloadOwed`), and that a
  call between its two Sends, on a connection where a length is expected, began on an
  earlier one (`LengthOnEarlier`);
* `CallbacksSeeTheirMessage`: `CallbackSeesItsMessage` where `NoSharing` holds, i.e. no two
  services that are reachable receive into one vector.  The run `channel_shared` is the
  counterexample where it does not hold; in `channel_main` it holds.  The argument follows
  the stream: at each place of the talker what is left to read begins with a length, or is
  the body of the length just read (`StreamInv`), and the pointer given to `recv()` is into
  the vector as it is now (`PointerValid`).

`MessageTalkerProofs`, for the three objects, any number of connections and any amount of
data in the socket, assuming only `TalkerAssumption`:

* `Greeted`, `UserIdFirst`: `GreetedOnce`, `DataAheadOfUserId`.  The first follows the
  connection through the outer loop (`GreetingInv`); the second is about the first
  connection only, on which streaming starts in a callback, so after the user id
  (`FirstInv`);
* `TypeCorrect`, `CallbacksWhole`: `TypeOK`, `CallbackWhole`.  The inductive invariant,
  `MessageInv`, says that what the VHAL has sent or still owes is a chain of whole messages
  from the place where the talker expects one, cut only at its end and only by a close
  (`FramedInv`).  The lemmas about dropping from and adding to such a chain carry the proof.

`VideoSinkProofs`, for a socket of any size, with or without closes and partial reads,
assuming only `SinkAssumption`:

* `TypeCorrect`, `AnswersMatch`, `DefaultsExplained`: `TypeOK`, `WokenByItsAnswer`,
  `DefaultOnlyAfterReconnect`, all from one inductive invariant, `SinkInv`: bodies come
  exactly behind the headers that announce them and the talker reads one exactly where
  there is one (`StreamInv`); one answer at most is owed by the server, under way or in the
  talker's hands, the one asked for, and only while its call is in progress (`AnswersInv`);
  it is stored before the caller is woken, unless the object was renewed (`StoredInv`).

`GpsInjectionProofs`, for every set of descriptors and number of commands, assuming only
`GpsAssumption`:

* `TypeCorrect`: `SampleTypeOK`, inductive, action by action;
* `InjectorUnique`: `OneInjector`.  It is inductive over the types because no other thread
  moves the work thread while it joins (`JoinKept`);
* `DescriptorOwned`: `SocketOwned`.  It needs `Alone`: until the destructor is called the
  work thread makes a socket only when `mSockGps` is -1, and assigns -1 only after a close.
* `ConnectionKept`: `KeptWhileUp`, a property of steps.  `KeptInv` says that a connection that
  is up is the one of `mSockGps`, that the work thread is then nowhere in `Connect`, and that
  it is on its way into `Disconnect` only with descriptor 0.

`AicEmuProofs`, for any set of remote handles, any length of session, clip, number of
servers and of messages of the client's user, with or without failing calls, assuming only
`RemoteAssumption`, `ClipAssumption`, `FaultsAssumption` and `BoundsAssumption`:

* `TypeCorrect`: `TypeOK`.  It is not inductive, because what the emulator does with a
  document depends on what the recording put into the log.  The inductive invariant,
  `AicInv`, adds: the log has one document for each message of the session, and the parser
  finds in it what was recorded (`Matches`, from the lemmas of `ProfileLogProofs`, which
  follow every document through the writer's calls and the decoders); the server names only
  buffers it created; the buffers that the session has at the current document are in the
  emulator's list, so that a look-up does not fail; what the place in the loop says of the
  document at hand; and nothing is written behind the message of zeroes;
* `ImplementsReplay`: the refinement of `Replay`, each step of recording, emulator and client
  being a step of `Replay` or none.  One lemma for each step of `Replay` (`Records`, `Plays`,
  `PlaysCut`, `Breaks`, `Stops`) says when it is taken, one for each action which it takes;
* `FramesInOrder`: `ContentInOrder`.  `FrameInv` relates the reader's position in the clip to
  the last frame that was shown, and to the frame drawn and not yet sent;
* `StaysInStep`: `BuffersInStep`.  What is listed is open and listed once (`OpenInv`).  For
  the client, `AgreeInv` states that the messages it has not handled yet, applied to its map
  one by one (`Run`), end in the emulator's list, up to the message being written or the
  removal being carried out.  That no object is lost needs that one server creates no handle
  twice (`OnceInv`) and that the list holds nothing but the session's buffers (`OnlyInv`);
* `FramesKept`: `FramesStable`, in every session.  What holds the emulator back from the next
  frame are the replies it reads, so the proof keeps an account of them.  `Balance` relates the
  requests that are with the client (`Asks`), the DISPINFO_REQs among them, and the words of
  replies not read yet to what can put reading and answering out of step: the DISPINFO_REQs sent,
  the 15 words of whose reply are read as 11; the messages of the client's user; and the requests
  to which the log has no answer.  A read takes six words or more, if they are there.  With one
  DISPINFO_REQ and nothing else amiss the account is exact, and the bound is one request; with
  none it is zero, and no buffer is drawn to before the client has shown it.  `AheadInv` is the
  account at each place of the emulator, and its lemmas (`WriteAhead` to `AheadKept`) are one for
  each step that changes a term.  Then `ReadyInv` (what was copied is what is written),
  `OwnInv` (an object that was shown belongs to no other handle) and `DrawInv` give the property:
  a copy overtakes only requests for its own handle, and only when the account allows it; what
  was allowed stays so, as the bound never falls and requests are only handled.

`ContentInOrder` is stated over the positions in `sent` instead of over the filtered sequence
of display requests, which says the same and needs no induction over a filter.

**Only model-checked.**  Liveness, which is outside the prover: `StopReturns`, `Reconnects`,
`DestroyReturns`, `ShutdownEndsJoin`, `ConnectsInTheEnd`, `StopCommandReturns`, `ReplayEnds`.
Every other property of the passing runs is a theorem.

## 5. What is not modelled

* `Connect` and `Disconnect` of the GPS receiver called by the application itself (no
  caller in the repository does), and the end of the sample by `SIGPIPE`.
* Contents: pixels, axis values, command payloads, the values of most fields in the log.
  That a field is written in a form the parser cannot convert (unsigned ones are printed with
  `%d`) is a failure that any document may have, not one of certain values.
  The emulator's content is known by frame numbers, surfaces all have the size of a frame.
  A file that ends in a part of a frame ends in a frame 0 as one of whole frames does: part of
  the buffer is as `new[]` made it.  A content read that fails otherwise (`badbit`) leaves
  such a frame too, and ends the run at the next display request; it is not modelled.
* Joystick commands with codes of the touch screen (`a 47 1` is a slot): `k`, `a` and `m` are
  written unchecked (`virtual_input_receiver.cc:352-383`), into the FIFO that the touch events
  use, and `ReaderInStep` would not hold of such a caller.
* The branch of the GPS receiver's `Write` for a `write()` that returns 0, with its
  `Disconnect()` (`virtual_gps_receiver.cc:147-151`): for a stream socket and `left > 0` there
  is none.  A `write()` that blocks for ever on a server which does not read: fairness of
  the injection thread takes it to return, and with it `StopCommandReturns`.
* `init()` of the HWC receiver, which validates its configuration before any thread
  exists, and configuration parsing elsewhere; of the emulator's arguments only those are
  kept that decide whether it starts.
* `socket()` failing and `poll()` being interrupted in the talkers, which throw out of
  the worker, and `SIGPIPE` in them, which ends the process.
* The event counters of the profile log, incremented outside its mutex and only printed.
* The log's file: that it cannot be opened, and two objects that write to one path.
* Two application threads in the same call of one object; callbacks that call back into
  the object; `ReadDataPacket` called from outside the callback.
* The other examples and the tests: callers without state of their own.

## 6. Plan

1. Done: the components of section 1 but for item 2, with the runs of section 3; the proofs
   of section 4, which state every invariant, step property and refinement of the passing
   runs.
2. The socket clients as one module against an abstract stream, with what each returns
   for a short read.
