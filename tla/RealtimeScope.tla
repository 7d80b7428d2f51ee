--------------------------- MODULE RealtimeScope ---------------------------
(***************************************************************************)
(* The realtime scope (code/dbg/realtime_scope.c and its command service,  *)
(* realtime_scope_service.c) with the port of its data link.  An interrupt *)
(* samples the enabled channels into whole frames of a byte ring; the link *)
(* task asks service_read() for frames and stages them for the connected   *)
(* client; the manage task serves the control requests, edits the          *)
(* configuration bank, swaps it with the active bank and starts and stops  *)
(* acquisitions.                                                           *)
(*                                                                         *)
(* Concurrency.  The board is the GD32E507, the most permissive of the     *)
(* three: manage() and the link task preempt each other anywhere, and the  *)
(* interrupt preempts both, except in a critical section.  So a step of a  *)
(* task is a critical section, or one access to what another task writes.  *)
(* The link task is also the one that accepts and loses peers, so the link *)
(* does not change hands in the middle of a read; manage() may ask for the *)
(* end of it there, or while a peer is being accepted.  On the ESP32-C5    *)
(* boards the pass of the link task is not preempted by manage().          *)
(*                                                                         *)
(* Left out: the address behind a channel (only its width matters to the   *)
(* layout), the EA header and checksum bytes, the reply encoding, the      *)
(* counters that are only reported (high water, dequeued, overflows), and  *)
(* how the staged bytes leave the port (TCP keeps their order).            *)
(***************************************************************************)
EXTENDS Integers, Sequences, FiniteSets, Functions

CONSTANTS
    Channels,      \* channel numbers of a bank, 1 .. 32 in the code
    Widths,        \* bytes of the wire types, {1, 2, 4, 8} in the code
    Capacity,      \* bytes of the frame ring
    FrameBudget,   \* byte_budget / frequency: the longest frame start admits
    RequestDepth,  \* REALTIME_SCOPE_REQUEST_DEPTH
    IndexMod,      \* the frame index wraps here, 256 in the code
    Rooms,         \* the free bytes the port may have to offer a read
    \* Bounds of the model.
    MaxStarts, MaxSessions,
    MaxSamples     \* of the first acquisition; each later one may take one fewer

VARIABLES
    active,         \* the bank at p_active: channel -> width, 0 when disabled
    config,         \* the bank at p_config, the one that requests edit
    ring,           \* p_queue, byte by byte
    frameSize, queueLimit,  \* the stride and the usable bytes of this start
    head, tail, count,
    running, samples,
    requests,       \* how many control requests wait to be served
    activeSession,  \* the link session the acquisition belongs to
    manager,        \* where manage() is, and what it has read
    reader,         \* where the link task is, and what its read has collected
    session, connected,  \* the data link, as the port reports it
    peer,           \* the port has the connection of a client
    resetRequested, \* and is asked to end it
    opened,         \* acquisitions started before the last client was accepted
    layout,         \* the layout the last successful swap reported
    prepared,       \* for each acquisition, the layout reported before its start
    stream          \* frames staged so far for the client accepted last

scope == <<active, config, ring, frameSize, queueLimit, head, tail, count,
           running, samples>>
link == <<session, connected, peer, resetRequested, opened>>
vars == <<scope, requests, activeSession, manager, reader, link, layout, prepared, stream>>

ASSUME ScopeAssumption ==
    /\ Channels \subseteq Nat \ {0} /\ IsFiniteSet(Channels)
    /\ Widths \subseteq Nat \ {0}
    /\ {Capacity, FrameBudget, RequestDepth, IndexMod} \subseteq Nat \ {0}
    /\ Rooms \subseteq Nat \ {0}

Banks == [Channels -> Widths \cup {0}]
NoChannel == [c \in Channels |-> 0]
\* Acquisitions are numbered from 1, so this is the frame of none.
Garbage == [start |-> 0, sample |-> 0, index |-> 0, layout |-> NoChannel]
Unwritten == [frame |-> Garbage, at |-> 0]

\* Bytes of a frame: EA, index, the payload, its length twice, the checksum.
PayloadSize(bank) == FoldFunction(+, 0, bank)
FrameSize(bank) == PayloadSize(bank) + 5
Enabled(bank) == bank # NoChannel

starts == Len(prepared)

Idle == [at |-> "idle"]
At(place) == manager.at = place
Reading(place) == reader.at = place

Init ==
    /\ active = NoChannel /\ config = NoChannel
    /\ ring = [i \in 0 .. Capacity - 1 |-> Unwritten]
    /\ frameSize = 0 /\ queueLimit = 0
    /\ head = 0 /\ tail = 0 /\ count = 0
    /\ running = FALSE /\ samples = 0
    /\ requests = 0
    /\ activeSession = 0
    /\ manager = Idle /\ reader = Idle
    /\ session = 0 /\ connected = FALSE /\ peer = FALSE /\ resetRequested = FALSE
    /\ opened = 0
    /\ layout = NoChannel /\ prepared = <<>>
    /\ stream = <<>>

-----------------------------------------------------------------------------
\* The interrupt.

QueueFrames == queueLimit \div frameSize
Wrapped(position) == IF position = queueLimit THEN 0 ELSE position

\* What realtime_scope_sample leaves in the ring: the frame of this sample,
\* laid out by the active bank, written from tail on.
Sampled ==
    LET frame == [start |-> starts, sample |-> samples,
                  index |-> samples % IndexMod, layout |-> active]
    IN  [i \in DOMAIN ring |->
            IF i \in tail .. tail + FrameSize(active) - 1
            THEN [frame |-> frame, at |-> i - tail]
            ELSE ring[i]]

Full == count >= QueueFrames

\* A full queue ends the acquisition; the queued frames stay.
Overflow ==
    /\ running /\ Full
    /\ running' = FALSE
    /\ UNCHANGED <<active, config, ring, frameSize, queueLimit, head, tail, count, samples>>

Publish ==
    /\ running /\ ~Full
    /\ starts + samples <= MaxSamples
    /\ ring' = Sampled
    /\ tail' = Wrapped(tail + frameSize)
    /\ count' = count + 1
    /\ samples' = samples + 1
    /\ UNCHANGED <<active, config, frameSize, queueLimit, head, running>>

Sample ==
    /\ Overflow \/ Publish
    /\ UNCHANGED <<requests, activeSession, manager, reader, link, layout, prepared, stream>>

-----------------------------------------------------------------------------
\* The link task: one pass of the port's poll with service_read() in it.

\* What the bytes at head are to the client: a frame when they are the bytes
\* of one frame from the first to the last, and garbage otherwise.
Popped ==
    LET bytes == [i \in 0 .. frameSize - 1 |-> ring[head + i]]
        frame == bytes[0].frame
        whole == /\ frameSize = FrameSize(frame.layout)
                 /\ \A i \in DOMAIN bytes : bytes[i] = [frame |-> frame, at |-> i]
    IN  IF whole THEN frame ELSE Garbage

Pop ==
    /\ head' = Wrapped(head + frameSize)
    /\ count' = count - 1
    /\ UNCHANGED <<active, config, ring, frameSize, queueLimit, tail, running, samples>>

\* The pass begins on a connected link.  The port notes the session it reads
\* for, and offers the room its buffer has.
ReadBegin(room) ==
    /\ Reading("idle")
    /\ connected /\ peer /\ ~resetRequested
    /\ reader' = [at |-> "link", for |-> session, left |-> room]
    /\ UNCHANGED <<scope, requests, activeSession, manager, link, layout, prepared, stream>>

\* service_read() looks at the link, then compares its session with the one
\* of the acquisition, once for the whole read ...
ReadLink ==
    /\ Reading("link")
    /\ reader' = IF connected THEN [reader EXCEPT !.at = "session"] ELSE Idle
    /\ UNCHANGED <<scope, requests, activeSession, manager, link, layout, prepared, stream>>

\* ... loading the two operands in whichever order the compiler chose ...
ReadSession ==
    /\ Reading("session")
    /\ \E order \in {[at |-> "loadActive", seen |-> session],
                     [at |-> "loadSession", seen |-> activeSession]} :
          reader' = [at |-> order.at, for |-> reader.for, left |-> reader.left,
                     seen |-> order.seen]
    /\ UNCHANGED <<scope, requests, activeSession, manager, link, layout, prepared, stream>>

\* Mutant: the session is not compared.
ReadCompare_NoSession ==
    /\ Reading("loadActive") \/ Reading("loadSession")
    /\ reader' = [at |-> "loop", for |-> reader.for, left |-> reader.left, frames |-> <<>>]
    /\ UNCHANGED <<scope, requests, activeSession, manager, link, layout, prepared, stream>>

ReadCompare ==
    /\ Reading("loadActive") \/ Reading("loadSession")
    /\ LET other == IF Reading("loadActive") THEN activeSession ELSE session
       IN  reader' = IF reader.seen = other
                     THEN [at |-> "loop", for |-> reader.for, left |-> reader.left,
                           frames |-> <<>>]
                     ELSE Idle
    /\ UNCHANGED <<scope, requests, activeSession, manager, link, layout, prepared, stream>>

\* ... and copies frames out, each round in a critical section of its own,
\* for as long as the next one fits by the layout of the active bank.
Fits == reader.left >= 6 /\ FrameSize(active) <= reader.left

ReadPop ==
    /\ Reading("loop")
    /\ Fits /\ count # 0
    /\ Pop
    /\ reader' = [at |-> "loop", for |-> reader.for, left |-> reader.left - frameSize,
                  frames |-> Append(reader.frames, Popped)]
    /\ UNCHANGED <<requests, activeSession, manager, link, layout, prepared, stream>>

ReadEnd ==
    /\ Reading("loop")
    /\ ~ (Fits /\ count # 0)
    /\ reader' = [reader EXCEPT !.at = "check"]
    /\ UNCHANGED <<scope, requests, activeSession, manager, link, layout, prepared, stream>>

\* The port throws away what it read for a session that ended meanwhile ...
LinkCheck ==
    /\ Reading("check")
    /\ reader' = IF connected /\ ~resetRequested /\ session = reader.for
                 THEN [reader EXCEPT !.at = "stage"]
                 ELSE Idle
    /\ UNCHANGED <<scope, requests, activeSession, manager, link, layout, prepared, stream>>

\* ... and stages the rest for its peer, even if manage() stops the link now.
LinkStage ==
    /\ Reading("stage")
    /\ stream' = stream \o reader.frames
    /\ reader' = Idle
    /\ UNCHANGED <<scope, requests, activeSession, manager, link, layout, prepared>>

\* A session is retired by the link task between two reads, and by manage()
\* at any time; the connection itself is torn down by the link task.
Retired ==
    /\ session' = IF connected THEN session + 1 ELSE session
    /\ connected' = FALSE
    /\ resetRequested' = TRUE

\* The peer closes or sends, or its connection fails.
PeerLost ==
    /\ Reading("idle")
    /\ peer
    /\ Retired
    /\ peer' = FALSE
    /\ UNCHANGED <<scope, requests, activeSession, manager, reader, opened, layout,
                   prepared, stream>>

\* The network goes down: the poll tears down what there is.
LinkDown ==
    /\ Reading("idle")
    /\ peer' = FALSE
    /\ IF connected
       THEN Retired
       ELSE resetRequested' = FALSE /\ UNCHANGED <<session, connected>>
    /\ UNCHANGED <<scope, requests, activeSession, manager, reader, opened, layout,
                   prepared, stream>>

Teardown ==
    /\ Reading("idle")
    /\ resetRequested
    /\ peer' = FALSE /\ resetRequested' = FALSE
    /\ UNCHANGED <<scope, requests, activeSession, manager, reader, session, connected,
                   opened, layout, prepared, stream>>

\* A peer is accepted when there is none and no reset to do ...
AcceptCheck ==
    /\ Reading("idle")
    /\ ~peer /\ ~resetRequested
    /\ session < MaxSessions
    /\ reader' = [at |-> "accept"]
    /\ UNCHANGED <<scope, requests, activeSession, manager, link, layout, prepared, stream>>

\* ... and its session begins, whatever manage() asked for in between.
AcceptPeer ==
    /\ Reading("accept")
    /\ session' = session + 1
    /\ connected' = TRUE /\ peer' = TRUE
    /\ opened' = starts
    /\ stream' = <<>>
    /\ reader' = Idle
    /\ UNCHANGED <<scope, requests, activeSession, manager, resetRequested, layout, prepared>>

Pass ==
    \/ ReadLink \/ ReadSession \/ ReadCompare \/ ReadPop \/ ReadEnd
    \/ LinkCheck \/ LinkStage
    \/ Teardown \/ AcceptPeer

-----------------------------------------------------------------------------
\* Control requests.

\* control_request: a request that finds the queue full is answered busy.
\* They are served in order and nothing looks at them before, so that what a
\* request asks for is chosen when it is served.
Request ==
    /\ requests < RequestDepth
    /\ requests' = requests + 1
    /\ UNCHANGED <<scope, activeSession, manager, reader, link, layout, prepared, stream>>

\* Mutant: the queued frames outlive the acquisition.
Stopped_KeepsQueue ==
    /\ running' = FALSE
    /\ head' = 0
    /\ UNCHANGED <<active, config, ring, frameSize, queueLimit, tail, count, samples>>

\* stop_acquisition, one critical section; tail is left for the next start.
Stopped ==
    /\ running' = FALSE
    /\ head' = 0
    /\ count' = 0
    /\ UNCHANGED <<active, config, ring, frameSize, queueLimit, tail, samples>>

\* manage() reads the session first ...
ManageBegin ==
    /\ At("idle")
    /\ manager' = [at |-> "look", seen |-> session]
    /\ UNCHANGED <<scope, requests, activeSession, reader, link, layout, prepared, stream>>

\* ... then the link, and decides whether the acquisition has lost its client.
Orphaned(seen) == ~connected \/ seen # activeSession

ManageLook ==
    /\ At("look")
    /\ manager' = [manager EXCEPT !.at = IF Orphaned(manager.seen) THEN "orphan" ELSE "adopt"]
    /\ UNCHANGED <<scope, requests, activeSession, reader, link, layout, prepared, stream>>

ManageOrphan ==
    /\ At("orphan")
    /\ Stopped
    /\ manager' = [manager EXCEPT !.at = "adopt"]
    /\ UNCHANGED <<requests, activeSession, reader, link, layout, prepared, stream>>

ManageAdopt ==
    /\ At("adopt")
    /\ activeSession' = manager.seen
    /\ manager' = [at |-> "serve", left |-> RequestDepth]
    /\ UNCHANGED <<scope, requests, reader, link, layout, prepared, stream>>

ManageTake ==
    /\ At("serve")
    /\ IF requests = 0 \/ manager.left = 0
       THEN manager' = Idle /\ UNCHANGED requests
       ELSE /\ manager' = [at |-> "process", left |-> manager.left - 1]
            /\ requests' = requests - 1
    /\ UNCHANGED <<scope, activeSession, reader, link, layout, prepared, stream>>

\* The request is answered, and the loop looks for the next one.
Answered == manager' = [at |-> "serve", left |-> manager.left]

\* Capability and status queries change nothing.
ServeQuery ==
    /\ At("process")
    /\ Answered
    /\ UNCHANGED <<scope, requests, activeSession, reader, link, layout, prepared, stream>>

\* Stop retires the link, then the acquisition, then adopts the new session.
ServeStop ==
    /\ At("process")
    /\ Retired
    /\ manager' = [manager EXCEPT !.at = "stopLink"]
    /\ UNCHANGED <<scope, requests, activeSession, reader, peer, opened, layout, prepared,
                   stream>>

ServeStopQueue ==
    /\ At("stopLink")
    /\ Stopped
    /\ manager' = [manager EXCEPT !.at = "stopQueue"]
    /\ UNCHANGED <<requests, activeSession, reader, link, layout, prepared, stream>>

ServeStopSession ==
    /\ At("stopQueue")
    /\ activeSession' = session
    /\ Answered
    /\ UNCHANGED <<scope, requests, reader, link, layout, prepared, stream>>

\* Channels are edited in the configuration bank only, so the interrupt does
\* not see an edit whatever it preempts.
Edited(bank) ==
    /\ config' = bank
    /\ UNCHANGED <<active, ring, frameSize, queueLimit, head, tail, count, running, samples>>

ServeClear ==
    /\ At("process")
    /\ Edited(NoChannel)
    /\ Answered
    /\ UNCHANGED <<requests, activeSession, reader, link, layout, prepared, stream>>

ServeSet ==
    /\ At("process")
    /\ \E channel \in Channels, width \in Widths \cup {0} :
          Edited([config EXCEPT ![channel] = width])
    /\ Answered
    /\ UNCHANGED <<requests, activeSession, reader, link, layout, prepared, stream>>

\* Mutant: swap looks at the run state alone.
Swappable_IgnoresQueue == ~running /\ Enabled(config)
Swappable == ~running /\ count = 0 /\ Enabled(config)

\* The reply of a successful swap tells the client the layout to decode by.
ServeSwap ==
    /\ At("process")
    /\ IF Swappable
       THEN active' = config /\ config' = active /\ layout' = config
       ELSE UNCHANGED <<active, config, layout>>
    /\ Answered
    /\ UNCHANGED <<ring, frameSize, queueLimit, head, tail, count, running, samples,
                   requests, activeSession, reader, link, prepared, stream>>

Affordable == FrameSize(active) <= FrameBudget
Startable == ~running /\ connected /\ count = 0 /\ Enabled(active)

\* realtime_scope_start.
Started ==
    LET size == FrameSize(active)
    IN  /\ samples' = 0
        /\ frameSize' = size
        /\ queueLimit' = (Capacity \div size) * size
        /\ head' = 0 /\ tail' = 0
        /\ running' = TRUE
        /\ UNCHANGED <<active, config, ring, count>>

ServeStart ==
    /\ At("process")
    /\ starts < MaxStarts
    /\ IF Affordable /\ Startable
       THEN Started /\ prepared' = Append(prepared, layout)
       ELSE UNCHANGED <<scope, prepared>>
    /\ Answered
    /\ UNCHANGED <<requests, activeSession, reader, link, layout, stream>>

Manage ==
    \/ ManageBegin \/ ManageLook \/ ManageOrphan \/ ManageAdopt \/ ManageTake
    \/ ServeQuery \/ ServeStop \/ ServeStopQueue \/ ServeStopSession
    \/ ServeClear \/ ServeSet \/ ServeSwap \/ ServeStart

Next ==
    \/ Sample
    \/ \E room \in Rooms : ReadBegin(room)
    \/ Pass
    \/ Manage
    \/ PeerLost \/ LinkDown \/ AcceptCheck
    \/ Request

\* The scheduler gives both tasks their slices for ever, and each calls again
\* what it has finished.  A client that goes on taking bytes leaves the port
\* room for a frame again and again, though not on every pass.  The
\* interrupt, the peers and the operator owe nothing.
Spec ==
    /\ Init /\ [][Next]_vars
    /\ WF_vars(Manage) /\ WF_vars(Pass)
    /\ SF_vars(\E room \in Rooms : room >= FrameBudget /\ ReadBegin(room))

-----------------------------------------------------------------------------
\* What a client is sent, from the bytes the link task pops with manage() at
\* work around it, is whole frames; each is laid out as the device had
\* reported before that acquisition started; every sample of an acquisition
\* comes in order from sample 0 with no gap; and none is of an acquisition
\* that was started before the client was accepted.
StreamExact ==
    \A i \in DOMAIN stream :
        LET frame == stream[i]
        IN  /\ frame.start > opened    \* so it is a frame, too
            /\ frame.layout = prepared[frame.start]
            /\ frame.index = frame.sample % IndexMod
            /\ \/ frame.sample = 0 /\ (i > 1 => stream[i - 1].start < frame.start)
               \/ /\ i > 1
                  /\ stream[i - 1].start = frame.start
                  /\ stream[i - 1].sample = frame.sample - 1

\* service_read() tests the room by the active bank and copies by the stride
\* of the acquisition: it never writes past the room it was offered.
ReadFits == Reading("loop") \/ Reading("check") \/ Reading("stage") => reader.left >= 0

\* Frames left behind by an acquisition that ended do not lock the scope:
\* they are read or discarded, and a swap or a start is possible again,
\* unless the port reports a client that it does not have.
LeftoversClear == (count # 0 /\ ~running) ~> (count = 0 \/ (connected /\ ~peer))
=============================================================================
