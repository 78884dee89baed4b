----------------------------- MODULE MidiRoutes -----------------------------
(***************************************************************************)
(* The way of one message through the system.  A DAW sits on the USB port  *)
(* of the dongle; the dongle, a client and some plain esp_now_midi         *)
(* stations are ESP-NOW peers of each other; the client has a USB host of  *)
(* its own.  On its way a message is in turn the arguments of a call, a    *)
(* midi_message, a USB-MIDI packet, the bytes of an ESP-NOW packet, and    *)
(* the arguments of a handler again, and every station passes it on.       *)
(*                                                                         *)
(* Nothing is lost here: full queues, the radio's losses and stalled hosts *)
(* belong to SendQueue, Transmit, SysExLink and DongleUsb.                 *)
(***************************************************************************)
EXTENDS Integers, Sequences, FiniteSets

CONSTANTS
    Plain,       \* the stations that use esp_now_midi alone
    Mutable,     \* the peers the dongle may have muted
    Originals,   \* what is sent, as the arguments of a send call or a handler
    MaxSends,    \* bound: messages sent that are no echoes
    MaxEchoes    \* bound: messages the client's sketch sends back

NoteOff == 128
NoteOn == 144
PolyAftertouch == 160
ControlChange == 176
ProgramChange == 192
Aftertouch == 208
PitchBend == 224
SysEx == 240
TimeCode == 241
SongPosition == 242
SongSelect == 243
TuneRequest == 246
Clock == 248
ActiveSensing == 254
SystemReset == 255

(* What a SysEx carries: another vendor's data, an enomik configuration    *)
(* message, or the announcement of an enomik device.                       *)
Vendor == 0
Config == 1
Announce == 2

Voice == {NoteOff, NoteOn, PolyAftertouch, ControlChange, ProgramChange, Aftertouch}
OneByte == {ProgramChange, Aftertouch}
RealTime == {Clock, 250, 251, 252}

(* Arguments in the ranges that MIDI has, zero where there is none. *)
Channels == 1..16
Data == 0..127
Positions == 0..16383
Bends == -8192..8191

LegalCalls ==
    [status : Voice \ OneByte, channel : Channels, a : Data, b : Data]
    \cup [status : OneByte, channel : Channels, a : Data, b : {0}]
    \cup [status : {PitchBend}, channel : Channels, a : Bends, b : {0}]
    \cup [status : {SongPosition}, channel : {0}, a : Positions, b : {0}]
    \cup [status : {TimeCode, SongSelect}, channel : {0}, a : Data, b : {0}]
    \cup [status : RealTime \cup {TuneRequest, ActiveSensing, SystemReset},
          channel : {0}, a : {0}, b : {0}]
    \cup [status : {SysEx}, channel : {0}, a : {Vendor, Config, Announce}, b : {0}]

ASSUME RoutesAssumption ==
    /\ MaxSends \in Nat /\ MaxEchoes \in Nat
    /\ Mutable \subseteq Plain \cup {"client"}
    /\ Plain \cap {"daw", "dongle", "client", "pin", "clientHost", "echo",
                   "dongleConfig", "clientConfig", "directory"} = {}
    /\ Originals \subseteq LegalCalls

Radios == Plain \cup {"dongle", "client"}
Sources == Plain \cup {"daw", "dongle", "client", "pin", "clientHost"}
Ends == Plain \cup {"daw", "client", "clientHost", "dongleConfig", "clientConfig", "directory"}

VARIABLES
    loopback,    \* _midiLoopback of the client
    muted,       \* the peers the dongle has muted
    sent,        \* every message sent so far: its source, its call, and
                 \* whether a handler that loopback ran has sent it
    hostOut,     \* USB packets on their way from the DAW and the client's host
    air,         \* ESP-NOW packets on their way to one station each
    inbox,       \* _inbox of the dongle and of the client
    sysexInbox,  \* _usbSysExQueue of the dongle, _sysexInbox of the client
    toDaw,       \* USB packets on their way to the DAW
    running,     \* the handler call the client's loop has to make, if any
    heard        \* what every end of a route was given

routesVars == <<loopback, muted, sent, hostOut, air, inbox, sysexInbox, toDaw, running, heard>>

NotRunning == [id |-> 0]

RoutesInit ==
    /\ loopback \in BOOLEAN
    /\ muted \in SUBSET Mutable
    /\ sent = <<>>
    /\ hostOut = [h \in {"daw", "clientHost"} |-> <<>>]
    /\ air = {}
    /\ inbox = [s \in {"dongle", "client"} |-> <<>>]
    /\ sysexInbox = [s \in {"dongle", "client"} |-> <<>>]
    /\ toDaw = <<>>
    /\ running = NotRunning
    /\ heard = [e \in Ends |-> <<>>]

-----------------------------------------------------------------------------
(* From the arguments of a call to a midi_message. *)

Low(n) == n % 128
High(n) == (n \div 128) % 128

VoiceMessage(call) ==
    [status |-> call.status, channel |-> call.channel, first |-> call.a,
     second |-> IF call.status \in OneByte THEN 0 ELSE call.b]

BendMessage(channel, raw) ==
    [status |-> PitchBend, channel |-> channel, first |-> Low(raw), second |-> High(raw)]

SystemMessage(call) ==
    [status |-> call.status, channel |-> 0, first |-> Low(call.a),
     second |-> IF call.status = SongPosition THEN High(call.a) ELSE 0]

Message(call, bend) ==
    CASE call.status \in Voice -> VoiceMessage(call)
      [] call.status = PitchBend -> BendMessage(call.channel, bend + 8192)
      [] OTHER -> SystemMessage(call)

Clamped(n) == CASE n < -8192 -> -8192 [] n > 8191 -> 8191 [] OTHER -> n

(* The send calls of esp_now_midi and of the dongle, the dongle's handlers  *)
(* for what the DAW sends, and the client's copy of a message for its host. *)
CoreMessage(call) == Message(call, Clamped(call.a))
DongleMessage(call) == Message(call, call.a)
FromHostMessage(call) == Message(call, call.a)
ClientUsbMessage(call) == Message(call, Clamped(call.a))

-----------------------------------------------------------------------------
(* The bytes of an ESP-NOW packet. *)

StatusByte(msg) ==
    IF msg.status >= 240 THEN msg.status ELSE msg.status + ((msg.channel - 1) % 16)

StatusOf(byte) == IF byte >= 240 THEN byte ELSE byte - (byte % 16)

DataSize(status) ==
    CASE status \in OneByte \cup {TimeCode, SongSelect} -> 2
      [] status \in RealTime \cup {TuneRequest, ActiveSensing, SystemReset} -> 1
      [] OTHER -> 3

(* A plausible bug: the channel is not made zero-based. *)
FromMessageOneBased(msg) ==
    SubSeq(<<IF msg.status >= 240 THEN msg.status ELSE msg.status + (msg.channel % 16),
             msg.first, msg.second>>, 1, DataSize(msg.status))

FromMessage(msg) ==
    SubSeq(<<StatusByte(msg), msg.first, msg.second>>, 1, DataSize(msg.status))

IsMidiPacket(bytes) ==
    /\ bytes[1] >= 128
    /\ DataSize(StatusOf(bytes[1])) = Len(bytes)
    /\ \A i \in 2..Len(bytes) : bytes[i] < 128

ToMessage(bytes) ==
    LET byte(i) == IF i <= Len(bytes) THEN bytes[i] ELSE 0
    IN  [status |-> StatusOf(bytes[1]),
         channel |-> IF bytes[1] >= 240 THEN 0 ELSE (bytes[1] % 16) + 1,
         first |-> byte(2), second |-> byte(3)]

-----------------------------------------------------------------------------
(* USB-MIDI event packets: code index number, status byte, two data bytes. *)

Bridged == Voice \cup RealTime \cup {PitchBend, SongPosition, SongSelect}

ToUsbMidiPacket(msg) ==
    CASE msg.status \in Voice \cup {PitchBend} ->
            <<msg.status \div 16, StatusByte(msg), msg.first % 128,
              IF msg.status \in OneByte THEN 0 ELSE msg.second % 128>>
      [] msg.status = SongPosition -> <<3, msg.status, msg.first % 128, msg.second % 128>>
      [] msg.status = SongSelect -> <<2, msg.status, msg.first % 128, 0>>
      [] msg.status \in RealTime -> <<15, msg.status, 0, 0>>

(* The handler a packet from the DAW runs, and its arguments. *)
DispatchPacket(packet) ==
    LET value == packet[4] * 128 + packet[3]
        kind == StatusOf(packet[2])
        call(channel, a, b) == [status |-> kind, channel |-> channel, a |-> a, b |-> b]
        channel == (packet[2] % 16) + 1
    IN  CASE packet[1] = 14 -> call(channel, value - 8192, 0)
          [] packet[1] \in {12, 13} -> call(channel, packet[3], 0)
          [] packet[1] \in 8..11 -> call(channel, packet[3], packet[4])
          [] kind = SongPosition -> call(0, value, 0)
          [] kind = SongSelect -> call(0, packet[3], 0)
          [] OTHER -> call(0, 0, 0)

-----------------------------------------------------------------------------
(* From a midi_message to the handler it runs. *)

Arguments(msg) ==
    LET value == msg.second * 128 + msg.first
    IN  [status |-> msg.status, channel |-> msg.channel,
         a |-> CASE msg.status = PitchBend -> value - 8192
                 [] msg.status = SongPosition -> value
                 [] OTHER -> msg.first,
         b |-> IF msg.status \in Voice \ OneByte THEN msg.second ELSE 0]

CoreHandles == Bridged \cup {TimeCode, ActiveSensing, SystemReset}

(* What a pin sends, and the send call the client makes of it. *)
PinMessage(call) == Message(call, Clamped(call.a))
Request(msg) == Arguments(msg)

-----------------------------------------------------------------------------
(* Sending.  Every message is numbered, so that what is heard can be told  *)
(* from where and as what it was sent.                                     *)

Id == Len(sent) + 1

Echoes == {i \in DOMAIN sent : sent[i].from = "echo"}

Register(from, call, depth) ==
    /\ IF from = "echo" THEN Cardinality(Echoes) < MaxEchoes
                        ELSE Len(sent) < MaxSends + Cardinality(Echoes)
    /\ sent' = Append(sent, [from |-> from, call |-> call, depth |-> depth])

Hear(log, end, id, call) == [log EXCEPT ![end] = Append(@, [id |-> id, call |-> call])]

SysExCall(content) == [status |-> SysEx, channel |-> 0, a |-> content, b |-> 0]

Transport(call) ==
    IF call.status = SysEx THEN <<SysEx, call.a>> ELSE FromMessage(CoreMessage(call))

OnAir(from, bytes, targets, id) ==
    {[from |-> from, to |-> p, id |-> id, bytes |-> bytes] : p \in targets}

Unmuted == Radios \ (muted \cup {"dongle"})

(* A plausible bug: what a loopback handler sends is looped back again. *)
MaybeLoopbackAnyDepth(call, id, depth) ==
    IF loopback /\ call.status # SysEx
    THEN [id |-> id, call |-> call, depth |-> depth + 1]
    ELSE NotRunning

(* MIDI loopback: the client's own handler runs for what the client sends, *)
(* unless a handler that loopback runs has sent it.                        *)
MaybeLoopback(call, id, depth) ==
    IF loopback /\ depth = 0 /\ call.status # SysEx
    THEN [id |-> id, call |-> call, depth |-> 1]
    ELSE NotRunning

(* A send call of the client, made at some depth of loopback when the log  *)
(* of what was heard is log: to the peers, to its USB host, and to its own *)
(* handlers.                                                               *)
ClientSend(from, call, depth, log) ==
    /\ Register(from, call, depth)
    /\ air' = air \cup OnAir("client", Transport(call), Radios \ {"client"}, Id)
    /\ heard' = CASE call.status # SysEx ->
                       Hear(log, "clientHost", Id,
                            DispatchPacket(ToUsbMidiPacket(ClientUsbMessage(call))))
                  [] call = SysExCall(Announce) -> log
                  [] OTHER -> Hear(log, "clientHost", Id, call)
    /\ running' = MaybeLoopback(call, Id, depth)

ClientSends ==
    /\ running = NotRunning
    /\ \E call \in Originals :
          /\ \/ call.status \in Bridged
             \/ call.status = SysEx /\ call.a \in {Vendor, Announce}
          /\ ClientSend("client", call, 0, heard)
    /\ UNCHANGED <<loopback, muted, hostOut, inbox, sysexInbox, toDaw>>

(* A pin of the client sends through the same calls. *)
PinSends ==
    /\ running = NotRunning
    /\ \E call \in Originals :
          /\ call.status \in {NoteOn, NoteOff, ControlChange, PitchBend}
          /\ ClientSend("pin", Request(PinMessage(call)), 0, heard)
    /\ UNCHANGED <<loopback, muted, hostOut, inbox, sysexInbox, toDaw>>

(* The dongle's own send calls: to the DAW and to the peers it has not     *)
(* muted.                                                                  *)
DongleSends ==
    \E call \in Originals :
       /\ call.status \in Bridged
       /\ Register("dongle", call, 0)
       /\ toDaw' = Append(toDaw, [id |-> Id, packet |-> ToUsbMidiPacket(DongleMessage(call))])
       /\ air' = air \cup OnAir("dongle", FromMessage(DongleMessage(call)), Unmuted, Id)
       /\ UNCHANGED <<loopback, muted, hostOut, inbox, sysexInbox, running, heard>>

PlainSends(p) ==
    \E call \in Originals :
       /\ call.status = SysEx => call.a = Vendor
       /\ Register(p, call, 0)
       /\ air' = air \cup OnAir(p, Transport(call), Radios \ {p}, Id)
       /\ UNCHANGED <<loopback, muted, hostOut, inbox, sysexInbox, toDaw, running, heard>>

(* A USB host sends: whole packets, in order. *)
UsbSends(h) ==
    \E call \in Originals :
       /\ call.status \in Bridged \/ (call.status = SysEx /\ call.a # Announce)
       /\ Register(h, call, 0)
       /\ hostOut' = [hostOut EXCEPT ![h] = Append(@, [id |-> Id, packet |->
              IF call.status = SysEx THEN <<4, SysEx, call.a>>
                                     ELSE ToUsbMidiPacket(DongleMessage(call))])]
       /\ UNCHANGED <<loopback, muted, air, inbox, sysexInbox, toDaw, running, heard>>

-----------------------------------------------------------------------------
(* The dongle. *)

(* From the DAW to the peers: enomik messages are the dongle's own, SysEx  *)
(* goes to every peer, the rest to those that are not muted.               *)
BridgeFromHost ==
    /\ hostOut["daw"] # <<>>
    /\ LET head == Head(hostOut["daw"])
           sysex == head.packet[1] = 4
           config == sysex /\ head.packet[3] # Vendor
       IN  /\ hostOut' = [hostOut EXCEPT !["daw"] = Tail(@)]
           /\ heard' = IF config THEN Hear(heard, "dongleConfig", head.id,
                                           SysExCall(head.packet[3]))
                                 ELSE heard
           /\ air' = CASE config -> air
                       [] sysex /\ ~config -> air \cup OnAir("dongle", <<SysEx, head.packet[3]>>,
                                                             Radios \ {"dongle"}, head.id)
                       [] OTHER -> air \cup OnAir("dongle", FromMessage(FromHostMessage(DispatchPacket(head.packet))),
                                                  Unmuted, head.id)
    /\ UNCHANGED <<loopback, muted, sent, inbox, sysexInbox, toDaw, running>>

(* From the inbox to the DAW. *)
BridgeToHost ==
    /\ inbox["dongle"] # <<>>
    /\ LET head == Head(inbox["dongle"])
       IN  /\ inbox' = [inbox EXCEPT !["dongle"] = Tail(@)]
           /\ toDaw' = IF head.msg.status \in Bridged /\ head.from \notin muted
                       THEN Append(toDaw, [id |-> head.id, packet |-> ToUsbMidiPacket(head.msg)])
                       ELSE toDaw
    /\ UNCHANGED <<loopback, muted, sent, hostOut, air, sysexInbox, running, heard>>

DrainUsbSysExQueue ==
    /\ sysexInbox["dongle"] # <<>>
    /\ LET head == Head(sysexInbox["dongle"])
       IN  /\ sysexInbox' = [sysexInbox EXCEPT !["dongle"] = Tail(@)]
           /\ toDaw' = IF head.from \in muted THEN toDaw
                       ELSE Append(toDaw, [id |-> head.id, packet |-> <<4, SysEx, head.a>>])
    /\ UNCHANGED <<loopback, muted, sent, hostOut, air, inbox, running, heard>>

DawReads ==
    /\ toDaw # <<>>
    /\ LET head == Head(toDaw)
       IN  heard' = Hear(heard, "daw", head.id,
                         IF head.packet[1] = 4
                         THEN SysExCall(head.packet[3])
                         ELSE DispatchPacket(head.packet))
    /\ toDaw' = Tail(toDaw)
    /\ UNCHANGED <<loopback, muted, sent, hostOut, air, inbox, sysexInbox, running>>

-----------------------------------------------------------------------------
(* The receive callback of the three kinds of station. *)

ReceiveSysEx(f, content) ==
    CASE f.to = "dongle" /\ content = Announce ->
            /\ heard' = Hear(heard, "directory", f.id, SysExCall(content))
            /\ UNCHANGED sysexInbox
      [] f.to = "client" /\ content = Announce -> UNCHANGED <<heard, sysexInbox>>
      [] f.to \in Plain ->
            /\ heard' = Hear(heard, f.to, f.id, SysExCall(content))
            /\ UNCHANGED sysexInbox
      [] OTHER ->
            /\ sysexInbox' = [sysexInbox EXCEPT ![f.to] =
                  Append(@, [id |-> f.id, a |-> content, from |-> f.from])]
            /\ UNCHANGED heard

ReceiveShort(f, msg) ==
    IF f.to \in Plain
    THEN /\ heard' = IF msg.status \in CoreHandles THEN Hear(heard, f.to, f.id, Arguments(msg)) ELSE heard
         /\ UNCHANGED inbox
    ELSE /\ inbox' = [inbox EXCEPT ![f.to] =
               Append(@, [id |-> f.id, msg |-> msg, from |-> f.from])]
         /\ UNCHANGED heard

OnDataRecv(f) ==
    /\ air' = air \ {f}
    /\ IF f.bytes[1] = SysEx
       THEN ReceiveSysEx(f, f.bytes[2]) /\ UNCHANGED inbox
       ELSE /\ IF IsMidiPacket(f.bytes) THEN ReceiveShort(f, ToMessage(f.bytes))
                                        ELSE UNCHANGED <<heard, inbox>>
            /\ UNCHANGED sysexInbox
    /\ UNCHANGED <<loopback, muted, sent, hostOut, toDaw, running>>

-----------------------------------------------------------------------------
(* The client's loop. *)

(* A message of its USB host runs a handler; a configuration message is    *)
(* for the configuration handler too.                                      *)
ReadUsb ==
    /\ running = NotRunning /\ hostOut["clientHost"] # <<>>
    /\ LET head == Head(hostOut["clientHost"])
           sysex == head.packet[1] = 4
           call == IF sysex THEN SysExCall(head.packet[3])
                            ELSE DispatchPacket(head.packet)
       IN  /\ running' = [id |-> head.id, call |-> call, depth |-> 0]
           /\ heard' = IF sysex /\ call.a # Vendor THEN Hear(heard, "clientConfig", head.id, call) ELSE heard
    /\ hostOut' = [hostOut EXCEPT !["clientHost"] = Tail(@)]
    /\ UNCHANGED <<loopback, muted, sent, air, inbox, sysexInbox, toDaw>>

(* processReceived() and dispatch(). *)
Dispatch ==
    /\ running = NotRunning /\ inbox["client"] # <<>>
    /\ LET head == Head(inbox["client"])
       IN  running' = IF head.msg.status \in Bridged
                      THEN [id |-> head.id, call |-> Arguments(head.msg), depth |-> 0]
                      ELSE NotRunning
    /\ inbox' = [inbox EXCEPT !["client"] = Tail(@)]
    /\ UNCHANGED <<loopback, muted, sent, hostOut, air, sysexInbox, toDaw, heard>>

DispatchSysEx ==
    /\ running = NotRunning /\ inbox["client"] = <<>> /\ sysexInbox["client"] # <<>>
    /\ LET head == Head(sysexInbox["client"])
       IN  running' = [id |-> head.id, depth |-> 0,
                       call |-> SysExCall(head.a)]
    /\ sysexInbox' = [sysexInbox EXCEPT !["client"] = Tail(@)]
    /\ UNCHANGED <<loopback, muted, sent, hostOut, air, inbox, toDaw, heard>>

(* The sketch's handler returns; a sketch that echoes, as client_echo does, *)
(* first sends what the handler was given.                                  *)
HandlerReturns ==
    /\ running # NotRunning
    /\ heard' = Hear(heard, "client", running.id, running.call)
    /\ running' = NotRunning
    /\ UNCHANGED <<loopback, muted, sent, hostOut, air, inbox, sysexInbox, toDaw>>

HandlerEchoes ==
    /\ running # NotRunning
    /\ running.call.status # SysEx
    /\ ClientSend("echo", running.call, running.depth,
                  Hear(heard, "client", running.id, running.call))
    /\ UNCHANGED <<loopback, muted, hostOut, inbox, sysexInbox, toDaw>>

-----------------------------------------------------------------------------
Send ==
    \/ ClientSends
    \/ PinSends
    \/ DongleSends
    \/ \E p \in Plain : PlainSends(p)
    \/ \E h \in {"daw", "clientHost"} : UsbSends(h)

DongleStep == BridgeFromHost \/ BridgeToHost \/ DrainUsbSysExQueue

ClientStep == ReadUsb \/ Dispatch \/ DispatchSysEx \/ HandlerReturns \/ HandlerEchoes

RoutesNext == Send \/ DongleStep \/ ClientStep \/ DawReads \/ \E f \in air : OnDataRecv(f)

RoutesSpec == RoutesInit /\ [][RoutesNext]_routesVars

-----------------------------------------------------------------------------
RoutesTypeOK ==
    /\ muted \in SUBSET Mutable
    /\ Len(sent) \in 0..(MaxSends + MaxEchoes)
    /\ \A f \in air : f.to \in Radios \ {f.from} /\ f.id \in 1..Len(sent)
    /\ running = NotRunning \/ (running.id \in 1..Len(sent) /\ running.depth \in 0..1)

(* What an end of a route is given is what was sent: the same status,      *)
(* channel 1 to 16, data bytes, signed pitch bend and song position, after *)
(* every conversion on the way (midi_message_packet::fromMessage() and     *)
(* toMessage(), toUsbMidiPacket(), dispatchPacket(), dispatch()).          *)
SameMeaning ==
    \A e \in Ends : \A i \in DOMAIN heard[e] : heard[e][i].call = sent[heard[e][i].id].call

(* The ends a message belongs to.  Config messages stay on the USB port    *)
(* they came from, announcements stay among the radios, nothing goes back  *)
(* to where it came from except by loopback, and no station relays what it *)
(* received except the dongle, between its DAW and its peers.  What the    *)
(* DAW sends as SysEx is for every peer, as onSysExStatic() has it.        *)
Addressed(m) ==
    LET sysex == m.call.status = SysEx
        client == m.from \in {"client", "pin", "echo"}
        radio == client \/ m.from \in Plain
        dongle == m.from \in {"daw", "dongle"}
        silent == {m.from, IF client THEN "client" ELSE m.from} \cap muted # {}
        known == m.call.status \in Bridged \/ m.call = SysExCall(Vendor)
        toDawEnd == m.from = "dongle" \/ (radio /\ ~silent)
        toPeer(p) == IF dongle THEN sysex \/ p \notin muted ELSE radio /\ p # m.from
        looped == client /\ loopback /\ m.depth = 0 /\ ~sysex
    IN  CASE m.call = SysExCall(Config) ->
                IF m.from = "daw" THEN {"dongleConfig"} ELSE {"clientConfig", "client"}
          [] m.call = SysExCall(Announce) -> {"directory"} \cup Plain
          [] OTHER ->
                (IF known /\ toDawEnd THEN {"daw"} ELSE {})
                \cup (IF client THEN {"clientHost"} ELSE {})
                \cup (IF known /\ (IF client THEN looped
                                   ELSE m.from = "clientHost" \/ toPeer("client"))
                      THEN {"client"} ELSE {})
                \cup {p \in Plain : m.call.status \in CoreHandles \cup {SysEx} /\ toPeer(p)}

(* Whether SysEx of the DAW is for muted peers as well is left open:       *)
(* setMuted() says that they are ignored "in both directions" (line 827),  *)
(* onSysExStatic() sends to all of them (line 1818).                       *)
Disputed(m) ==
    IF m.from = "daw" /\ m.call = SysExCall(Vendor) THEN muted ELSE {}

AllArrived ==
    /\ air = {} /\ toDaw = <<>> /\ running = NotRunning
    /\ \A h \in DOMAIN hostOut : hostOut[h] = <<>>
    /\ \A s \in DOMAIN inbox : inbox[s] = <<>> /\ sysexInbox[s] = <<>>

(* When everything in transit has arrived, every message was given exactly *)
(* once to every end it belongs to and to no other, whatever the client's  *)
(* sketch sends back and whether MIDI loopback is on: no echo, no endless  *)
(* loopback, no message twice.  Nothing but such SysEx gets past a mute.   *)
EveryEndOnce ==
    AllArrived =>
        \A id \in DOMAIN sent : \A e \in Ends :
            Cardinality({i \in DOMAIN heard[e] : heard[e][i].id = id})
                \in CASE e \in Disputed(sent[id]) -> {0, 1}
                     [] e \in Addressed(sent[id]) -> {1}
                     [] OTHER -> {0}

=============================================================================
