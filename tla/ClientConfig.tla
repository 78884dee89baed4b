----------------------------- MODULE ClientConfig -----------------------------
(***************************************************************************)
(* What a client keeps in flash and how the configuration messages of a    *)
(* USB host change it: src/include/enomik_sysex.h routes a request,        *)
(* src/include/enomik_io.h keeps pins, flags and the name,                 *)
(* src/enomik_client.h and src/include/PeerStorage.h keep the peers.       *)
(*                                                                         *)
(* Requests are handled one after the other by the loop task.  Flash is    *)
(* written record by record, and the power can fail between two writes;    *)
(* the memory that is lost then stays in the variables until the next      *)
(* boot, which is what the properties compare with.  A new firmware can be *)
(* flashed instead of a plain restart.                                     *)
(*                                                                         *)
(* A name override is represented by the firmware under which the host has *)
(* set it.  One pin is watched: "known" is what the replies, which may get *)
(* lost, have told the host about it.                                      *)
(***************************************************************************)
EXTENDS Naturals, Sequences, FiniteSets, SequencesExt

CONSTANTS
    Pins,        \* GPIO pins the host configures
    Watched,     \* the pin whose replies are followed
    Configs,     \* mappings: records with the fields "map" and "threshold"
    Flags,       \* stored switches: MIDI loopback and power save
    Firmwares,   \* firmware builds, in the order in which they are flashed
    Macs,        \* other devices
    MaxPeers,    \* peers that can be stored, and peers that can be live
    MaxTears,    \* bound: how often the power fails during a save of pins
    Absent, Unknown, NoName, NoFirmware

ASSUME ConfigAssumption ==
    /\ Watched \in Pins
    /\ \A c \in Configs : DOMAIN c = {"map", "threshold"}
    /\ MaxPeers \in Nat \ {0} /\ MaxTears \in Nat
    /\ Absent # Unknown /\ {Absent, Unknown} \cap Configs = {}
    /\ Firmwares \in Seq(ToSet(Firmwares)) /\ Firmwares # <<>>
    /\ {NoName, NoFirmware} \cap ToSet(Firmwares) = {}

VARIABLES
    pins,    \* _pinConfigs: the mappings in memory
    flags,   \* _midiLoopback and _powerSave
    name,    \* _nameOverride
    stored,  \* the peers in PeerStorage, written to flash whole
    live,    \* the peers of the ESP-NOW list
    missed,  \* stored peers that begin() could not make live
    flash,   \* the records of pins, their count, the flags, the name and its firmware
    fw,      \* the firmware that runs
    phase,   \* "off", "starting" or "ready"
    work,    \* the handler that runs, its next step, the pins it changes and its reply
    tears,   \* bound: saves of pins that the power has cut short
    torn,    \* one of them since the records were last cleared
    known    \* what the host knows of the watched pin

vars == <<pins, flags, name, stored, live, missed, flash, fw, phase, work, tears, torn, known>>
peerVars == <<stored, live, missed>>
powerVars == <<fw, phase, tears, torn>>

Record == [pin : Pins, config : Configs]
Rest == [job |-> "none", step |-> 0, pins |-> {}, reply |-> Absent]

Init ==
    /\ pins = <<>> /\ flags = {} /\ name = NoName
    /\ stored = {} /\ live = {} /\ missed = {}
    /\ flash = [records |-> <<>>, count |-> 0, flags |-> {}, name |-> NoName, firmware |-> NoFirmware]
    /\ fw = Head(Firmwares) /\ phase = "off" /\ work = Rest
    /\ tears = 0 /\ torn = FALSE /\ known = Absent
------------------------------------------------------------------------------
(* The vector of mappings: the first entry of a pin is the one that is     *)
(* found, replaced or erased.                                              *)
Of(s, p) == { i \in DOMAIN s : s[i].pin = p }
First(I) == CHOOSE i \in I : \A j \in I : i <= j
Lookup(s, p) == IF Of(s, p) = {} THEN Absent ELSE s[First(Of(s, p))].config
Erase(s, p) == RemoveAt(s, First(Of(s, p)))

SameExceptThreshold(s, p, c) == { i \in Of(s, p) : s[i].config.map = c.map }

Upsert(s, p, c) ==
    LET entry == [pin |-> p, config |-> c] IN
    IF SameExceptThreshold(s, p, c) # {}
    THEN [s EXCEPT ![First(SameExceptThreshold(s, p, c))] = entry]
    ELSE IF Of(s, p) = {} THEN Append(s, entry) ELSE Append(Erase(s, p), entry)

(* What loadPinConfigsFromPrefs() would read now. *)
LoadPins == SubSeq(flash.records, 1, flash.count)

(* What a reply tells the host about the watched pin, if it arrives. *)
Tell(fact) == \E heard \in BOOLEAN : known' = IF heard THEN fact ELSE Unknown
TellOf(p, fact) == IF p = Watched THEN Tell(fact) ELSE UNCHANGED known

Ready == phase = "ready" /\ work = Rest
Do(job, step, targets) == work' = [Rest EXCEPT !.job = job, !.step = step, !.pins = targets]
Proceed == work' = [work EXCEPT !.step = @ + 1]
Replying(job, p, c) == work' = [job |-> job, step |-> 1, pins |-> {p}, reply |-> c]
------------------------------------------------------------------------------
(* SET_PIN_CONFIG, DELETE_PIN_CONFIG and CLEAR_PIN_CONFIGS change the      *)
(* mappings in memory and then save all of them.                           *)
SetPinConfigThresholdUnsaved(p, c) ==                              \* seeded fault
    /\ Ready
    /\ pins' = Upsert(pins, p, c)
    /\ IF SameExceptThreshold(pins, p, c) # {} THEN UNCHANGED work ELSE Replying("set", p, c)
    /\ UNCHANGED <<flags, name, peerVars, flash, powerVars, known>>

SetPinConfig(p, c) ==
    /\ Ready
    /\ pins' = Upsert(pins, p, c)
    /\ Replying("set", p, c)
    /\ UNCHANGED <<flags, name, peerVars, flash, powerVars, known>>

DeletePinConfig(p) ==
    /\ Ready
    /\ IF Of(pins, p) = {}
       THEN TellOf(p, Absent) /\ UNCHANGED <<pins, work>>
       ELSE pins' = Erase(pins, p) /\ Replying("delete", p, Absent) /\ UNCHANGED known
    /\ UNCHANGED <<flags, name, peerVars, flash, powerVars>>

ClearPinConfigs ==
    /\ Ready
    /\ pins' = <<>>
    /\ Do("clear", 1, Pins)
    /\ UNCHANGED <<flags, name, peerVars, flash, powerVars, known>>

Saving == work.job \in {"set", "delete", "clear"}

(* savePinConfigsToPrefs(): one record after the other, then their number. *)
Put(records, i, r) == [k \in 1..(IF i > Len(records) THEN i ELSE Len(records)) |->
                           IF k = i THEN r ELSE records[k]]

SaveRecordBackwards ==                                             \* seeded fault
    /\ Saving /\ work.step <= Len(pins)
    /\ LET i == Len(pins) + 1 - work.step
       IN  flash' = [flash EXCEPT !.records = Put(@ \o SubSeq(pins, Len(@) + 1, Len(pins)), i, pins[i])]
    /\ Proceed
    /\ UNCHANGED <<pins, flags, name, peerVars, powerVars, known>>

SaveRecord ==
    /\ Saving /\ work.step <= Len(pins)
    /\ flash' = [flash EXCEPT !.records = Put(@, work.step, pins[work.step])]
    /\ Proceed
    /\ UNCHANGED <<pins, flags, name, peerVars, powerVars, known>>

AnswerWhatWasAsked ==                                              \* seeded fault
    IF Watched \notin work.pins \/ work.job = "clear" THEN UNCHANGED known ELSE Tell(work.reply)

(* The reply to SET_PIN_CONFIG repeats the mapping that was asked for.     *)
Answer == IF Watched \notin work.pins THEN UNCHANGED known ELSE Tell(work.reply)

SaveCount ==
    /\ Saving /\ work.step > Len(pins)
    /\ flash' = [flash EXCEPT !.count = Len(pins)]
    /\ Answer
    /\ work' = Rest
    /\ torn' = (torn /\ pins # <<>>)
    /\ UNCHANGED <<pins, flags, name, peerVars, fw, phase, tears>>

(* GET_PIN_CONFIG, GET_ALL_PIN_CONFIGS and GET_CONFIG change nothing. *)
GetPinConfig ==
    /\ Ready
    /\ Tell(Lookup(pins, Watched))
    /\ UNCHANGED <<pins, flags, name, peerVars, flash, powerVars, work>>
------------------------------------------------------------------------------
(* SET_MIDI_LOOPBACK and SET_POWER_SAVE: one record each. *)
SetFlag(f, on) ==
    /\ Ready
    /\ flags' = IF on THEN flags \union {f} ELSE flags \ {f}
    /\ flash' = [flash EXCEPT !.flags = IF on THEN @ \union {f} ELSE @ \ {f}]
    /\ UNCHANGED <<pins, name, peerVars, powerVars, work, known>>

(* SET_NAME; an empty name drops the override. *)
SetName(empty) ==
    /\ Ready
    /\ name' = IF empty THEN NoName ELSE fw
    /\ flash' = [flash EXCEPT !.name = name']
    /\ UNCHANGED <<pins, flags, peerVars, powerVars, work, known>>

(* RESET clears the memory at once and then, one after the other, the      *)
(* records of the pins, the flags with the name, writes the firmware again *)
(* and clears the peers; the reply comes last.                             *)
Reset ==
    /\ Ready
    /\ pins' = <<>> /\ flags' = {} /\ name' = NoName
    /\ Do("reset", 1, Pins)
    /\ UNCHANGED <<peerVars, flash, powerVars, known>>

Resetting(step) == work.job = "reset" /\ work.step = step

ResetFlash ==
    /\ \/ /\ Resetting(1)
          /\ flash' = [flash EXCEPT !.records = <<>>, !.count = 0]
       \/ /\ Resetting(2)
          /\ flash' = [flash EXCEPT !.flags = {}, !.name = NoName, !.firmware = NoFirmware]
       \/ /\ Resetting(3)
          /\ flash' = [flash EXCEPT !.firmware = fw]
    /\ Proceed
    /\ UNCHANGED <<pins, flags, name, peerVars, powerVars, known>>

ResetPeers ==
    /\ Resetting(4)
    /\ stored' = {} /\ live' = {} /\ missed' = {}
    /\ Tell(Absent)
    /\ work' = Rest /\ torn' = FALSE
    /\ UNCHANGED <<pins, flags, name, flash, fw, phase, tears>>
------------------------------------------------------------------------------
(* ADD_PEER and addPeer(): into the storage first, then into the live list *)
(* unless discovery has done that; a peer that cannot be made live is      *)
(* removed from the storage again, also when discovery has made it live    *)
(* after the handler looked, so that the driver has it already.            *)
AddPeer(m) ==
    /\ Ready
    /\ m \notin stored /\ Cardinality(stored) < MaxPeers
    /\ stored' = stored \union {m}
    /\ IF m \in live THEN UNCHANGED work ELSE Do("addPeer", m, {})
    /\ UNCHANGED <<pins, flags, name, live, missed, flash, powerVars, known>>

AddLive ==
    /\ work.job = "addPeer" /\ work.step \notin live /\ Cardinality(live) < MaxPeers
    /\ live' = live \union {work.step}
    /\ work' = Rest
    /\ UNCHANGED <<pins, flags, name, stored, missed, flash, powerVars, known>>

AddUndoForgotten ==                                                \* seeded fault
    /\ work.job = "addPeer" /\ work.step \notin live
    /\ work' = Rest
    /\ UNCHANGED <<pins, flags, name, peerVars, flash, powerVars, known>>

(* The list is full or the driver refuses. *)
AddUndo ==
    /\ work.job = "addPeer"
    /\ stored' = stored \ {work.step}
    /\ work' = Rest
    /\ UNCHANGED <<pins, flags, name, live, missed, flash, powerVars, known>>

(* removePeer(): out of the live list, where the driver may refuse, then   *)
(* out of the storage.                                                     *)
RemovePeer(m) ==
    /\ Ready /\ m \in live \union stored
    /\ live' \in {live, live \ {m}}
    /\ Do("removePeer", m, {})
    /\ UNCHANGED <<pins, flags, name, stored, missed, flash, powerVars, known>>

RemoveStored ==
    /\ work.job = "removePeer"
    /\ stored' = stored \ {work.step} /\ missed' = missed \ {work.step}
    /\ work' = Rest
    /\ UNCHANGED <<pins, flags, name, live, flash, powerVars, known>>

(* The sender task makes a device live that was heard. *)
Discover(m) ==
    /\ phase # "off" /\ m \notin live /\ Cardinality(live) < MaxPeers
    /\ live' = live \union {m}
    /\ UNCHANGED <<pins, flags, name, stored, missed, flash, powerVars, work, known>>
------------------------------------------------------------------------------
(* io.begin() loads pins, flags and, of the same firmware, the name.  A    *)
(* new firmware first drops the stored name, then writes its own identity. *)
SameFirmware == flash.firmware = fw

Boot ==
    /\ phase = "off"
    /\ phase' = "starting"
    /\ pins' = LoadPins /\ flags' = flash.flags
    /\ name' = IF SameFirmware THEN flash.name ELSE NoName
    /\ Do(IF SameFirmware THEN "restore" ELSE "newFirmware", 1, {})
    /\ UNCHANGED <<peerVars, flash, fw, tears, torn, known>>

NewFirmware(step) == work.job = "newFirmware" /\ work.step = step

DropNameLast ==                                                    \* seeded fault
    /\ NewFirmware(1)
    /\ flash' = [flash EXCEPT !.firmware = fw]
    /\ Do("newFirmware", 2, {})
    /\ UNCHANGED <<pins, flags, name, peerVars, powerVars, known>>

DropName ==
    /\ NewFirmware(1)
    /\ flash' = [flash EXCEPT !.name = NoName]
    /\ Do("newFirmware", 2, {})
    /\ UNCHANGED <<pins, flags, name, peerVars, powerVars, known>>

WriteFirmware ==
    /\ NewFirmware(2)
    /\ flash' = [flash EXCEPT !.firmware = fw]
    /\ Do("restore", 1, {})
    /\ UNCHANGED <<pins, flags, name, peerVars, powerVars, known>>

(* begin() makes the stored peers live again, as far as the list has room  *)
(* beside those that were discovered since the radio was started and the   *)
(* driver does not refuse.                                                 *)
RestorePeers ==
    /\ work.job = "restore"
    /\ \E S \in SUBSET stored : live' = live \union S
    /\ Cardinality(live') <= MaxPeers
    /\ missed' = stored \ live'
    /\ phase' = "ready" /\ work' = Rest
    /\ UNCHANGED <<pins, flags, name, stored, flash, fw, tears, torn, known>>

(* The power fails, between any two writes.  What is in memory is lost,    *)
(* and the host does not know what became of its request.                  *)
Restart ==
    /\ phase # "off"
    /\ Saving => tears < MaxTears
    /\ tears' = IF Saving THEN tears + 1 ELSE tears
    /\ torn' = (torn \/ Saving)
    /\ phase' = "off"
    /\ Do("none", 0, work.pins)
    /\ known' = IF Watched \in work.pins THEN Unknown ELSE known
    /\ live' = {} /\ missed' = {}
    /\ UNCHANGED <<pins, flags, name, stored, flash>>

PowerLoss == Restart /\ UNCHANGED fw

Flash ==
    /\ Restart
    /\ \E i \in DOMAIN Firmwares : Firmwares[i] = fw /\ i < Len(Firmwares) /\ fw' = Firmwares[i + 1]

Request ==
    \/ \E p \in Pins, c \in Configs : SetPinConfig(p, c)
    \/ \E p \in Pins : DeletePinConfig(p)
    \/ ClearPinConfigs
    \/ GetPinConfig
    \/ \E f \in Flags, on \in BOOLEAN : SetFlag(f, on)
    \/ \E empty \in BOOLEAN : SetName(empty)
    \/ Reset
    \/ \E m \in Macs : AddPeer(m) \/ RemovePeer(m)

Continue ==
    \/ SaveRecord \/ SaveCount
    \/ ResetFlash \/ ResetPeers
    \/ AddLive \/ AddUndo \/ RemoveStored

Begin == Boot \/ DropName \/ WriteFirmware \/ RestorePeers

Next ==
    \/ Request \/ Continue \/ Begin
    \/ \E m \in Macs : Discover(m)
    \/ PowerLoss \/ Flash

Spec == Init /\ [][Next]_vars
------------------------------------------------------------------------------
TypeOK ==
    /\ pins \in Seq(Record) /\ flash.records \in Seq(Record) /\ flash.count <= Len(flash.records)
    /\ flags \subseteq Flags /\ flash.flags \subseteq Flags
    /\ {name, flash.name} \subseteq ToSet(Firmwares) \union {NoName}
    /\ Cardinality(stored) <= MaxPeers /\ Cardinality(live) <= MaxPeers
    /\ known \in Configs \union {Absent, Unknown}

(* Whenever no request is being handled, a restart would bring back exactly *)
(* what is in effect: every change that was answered is in flash, whatever  *)
(* branch of the handlers made it and whatever restarts came before.        *)
RestartChangesNothing ==
    Ready => /\ LoadPins = pins /\ flash.flags = flags
             /\ flash.name = name /\ SameFirmware

(* When the power fails while one pin is saved, every other pin comes back  *)
(* with the mapping it had: the records are written over each other in      *)
(* place, and in between the flash holds parts of both lists.               *)
OthersSurvive ==
    [][Boot => \A p \in Pins \ work.pins : Lookup(pins', p) = Lookup(pins, p)]_vars

(* A name that the host has set is only in effect under the firmware under  *)
(* which it was set, also when the power fails during the first start of    *)
(* another (docs/enomik-sysex-protocol.md:266).                             *)
NameIsOfThisFirmware == phase # "off" => name \in {NoName, fw}

(* What the host was told of a pin stays true through restarts until it     *)
(* changes the pin itself, unless a save was cut short.                     *)
ToldIsTrue == phase = "ready" /\ Watched \notin work.pins /\ ~torn /\ known # Unknown
                  => known = Lookup(pins, Watched)

(* A stored peer is live, so that what was paired can be sent to, except    *)
(* for those that begin() found no room for or the driver refused.         *)
StoredIsLive == Ready => stored \subseteq live \union missed
=============================================================================
