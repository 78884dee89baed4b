------------------------------ MODULE PeerList ------------------------------
(***************************************************************************)
(* The peers of esp_now_midi.  The same addresses are kept twice: in the   *)
(* list of the class, guarded by _peersMux, and in the ESP-NOW driver.     *)
(* The driver is never called inside the critical section, so each change  *)
(* of a peer is several steps, and three kinds of tasks make them at the   *)
(* same time:                                                              *)
(*                                                                         *)
(*   Callers  application tasks that call addPeer(), removePeer(),         *)
(*            clearPeers() and begin();                                    *)
(*   Sender   the sender task, which adds the senders that the receive     *)
(*            callback discovered and restarts ESP-NOW when it stalls;     *)
(*   Wi-Fi    the receive callback.                                        *)
(***************************************************************************)
EXTENDS Naturals, Sequences, FiniteSets

CONSTANTS
    Mac,            \* addresses of devices
    Callers,        \* application tasks
    Sender,         \* the sender task
    MaxPeers,       \* MAX_PEERS
    DriverSlots,    \* peers the ESP-NOW driver can register
    MaxDiscovered,  \* kMaxDiscovered
    Discovery,      \* _autoPeerDiscovery
    Restarts        \* when the driver stalls, so that the sender restarts it: never,
                    \* while no application task changes the list, or anytime

ASSUME PeerListAssumption ==
    /\ Sender \notin Callers
    /\ MaxPeers \in Nat /\ DriverSlots \in Nat /\ MaxDiscovered \in Nat
    /\ Discovery \in BOOLEAN /\ Restarts \in {"never", "alone", "anytime"}

VARIABLES
    list,        \* _peers[0.._peersCount-1]: their mac and seen
    discovered,  \* _discovered[0.._discoveredCount-1]
    driver,      \* addresses registered in the driver
    driverUp,    \* between esp_now_init() and esp_now_deinit()
    task,        \* of each task: where it is, its argument and its local copy
    receiving,   \* of the Wi-Fi task: where it is in OnDataRecv()
    lost         \* history: addresses that a restart could not register again

vars == <<list, discovered, driver, driverUp, task, receiving, lost>>

Tasks == Callers \cup {Sender}

NoMac == "none"

Idle == [pc |-> "idle", mac |-> NoMac, todo |-> <<>>]

Quiet == [pc |-> "idle", mac |-> NoMac]

PCs == { "idle", "addCheck", "addDriver", "addList", "addUndo", "addFails", "removeDriver",
         "removeList", "clear", "clearDriver", "discover", "markSeen", "checkStall", "deinit", "init", "readd" }

Listed == {list[i].mac : i \in DOMAIN list}

(* indexOfLocked() != -1 *)
HasPeer(m) == m \in Listed

Init ==
    /\ list = <<>>
    /\ discovered = <<>>
    /\ driver = {}
    /\ driverUp = TRUE
    /\ task = [t \in Tasks |-> Idle]
    /\ receiving = Quiet
    /\ lost = {}

Goto(t, pc) == task' = [task EXCEPT ![t].pc = pc]

(* addPeer() returned: the sender was adding the senders it discovered. *)
AddReturns(t, added) ==
    IF t # Sender THEN task' = [task EXCEPT ![t] = Idle]
    ELSE Goto(t, IF added THEN "markSeen" ELSE "discover")

Return(t) == task' = [task EXCEPT ![t] = Idle]
-----------------------------------------------------------------------------
(* addPeer()                                                               *)

CallAddPeer(t, m) ==
    /\ task[t].pc = "idle"
    /\ task' = [task EXCEPT ![t] = [pc |-> "addCheck", mac |-> m, todo |-> <<>>]]
    /\ UNCHANGED <<list, discovered, driver, driverUp, receiving, lost>>

AddCheck(t) ==
    /\ task[t].pc = "addCheck"
    /\ IF Len(list) >= MaxPeers THEN AddReturns(t, FALSE) ELSE Goto(t, "addDriver")
    /\ UNCHANGED <<list, discovered, driver, driverUp, receiving, lost>>

(* esp_now_add_peer() fails when ESP-NOW is not initialised, when the      *)
(* driver has no slot left or has the address already, and when it has no  *)
(* memory for one more, which may happen at any time.                      *)
DriverAccepts(m) == driverUp /\ m \notin driver /\ Cardinality(driver) < DriverSlots

Held(t, m) ==
    \/ task[t].pc \in {"addList", "addUndo", "removeList"} /\ task[t].mac = m
    \/ task[t].pc \in {"clearDriver", "readd"} /\ \E i \in DOMAIN task[t].todo : task[t].todo[i] = m

(* A task is in the middle of changing one table and then the other.       *)
InHand(m) == \E t \in Tasks : Held(t, m)

DriverRefuses(t) ==
    /\ Goto(t, "addFails")
    /\ UNCHANGED <<driver, lost>>

(* An address that was lost, and that nobody lists or holds any more, is   *)
(* added afresh.                                                           *)
DriverRegisters(t) ==
    LET m == task[t].mac
    IN  /\ DriverAccepts(m)
        /\ driver' = driver \cup {m}
        /\ lost' = IF HasPeer(m) \/ InHand(m) THEN lost ELSE lost \ {m}
        /\ Goto(t, "addList")

AddDriver(t) ==
    /\ task[t].pc = "addDriver"
    /\ DriverRegisters(t) \/ DriverRefuses(t)
    /\ UNCHANGED <<list, discovered, driverUp, receiving>>

AddFails(t) ==
    /\ task[t].pc = "addFails"
    /\ AddReturns(t, FALSE)
    /\ UNCHANGED <<list, discovered, driver, driverUp, receiving, lost>>

AddList(t) ==
    /\ task[t].pc = "addList"
    /\ IF Len(list) < MaxPeers
       THEN /\ list' = Append(list, [mac |-> task[t].mac, seen |-> FALSE])
            /\ AddReturns(t, TRUE)
       ELSE UNCHANGED list /\ Goto(t, "addUndo")
    /\ UNCHANGED <<discovered, driver, driverUp, receiving, lost>>

AddUndoForgotten(t) ==     \* seeded fault: the driver keeps the peer
    /\ task[t].pc = "addUndo"
    /\ AddReturns(t, FALSE)
    /\ UNCHANGED <<list, discovered, driver, driverUp, receiving, lost>>

(* Another task filled the list meanwhile. *)
AddUndo(t) ==
    /\ task[t].pc = "addUndo"
    /\ driver' = driver \ {task[t].mac}
    /\ AddReturns(t, FALSE)
    /\ UNCHANGED <<list, discovered, driverUp, receiving, lost>>
-----------------------------------------------------------------------------
(* removePeer()                                                            *)

CallRemovePeer(t, m) ==
    /\ task[t].pc = "idle"
    /\ HasPeer(m)
    /\ task' = [task EXCEPT ![t] = [pc |-> "removeDriver", mac |-> m, todo |-> <<>>]]
    /\ UNCHANGED <<list, discovered, driver, driverUp, receiving, lost>>

(* esp_now_del_peer() fails when the address is not registered. *)
RemoveDriver(t) ==
    /\ task[t].pc = "removeDriver"
    /\ IF driverUp /\ task[t].mac \in driver
       THEN driver' = driver \ {task[t].mac} /\ Goto(t, "removeList")
       ELSE UNCHANGED driver /\ Return(t)
    /\ UNCHANGED <<list, discovered, driverUp, receiving, lost>>

(* The first entry with this address goes, the later ones move up. *)
Without(m) ==
    IF ~HasPeer(m) THEN list
    ELSE LET i == CHOOSE i \in DOMAIN list :
                    list[i].mac = m /\ \A j \in 1..(i - 1) : list[j].mac # m
         IN  SubSeq(list, 1, i - 1) \o SubSeq(list, i + 1, Len(list))

RemoveList(t) ==
    /\ task[t].pc = "removeList"
    /\ list' = Without(task[t].mac)
    /\ Return(t)
    /\ UNCHANGED <<discovered, driver, driverUp, receiving, lost>>
-----------------------------------------------------------------------------
(* clearPeers(), and begin(), which starts ESP-NOW and clears what an      *)
(* earlier begin() left.                                                   *)

CallClearPeers(t) ==
    /\ task[t].pc = "idle"
    /\ Goto(t, "clear")
    /\ UNCHANGED <<list, discovered, driver, driverUp, receiving, lost>>

(* While ESP-NOW is down, esp_now_init() may fail: begin() returns false,   *)
(* and nothing has changed.                                                *)
CallBegin(t) ==
    /\ task[t].pc = "idle"
    /\ driverUp' = TRUE
    /\ IF list # <<>> THEN Goto(t, "clear") ELSE UNCHANGED task
    /\ UNCHANGED <<list, discovered, driver, receiving, lost>>

ClearListOnly(t) ==     \* seeded fault: the driver's peers are forgotten
    /\ task[t].pc = "clear"
    /\ task' = [task EXCEPT ![t] = [pc |-> "clearDriver", mac |-> NoMac, todo |-> <<>>]]
    /\ list' = <<>>
    /\ UNCHANGED <<discovered, driver, driverUp, receiving, lost>>

ClearList(t) ==
    /\ task[t].pc = "clear"
    /\ task' = [task EXCEPT ![t] = [pc |-> "clearDriver", mac |-> NoMac,
                                    todo |-> [i \in DOMAIN list |-> list[i].mac]]]
    /\ list' = <<>>
    /\ UNCHANGED <<discovered, driver, driverUp, receiving, lost>>

ClearDriver(t) ==
    /\ task[t].pc = "clearDriver"
    /\ IF task[t].todo = <<>> THEN Return(t) /\ UNCHANGED driver
       ELSE /\ driver' = driver \ {Head(task[t].todo)}
            /\ task' = [task EXCEPT ![t].todo = Tail(@)]
    /\ UNCHANGED <<list, discovered, driverUp, receiving, lost>>
-----------------------------------------------------------------------------
(* The sender task: addDiscoveredPeers(), then checkStall().               *)

DrainDiscovered ==
    /\ task[Sender].pc = "idle"
    /\ task' = [task EXCEPT ![Sender] = [pc |-> "discover", mac |-> NoMac, todo |-> discovered]]
    /\ discovered' = <<>>
    /\ UNCHANGED <<list, driver, driverUp, receiving, lost>>

DiscoverFirst ==     \* seeded fault: only the first of the drained list
    /\ task[Sender].pc = "discover"
    /\ LET todo == task[Sender].todo
       IN  IF todo = <<>> THEN Goto(Sender, "checkStall")
           ELSE task' = [task EXCEPT ![Sender] =
                    [pc |-> IF Discovery /\ ~HasPeer(Head(todo)) THEN "addCheck" ELSE "discover",
                     mac |-> Head(todo), todo |-> <<>>]]
    /\ UNCHANGED <<list, discovered, driver, driverUp, receiving, lost>>

Discover ==
    /\ task[Sender].pc = "discover"
    /\ LET todo == task[Sender].todo
       IN  IF todo = <<>> THEN Goto(Sender, "checkStall")
           ELSE task' = [task EXCEPT ![Sender] =
                    [pc |-> IF Discovery /\ ~HasPeer(Head(todo)) THEN "addCheck" ELSE "discover",
                     mac |-> Head(todo), todo |-> Tail(todo)]]
    /\ UNCHANGED <<list, discovered, driver, driverUp, receiving, lost>>

Seen(m) == [i \in DOMAIN list |-> IF list[i].mac = m THEN [mac |-> m, seen |-> TRUE] ELSE list[i]]

MarkDiscoveredSeen ==
    /\ task[Sender].pc = "markSeen"
    /\ list' = Seen(task[Sender].mac)
    /\ Goto(Sender, "discover")
    /\ UNCHANGED <<discovered, driver, driverUp, receiving, lost>>

NoStall ==
    /\ task[Sender].pc = "checkStall"
    /\ Return(Sender)
    /\ UNCHANGED <<list, discovered, driver, driverUp, receiving, lost>>

(* restartEspNow(): a copy of the list, the driver down and up again, and  *)
(* the copied addresses registered once more.                              *)
RestartCopy ==
    /\ task[Sender].pc = "checkStall"
    /\ CASE Restarts = "never" -> FALSE
         [] Restarts = "alone" -> \A t \in Callers : task[t].pc = "idle"
         [] Restarts = "anytime" -> TRUE
    /\ task' = [task EXCEPT ![Sender] = [pc |-> "deinit", mac |-> NoMac,
                                         todo |-> [i \in DOMAIN list |-> list[i].mac]]]
    /\ UNCHANGED <<list, discovered, driver, driverUp, receiving, lost>>

RestartDeinit ==
    /\ task[Sender].pc = "deinit"
    /\ driverUp' = FALSE
    /\ driver' = {}
    /\ Goto(Sender, "init")
    /\ UNCHANGED <<list, discovered, receiving, lost>>

(* A failing esp_now_init() is logged and nothing more: the restart goes   *)
(* on with ESP-NOW down.                                                   *)
RestartInit ==
    /\ task[Sender].pc = "init"
    /\ driverUp' \in BOOLEAN
    /\ Goto(Sender, "readd")
    /\ UNCHANGED <<list, discovered, driver, receiving, lost>>

RestartReaddFirst ==     \* seeded fault: only one peer is registered again
    /\ task[Sender].pc = "readd"
    /\ LET todo == task[Sender].todo
       IN  driver' = IF todo # <<>> THEN driver \cup {Head(todo)} ELSE driver
    /\ Return(Sender)
    /\ UNCHANGED <<list, discovered, driverUp, receiving, lost>>

ListedOnce(m) ==
    \E i \in DOMAIN list : list[i].mac = m /\ \A j \in DOMAIN list : list[j].mac = m => j = i

(* What the driver refuses stays in the list; nothing remembers that it is *)
(* not registered, until a later restart registers it after all.           *)
Readd(m, todo) ==
    \/ /\ DriverAccepts(m)
       /\ driver' = driver \cup {m}
       /\ lost' = IF ListedOnce(m) /\ \A i \in DOMAIN todo : todo[i] # m
                  THEN lost \ {m} ELSE lost
    \/ UNCHANGED driver /\ lost' = lost \cup {m}

RestartReadd ==
    /\ task[Sender].pc = "readd"
    /\ LET todo == task[Sender].todo
       IN  IF todo = <<>> THEN Return(Sender) /\ UNCHANGED <<driver, lost>>
           ELSE /\ Readd(Head(todo), Tail(todo))
                /\ task' = [task EXCEPT ![Sender].todo = Tail(@)]
    /\ UNCHANGED <<list, discovered, driverUp, receiving>>
-----------------------------------------------------------------------------
(* The Wi-Fi task: OnDataRecv() of a valid MIDI packet, whose handlers run  *)
(* last and find the peers as they are.                                    *)

ReceiveFrom(m) ==
    /\ driverUp
    /\ receiving.pc = "idle"
    /\ receiving' = [pc |-> "seen", mac |-> m]
    /\ discovered' =
          IF /\ Discovery
             /\ ~HasPeer(m)
             /\ Len(discovered) < MaxDiscovered
             /\ \A i \in DOMAIN discovered : discovered[i] # m
          THEN Append(discovered, m) ELSE discovered
    /\ UNCHANGED <<list, driver, driverUp, task, lost>>

ReceiveSeen ==
    /\ receiving.pc = "seen"
    /\ list' = Seen(receiving.mac)
    /\ receiving' = Quiet
    /\ UNCHANGED <<discovered, driver, driverUp, task, lost>>
-----------------------------------------------------------------------------
AddStep(t) == AddCheck(t) \/ AddDriver(t) \/ AddFails(t) \/ AddList(t) \/ AddUndo(t)

RemoveStep(t) == RemoveDriver(t) \/ RemoveList(t)

ClearStep(t) == ClearList(t) \/ ClearDriver(t)

Restarting == task[Sender].pc \in {"deinit", "init", "readd"}

Call(t) ==
    /\ Restarts = "alone" => ~Restarting
    /\ \/ \E m \in Mac : CallAddPeer(t, m) \/ CallRemovePeer(t, m)
       \/ CallClearPeers(t)
       \/ CallBegin(t)

RestartStep == NoStall \/ RestartCopy \/ RestartDeinit \/ RestartInit \/ RestartReadd

DiscoverStep == DrainDiscovered \/ Discover \/ MarkDiscoveredSeen

Receive == (\E m \in Mac : ReceiveFrom(m)) \/ ReceiveSeen

TaskStep(t) == AddStep(t) \/ RemoveStep(t) \/ ClearStep(t)

Next ==
    \/ \E t \in Callers : Call(t) \/ TaskStep(t)
    \/ TaskStep(Sender) \/ DiscoverStep \/ RestartStep
    \/ Receive

(* A task that was called finishes its call, and the sender and the Wi-Fi  *)
(* task are never starved; whether anybody calls or sends is left open.    *)
Fairness ==
    /\ \A t \in Tasks : WF_vars(TaskStep(t))
    /\ WF_vars(DiscoverStep)
    /\ WF_vars(RestartStep)
    /\ WF_vars(ReceiveSeen)

Spec == Init /\ [][Next]_vars /\ Fairness
-----------------------------------------------------------------------------
MacSeq == Seq(Mac)

(* Every variable holds what its C++ counterpart can hold: MAX_PEERS and   *)
(* kMaxDiscovered are never exceeded (lines 367 and 1905).                 *)
TypeOK ==
    /\ list \in Seq([mac : Mac, seen : BOOLEAN]) /\ Len(list) <= MaxPeers
    /\ discovered \in MacSeq /\ Len(discovered) <= MaxDiscovered
    /\ driver \subseteq Mac
    /\ driverUp \in BOOLEAN
    /\ task \in [Tasks -> [pc : PCs, mac : Mac \cup {NoMac}, todo : MacSeq]]
    /\ receiving \in [pc : {"idle", "seen"}, mac : Mac \cup {NoMac}]
    /\ lost \subseteq Mac

Settled == \A t \in Tasks : task[t].pc \in {"idle", "discover", "checkStall"}

(* "The list stays consistent: no duplicates, and exactly the peers the    *)
(* ESP-NOW driver has registered" (test_espnow_wire_format.cpp:415),       *)
(* whenever no task is in the middle of changing it, except for the peers  *)
(* that a restart could not register again: they are listed without being  *)
(* registered, and adding one of them again lists it twice.                *)
ListMatchesDriver ==
    Settled /\ driverUp =>
        \A m \in Mac \ lost :
            /\ m \in Listed <=> m \in driver
            /\ m \in Listed => ListedOnce(m)

(* Between the steps of the tasks: an address that only one of the two     *)
(* tables holds is in the hands of a task that will put it right, or a     *)
(* restart lost it: after one that left ESP-NOW down (lines 1870-1882),    *)
(* begin() brings it up again with no peer while all of them are listed.   *)
OwedDifference ==
    driverUp => \A m \in Mac : (m \in Listed) # (m \in driver) => InHand(m) \/ m \in lost

AnyDevice == CHOOSE m \in Mac : TRUE

(* A device that was discovered becomes a peer, or finds the list full or  *)
(* is refused by the driver (addDiscoveredPeers(), lines 1921-1938),       *)
(* whatever the application adds, removes and clears meanwhile and however *)
(* restarts end.  Addresses are only compared, so one device stands for    *)
(* all.                                                                    *)
DiscoveredIsAdded ==
    (\E i \in DOMAIN discovered : discovered[i] = AnyDevice)
        ~> \/ AnyDevice \in Listed \union driver
           \/ Len(list) = MaxPeers
           \/ task[Sender].pc = "addFails" /\ task[Sender].mac = AnyDevice
=============================================================================
