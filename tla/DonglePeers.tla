----------------------------- MODULE DonglePeers -----------------------------
(***************************************************************************)
(* The peers of enomik::Dongle.  The same addresses are in the live list   *)
(* of esp_now_midi (PeerList shows how that one changes), in PeerStorage,  *)
(* which a reset does not clear, and in the session's mute list.  The loop *)
(* task changes them one after the other, for the menu and for config      *)
(* SysEx; meanwhile the sender task adds the devices that were heard, the  *)
(* ESP-NOW driver may refuse, and the dongle may lose its power.           *)
(***************************************************************************)
EXTENDS Naturals, Sequences, FiniteSets, SequencesExt

CONSTANTS
    Device,        \* addresses
    MaxPeers,      \* MAX_PEERS: of the live list, the storage and the mute list
    MaxRefusals,   \* bound: calls that the driver refuses, e.g. while it restarts
    MaxResets      \* bound: resets

ASSUME DonglePeersAssumption ==
    MaxPeers \in Nat \ {0} /\ MaxRefusals \in Nat /\ MaxResets \in Nat

VARIABLES
    live,       \* the peers of espnowMIDI, in their order
    stored,     \* PeerStorage: what flash holds, and its copy
    mutes,      \* PeerMuteList
    call,       \* what the loop task does: begin(), one of the calls, or nothing
    acked,      \* peers that a call has added, and none began to take away since
    skipped,    \* stored peers that begin() found no place for, or the driver refused
    refusals, resets

vars == <<live, stored, mutes, call, acked, skipped, refusals, resets>>

NoMac == "none"

Call(op, at, mac, new, muted, wasStored) ==
    [op |-> op, at |-> at, mac |-> mac, new |-> new, muted |-> muted, found |-> FALSE,
     wasStored |-> wasStored, next |-> 1]

CallOf(op, at, mac) == Call(op, at, mac, NoMac, FALSE, FALSE)
Idle == CallOf("none", "idle", NoMac)
Booting == CallOf("begin", "restore", NoMac)

HasPeer(m) == m \in ToSet(live)
Exists(m) == m \in ToSet(stored)
\* A list without an address: its entry is taken out, the later ones move up.
Without(s, m) ==
    IF m \notin ToSet(s) THEN s
    ELSE RemoveAt(s, CHOOSE i \in DOMAIN s : s[i] = m /\ \A j \in 1..(i - 1) : s[j] # m)

IsMuted(m) == m \in mutes
IsFull == Len(stored) >= MaxPeers

Calls == {"none", "begin", "add", "remove", "clear", "replace", "rollback"}

Steps == {"idle", "restore", "addLive", "addStored", "forget", "dropLive", "dropStored",
          "clearStored", "clearLive", "clearMutes"}

Init ==
    /\ live = <<>> /\ stored = <<>> /\ mutes = {}
    /\ acked = {} /\ skipped = {}
    /\ call = Booting
    /\ refusals = 0 /\ resets = 0

Goto(at) == call' = [call EXCEPT !.at = at]

\* The driver refuses, or it does what it was asked.
Refused == refusals < MaxRefusals /\ refusals' = refusals + 1
Accepted == UNCHANGED refusals

-----------------------------------------------------------------------------
\* begin(): the stored peers are added to the live list one by one.

RestoreNext ==
    /\ call.at = "restore" /\ call.next <= Len(stored)
    /\ call' = [call EXCEPT !.next = @ + 1]
    /\ LET m == stored[call.next]
       IN  \/ /\ HasPeer(m) /\ Accepted
              /\ UNCHANGED <<live, skipped>>
           \/ /\ ~HasPeer(m) /\ Len(live) < MaxPeers /\ Accepted
              /\ live' = Append(live, m) /\ UNCHANGED skipped
           \/ /\ ~HasPeer(m)
              /\ IF Len(live) >= MaxPeers THEN Accepted ELSE Refused
              /\ skipped' = skipped \cup {m} /\ UNCHANGED live
    /\ UNCHANGED <<stored, mutes, acked, resets>>

Started ==
    /\ call.at = "restore" /\ call.next > Len(stored)
    /\ call' = Idle
    /\ UNCHANGED <<live, stored, mutes, acked, refusals, skipped, resets>>

-----------------------------------------------------------------------------
\* What a call begins with: a step of the idle loop task.

Begin(c) ==
    /\ call.op = "none"
    /\ call' = c
    /\ UNCHANGED <<live, stored, mutes, refusals, skipped, resets>>

\* What ADD_PEER answers before it adds anything.
AddAnswer(m) ==
    IF HasPeer(m) /\ Exists(m) THEN "AlreadyExists"
    ELSE IF ~Exists(m) /\ IsFull THEN "TableFull"
    ELSE "Adds"

\* addPeer(), from ADD_PEER or from the menu.
CallAddPeer(m) ==
    /\ AddAnswer(m) = "Adds"
    /\ Begin(CallOf("add", "addLive", m))
    /\ UNCHANGED acked

CallRemovePeer(m) ==
    /\ Begin(CallOf("remove", "forget", m))
    /\ acked' = acked \ {m}

\* clearAllPeers(), for RESET and the menu.
CallClear ==
    /\ Begin(CallOf("clear", "clearStored", NoMac))
    /\ acked' = {}

\* replacePeer(): the checks, and the copies that it works with.
CallReplacePeer(old, new) ==
    /\ old # new
    /\ HasPeer(old) \/ Exists(old)
    /\ ~HasPeer(new) /\ ~Exists(new)
    /\ Begin(Call("replace", "forget", old, new, IsMuted(old), Exists(old)))
    /\ acked' = acked \ {old}

\* setMuted()
SetMuted(m, muted) ==
    /\ call.op = "none" /\ HasPeer(m)
    /\ ~muted \/ IsMuted(m) \/ Cardinality(mutes) < MaxPeers
    /\ mutes' = IF muted THEN mutes \cup {m} ELSE mutes \ {m}
    /\ UNCHANGED <<live, stored, call, acked, refusals, skipped, resets>>

-----------------------------------------------------------------------------
\* The steps of a call.

\* setMuted(m, true) where it is called for a peer that may not be there.
MutedIfPeer(m, muted) ==
    IF muted /\ HasPeer(m) /\ Cardinality(mutes) < MaxPeers THEN mutes \cup {m} ELSE mutes

\* Seeded fault: a replacement that fails is not undone.
AddReturnsAtOnce(m, added) ==
    /\ call' = Idle
    /\ mutes' = MutedIfPeer(m, call.muted)
    /\ acked' = IF added THEN acked \cup {m} ELSE acked

\* addPeer(m) returns, and with it the call, unless a replacement has to be undone.
AddReturns(m, added) ==
    IF call.op = "replace" /\ ~added
    THEN call' = [call EXCEPT !.op = "rollback", !.at = "addLive"] /\ UNCHANGED <<mutes, acked>>
    ELSE /\ call' = Idle
         /\ mutes' = MutedIfPeer(m, call.muted)
         /\ acked' = IF added /\ call.op # "rollback" THEN acked \cup {m} ELSE acked

\* The address that addPeer() is called with.
Added == IF call.op = "replace" THEN call.new ELSE call.mac

\* Seeded fault: a peer that was discovered counts as added.
AddLiveOnly ==
    /\ call.at = "addLive"
    /\ \/ /\ HasPeer(Added)
          /\ AddReturns(Added, TRUE) /\ Accepted /\ UNCHANGED live
       \/ /\ ~HasPeer(Added) /\ Len(live) < MaxPeers
          /\ live' = Append(live, Added)
          /\ Goto("addStored") /\ Accepted /\ UNCHANGED <<mutes, acked>>
       \/ /\ ~HasPeer(Added)
          /\ IF Len(live) >= MaxPeers THEN Accepted ELSE Refused
          /\ AddReturns(Added, FALSE) /\ UNCHANGED live
    /\ UNCHANGED <<stored, skipped, resets>>

AddLive ==
    /\ call.at = "addLive"
    /\ \/ /\ HasPeer(Added)
          /\ Goto("addStored") /\ Accepted /\ UNCHANGED <<live, mutes, acked>>
       \/ /\ ~HasPeer(Added) /\ Len(live) < MaxPeers
          /\ live' = Append(live, Added)
          /\ Goto("addStored") /\ Accepted /\ UNCHANGED <<mutes, acked>>
       \/ /\ ~HasPeer(Added)
          /\ IF Len(live) >= MaxPeers THEN Accepted ELSE Refused
          /\ AddReturns(Added, FALSE) /\ UNCHANGED live
    /\ UNCHANGED <<stored, skipped, resets>>

AddStored ==
    /\ call.at = "addStored"
    /\ stored' = IF Exists(Added) \/ IsFull THEN stored ELSE Append(stored, Added)
    /\ AddReturns(Added, Exists(Added) \/ ~IsFull)
    /\ UNCHANGED <<live, refusals, skipped, resets>>

\* Seeded fault: a peer that is deleted stays muted.
ForgetUnmuted ==
    /\ call.at = "forget"
    /\ Goto("dropLive")
    /\ UNCHANGED <<live, stored, mutes, acked, refusals, skipped, resets>>

\* removePeer(): its mute first.
Forget ==
    /\ call.at = "forget"
    /\ mutes' = mutes \ {call.mac}
    /\ Goto("dropLive")
    /\ UNCHANGED <<live, stored, acked, refusals, skipped, resets>>

DropLive ==
    /\ call.at = "dropLive"
    /\ \/ /\ HasPeer(call.mac)
          /\ live' = Without(live, call.mac)
          /\ call' = [call EXCEPT !.at = "dropStored", !.found = TRUE] /\ Accepted
       \/ /\ HasPeer(call.mac) /\ Refused
          /\ Goto("dropStored") /\ UNCHANGED live
       \/ /\ ~HasPeer(call.mac)
          /\ Goto("dropStored") /\ Accepted /\ UNCHANGED live
    /\ UNCHANGED <<stored, mutes, acked, skipped, resets>>

DropStored ==
    /\ call.at = "dropStored"
    /\ stored' = Without(stored, call.mac)
    /\ IF call.op = "replace" /\ (call.found \/ Exists(call.mac))
       THEN Goto("addLive") ELSE call' = Idle
    /\ UNCHANGED <<live, mutes, acked, refusals, skipped, resets>>

\* clearAllPeers(): storage, live list, mutes.
ClearStored ==
    /\ call.at = "clearStored"
    /\ stored' = <<>> /\ Goto("clearLive")
    /\ UNCHANGED <<live, mutes, acked, refusals, skipped, resets>>

ClearLive ==
    /\ call.at = "clearLive"
    /\ live' = <<>> /\ Goto("clearMutes")
    /\ UNCHANGED <<stored, mutes, acked, refusals, skipped, resets>>

ClearMutes ==
    /\ call.at = "clearMutes"
    /\ mutes' = {} /\ call' = Idle
    /\ UNCHANGED <<live, stored, acked, refusals, skipped, resets>>

-----------------------------------------------------------------------------
\* The other actors.

\* The sender task adds a device that was heard (addDiscoveredPeers()).
Discover(m) ==
    /\ ~HasPeer(m) /\ Len(live) < MaxPeers
    /\ live' = Append(live, m)
    /\ UNCHANGED <<stored, mutes, call, acked, refusals, skipped, resets>>

\* Power is lost and comes back.
Reset ==
    /\ resets < MaxResets /\ resets' = resets + 1
    /\ live' = <<>> /\ mutes' = {} /\ skipped' = {}
    /\ call' = Booting
    /\ UNCHANGED <<stored, acked, refusals>>

Next ==
    \/ RestoreNext \/ Started
    \/ \E m \in Device :
          CallAddPeer(m) \/ CallRemovePeer(m) \/ Discover(m)
            \/ \E muted \in BOOLEAN : SetMuted(m, muted)
    \/ \E old, new \in Device : CallReplacePeer(old, new)
    \/ CallClear
    \/ AddLive \/ AddStored \/ Forget \/ DropLive \/ DropStored
    \/ ClearStored \/ ClearLive \/ ClearMutes
    \/ Reset

Spec == Init /\ [][Next]_vars

-----------------------------------------------------------------------------
\* Every variable has its type, and no list holds an address twice.
TypeOK ==
    /\ live \in Seq(Device) /\ Len(live) <= MaxPeers /\ IsInjective(live)
    /\ stored \in Seq(Device) /\ Len(stored) <= MaxPeers /\ IsInjective(stored)
    /\ mutes \subseteq Device /\ acked \subseteq Device
    /\ call.op \in Calls /\ call.at \in Steps

\* Between the calls only peers are muted: what is deleted and discovered again is
\* heard again (enomik_dongle.h:827-828), and the mute list never fills up.
MutesAreLive == call.op = "none" => mutes \subseteq ToSet(live)

\* A peer that addPeer() or replacePeer() answered for stays stored over resets and
\* is live again after begin(), unless other devices were heard first and filled the
\* list, or the driver refused.
AckedComesBack ==
    call.op = "none" => \A m \in acked : Exists(m) /\ (HasPeer(m) \/ m \in skipped)

ReplaceEnds == call.op \in {"replace", "rollback"} /\ call'.op = "none"

\* replacePeer() does not lose a stored peer: either the new one is stored, or the old
\* one is again, unless a device that was heard meanwhile took its place in the list
\* or the driver refused both.
ReplaceKeepsOne ==
    [][ReplaceEnds /\ call.wasStored
         => \/ call.new \in ToSet(stored')
            \/ call.mac \in ToSet(stored')
            \/ Len(live) = MaxPeers
            \/ refusals' > 1]_vars

==============================================================================
