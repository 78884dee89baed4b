--------------------------- MODULE Dongle_proofs ---------------------------
(***************************************************************************)
(* Proofs about DonglePeers for any devices, any length of the lists and   *)
(* any number of refusals and resets, and about MidiRoutes for any plain   *)
(* stations, any muted peers, any number of messages and of echoes, and    *)
(* every legal MIDI message.                                               *)
(***************************************************************************)
EXTENDS DonglePeers, MidiRoutes, SequencesExt, SequenceTheorems, FiniteSetTheorems, TLAPS

(* Where the entry i comes from when the entry r is taken out.             *)
Up(r, i) == IF i < r THEN i ELSE i + 1

LEMMA RemoveAtProperties ==
    ASSUME NEW S, NEW s \in Seq(S), NEW r \in 1..Len(s)
    PROVE  /\ RemoveAt(s, r) \in Seq(S)
           /\ Len(RemoveAt(s, r)) = Len(s) - 1
           /\ \A i \in 1..(Len(s) - 1) : RemoveAt(s, r)[i] = s[Up(r, i)]
<1> DEFINE a == SubSeq(s, 1, r - 1)
           b == SubSeq(s, r + 1, Len(s))
<1>1. /\ a \in Seq(S) /\ Len(a) = r - 1 /\ \A i \in 1..(r - 1) : a[i] = s[i]
      /\ b \in Seq(S) /\ Len(b) = Len(s) - r /\ \A i \in 1..(Len(s) - r) : b[i] = s[r + i]
  BY SubSeqProperties
<1> HIDE DEF a, b
<1>2. /\ a \o b \in Seq(S) /\ Len(a \o b) = Len(a) + Len(b)
      /\ \A i \in 1..(Len(a) + Len(b)) : (a \o b)[i] = IF i <= Len(a) THEN a[i] ELSE b[i - Len(a)]
  BY <1>1, ConcatProperties
<1>3. RemoveAt(s, r) = a \o b
  BY DEF RemoveAt, a, b
<1>4. ASSUME NEW i \in 1..(Len(s) - 1) PROVE (a \o b)[i] = s[Up(r, i)]
  <2>1. Len(s) \in Nat /\ i \in 1..(Len(a) + Len(b))
    BY <1>1
  <2>2. CASE i < r
    <3>1. i \in 1..(r - 1) /\ i <= Len(a)
      BY <1>1, <2>1, <2>2
    <3>2. (a \o b)[i] = a[i] /\ a[i] = s[i]
      BY <1>1, <1>2, <2>1, <3>1
    <3>3. QED
      BY <2>2, <3>2 DEF Up
  <2>3. CASE ~(i < r)
    <3>1. i - Len(a) \in 1..(Len(s) - r) /\ ~(i <= Len(a)) /\ r + (i - Len(a)) = i + 1
      BY <1>1, <2>1, <2>3
    <3>2. (a \o b)[i] = b[i - Len(a)] /\ b[i - Len(a)] = s[i + 1]
      BY <1>1, <1>2, <2>1, <3>1
    <3>3. QED
      BY <2>3, <3>2 DEF Up
  <2>4. QED
    BY <2>2, <2>3
<1>5. QED
  BY <1>1, <1>2, <1>3, <1>4

-----------------------------------------------------------------------------

(***************************************************************************)
(* The inductive invariant.                                                *)
(***************************************************************************)
(* The lists of addresses: none twice, never more than there is room for.  *)
List == { s \in Seq(Device) : Len(s) <= MaxPeers /\ IsInjective(s) }

(* What the loop task can be doing.                                        *)
CallType == [ op : Calls, at : Steps, mac : Device \cup {NoMac}, new : Device \cup {NoMac},
              muted : BOOLEAN, found : BOOLEAN, wasStored : BOOLEAN, next : Nat \ {0} ]

TypeInv ==
    /\ live \in List /\ stored \in List
    /\ mutes \subseteq Device /\ acked \subseteq Device
    /\ call \in CallType /\ refusals \in Nat

(* Which steps a call has, and which addresses it works with.              *)
Flow ==
    /\ call.op = "none" => call.at = "idle"
    /\ call.op = "begin" => call.at = "restore"
    /\ call.op = "clear" => call.at \in {"clearStored", "clearLive", "clearMutes"}
    /\ call.op = "add" => call.at \in {"addLive", "addStored"}
    /\ call.op = "remove" => call.at \in {"forget", "dropLive", "dropStored"}
    /\ call.op = "replace" =>
         call.at \in {"forget", "dropLive", "dropStored", "addLive", "addStored"}
    /\ call.op = "rollback" => call.at \in {"addLive", "addStored"}
    /\ call.op \in {"add", "remove", "replace", "rollback"} => call.mac \in Device
    /\ call.op \in {"replace", "rollback"} => call.new \in Device /\ call.new # call.mac

(* Mutes outlive their peers only while all of them are cleared.           *)
Muted ==
    /\ call.at # "clearMutes" => mutes \subseteq ToSet(live)
    /\ call.at = "dropLive" => call.mac \notin mutes

(* What is acknowledged is stored, and it is live again once begin() has   *)
(* come past it; a call that takes peers away has withdrawn it before.     *)
Settled(m) == HasPeer(m) \/ m \in skipped

Kept ==
    /\ acked \subseteq ToSet(stored)
    /\ call.op = "begin" => \A i \in DOMAIN stored : i < call.next => Settled(stored[i])
    /\ call.op # "begin" => \A m \in acked : Settled(m)
    /\ call.op = "clear" => acked = {}
    /\ call.op \in {"remove", "replace", "rollback"} => call.mac \notin acked
    /\ call.at = "addStored" => HasPeer(Added)

(* A replacement of a stored peer first makes room for the new one; when   *)
(* it has to be undone, the list was full or the driver has refused.       *)
Undoable ==
    call.op \in {"replace", "rollback"} /\ call.wasStored =>
      /\ call.at \in {"forget", "dropLive", "dropStored"} => Exists(call.mac)
      /\ call.at \in {"addLive", "addStored"} => Len(stored) < MaxPeers
      /\ call.op = "rollback" /\ call.at = "addLive" => Len(live) = MaxPeers \/ refusals > 0

DongleInv == TypeInv /\ Flow /\ Muted /\ Kept /\ Undoable

(***************************************************************************)
(* The lists: what adding and removing an address makes of them.           *)
(***************************************************************************)
(* The members of a list, by their positions.                              *)
LEMMA ListMembers ==
    ASSUME NEW s \in List
    PROVE  /\ s \in Seq(Device) /\ Len(s) \in Nat /\ Len(s) <= MaxPeers /\ DOMAIN s = 1..Len(s)
           /\ \A m : m \in ToSet(s) <=> \E i \in 1..Len(s) : s[i] = m
           /\ \A i, j \in 1..Len(s) : s[i] = s[j] => i = j
           /\ ToSet(s) \subseteq Device
<1>1. s \in Seq(Device) /\ Len(s) <= MaxPeers /\ IsInjective(s)
  BY DEF List
<1>2. DOMAIN s = 1..Len(s) /\ Len(s) \in Nat
  BY <1>1
<1>3. \A m : m \in ToSet(s) <=> \E i \in 1..Len(s) : s[i] = m
  BY <1>2 DEF ToSet
<1>4. \A i, j \in 1..Len(s) : s[i] = s[j] => i = j
  BY <1>1, <1>2 DEF IsInjective
<1>5. \A i \in 1..Len(s) : s[i] \in Device
  BY <1>1
<1>6. QED
  BY <1>1, <1>2, <1>3, <1>4, <1>5

(* An address is added where there is room and it is not listed yet.       *)
LEMMA ListAppend ==
    ASSUME NEW s \in List, NEW m \in Device, m \notin ToSet(s), Len(s) < MaxPeers
    PROVE  /\ Append(s, m) \in List /\ ToSet(Append(s, m)) = ToSet(s) \cup {m}
           /\ Len(Append(s, m)) = Len(s) + 1
           /\ \A i \in 1..Len(s) : Append(s, m)[i] = s[i]
<1>1. /\ s \in Seq(Device) /\ Len(s) \in Nat
      /\ \A k : k \in ToSet(s) <=> \E i \in 1..Len(s) : s[i] = k
      /\ \A i, j \in 1..Len(s) : s[i] = s[j] => i = j
  BY ListMembers
<1>2. PICK t \in Seq(Device) : t = Append(s, m)
  BY <1>1, AppendProperties
<1>3. /\ Len(t) = Len(s) + 1 /\ t[Len(s) + 1] = m /\ DOMAIN t = 1..(Len(s) + 1)
      /\ \A i \in 1..Len(s) : t[i] = s[i]
  BY <1>1, <1>2, AppendProperties
<1>4. \A i \in 1..(Len(s) + 1) : i \in 1..Len(s) \/ i = Len(s) + 1
  BY <1>1
<1>5. \A i \in 1..Len(s) : i \in 1..(Len(s) + 1)
  BY <1>1
<1>6. Len(s) + 1 \in 1..(Len(s) + 1)
  BY <1>1
<1>7. ToSet(t) = ToSet(s) \cup {m}
  <2>1. ToSet(t) = {t[i] : i \in 1..(Len(s) + 1)}
    BY <1>3 DEF ToSet
  <2>2. QED
    BY <1>1, <1>3, <1>4, <1>5, <1>6, <2>1
<1>8. IsInjective(t)
  <2>1. \A i \in 1..Len(s) : t[i] # m
    BY <1>1, <1>3
  <2>2. \A i, j \in 1..(Len(s) + 1) : t[i] = t[j] => i = j
    BY <1>1, <1>3, <1>4, <2>1
  <2>3. QED
    BY <1>3, <2>2 DEF IsInjective
<1>9. Len(t) <= MaxPeers
  BY <1>1, <1>3, DonglePeersAssumption
<1>10. QED
  BY <1>2, <1>3, <1>7, <1>8, <1>9 DEF List

(* A list loses the address it is removed from, and no other.              *)
LEMMA ListWithout ==
    ASSUME NEW s \in List, NEW m
    PROVE  /\ Without(s, m) \in List /\ ToSet(Without(s, m)) = ToSet(s) \ {m}
           /\ m \in ToSet(s) => Len(Without(s, m)) = Len(s) - 1
<1>1. /\ s \in Seq(Device) /\ Len(s) \in Nat /\ Len(s) <= MaxPeers /\ DOMAIN s = 1..Len(s)
      /\ \A k : k \in ToSet(s) <=> \E i \in 1..Len(s) : s[i] = k
      /\ \A i, j \in 1..Len(s) : s[i] = s[j] => i = j
  BY ListMembers
<1>2. CASE m \notin ToSet(s)
  BY <1>2 DEF Without
<1>3. CASE m \in ToSet(s)
  <2>1. PICK r \in 1..Len(s) : s[r] = m
    BY <1>1, <1>3
  <2>2. s[r] = m /\ \A j \in 1..(r - 1) : s[j] # m
    BY <1>1, <2>1
  <2>3. \A i \in DOMAIN s : s[i] = m /\ (\A j \in 1..(i - 1) : s[j] # m) => i = r
    BY <1>1, <2>1
  <2>4. r = CHOOSE i \in DOMAIN s : s[i] = m /\ \A j \in 1..(i - 1) : s[j] # m
    BY <1>1, <2>2, <2>3
  <2>5. PICK t \in Seq(Device) : t = RemoveAt(s, r)
    BY <1>1, RemoveAtProperties
  <2>6. Without(s, m) = t
    BY <1>3, <2>4, <2>5 DEF Without
  <2>7. Len(t) = Len(s) - 1 /\ \A i \in 1..(Len(s) - 1) : t[i] = s[Up(r, i)]
    <3>1. /\ Len(RemoveAt(s, r)) = Len(s) - 1
          /\ \A i \in 1..(Len(s) - 1) : RemoveAt(s, r)[i] = s[Up(r, i)]
      <4>1. s \in Seq(Device)
        BY <1>1
      <4>2. QED
        BY <4>1, RemoveAtProperties
    <3>2. QED
      BY <2>5, <3>1
  <2>8. DOMAIN t = 1..(Len(s) - 1)
    BY <2>7
  <2>9. \A i \in 1..(Len(s) - 1) : Up(r, i) \in 1..Len(s) /\ Up(r, i) # r
    BY <1>1 DEF Up
  <2>10. \A i, j \in 1..(Len(s) - 1) : Up(r, i) = Up(r, j) => i = j
    BY <1>1 DEF Up
  <2>11. \A k \in 1..Len(s) : k # r => \E i \in 1..(Len(s) - 1) : Up(r, i) = k
    <3>1. ASSUME NEW k \in 1..Len(s), k < r PROVE k \in 1..(Len(s) - 1) /\ Up(r, k) = k
      BY <1>1, <3>1 DEF Up
    <3>2. ASSUME NEW k \in 1..Len(s), k > r PROVE k - 1 \in 1..(Len(s) - 1) /\ Up(r, k - 1) = k
      BY <1>1, <3>2 DEF Up
    <3>3. ASSUME NEW k \in 1..Len(s), k # r PROVE k < r \/ k > r
      BY <1>1, <3>3
    <3>4. QED
      BY <3>1, <3>2, <3>3
  <2>12. IsInjective(t)
    <3>1. \A i, j \in 1..(Len(s) - 1) : t[i] = t[j] => i = j
      BY <1>1, <2>7, <2>9, <2>10
    <3>2. QED
      BY <2>8, <3>1 DEF IsInjective
  <2>13. ToSet(t) = ToSet(s) \ {m}
    <3>1. ToSet(t) = {t[i] : i \in 1..(Len(s) - 1)}
      BY <2>8 DEF ToSet
    <3>2. ASSUME NEW x \in ToSet(t) PROVE x \in ToSet(s) /\ x # m
      <4>1. PICK i \in 1..(Len(s) - 1) : x = t[i]
        BY <3>1, <3>2
      <4>2. QED
        BY <1>1, <2>1, <2>7, <2>9, <4>1
    <3>3. ASSUME NEW x \in ToSet(s), x # m PROVE x \in ToSet(t)
      <4>1. PICK k \in 1..Len(s) : s[k] = x
        BY <1>1, <3>3
      <4>2. PICK i \in 1..(Len(s) - 1) : Up(r, i) = k
        BY <2>1, <2>11, <3>3, <4>1
      <4>3. t[i] = x
        BY <2>7, <4>1, <4>2
      <4>4. QED
        BY <3>1, <4>3
    <3>4. QED
      BY <3>2, <3>3
  <2>14. Len(t) <= MaxPeers
    BY <1>1, <2>7, DonglePeersAssumption
  <2>15. QED
    BY <2>5, <2>6, <2>7, <2>12, <2>13, <2>14 DEF List
<1>4. QED
  BY <1>2, <1>3

(* The empty list.                                                         *)
LEMMA ListEmpty == <<>> \in List /\ ToSet(<<>>) = {} /\ Len(<<>>) = 0
<1>1. <<>> \in Seq(Device) /\ Len(<<>>) = 0 /\ DOMAIN <<>> = {}
  OBVIOUS
<1>2. QED
  BY <1>1, DonglePeersAssumption DEF List, IsInjective, ToSet

(***************************************************************************)
(* The fields of the call after each kind of step.                         *)
(***************************************************************************)
(* Goto changes the step only.                                             *)
LEMMA GotoFields ==
    ASSUME call \in CallType, NEW a \in Steps, Goto(a)
    PROVE  /\ call' \in CallType /\ call'.op = call.op /\ call'.at = a /\ call'.mac = call.mac
           /\ call'.new = call.new /\ call'.muted = call.muted /\ call'.found = call.found
           /\ call'.wasStored = call.wasStored /\ call'.next = call.next
BY Zenon DEF Goto, CallType

(* So does the step that found the peer, but for the flag.                 *)
LEMMA FoundFields ==
    ASSUME call \in CallType, NEW a \in Steps, call' = [call EXCEPT !.at = a, !.found = TRUE]
    PROVE  /\ call' \in CallType /\ call'.op = call.op /\ call'.at = a /\ call'.mac = call.mac
           /\ call'.new = call.new /\ call'.found = TRUE /\ call'.wasStored = call.wasStored
BY Zenon DEF CallType

(* A rollback keeps the addresses of the replacement.                      *)
LEMMA RollbackFields ==
    ASSUME call \in CallType, NEW a \in Steps, NEW o \in Calls, call' = [call EXCEPT !.op = o, !.at = a]
    PROVE  /\ call' \in CallType /\ call'.op = o /\ call'.at = a /\ call'.mac = call.mac
           /\ call'.new = call.new /\ call'.wasStored = call.wasStored
BY Zenon DEF CallType

(* begin() comes to the next stored peer.                                  *)
LEMMA NextFields ==
    ASSUME call \in CallType, NEW n \in Nat \ {0}, call' = [call EXCEPT !.next = n]
    PROVE  /\ call' \in CallType /\ call'.op = call.op /\ call'.at = call.at /\ call'.next = n
           /\ call'.mac = call.mac /\ call'.new = call.new /\ call'.wasStored = call.wasStored
BY Zenon DEF CallType

(* The fields of the call that a request begins with.                      *)
LEMMA CallFields ==
    ASSUME NEW o \in Calls, NEW a \in Steps, NEW m \in Device \cup {NoMac}, NEW n \in Device \cup {NoMac},
           NEW u \in BOOLEAN, NEW w \in BOOLEAN
    PROVE  /\ Call(o, a, m, n, u, w) \in CallType
           /\ Call(o, a, m, n, u, w).op = o /\ Call(o, a, m, n, u, w).at = a
           /\ Call(o, a, m, n, u, w).mac = m /\ Call(o, a, m, n, u, w).new = n
           /\ Call(o, a, m, n, u, w).wasStored = w /\ Call(o, a, m, n, u, w).next = 1
BY DEF Call, CallType

(* No call runs.                                                           *)
LEMMA IdleFields == Idle \in CallType /\ Idle.op = "none" /\ Idle.at = "idle" /\ Idle.wasStored = FALSE
BY DEF Idle, CallOf, Call, CallType, Calls, Steps

(* begin() starts with the first stored peer.                              *)
LEMMA BootingFields ==
    /\ Booting \in CallType /\ Booting.op = "begin" /\ Booting.at = "restore"
    /\ Booting.wasStored = FALSE /\ Booting.next = 1
BY DEF Booting, CallOf, Call, CallType, Calls, Steps

(***************************************************************************)
(* The steps keep the invariant.                                           *)
(***************************************************************************)
(* The types that a step finds.                                            *)
LEMMA Found ==
    ASSUME DongleInv
    PROVE  /\ live \in List /\ stored \in List /\ Len(live) \in Nat /\ Len(stored) \in Nat
           /\ Len(live) <= MaxPeers /\ Len(stored) <= MaxPeers
           /\ ToSet(live) \subseteq Device /\ ToSet(stored) \subseteq Device
           /\ call \in CallType /\ refusals \in Nat /\ MaxPeers \in Nat
           /\ DOMAIN stored = 1..Len(stored) /\ call.next \in Nat \ {0}
           /\ call.op \in Calls /\ call.at \in Steps
<1>1. live \in List /\ stored \in List /\ call \in CallType /\ refusals \in Nat
  BY DEF DongleInv, TypeInv
<1>2. /\ Len(live) \in Nat /\ Len(live) <= MaxPeers /\ ToSet(live) \subseteq Device
      /\ Len(stored) \in Nat /\ Len(stored) <= MaxPeers /\ ToSet(stored) \subseteq Device
      /\ DOMAIN stored = 1..Len(stored)
  BY <1>1, ListMembers
<1>3. call.next \in Nat \ {0} /\ call.op \in Calls /\ call.at \in Steps
  BY <1>1 DEF CallType
<1>4. QED
  BY <1>1, <1>2, <1>3, DonglePeersAssumption

(* The step a call is at tells which call it can be.                       *)
LEMMA AtStep ==
    ASSUME DongleInv
    PROVE  /\ call.at = "restore" => call.op = "begin"
           /\ call.at \in {"addLive", "addStored"} => call.op \in {"add", "replace", "rollback"}
           /\ call.at \in {"forget", "dropLive", "dropStored"} => call.op \in {"remove", "replace"}
           /\ call.at \in {"clearStored", "clearLive", "clearMutes"} => call.op = "clear"
           /\ call.op = "none" => call.at = "idle"
BY Found DEF DongleInv, Flow, Calls, Steps

(* Refusals are counted.                                                   *)
LEMMA RefusalsCount ==
    ASSUME refusals \in Nat
    PROVE  /\ Refused => refusals' = refusals + 1
           /\ Accepted => refusals' = refusals
           /\ Refused \/ Accepted => refusals' \in Nat /\ refusals' >= refusals
BY DEF Refused, Accepted

(* begin() adds a stored peer, or counts it as skipped.                    *)
LEMMA RestoreNextKeeps ==
    ASSUME DongleInv, RestoreNext
    PROVE  DongleInv'
<1>1. /\ call.at = "restore" /\ call.op = "begin" /\ call.next \in 1..Len(stored)
      /\ stored' = stored /\ mutes' = mutes /\ acked' = acked
  BY Found, AtStep DEF RestoreNext
<1>2. PICK m \in Device : m = stored[call.next] /\ m \in ToSet(stored)
  BY <1>1, Found, ListMembers
<1>3. /\ call' \in CallType /\ call'.op = "begin" /\ call'.at = "restore" /\ call'.next = call.next + 1
  <2>1. call' = [call EXCEPT !.next = call.next + 1]
    BY Found, Zenon DEF RestoreNext, CallType
  <2>2. call.next + 1 \in Nat \ {0}
    BY Found
  <2>3. QED
    BY <1>1, <2>1, <2>2, NextFields, Found
<1>4. \/ HasPeer(m) /\ Accepted /\ live' = live /\ skipped' = skipped
      \/ ~HasPeer(m) /\ Len(live) < MaxPeers /\ Accepted /\ live' = Append(live, m) /\ skipped' = skipped
      \/ (Accepted \/ Refused) /\ skipped' = skipped \cup {m} /\ live' = live
  BY <1>2 DEF RestoreNext
<1>5. live' \in List /\ ToSet(live) \subseteq ToSet(live') /\ skipped \subseteq skipped'
  BY <1>4, Found, ListAppend DEF HasPeer
<1>6. refusals' \in Nat
  BY <1>4, Found, RefusalsCount
<1>7. m \in ToSet(live') \/ m \in skipped'
  <2>1. CASE HasPeer(m) /\ Accepted /\ live' = live /\ skipped' = skipped
    BY <2>1 DEF HasPeer
  <2>2. CASE ~HasPeer(m) /\ Len(live) < MaxPeers /\ Accepted /\ live' = Append(live, m) /\ skipped' = skipped
    <3>1. m \in ToSet(Append(live, m))
      BY <2>2, Found, ListAppend DEF HasPeer
    <3>2. QED
      BY <2>2, <3>1
  <2>3. CASE (Accepted \/ Refused) /\ skipped' = skipped \cup {m} /\ live' = live
    BY <2>3
  <2>4. QED
    BY <1>4, <2>1, <2>2, <2>3
<1>9. TypeInv' /\ Flow' /\ Muted'
  BY <1>1, <1>3, <1>5, <1>6 DEF DongleInv, TypeInv, Flow, Muted
<1>10. Kept'
  <2>1. ASSUME NEW i \in DOMAIN stored, i < call.next + 1
        PROVE  stored[i] \in ToSet(live') \/ stored[i] \in skipped'
    <3>1. CASE i = call.next
      BY <1>2, <1>7, <3>1
    <3>2. CASE i < call.next
      BY <1>1, <1>5, <3>2 DEF DongleInv, Kept, Settled, HasPeer
    <3>3. QED
      BY <2>1, <3>1, <3>2, Found
  <2>2. QED
    BY <1>1, <1>3, <2>1 DEF DongleInv, Kept, Settled, HasPeer
<1>11. Undoable'
  BY <1>3 DEF Undoable
<1>12. QED
  BY <1>9, <1>10, <1>11 DEF DongleInv

(* begin() has come past every stored peer.                                *)
LEMMA StartedKeeps ==
    ASSUME DongleInv, Started
    PROVE  DongleInv'
<1>1. /\ call.op = "begin" /\ call.next > Len(stored) /\ live' = live /\ stored' = stored
      /\ mutes' = mutes /\ acked' = acked /\ refusals' = refusals /\ skipped' = skipped
      /\ call.at = "restore"
  BY AtStep DEF Started
<1>2. call' \in CallType /\ call'.op = "none" /\ call'.at = "idle"
  BY IdleFields DEF Started
<1>3. ASSUME NEW m \in acked PROVE Settled(m)
  <2>1. PICK i \in 1..Len(stored) : stored[i] = m
    <3>1. m \in ToSet(stored)
      BY DEF DongleInv, Kept
    <3>2. QED
      BY <3>1, Found, ListMembers
  <2>2. i < call.next /\ i \in DOMAIN stored
    BY <1>1, Found
  <2>3. QED
    BY <1>1, <2>1, <2>2 DEF DongleInv, Kept
<1>4. TypeInv' /\ Flow' /\ Muted' /\ Undoable'
  BY <1>1, <1>2 DEF DongleInv, TypeInv, Flow, Muted, Undoable
<1>5. Kept'
  BY <1>1, <1>2, <1>3 DEF DongleInv, Kept, Settled, HasPeer
<1>6. QED
  BY <1>4, <1>5 DEF DongleInv

(* A call begins: the lists are as they were.                              *)
LEMMA CallBegins ==
    ASSUME DongleInv, NEW c \in CallType, Begin(c), NEW A \in SUBSET acked, acked' = A,
           c.op \in {"add", "remove", "clear", "replace"},
           c.op = "add" => c.at = "addLive",
           c.op = "clear" => c.at = "clearStored" /\ A = {},
           c.op \in {"remove", "replace"} => c.at = "forget" /\ c.mac \notin A,
           c.op \in {"add", "remove", "replace"} => c.mac \in Device,
           c.op = "replace" => c.new \in Device /\ c.new # c.mac,
           c.op = "replace" /\ c.wasStored => Exists(c.mac)
    PROVE  DongleInv'
<1>1. /\ call.op = "none" /\ call.at = "idle" /\ call' = c /\ live' = live /\ stored' = stored /\ mutes' = mutes
      /\ refusals' = refusals /\ skipped' = skipped
  BY AtStep DEF Begin
<1>2. TypeInv' /\ Flow' /\ Muted'
  BY <1>1 DEF DongleInv, TypeInv, Flow, Muted
<1>3. Kept'
  BY <1>1 DEF DongleInv, Kept, Settled, HasPeer
<1>4. Undoable'
  BY <1>1 DEF Undoable, Exists
<1>5. QED
  BY <1>2, <1>3, <1>4 DEF DongleInv

(* addPeer() is called.                                                    *)
LEMMA CallAddPeerKeeps ==
    ASSUME DongleInv, NEW m \in Device, CallAddPeer(m)
    PROVE  DongleInv'
<1>1. "add" \in Calls /\ "addLive" \in Steps /\ m \in Device \cup {NoMac}
  BY DEF Calls, Steps
<1>2. PICK c \in CallType : Begin(c) /\ c.op = "add" /\ c.at = "addLive" /\ c.mac = m
  <2>1. /\ CallOf("add", "addLive", m) \in CallType
        /\ CallOf("add", "addLive", m).op = "add" /\ CallOf("add", "addLive", m).at = "addLive"
        /\ CallOf("add", "addLive", m).mac = m
    BY <1>1 DEF CallOf, Call, CallType
  <2>2. QED
    BY <2>1 DEF CallAddPeer
<1>3. acked' = acked
  BY DEF CallAddPeer
<1>4. QED
  BY <1>2, <1>3, CallBegins

(* removePeer() is called.                                                 *)
LEMMA CallRemovePeerKeeps ==
    ASSUME DongleInv, NEW m \in Device, CallRemovePeer(m)
    PROVE  DongleInv'
<1>1. "remove" \in Calls /\ "forget" \in Steps /\ m \in Device \cup {NoMac}
  BY DEF Calls, Steps
<1>2. PICK c \in CallType : Begin(c) /\ c.op = "remove" /\ c.at = "forget" /\ c.mac = m
  <2>1. /\ CallOf("remove", "forget", m) \in CallType
        /\ CallOf("remove", "forget", m).op = "remove" /\ CallOf("remove", "forget", m).at = "forget"
        /\ CallOf("remove", "forget", m).mac = m
    BY <1>1 DEF CallOf, Call, CallType
  <2>2. QED
    BY <2>1 DEF CallRemovePeer
<1>3. acked' = acked \ {m}
  BY DEF CallRemovePeer
<1>4. QED
  BY <1>2, <1>3, CallBegins

(* clearAllPeers() is called.                                              *)
LEMMA CallClearKeeps ==
    ASSUME DongleInv, CallClear
    PROVE  DongleInv'
<1>1. "clear" \in Calls /\ "clearStored" \in Steps /\ NoMac \in Device \cup {NoMac}
  BY DEF Calls, Steps
<1>2. PICK c \in CallType : Begin(c) /\ c.op = "clear" /\ c.at = "clearStored"
  <2>1. /\ CallOf("clear", "clearStored", NoMac) \in CallType
        /\ CallOf("clear", "clearStored", NoMac).op = "clear" /\ CallOf("clear", "clearStored", NoMac).at = "clearStored"
        /\ CallOf("clear", "clearStored", NoMac).mac = NoMac
    BY <1>1 DEF CallOf, Call, CallType
  <2>2. QED
    BY <2>1 DEF CallClear
<1>3. acked' = {}
  BY DEF CallClear
<1>4. QED
  BY <1>2, <1>3, CallBegins

(* replacePeer() is called.                                                *)
LEMMA CallReplacePeerKeeps ==
    ASSUME DongleInv, NEW old \in Device, NEW new \in Device, CallReplacePeer(old, new)
    PROVE  DongleInv'
<1>1. "replace" \in Calls /\ "forget" \in Steps /\ IsMuted(old) \in BOOLEAN /\ Exists(old) \in BOOLEAN
  BY DEF Calls, Steps, IsMuted, Exists
<1>2. PICK c : Begin(c) /\ c = Call("replace", "forget", old, new, IsMuted(old), Exists(old))
  BY DEF CallReplacePeer
<1>3. /\ c \in CallType /\ c.op = "replace" /\ c.at = "forget" /\ c.mac = old /\ c.new = new
      /\ c.wasStored = Exists(old)
  BY <1>1, <1>2, CallFields
<1>4. acked' = acked \ {old} /\ old # new
  BY DEF CallReplacePeer
<1>5. c.wasStored => Exists(c.mac)
  BY <1>3
<1>6. QED
  BY <1>2, <1>3, <1>4, <1>5, CallBegins

(* Only live peers are muted.                                              *)
LEMMA SetMutedKeeps ==
    ASSUME DongleInv, NEW m \in Device, NEW silent \in BOOLEAN, SetMuted(m, silent)
    PROVE  DongleInv'
<1>1. /\ live' = live /\ stored' = stored /\ call' = call /\ acked' = acked
      /\ refusals' = refusals /\ skipped' = skipped /\ call.at = "idle"
      /\ mutes' \subseteq mutes \cup {m} /\ m \in ToSet(live)
  BY AtStep DEF SetMuted, HasPeer
<1>2. TypeInv' /\ Flow' /\ Muted'
  BY <1>1 DEF DongleInv, TypeInv, Flow, Muted
<1>3. Kept' /\ Undoable'
  BY <1>1 DEF DongleInv, Kept, Undoable, Settled, HasPeer, Exists, Added
<1>4. QED
  BY <1>2, <1>3 DEF DongleInv

(* The list of an undone replacement may fill up, it does not become       *)
(* shorter.                                                                *)
LEMMA DiscoverKeeps ==
    ASSUME DongleInv, NEW m \in Device, Discover(m)
    PROVE  DongleInv'
<1>1. /\ stored' = stored /\ call' = call /\ acked' = acked /\ mutes' = mutes
      /\ refusals' = refusals /\ skipped' = skipped
  BY DEF Discover
<1>2. live' \in List /\ ToSet(live) \subseteq ToSet(live') /\ Len(live') = Len(live) + 1 /\ Len(live) < MaxPeers
  BY Found, ListAppend DEF Discover, HasPeer
<1>3. TypeInv' /\ Flow' /\ Muted'
  BY <1>1, <1>2 DEF DongleInv, TypeInv, Flow, Muted
<1>4. Kept'
  BY <1>1, <1>2 DEF DongleInv, Kept, Settled, HasPeer, Added
<1>5. Undoable'
  <2>1. Len(live) # MaxPeers
    BY <1>2, Found
  <2>2. QED
    BY <1>1, <2>1 DEF DongleInv, Undoable, Exists
<1>6. QED
  BY <1>3, <1>4, <1>5 DEF DongleInv

(* A reset clears what is not in flash; begin() starts over.               *)
LEMMA ResetKeeps ==
    ASSUME DongleInv, Reset
    PROVE  DongleInv'
<1>1. /\ live' = <<>> /\ mutes' = {} /\ skipped' = {} /\ stored' = stored /\ acked' = acked
      /\ refusals' = refusals
  BY DEF Reset
<1>2. /\ call' \in CallType /\ call'.op = "begin" /\ call'.at = "restore" /\ call'.next = 1
  BY BootingFields DEF Reset
<1>3. TypeInv' /\ Flow' /\ Muted' /\ Undoable'
  BY <1>1, <1>2, ListEmpty DEF DongleInv, TypeInv, Flow, Muted, Undoable
<1>4. Kept'
  <2>1. \A i \in DOMAIN stored : ~(i < 1)
    BY Found
  <2>2. QED
    BY <1>1, <1>2, <2>1 DEF DongleInv, Kept
<1>5. QED
  BY <1>3, <1>4 DEF DongleInv

(* How addPeer() returns.                                                  *)
LEMMA Returned ==
    ASSUME call \in CallType, call.op # "none", NEW m, NEW added \in BOOLEAN, AddReturns(m, added)
    PROVE  /\ call' \in CallType
           /\ \/ /\ call.op = "replace" /\ ~added /\ mutes' = mutes /\ acked' = acked
                 /\ call'.op = "rollback" /\ call'.at = "addLive" /\ call'.mac = call.mac
                 /\ call'.new = call.new /\ call'.wasStored = call.wasStored
              \/ /\ ~(call.op = "replace" /\ ~added)
                 /\ call'.op = "none" /\ call'.at = "idle" /\ call'.wasStored = FALSE
                 /\ mutes' \subseteq mutes \cup ({m} \cap ToSet(live))
                 /\ acked' = IF added /\ call.op # "rollback" THEN acked \cup {m} ELSE acked
<1>1. CASE call.op = "replace" /\ ~added
  <2>1. "rollback" \in Calls /\ "addLive" \in Steps
    BY DEF Calls, Steps
  <2>2. call' = [call EXCEPT !.op = "rollback", !.at = "addLive"] /\ mutes' = mutes /\ acked' = acked
    BY <1>1 DEF AddReturns
  <2>3. /\ call' \in CallType /\ call'.op = "rollback" /\ call'.at = "addLive" /\ call'.mac = call.mac
        /\ call'.new = call.new /\ call'.wasStored = call.wasStored
    BY <2>1, <2>2, RollbackFields
  <2>4. QED
    BY <1>1, <2>2, <2>3
<1>2. CASE ~(call.op = "replace" /\ ~added)
  <2>1. /\ call' = Idle /\ mutes' = MutedIfPeer(m, call.muted)
        /\ acked' = IF added /\ call.op # "rollback" THEN acked \cup {m} ELSE acked
    BY <1>2 DEF AddReturns
  <2>2. mutes' \subseteq mutes \cup ({m} \cap ToSet(live))
    BY <2>1 DEF MutedIfPeer, HasPeer
  <2>3. QED
    BY <1>2, <2>1, <2>2, IdleFields
<1>3. QED
  BY <1>1, <1>2

(* What addPeer() adds.                                                    *)
LEMMA AddedPeer ==
    ASSUME DongleInv, call.at \in {"addLive", "addStored"}
    PROVE  /\ call.op \in {"add", "replace", "rollback"} /\ Added \in Device
           /\ Added = IF call.op = "replace" THEN call.new ELSE call.mac
           /\ call.op \in {"replace", "rollback"} => call.mac \notin acked /\ call.new # call.mac
BY AtStep DEF DongleInv, Flow, Kept, Added

(* addPeer() comes to the live list.                                       *)
LEMMA AddLiveKeeps ==
    ASSUME DongleInv, AddLive
    PROVE  DongleInv'
<1>1. /\ call.at = "addLive" /\ call.op \in {"add", "replace", "rollback"} /\ Added \in Device
      /\ stored' = stored /\ skipped' = skipped /\ acked \subseteq Device /\ mutes \subseteq ToSet(live)
      /\ \A m \in acked : Settled(m)
  BY AddedPeer DEF AddLive, DongleInv, TypeInv, Muted, Kept
<1>2. CASE /\ live' \in List /\ ToSet(live') = ToSet(live) \cup {Added} /\ refusals' = refusals
           /\ Goto("addStored") /\ mutes' = mutes /\ acked' = acked
  <2>1. /\ call' \in CallType /\ call'.op = call.op /\ call'.at = "addStored" /\ call'.mac = call.mac
        /\ call'.new = call.new /\ call'.wasStored = call.wasStored
    <3>1. "addStored" \in Steps
      BY DEF Steps
    <3>2. QED
      BY <1>2, <3>1, Found, GotoFields
  <2>2. TypeInv' /\ Flow' /\ Muted'
    BY <1>1, <1>2, <2>1 DEF DongleInv, TypeInv, Flow, Muted
  <2>3. Added' = Added
    BY <2>1 DEF Added
  <2>4. Kept'
    BY <1>1, <1>2, <2>1, <2>3 DEF DongleInv, Kept, Settled, HasPeer
  <2>5. Undoable'
    BY <1>1, <2>1 DEF DongleInv, Undoable
  <2>6. QED
    BY <2>2, <2>4, <2>5 DEF DongleInv
<1>3. CASE /\ ~HasPeer(Added) /\ live' = live /\ AddReturns(Added, FALSE)
           /\ (Len(live) = MaxPeers /\ refusals' = refusals) \/ refusals' = refusals + 1
  <2>1. refusals' \in Nat
    BY <1>3, Found
  <2>2. CASE call.op = "replace"
    <3>1. /\ call' \in CallType /\ mutes' = mutes /\ acked' = acked
          /\ call'.op = "rollback" /\ call'.at = "addLive" /\ call'.mac = call.mac
          /\ call'.new = call.new /\ call'.wasStored = call.wasStored
      BY <1>3, <2>2, Found, Returned
    <3>2. TypeInv' /\ Flow' /\ Muted'
      BY <1>1, <1>3, <2>1, <2>2, <3>1 DEF DongleInv, TypeInv, Flow, Muted
    <3>3. Kept'
      BY <1>1, <1>3, <2>2, <3>1 DEF DongleInv, Kept, Settled, HasPeer
    <3>4. Undoable'
      <4>1. Len(live) = MaxPeers \/ refusals' > 0
        BY <1>3, Found
      <4>2. QED
        BY <1>1, <1>3, <2>2, <3>1, <4>1 DEF DongleInv, Undoable
    <3>5. QED
      BY <3>2, <3>3, <3>4 DEF DongleInv
  <2>3. CASE call.op # "replace"
    <3>1. /\ call' \in CallType /\ call'.op = "none" /\ call'.at = "idle" /\ call'.wasStored = FALSE
          /\ mutes' \subseteq mutes \cup ToSet(live) /\ acked' = acked
      BY <1>1, <1>3, <2>3, Found, Returned
    <3>2. TypeInv'
      BY <1>1, <1>3, <2>1, <3>1, Found DEF DongleInv, TypeInv
    <3>3. Flow' /\ Muted' /\ Undoable'
      BY <1>1, <1>3, <3>1 DEF Flow, Muted, Undoable
    <3>4. Kept'
      BY <1>1, <1>3, <3>1 DEF DongleInv, Kept, Settled, HasPeer
    <3>5. QED
      BY <3>2, <3>3, <3>4 DEF DongleInv
  <2>4. QED
    BY <2>2, <2>3
<1>4. QED
  <2>1. CASE HasPeer(Added) /\ Goto("addStored") /\ Accepted /\ UNCHANGED <<live, mutes, acked>>
    BY <1>2, <2>1, Found, RefusalsCount DEF HasPeer
  <2>2. CASE /\ ~HasPeer(Added) /\ Len(live) < MaxPeers /\ live' = Append(live, Added)
             /\ Goto("addStored") /\ Accepted /\ UNCHANGED <<mutes, acked>>
    <3>1. live' \in List /\ ToSet(live') = ToSet(live) \cup {Added}
      BY <1>1, <2>2, Found, ListAppend DEF HasPeer
    <3>2. QED
      BY <1>2, <2>2, <3>1, Found, RefusalsCount
  <2>3. CASE /\ ~HasPeer(Added) /\ AddReturns(Added, FALSE) /\ UNCHANGED live
             /\ IF Len(live) >= MaxPeers THEN Accepted ELSE Refused
    <3>1. (Len(live) = MaxPeers /\ refusals' = refusals) \/ refusals' = refusals + 1
      BY <2>3, Found, RefusalsCount
    <3>2. QED
      BY <1>3, <2>3, <3>1
  <2>4. QED
    BY <2>1, <2>2, <2>3 DEF AddLive

(* addPeer() comes to the storage; a stored peer that was replaced has     *)
(* left room.                                                              *)
LEMMA AddStoredKeeps ==
    ASSUME DongleInv, AddStored
    PROVE  DongleInv'
<1>1. /\ call.at = "addStored" /\ call.op \in {"add", "replace", "rollback"} /\ Added \in Device
      /\ live' = live /\ refusals' = refusals /\ skipped' = skipped
      /\ acked \subseteq Device /\ mutes \subseteq ToSet(live) /\ Added \in ToSet(live)
      /\ \A m \in acked : Settled(m)
      /\ acked \subseteq ToSet(stored)
  BY AddedPeer DEF AddStored, DongleInv, TypeInv, Muted, Kept, HasPeer
<1>2. PICK added \in BOOLEAN : added <=> Exists(Added) \/ ~IsFull
  OBVIOUS
<1>3. AddReturns(Added, added)
  <2>1. added = (Exists(Added) \/ ~IsFull)
    BY <1>2 DEF Exists, IsFull
  <2>2. QED
    BY <2>1 DEF AddStored
<1>4. stored' \in List /\ ToSet(stored) \subseteq ToSet(stored') /\ (added => Added \in ToSet(stored'))
      /\ (~added => stored' = stored)
  <2>1. CASE Exists(Added) \/ IsFull
    BY <1>2, <2>1, Found DEF AddStored, Exists
  <2>2. CASE ~Exists(Added) /\ ~IsFull
    <3>1. Len(stored) < MaxPeers
      <4>1. stored \in List
        BY DEF DongleInv, TypeInv
      <4>2. Len(stored) \in Nat /\ MaxPeers \in Nat
        BY <4>1, ListMembers, DonglePeersAssumption
      <4>3. QED
        BY <2>2, <4>2 DEF IsFull
    <3>2. Added \notin ToSet(stored)
      BY <2>2 DEF Exists
    <3>3. stored' = Append(stored, Added)
      BY <2>2 DEF AddStored
    <3>4. /\ Append(stored, Added) \in List
          /\ ToSet(Append(stored, Added)) = ToSet(stored) \cup {Added}
      <4>1. stored \in List /\ Added \in Device
        BY <1>1 DEF DongleInv, TypeInv
      <4>2. QED
        BY <3>1, <3>2, <4>1, ListAppend
    <3>5. added
      BY <1>2, <2>2
    <3>6. QED
      BY <3>3, <3>4, <3>5
  <2>3. QED
    BY <2>1, <2>2
<1>5. CASE call.op = "replace" /\ ~added
  <2>1. /\ call' \in CallType /\ mutes' = mutes /\ acked' = acked
        /\ call'.op = "rollback" /\ call'.at = "addLive" /\ call'.mac = call.mac
        /\ call'.new = call.new /\ call'.wasStored = call.wasStored
    BY <1>3, <1>5, Found, Returned
  <2>2. TypeInv' /\ Flow' /\ Muted'
    BY <1>1, <1>4, <1>5, <2>1 DEF DongleInv, TypeInv, Flow, Muted
  <2>3. Kept'
    BY <1>1, <1>4, <1>5, <2>1 DEF DongleInv, Kept, Settled, HasPeer
  <2>4. ~call.wasStored
    <3>1. Len(stored) >= MaxPeers
      BY <1>2, <1>5 DEF IsFull
    <3>2. QED
      BY <1>1, <1>5, <3>1, Found DEF DongleInv, Undoable
  <2>5. Undoable'
    BY <2>1, <2>4 DEF Undoable
  <2>6. QED
    BY <2>2, <2>3, <2>5 DEF DongleInv
<1>6. CASE ~(call.op = "replace" /\ ~added)
  <2>1. /\ call' \in CallType /\ call'.op = "none" /\ call'.at = "idle" /\ call'.wasStored = FALSE
        /\ mutes' \subseteq mutes \cup ToSet(live)
        /\ acked' = IF added /\ call.op # "rollback" THEN acked \cup {Added} ELSE acked
    BY <1>1, <1>3, <1>6, Found, Returned
  <2>2. TypeInv'
    BY <1>1, <1>4, <2>1, Found DEF DongleInv, TypeInv
  <2>3. Flow' /\ Muted' /\ Undoable'
    BY <1>1, <2>1 DEF Flow, Muted, Undoable
  <2>4. Kept'
    BY <1>1, <1>4, <2>1 DEF Kept, Settled, HasPeer
  <2>5. QED
    BY <2>2, <2>3, <2>4 DEF DongleInv
<1>7. QED
  BY <1>5, <1>6

(* removePeer() takes the mute away first.                                 *)
LEMMA ForgetKeeps ==
    ASSUME DongleInv, Forget
    PROVE  DongleInv'
<1>1. /\ call.at = "forget" /\ call.op \in {"remove", "replace"}
      /\ live' = live /\ stored' = stored /\ acked' = acked /\ refusals' = refusals /\ skipped' = skipped
      /\ mutes' = mutes \ {call.mac}
  BY AtStep DEF Forget
<1>2. /\ call' \in CallType /\ call'.op = call.op /\ call'.at = "dropLive" /\ call'.mac = call.mac
      /\ call'.new = call.new /\ call'.wasStored = call.wasStored
  <2>1. "dropLive" \in Steps
    BY DEF Steps
  <2>2. QED
    BY <2>1, Found, GotoFields DEF Forget
<1>3. TypeInv' /\ Flow' /\ Muted'
  BY <1>1, <1>2 DEF DongleInv, TypeInv, Flow, Muted
<1>4. Kept' /\ Undoable'
  BY <1>1, <1>2 DEF DongleInv, Kept, Undoable, Settled, HasPeer, Exists
<1>5. QED
  BY <1>3, <1>4 DEF DongleInv

(* removePeer() comes to the live list.                                    *)
LEMMA DropLiveKeeps ==
    ASSUME DongleInv, DropLive
    PROVE  DongleInv'
<1>1. /\ call.at = "dropLive" /\ call.op \in {"remove", "replace"}
      /\ stored' = stored /\ acked' = acked /\ mutes' = mutes /\ skipped' = skipped
  BY AtStep DEF DropLive
<1>2. /\ live' \in List /\ ToSet(live) \ {call.mac} \subseteq ToSet(live')
  BY Found, ListWithout DEF DropLive
<1>3. refusals' \in Nat
  BY Found, RefusalsCount DEF DropLive
<1>4. /\ call' \in CallType /\ call'.op = call.op /\ call'.at = "dropStored" /\ call'.mac = call.mac
      /\ call'.new = call.new /\ call'.wasStored = call.wasStored
  <2>1. "dropStored" \in Steps
    BY DEF Steps
  <2>2. Goto("dropStored") \/ call' = [call EXCEPT !.at = "dropStored", !.found = TRUE]
    BY DEF DropLive
  <2>3. CASE Goto("dropStored")
    BY <2>1, <2>3, Found, GotoFields
  <2>4. CASE call' = [call EXCEPT !.at = "dropStored", !.found = TRUE]
    BY <2>1, <2>4, Found, FoundFields
  <2>5. QED
    BY <2>2, <2>3, <2>4
<1>5. TypeInv' /\ Flow' /\ Muted'
  BY <1>1, <1>2, <1>3, <1>4 DEF DongleInv, TypeInv, Flow, Muted
<1>6. Kept' /\ Undoable'
  BY <1>1, <1>2, <1>4 DEF DongleInv, Kept, Undoable, Settled, HasPeer, Exists
<1>7. QED
  BY <1>5, <1>6 DEF DongleInv

(* removePeer() comes to the storage.                                      *)
LEMMA DropStoredKeeps ==
    ASSUME DongleInv, DropStored
    PROVE  DongleInv'
<1>1. /\ call.at = "dropStored" /\ call.op \in {"remove", "replace"}
      /\ live' = live /\ acked' = acked /\ mutes' = mutes /\ skipped' = skipped /\ refusals' = refusals
      /\ mutes \subseteq ToSet(live) /\ acked \subseteq ToSet(stored) /\ call.mac \notin acked
      /\ \A m \in acked : Settled(m)
  BY AtStep DEF DropStored, DongleInv, Muted, Kept
<1>2. /\ stored' \in List /\ ToSet(stored') = ToSet(stored) \ {call.mac}
      /\ call.mac \in ToSet(stored) => Len(stored') < MaxPeers
  <2>1. /\ stored' = Without(stored, call.mac)
        /\ Without(stored, call.mac) \in List /\ ToSet(Without(stored, call.mac)) = ToSet(stored) \ {call.mac}
        /\ call.mac \in ToSet(stored) => Len(Without(stored, call.mac)) = Len(stored) - 1
    BY Found, ListWithout DEF DropStored
  <2>2. Len(stored) \in Nat /\ Len(stored) <= MaxPeers /\ MaxPeers \in Nat
    <3>1. stored \in List
      BY DEF DongleInv, TypeInv
    <3>2. QED
      BY <3>1, ListMembers, DonglePeersAssumption
  <2>3. call.mac \in ToSet(stored) => Len(stored') = Len(stored) - 1
    BY <2>1
  <2>4. call.mac \in ToSet(stored) => Len(stored') < MaxPeers
    BY <2>2, <2>3
  <2>5. QED
    BY <2>1, <2>4
<1>3. \/ /\ call.op = "replace" /\ call' \in CallType /\ call'.op = call.op /\ call'.at = "addLive"
         /\ call'.mac = call.mac /\ call'.new = call.new /\ call'.wasStored = call.wasStored
      \/ call' \in CallType /\ call'.op = "none" /\ call'.at = "idle"
  <2>1. "addLive" \in Steps
    BY DEF Steps
  <2>2. CASE call.op = "replace" /\ Goto("addLive")
    BY <2>1, <2>2, Found, GotoFields
  <2>3. CASE call' = Idle
    BY <2>3, IdleFields
  <2>4. QED
    BY <2>2, <2>3 DEF DropStored
<1>4. TypeInv' /\ Flow' /\ Muted'
  BY <1>1, <1>2, <1>3 DEF DongleInv, TypeInv, Flow, Muted
<1>5. Kept'
  BY <1>1, <1>2, <1>3 DEF Kept, Settled, HasPeer
<1>6. Undoable'
  BY <1>1, <1>2, <1>3 DEF DongleInv, Undoable, Exists
<1>7. QED
  BY <1>4, <1>5, <1>6 DEF DongleInv

(* The three steps of clearAllPeers().                                     *)
LEMMA ClearKeeps ==
    ASSUME DongleInv, ClearStored \/ ClearLive \/ ClearMutes
    PROVE  DongleInv'
<1>1. call.op = "clear" /\ acked = {} /\ acked' = acked /\ refusals' = refusals /\ skipped' = skipped
  BY AtStep DEF ClearStored, ClearLive, ClearMutes, DongleInv, Kept
<1>2. call' \in CallType
      /\ \/ call'.op = "clear" /\ call'.at = "clearLive" /\ mutes \subseteq ToSet(live')
         \/ call'.op = "clear" /\ call'.at = "clearMutes"
         \/ call'.op = "none" /\ call'.at = "idle" /\ mutes' = {}
  <2>1. "clearLive" \in Steps /\ "clearMutes" \in Steps
    BY DEF Steps
  <2>2. CASE ClearStored
    <3>1. call.at = "clearStored" /\ Goto("clearLive") /\ live' = live
      BY <2>2 DEF ClearStored
    <3>2. call' \in CallType /\ call'.op = "clear" /\ call'.at = "clearLive"
      BY <1>1, <2>1, <3>1, Found, GotoFields
    <3>3. QED
      BY <3>1, <3>2 DEF DongleInv, Muted
  <2>3. CASE ClearLive
    <3>1. Goto("clearMutes")
      BY <2>3 DEF ClearLive
    <3>2. QED
      BY <1>1, <2>1, <3>1, Found, GotoFields
  <2>4. CASE ClearMutes
    BY <2>4, IdleFields DEF ClearMutes
  <2>5. QED
    BY <2>2, <2>3, <2>4
<1>3. live' \in List /\ stored' \in List /\ mutes' \subseteq mutes
  BY Found, ListEmpty DEF ClearStored, ClearLive, ClearMutes
<1>4. TypeInv' /\ Flow' /\ Muted' /\ Undoable'
  BY <1>1, <1>2, <1>3 DEF DongleInv, TypeInv, Flow, Muted, Undoable
<1>5. Kept'
  BY <1>1, <1>2 DEF Kept
<1>6. QED
  BY <1>4, <1>5 DEF DongleInv

(* The first boot begins with empty lists.                                 *)
LEMMA DongleInvInit == Init => DongleInv
<1>1. SUFFICES ASSUME Init PROVE DongleInv
  OBVIOUS
<1>2. /\ live = <<>> /\ stored = <<>> /\ mutes = {} /\ acked = {} /\ refusals = 0
      /\ call \in CallType /\ call.op = "begin" /\ call.at = "restore" /\ DOMAIN stored = {}
  BY <1>1, BootingFields DEF Init
<1>3. TypeInv /\ Flow /\ Muted /\ Undoable
  BY <1>2, ListEmpty DEF TypeInv, Flow, Muted, Undoable
<1>4. Kept
  BY <1>2 DEF Kept
<1>5. QED
  BY <1>3, <1>4 DEF DongleInv

(* Every step keeps the invariant.                                         *)
LEMMA DongleInvKept ==
    ASSUME DongleInv, [Next]_vars
    PROVE  DongleInv'
<1>1. CASE Next
  BY <1>1, RestoreNextKeeps, StartedKeeps, CallAddPeerKeeps, CallRemovePeerKeeps, DiscoverKeeps,
     SetMutedKeeps, CallReplacePeerKeeps, CallClearKeeps, AddLiveKeeps, AddStoredKeeps, ForgetKeeps,
     DropLiveKeeps, DropStoredKeeps, ClearKeeps, ResetKeeps DEF Next
<1>2. CASE UNCHANGED vars
  <2>1. /\ live' = live /\ stored' = stored /\ mutes' = mutes /\ call' = call /\ acked' = acked
        /\ skipped' = skipped /\ refusals' = refusals
    BY <1>2 DEF vars
  <2>2. QED
    BY <2>1 DEF DongleInv, TypeInv, Flow, Muted, Kept, Undoable, Settled, HasPeer, Exists, Added
<1>3. QED
  BY <1>1, <1>2

(* The invariant holds in every reachable state.                           *)
THEOREM DongleInvHolds == Spec => []DongleInv
BY DongleInvInit, DongleInvKept, PTL DEF Spec

(* Every variable has its type and no list holds an address twice.         *)
THEOREM AlwaysTyped == Spec => []TypeOK
<1>1. DongleInv => TypeOK
  BY Found DEF DongleInv, TypeInv, TypeOK, List
<1>2. QED
  BY <1>1, DongleInvHolds, PTL

(* Between the calls only live peers are muted.                            *)
THEOREM MutesAlwaysLive == Spec => []MutesAreLive
<1>1. DongleInv => MutesAreLive
  BY AtStep DEF DongleInv, Muted, MutesAreLive
<1>2. QED
  BY <1>1, DongleInvHolds, PTL

(* Between the calls every peer that a call has answered for is stored,    *)
(* and                                                                     *)
(* live unless begin() had no place for it or the driver refused.          *)
THEOREM AckedAlwaysComesBack == Spec => []AckedComesBack
<1>1. DongleInv => AckedComesBack
  BY DEF DongleInv, Kept, Settled, Exists, AckedComesBack
<1>2. QED
  BY <1>1, DongleInvHolds, PTL

(* A replacement of a stored peer ends with the new or the old one stored, *)
(* unless the list is full or the driver has refused twice.                *)
THEOREM ReplaceAlwaysKeepsOne == Spec => ReplaceKeepsOne
<1>1. ASSUME DongleInv, Next, ReplaceEnds, call.wasStored
      PROVE  \/ call.new \in ToSet(stored') \/ call.mac \in ToSet(stored')
             \/ Len(live) = MaxPeers \/ refusals' > 1
  <2>1. call.op \in {"replace", "rollback"} /\ call'.op = "none"
    BY <1>1 DEF ReplaceEnds
  <2>2. CASE AddLive
    <3>1. call.at = "addLive" /\ call.op \in {"replace", "rollback"}
      BY <2>1, <2>2 DEF AddLive
    <3>2. ~Goto("addStored")
      <4>1. "addStored" \in Steps
        BY DEF Steps
      <4>2. QED
        BY <1>1, <2>1, <4>1, Found, GotoFields
    <3>3. /\ AddReturns(Added, FALSE)
          /\ IF Len(live) >= MaxPeers THEN Accepted ELSE Refused
      BY <2>2, <3>2 DEF AddLive
    <3>4. call.op = "rollback"
      BY <1>1, <2>1, <3>3, Found, Returned
    <3>5. Len(live) = MaxPeers \/ refusals > 0
      BY <1>1, <3>1, <3>4 DEF DongleInv, Undoable
    <3>6. Len(live) = MaxPeers \/ refusals' = refusals + 1
      BY <1>1, <3>3, Found, RefusalsCount
    <3>7. QED
      BY <1>1, <3>5, <3>6, Found
  <2>3. CASE AddStored
    <3>1. call.at = "addStored" /\ Added \in Device
      BY <1>1, <2>3, AddedPeer DEF AddStored
    <3>2. Len(stored) < MaxPeers
      BY <1>1, <2>1, <3>1 DEF DongleInv, Undoable
    <3>3. Added \in ToSet(stored')
      <4>1. CASE Exists(Added)
        BY <2>3, <4>1 DEF AddStored, Exists
      <4>2. CASE ~Exists(Added)
        <5>1. stored \in List /\ MaxPeers \in Nat
          BY <1>1, DonglePeersAssumption DEF DongleInv, TypeInv
        <5>2. Added \notin ToSet(stored)
          BY <4>2 DEF Exists
        <5>3. ~IsFull
          <6>1. Len(stored) \in Nat
            BY <5>1, ListMembers
          <6>2. QED
            BY <3>2, <5>1, <6>1 DEF IsFull
        <5>4. stored' = Append(stored, Added)
          BY <2>3, <4>2, <5>3 DEF AddStored
        <5>5. ToSet(Append(stored, Added)) = ToSet(stored) \cup {Added}
          BY <3>1, <3>2, <5>1, <5>2, ListAppend
        <5>6. QED
          BY <5>4, <5>5
      <4>3. QED
        BY <4>1, <4>2
    <3>4. QED
      BY <3>3 DEF Added
  <2>4. CASE DropStored
    <3>1. call.at = "dropStored" /\ call.op = "replace"
      BY <1>1, <2>1, <2>4, AtStep DEF DropStored
    <3>2. Exists(call.mac)
      BY <1>1, <2>1, <3>1 DEF DongleInv, Undoable
    <3>3. Goto("addLive")
      BY <2>4, <3>1, <3>2 DEF DropStored
    <3>4. "addLive" \in Steps
      BY DEF Steps
    <3>5. call'.op = call.op
      BY <1>1, <3>3, <3>4, Found, GotoFields
    <3>6. QED
      BY <2>1, <3>5
  <2>5. CASE Forget \/ DropLive
    <3>1. "dropLive" \in Steps /\ "dropStored" \in Steps
      BY DEF Steps
    <3>2. call'.op = call.op
      <4>1. CASE Goto("dropLive") \/ Goto("dropStored")
        BY <1>1, <3>1, <4>1, Found, GotoFields
      <4>2. CASE call' = [call EXCEPT !.at = "dropStored", !.found = TRUE]
        BY <1>1, <3>1, <4>2, Found, FoundFields
      <4>3. QED
        BY <2>5, <4>1, <4>2 DEF Forget, DropLive
    <3>3. QED
      BY <2>1, <3>2
  <2>6. CASE Reset
    BY <2>1, <2>6, BootingFields DEF Reset
  <2>7. CASE ClearStored \/ ClearLive \/ ClearMutes \/ RestoreNext \/ Started
    BY <1>1, <2>1, <2>7, AtStep DEF ClearStored, ClearLive, ClearMutes, RestoreNext, Started
  <2>8. CASE \E m \in Device : Discover(m)
    BY <2>1, <2>8 DEF Discover
  <2>9. CASE \/ CallClear
             \/ \E m \in Device : CallAddPeer(m) \/ CallRemovePeer(m) \/ \E silent \in BOOLEAN : SetMuted(m, silent)
             \/ \E old, new \in Device : CallReplacePeer(old, new)
    BY <2>1, <2>9 DEF CallClear, CallAddPeer, CallRemovePeer, SetMuted, CallReplacePeer, Begin
  <2>10. QED
    BY <1>1, <2>2, <2>3, <2>4, <2>5, <2>6, <2>7, <2>8, <2>9 DEF Next
<1>2. DongleInv /\ [Next]_vars
        => [ReplaceEnds /\ call.wasStored
             => \/ call.new \in ToSet(stored')
                \/ call.mac \in ToSet(stored')
                \/ Len(live) = MaxPeers
                \/ refusals' > 1]_vars
  BY <1>1
<1>3. QED
  BY <1>2, DongleInvHolds, PTL DEF Spec, ReplaceKeepsOne

-----------------------------------------------------------------------------
(***************************************************************************)
(* The conversions, for every legal message.                               *)
(***************************************************************************)
Shorts == {c \in LegalCalls : c.status # SysEx}
TwoByte == {TimeCode, SongSelect}
Bare == RealTime \cup {TuneRequest, ActiveSensing, SystemReset}

IsData(n) == n \in Int /\ 0 <= n /\ n <= 127
IsPosition(n) == n \in Int /\ 0 <= n /\ n <= 16383
IsBend(n) == n \in Int /\ -8192 <= n /\ n <= 8191
IsChannel(n) == n \in Int /\ 1 <= n /\ n <= 16

LEMMA Ranges ==
    /\ \A n \in Data : IsData(n)
    /\ \A n \in Positions : IsPosition(n)
    /\ \A n \in Bends : IsBend(n)
    /\ \A n \in Channels : IsChannel(n)
<1>1. ASSUME NEW n \in Data PROVE IsData(n)
  BY DEF Data, IsData
<1>2. ASSUME NEW n \in Positions PROVE IsPosition(n)
  BY DEF Positions, IsPosition
<1>3. ASSUME NEW n \in Bends PROVE IsBend(n)
  BY DEF Bends, IsBend
<1>4. ASSUME NEW n \in Channels PROVE IsChannel(n)
  BY DEF Channels, IsChannel
<1>5. QED
  BY <1>1, <1>2, <1>3, <1>4

(* A number of 14 bits is its two halves.                                  *)
LEMMA Halves ==
    ASSUME NEW n, IsPosition(n)
    PROVE  IsData(Low(n)) /\ IsData(High(n)) /\ High(n) * 128 + Low(n) = n
<1>1. n \in Int /\ 0 <= n /\ n <= 16383
  BY DEF IsPosition
<1>2. PICK h \in Int, l \in Int : h = n \div 128 /\ l = n % 128
  BY <1>1
<1>3. 0 <= l /\ l <= 127 /\ n = h * 128 + l
  BY <1>1, <1>2
<1>4. 0 <= h /\ h <= 127
  BY <1>1, <1>3
<1>5. h % 128 = h
  BY <1>4
<1>6. Low(n) = l /\ High(n) = h
  BY <1>2, <1>5 DEF Low, High
<1>7. QED
  BY <1>3, <1>4, <1>6 DEF IsData

LEMMA SmallIsLow ==
    ASSUME NEW n, IsData(n)
    PROVE  Low(n) = n /\ n % 128 = n
BY DEF Low, IsData

(* What the kinds are.                                                     *)
LEMMA Kinds ==
    /\ \A s : s \in Voice <=> s = 128 \/ s = 144 \/ s = 160 \/ s = 176 \/ s = 192 \/ s = 208
    /\ \A s : s \in OneByte <=> s = 192 \/ s = 208
    /\ \A s : s \in TwoByte <=> s = 241 \/ s = 243
    /\ \A s : s \in RealTime <=> s = 248 \/ s = 250 \/ s = 251 \/ s = 252
    /\ \A s : s \in Bare <=> s = 246 \/ s = 254 \/ s = 255 \/ s \in RealTime
    /\ \A s : s \in Bridged <=> \/ s \in Voice \/ s \in RealTime
                                \/ s = 224 \/ s = 242 \/ s = 243
    /\ PitchBend = 224 /\ SysEx = 240 /\ SongPosition = 242 /\ SongSelect = 243
BY DEF Voice, OneByte, PitchBend, SysEx, TwoByte, TimeCode, SongSelect, SongPosition, RealTime,
       Bare, Bridged, TuneRequest, ActiveSensing, SystemReset, Clock, NoteOff, NoteOn,
       PolyAftertouch, ControlChange, ProgramChange, Aftertouch

LEMMA LegalRecord ==
    ASSUME NEW c \in LegalCalls
    PROVE  c = [status |-> c.status, channel |-> c.channel, a |-> c.a, b |-> c.b]
BY DEF LegalCalls

(* The fields of a legal message, by its kind.                             *)
LEMMA LegalFields ==
    ASSUME NEW c \in LegalCalls
    PROVE  \/ /\ c.status \in Voice /\ IsChannel(c.channel) /\ IsData(c.a) /\ IsData(c.b)
              /\ c.status \in OneByte => c.b = 0
           \/ /\ c.status = 224 /\ IsChannel(c.channel) /\ IsBend(c.a) /\ c.b = 0
           \/ /\ c.status = 242 /\ c.channel = 0 /\ IsPosition(c.a) /\ c.b = 0
           \/ /\ c.status \in TwoByte /\ c.channel = 0 /\ IsData(c.a) /\ c.b = 0
           \/ /\ c.status \in Bare /\ c.channel = 0 /\ c.a = 0 /\ c.b = 0
           \/ /\ c.status = 240 /\ c.channel = 0 /\ c.a \in {Vendor, Config, Announce} /\ c.b = 0
<1>1. OneByte \subseteq Voice /\ PitchBend = 224 /\ SysEx = 240 /\ SongPosition = 242
  BY Kinds
<1>2. IsData(0)
  BY DEF IsData
<1>3. QED
  BY <1>1, <1>2, Ranges DEF LegalCalls, TwoByte, Bare

(* A midi_message with the data bytes first and second.                    *)
Canonical(c, first, second) ==
    [status |-> c.status, channel |-> c.channel, first |-> first, second |-> second]

First(c) == IF c.status = PitchBend THEN Low(c.a + 8192)
            ELSE IF c.status = SongPosition THEN Low(c.a) ELSE c.a
Second(c) == IF c.status = PitchBend THEN High(c.a + 8192)
             ELSE IF c.status = SongPosition THEN High(c.a) ELSE c.b

LEMMA DataBytes ==
    ASSUME NEW c \in Shorts
    PROVE  /\ IsData(First(c)) /\ IsData(Second(c))
           /\ c.status = PitchBend => Second(c) * 128 + First(c) = c.a + 8192
           /\ c.status = SongPosition => Second(c) * 128 + First(c) = c.a
           /\ c.status \notin {PitchBend, SongPosition} => First(c) = c.a /\ Second(c) = c.b
<1>1. c \in LegalCalls /\ c.status # SysEx
  BY DEF Shorts
<1>2. CASE c.status = PitchBend
  <2>1. IsBend(c.a)
    BY <1>1, <1>2, LegalFields, Kinds
  <2>2. IsPosition(c.a + 8192)
    BY <2>1 DEF IsBend, IsPosition
  <2>3. First(c) = Low(c.a + 8192) /\ Second(c) = High(c.a + 8192) /\ c.status # SongPosition
    BY <1>2, Kinds DEF First, Second
  <2>4. QED
    BY <1>2, <2>2, <2>3, Halves
<1>3. CASE c.status = SongPosition
  <2>1. IsPosition(c.a)
    BY <1>1, <1>3, LegalFields, Kinds
  <2>2. First(c) = Low(c.a) /\ Second(c) = High(c.a) /\ c.status # PitchBend
    BY <1>3, Kinds DEF First, Second
  <2>3. QED
    BY <1>3, <2>1, <2>2, Halves
<1>4. CASE c.status \notin {PitchBend, SongPosition}
  <2>1. First(c) = c.a /\ Second(c) = c.b
    BY <1>4 DEF First, Second
  <2>2. IsData(0)
    BY DEF IsData
  <2>3. IsData(c.a) /\ IsData(c.b)
    BY <1>1, <1>4, <2>2, LegalFields, Kinds
  <2>4. QED
    BY <1>4, <2>1, <2>3
<1>5. QED
  BY <1>2, <1>3, <1>4

(* Every way to make a midi_message makes the same one.                    *)
LEMMA MessageIs ==
    ASSUME NEW c \in Shorts
    PROVE  Message(c, c.a) = Canonical(c, First(c), Second(c))
<1>1. c \in LegalCalls /\ c.status # SysEx
  BY DEF Shorts
<1>2. CASE c.status \in Voice
  <2>1. Message(c, c.a) = VoiceMessage(c)
    BY <1>2, Kinds DEF Message
  <2>2. c.status \in OneByte => c.b = 0
    BY <1>1, LegalFields, Kinds
  <2>3. c.status \notin {PitchBend, SongPosition}
    BY <1>2, Kinds
  <2>4. First(c) = c.a /\ Second(c) = c.b
    BY <2>3 DEF First, Second
  <2>5. QED
    BY <2>1, <2>2, <2>4 DEF VoiceMessage, Canonical
<1>3. CASE c.status = PitchBend
  <2>1. Message(c, c.a) = BendMessage(c.channel, c.a + 8192)
    BY <1>3, Kinds DEF Message
  <2>2. QED
    BY <1>3, <2>1, Kinds DEF BendMessage, Canonical, First, Second
<1>4. CASE c.status \notin Voice \cup {PitchBend}
  <2>1. Message(c, c.a) = SystemMessage(c)
    BY <1>4 DEF Message
  <2>2. c.channel = 0
    BY <1>1, <1>4, LegalFields, Kinds
  <2>3. IsData(0)
    BY DEF IsData
  <2>4. c.status # SongPosition => Low(c.a) = c.a /\ c.b = 0
    BY <1>1, <1>4, <2>3, LegalFields, SmallIsLow, Kinds
  <2>5. First(c) = Low(c.a) /\ Second(c) = IF c.status = SongPosition THEN High(c.a) ELSE 0
    BY <1>4, <2>4 DEF First, Second
  <2>6. QED
    BY <2>1, <2>2, <2>5 DEF SystemMessage, Canonical
<1>5. QED
  BY <1>2, <1>3, <1>4

LEMMA BendIsFree ==
    ASSUME NEW c \in Shorts, NEW n
    PROVE  c.status # PitchBend => Message(c, n) = Message(c, c.a)
BY DEF Message

LEMMA SameMessage ==
    ASSUME NEW c \in Shorts
    PROVE  /\ CoreMessage(c) = Canonical(c, First(c), Second(c))
           /\ DongleMessage(c) = CoreMessage(c) /\ FromHostMessage(c) = CoreMessage(c)
           /\ ClientUsbMessage(c) = CoreMessage(c) /\ PinMessage(c) = CoreMessage(c)
<1>1. c.status = PitchBend => Clamped(c.a) = c.a
  <2>1. c.status = PitchBend => IsBend(c.a)
    BY LegalFields, Kinds DEF Shorts
  <2>2. QED
    BY <2>1 DEF Clamped, IsBend
<1>2. Message(c, Clamped(c.a)) = Message(c, c.a)
  BY <1>1, BendIsFree
<1>3. QED
  BY <1>2, MessageIs
       DEF CoreMessage, DongleMessage, FromHostMessage, ClientUsbMessage, PinMessage

(* A handler is given what was sent.                                       *)
LEMMA ArgumentsAreCall ==
    ASSUME NEW c \in Shorts
    PROVE  Arguments(CoreMessage(c)) = c
<1> DEFINE m == CoreMessage(c)
           x == Arguments(m)
           value == m.second * 128 + m.first
<1>1. m.status = c.status /\ m.channel = c.channel /\ m.first = First(c) /\ m.second = Second(c)
  BY SameMessage DEF Canonical
<1>2. x = [status |-> m.status, channel |-> m.channel,
           a |-> CASE m.status = PitchBend -> value - 8192
                   [] m.status = SongPosition -> value
                   [] OTHER -> m.first,
           b |-> IF m.status \in Voice \ OneByte THEN m.second ELSE 0]
  BY DEF Arguments
<1>3. c \in LegalCalls
  BY DEF Shorts
<1> HIDE DEF m, x
<1>4. x.a = c.a
  <2>1. CASE c.status = PitchBend
    <3>1. x.a = value - 8192
      BY <1>1, <1>2, <2>1, Kinds
    <3>2. IsBend(c.a)
      BY <1>3, <2>1, LegalFields, Kinds
    <3>3. value = c.a + 8192 /\ c.a \in Int
      BY <1>1, <2>1, <3>2, DataBytes DEF IsBend
    <3> HIDE DEF value
    <3>4. QED
      BY <3>1, <3>3
  <2>2. CASE c.status = SongPosition
    <3>1. x.a = value
      BY <1>1, <1>2, <2>2, Kinds
    <3>2. value = c.a
      BY <1>1, <2>2, DataBytes
    <3>3. QED
      BY <3>1, <3>2
  <2>3. CASE c.status \notin {PitchBend, SongPosition}
    <3>1. x.a = m.first
      BY <1>1, <1>2, <2>3
    <3>2. QED
      BY <1>1, <2>3, <3>1, DataBytes
  <2>4. QED
    BY <2>1, <2>2, <2>3
<1>5. x.b = c.b
  <2>1. CASE c.status \in Voice \ OneByte
    <3>1. x.b = m.second /\ c.status \notin {PitchBend, SongPosition}
      BY <1>1, <1>2, <2>1, Kinds
    <3>2. QED
      BY <1>1, <3>1, DataBytes
  <2>2. CASE c.status \notin Voice \ OneByte
    <3>1. x.b = 0
      BY <1>1, <1>2, <2>2
    <3>2. c.b = 0
      BY <1>3, <2>2, LegalFields, Kinds
    <3>3. QED
      BY <3>1, <3>2
  <2>3. QED
    BY <2>1, <2>2
<1>6. x = [status |-> c.status, channel |-> c.channel, a |-> c.a, b |-> c.b]
  BY <1>1, <1>2, <1>4, <1>5
<1>7. QED
  BY <1>3, <1>6, LegalRecord DEF x, m
------------------------------------------------------------------------------
(* The status byte carries status and channel.                             *)
LEMMA StatusBytes ==
    ASSUME NEW c \in Shorts, NEW m, m.status = c.status, m.channel = c.channel
    PROVE  LET s == StatusByte(m)
           IN  /\ s \in Int /\ 128 <= s /\ s # SysEx /\ StatusOf(s) = c.status
               /\ (IF s >= 240 THEN 0 ELSE (s % 16) + 1) = c.channel
               /\ c.status < 240 => (s % 16) + 1 = c.channel
<1> DEFINE s == StatusByte(m)
<1>1. c \in LegalCalls /\ c.status # SysEx
  BY DEF Shorts
<1>2. CASE c.status \in Voice \cup {PitchBend}
  <2>1. /\ c.status \in {128, 144, 160, 176, 192, 208, 224}
        /\ c.channel \in Int /\ 1 <= c.channel /\ c.channel <= 16
    BY <1>1, <1>2, LegalFields, Kinds DEF IsChannel
  <2>2. s = c.status + ((c.channel - 1) % 16)
    BY <2>1 DEF StatusByte
  <2>3. (c.channel - 1) % 16 = c.channel - 1
    BY <2>1
  <2>4. s = c.status + (c.channel - 1)
    BY <2>2, <2>3
  <2> HIDE DEF s
  <2>5. PICK d \in Int : d = c.channel - 1 /\ 0 <= d /\ d <= 15 /\ s = c.status + d
    BY <2>1, <2>4
  <2>6. s \in Int /\ 128 <= s /\ s <= 239 /\ s # SysEx
    BY <2>1, <2>5, Kinds
  <2>7. s % 16 = d
    BY <2>1, <2>5
  <2>8. StatusOf(s) = c.status
    BY <2>1, <2>5, <2>6, <2>7 DEF StatusOf
  <2>9. (s % 16) + 1 = c.channel
    BY <2>1, <2>5, <2>7
  <2>10. QED
    BY <2>6, <2>8, <2>9 DEF s
<1>3. CASE c.status \notin Voice \cup {PitchBend}
  <2>1. c.status \in Int /\ 240 <= c.status /\ c.channel = 0
    BY <1>1, <1>3, LegalFields, Kinds
  <2>2. s = c.status
    BY <2>1 DEF StatusByte
  <2>3. QED
    BY <1>1, <2>1, <2>2 DEF StatusOf
<1>4. QED
  BY <1>2, <1>3

(* The bytes that fromMessage() makes of any short message are no SysEx,   *)
(* pass the receive callback's test of a MIDI packet, and give the message *)
(* again in toMessage().                                                   *)
THEOREM BytesKeepMessage ==
    ASSUME NEW c \in Shorts
    PROVE  LET bytes == FromMessage(CoreMessage(c))
           IN  bytes[1] # SysEx /\ IsMidiPacket(bytes) /\ ToMessage(bytes) = CoreMessage(c)
<1> DEFINE m == CoreMessage(c)
           s == StatusByte(m)
           k == DataSize(c.status)
           t == <<s, m.first, m.second>>
           bytes == FromMessage(m)
<1>1. /\ m = [status |-> c.status, channel |-> c.channel, first |-> First(c), second |-> Second(c)]
      /\ IsData(m.first) /\ IsData(m.second)
  BY SameMessage, DataBytes DEF Canonical
<1>2. /\ s \in Int /\ 128 <= s /\ s # SysEx /\ StatusOf(s) = c.status
      /\ (IF s >= 240 THEN 0 ELSE (s % 16) + 1) = c.channel
  BY <1>1, StatusBytes
<1>3. /\ k \in 1..3
      /\ k < 3 => m.second = 0
      /\ k < 2 => m.first = 0
  <2>1. c \in LegalCalls /\ c.status # SysEx
    BY DEF Shorts
  <2>2. k \in 1..3
    BY DEF DataSize
  <2>3. k < 3 => c.status \in OneByte \cup TwoByte \cup Bare
    BY DEF DataSize, TwoByte, Bare
  <2>4. k < 2 => c.status \in Bare
    BY DEF DataSize, Bare
  <2>5. c.status \in OneByte \cup TwoByte \cup Bare => c.b = 0 /\ c.status \notin {PitchBend, SongPosition}
    BY <2>1, LegalFields, Kinds
  <2>6. c.status \in Bare => c.a = 0 /\ c.status \notin {PitchBend, SongPosition}
    BY <2>1, LegalFields, Kinds
  <2>7. QED
    BY <1>1, <2>2, <2>3, <2>4, <2>5, <2>6, DataBytes
<1> HIDE DEF m
<1>4. bytes = SubSeq(t, 1, k)
  <2>1. m.status = c.status
    BY <1>1
  <2>2. QED
    BY <2>1 DEF FromMessage
<1> HIDE DEF s, k, bytes
<1>5. t \in Seq(Int) /\ Len(t) = 3 /\ t[1] = s /\ t[2] = m.first /\ t[3] = m.second
  BY <1>1, <1>2 DEF IsData
<1> HIDE DEF t
<1>6. Len(bytes) = k /\ \A i \in 1..k : bytes[i] = t[i]
  BY <1>3, <1>4, <1>5, SubSeqProperties
<1>7. bytes[1] = s
  BY <1>3, <1>5, <1>6
<1>8. IsMidiPacket(bytes)
  <2>1. DataSize(StatusOf(bytes[1])) = Len(bytes)
    BY <1>2, <1>6, <1>7 DEF k
  <2>2. \A i \in 2..Len(bytes) : bytes[i] < 128
    <3>1. t[2] < 128 /\ t[3] < 128
      BY <1>1, <1>5 DEF IsData
    <3>2. QED
      BY <1>3, <1>6, <3>1
  <2>3. QED
    BY <1>2, <1>7, <2>1, <2>2 DEF IsMidiPacket
<1>9. ToMessage(bytes) = m
  <2>1. (IF 2 <= Len(bytes) THEN bytes[2] ELSE 0) = m.first
    BY <1>3, <1>5, <1>6
  <2>2. (IF 3 <= Len(bytes) THEN bytes[3] ELSE 0) = m.second
    BY <1>3, <1>5, <1>6
  <2>3. ToMessage(bytes) = [status |-> c.status, channel |-> c.channel,
                            first |-> m.first, second |-> m.second]
    BY <1>2, <1>7, <2>1, <2>2 DEF ToMessage
  <2>4. QED
    BY <1>1, <2>3
<1>10. QED
  BY <1>2, <1>7, <1>8, <1>9 DEF m, bytes

(* What toUsbMidiPacket() makes of any message that crosses USB is no      *)
(* SysEx packet, and dispatchPacket() calls the handler with what was      *)
(* sent.                                                                   *)
THEOREM PacketsKeepCall ==
    ASSUME NEW c \in Shorts, c.status \in Bridged
    PROVE  LET packet == ToUsbMidiPacket(CoreMessage(c))
           IN  packet[1] # 4 /\ DispatchPacket(packet) = c
<1> DEFINE m == CoreMessage(c)
           packet == ToUsbMidiPacket(m)
           s == StatusByte(m)
<1>1. /\ m.status = c.status /\ m.channel = c.channel /\ m.first = First(c) /\ m.second = Second(c)
      /\ m.first % 128 = First(c) /\ m.second % 128 = Second(c)
  BY SameMessage, DataBytes, SmallIsLow DEF Canonical
<1>2. /\ StatusOf(s) = c.status
      /\ c.status < 240 => (s % 16) + 1 = c.channel
  BY <1>1, StatusBytes
<1>3. c \in LegalCalls /\ c.status # SysEx
  BY DEF Shorts
<1>4. c = [status |-> c.status, channel |-> c.channel, a |-> c.a, b |-> c.b]
  BY <1>3, LegalRecord
<1> HIDE DEF m, s
<1>5. CASE c.status \in Voice
  <2>1. packet = <<c.status \div 16, s, First(c), IF c.status \in OneByte THEN 0 ELSE Second(c)>>
    BY <1>1, <1>5, Kinds DEF ToUsbMidiPacket, s
  <2>2. /\ c.status \in OneByte => c.status \div 16 \in {12, 13}
        /\ c.status \notin OneByte => c.status \div 16 \in {8, 9, 10, 11}
        /\ c.status \notin {SongPosition, SongSelect}
    BY <1>5, Kinds
  <2>3. /\ First(c) = c.a /\ Second(c) = c.b /\ (c.status \in OneByte => c.b = 0)
        /\ (s % 16) + 1 = c.channel
    BY <1>2, <1>3, <1>5, DataBytes, LegalFields, Kinds
  <2> HIDE DEF packet
  <2>4. packet[1] = c.status \div 16 /\ packet[2] = s /\ packet[3] = c.a /\ packet[4] = c.b
    BY <2>1, <2>3
  <2>5. DispatchPacket(packet) = [status |-> c.status, channel |-> c.channel, a |-> c.a, b |-> c.b]
    <3>1. CASE c.status \in OneByte
      BY <1>2, <2>2, <2>3, <2>4, <3>1 DEF DispatchPacket
    <3>2. CASE c.status \notin OneByte
      BY <1>2, <2>2, <2>3, <2>4, <3>2 DEF DispatchPacket
    <3>3. QED
      BY <3>1, <3>2
  <2>6. QED
    BY <1>4, <2>2, <2>4, <2>5 DEF packet, m
<1>6. CASE c.status = PitchBend
  <2>1. packet = <<14, s, First(c), Second(c)>>
    BY <1>1, <1>6, Kinds DEF ToUsbMidiPacket, s
  <2>2. /\ Second(c) * 128 + First(c) = c.a + 8192 /\ c.b = 0 /\ IsBend(c.a)
        /\ IsData(First(c)) /\ IsData(Second(c))
        /\ (s % 16) + 1 = c.channel
    BY <1>2, <1>3, <1>6, DataBytes, LegalFields, Kinds
  <2> HIDE DEF packet
  <2>3. /\ packet[1] = 14 /\ packet[2] = s /\ packet[3] \in Int /\ packet[4] \in Int
        /\ packet[4] * 128 + packet[3] - 8192 = c.a
    BY <2>1, <2>2 DEF IsBend, IsData
  <2>4. DispatchPacket(packet) = [status |-> c.status, channel |-> c.channel, a |-> c.a, b |-> c.b]
    BY <1>2, <1>6, <2>2, <2>3, Kinds DEF DispatchPacket
  <2>5. QED
    BY <1>4, <2>3, <2>4 DEF packet, m
<1>7. CASE c.status = SongPosition
  <2>1. packet = <<3, c.status, First(c), Second(c)>>
    BY <1>1, <1>7, Kinds DEF ToUsbMidiPacket
  <2>2. Second(c) * 128 + First(c) = c.a /\ c.b = 0 /\ c.channel = 0
    BY <1>3, <1>7, DataBytes, LegalFields, Kinds
  <2>3. StatusOf(c.status) = SongPosition
    BY <1>7, Kinds DEF StatusOf
  <2> HIDE DEF packet
  <2>4. packet[1] = 3 /\ packet[2] = c.status /\ packet[4] * 128 + packet[3] = c.a
    BY <2>1, <2>2
  <2>5. DispatchPacket(packet) = [status |-> c.status, channel |-> c.channel, a |-> c.a, b |-> c.b]
    BY <1>7, <2>2, <2>3, <2>4, Kinds DEF DispatchPacket
  <2>6. QED
    BY <1>4, <2>4, <2>5 DEF packet, m
<1>8. CASE c.status = SongSelect
  <2>1. packet = <<2, c.status, First(c), 0>>
    BY <1>1, <1>8, Kinds DEF ToUsbMidiPacket
  <2>2. First(c) = c.a /\ c.b = 0 /\ c.channel = 0
    BY <1>3, <1>8, DataBytes, LegalFields, Kinds
  <2>3. StatusOf(c.status) = SongSelect /\ SongSelect # SongPosition
    BY <1>8, Kinds DEF StatusOf
  <2> HIDE DEF packet
  <2>4. packet[1] = 2 /\ packet[2] = c.status /\ packet[3] = c.a
    BY <2>1, <2>2
  <2>5. DispatchPacket(packet) = [status |-> c.status, channel |-> c.channel, a |-> c.a, b |-> c.b]
    BY <1>8, <2>2, <2>3, <2>4 DEF DispatchPacket
  <2>6. QED
    BY <1>4, <2>4, <2>5 DEF packet, m
<1>9. CASE c.status \in RealTime
  <2>1. packet = <<15, c.status, 0, 0>>
    BY <1>1, <1>9, Kinds DEF ToUsbMidiPacket
  <2>2. c.a = 0 /\ c.b = 0 /\ c.channel = 0
    BY <1>3, <1>9, LegalFields, Kinds
  <2>3. StatusOf(c.status) = c.status /\ c.status \notin {SongSelect, SongPosition}
    BY <1>9, Kinds DEF StatusOf
  <2> HIDE DEF packet
  <2>4. packet[1] = 15 /\ packet[2] = c.status
    BY <2>1
  <2>5. DispatchPacket(packet) = [status |-> c.status, channel |-> c.channel, a |-> c.a, b |-> c.b]
    BY <2>2, <2>3, <2>4 DEF DispatchPacket
  <2>6. QED
    BY <1>4, <2>4, <2>5 DEF packet, m
<1>10. QED
  BY <1>5, <1>6, <1>7, <1>8, <1>9 DEF Bridged
------------------------------------------------------------------------------
(***************************************************************************)
(* The invariant.  Everything in transit belongs to a message that was     *)
(* sent, and carries what its conversions make of it (Contents); and each  *)
(* message is, for every end it belongs to, at exactly one place on the    *)
(* way there (Routed).                                                     *)
(***************************************************************************)
Known == 1..Len(sent)
Hosts == {"daw", "clientHost"}
Own == {"client", "pin", "echo"}
Froms == Plain \cup Hosts \cup Own \cup {"dongle"}
Entries == [from : Froms, call : LegalCalls, depth : Nat]
RadioOf(from) == IF from \in Own THEN "client" ELSE IF from = "daw" THEN "dongle" ELSE from

(* What each source can send.                                              *)
Allowed(m) ==
    LET bridged == m.call.status \in Bridged
        sysex(contents) == m.call.status = SysEx /\ m.call.a \in contents
    IN  IF m.from \in Own THEN bridged \/ sysex({Vendor, Announce})
        ELSE IF m.from = "dongle" THEN bridged
        ELSE IF m.from \in Hosts THEN bridged \/ sysex({Vendor, Config})
        ELSE m.call.status # SysEx \/ sysex({Vendor})

IsKnown(m) == m.call.status \in Bridged \/ m.call = SysExCall(Vendor)

(* The stations to which a message goes through the air.                   *)
Targets(m) ==
    IF m.from = "clientHost" \/ m.call = SysExCall(Config) THEN {}
    ELSE IF m.from \in {"daw", "dongle"}
         THEN IF m.call.status = SysEx THEN Radios \ {"dongle"} ELSE Unmuted
         ELSE Radios \ {RadioOf(m.from)}

HostPacket(c) ==
    IF c.status = SysEx THEN <<4, SysEx, c.a>> ELSE ToUsbMidiPacket(CoreMessage(c))

Dest(e) == {n \in Known : e \in Addressed(sent[n])}

OutItems(h) == {[id |-> n, packet |-> HostPacket(sent[n].call)] :
                    n \in {k \in Known : sent[k].from = h}}
InItems(s) == {[id |-> n, msg |-> CoreMessage(sent[n].call), from |-> RadioOf(sent[n].from)] :
                    n \in {k \in Known : s \in Targets(sent[k]) /\ sent[k].call.status # SysEx}}
SysItems(s) == {[id |-> n, a |-> sent[n].call.a, from |-> RadioOf(sent[n].from)] :
                    n \in {k \in Known : /\ s \in Targets(sent[k])
                                         /\ sent[k].call = SysExCall(Vendor)}}
DawItems == {[id |-> n, packet |-> HostPacket(sent[n].call)] : n \in Dest("daw")}
HeardItems(e) == {[id |-> n, call |-> sent[n].call] : n \in Dest(e)}
Runs == {[id |-> n, call |-> sent[n].call, depth |-> d] : n \in Dest("client"), d \in {0, 1}}

IsFlight(f) ==
    /\ f.id \in Known /\ f.to \in Targets(sent[f.id])
    /\ f = [from |-> RadioOf(sent[f.id].from), to |-> f.to, id |-> f.id,
            bytes |-> Transport(sent[f.id].call)]

IdsOf(s) == {s[i].id : i \in DOMAIN s}
Distinct(s) == \A i, j \in DOMAIN s : s[i].id = s[j].id => i = j
Lists(S) == {s \in Seq(S) : Distinct(s)}

Boxes == {"dongle", "client"}

SentOK ==
    /\ muted \subseteq Mutable /\ loopback \in BOOLEAN
    /\ sent \in Seq(Entries) /\ \A n \in Known : Allowed(sent[n])
OutOK == DOMAIN hostOut = Hosts /\ \A h \in Hosts : hostOut[h] \in Lists(OutItems(h))
AirOK == \A f \in air : IsFlight(f)
InOK == DOMAIN inbox = Boxes /\ \A s \in Boxes : inbox[s] \in Lists(InItems(s))
SysOK == DOMAIN sysexInbox = Boxes /\ \A s \in Boxes : sysexInbox[s] \in Lists(SysItems(s))
DawOK == toDaw \in Lists(DawItems)
RunOK == running = NotRunning \/ running \in Runs
HeardOK == DOMAIN heard = Ends /\ \A e \in Ends : heard[e] \in Lists(HeardItems(e))

Contents == SentOK /\ OutOK /\ AirOK /\ InOK /\ SysOK /\ DawOK /\ RunOK /\ HeardOK

(* The messages at each place.                                             *)
Out(h) == IdsOf(hostOut[h])
Air(x) == {f.id : f \in {g \in air : g.to = x}}
In(s) == IdsOf(inbox[s])
Sys(s) == IdsOf(sysexInbox[s])
Daw == IdsOf(toDaw)
Run == IF running = NotRunning THEN {} ELSE {running.id}
Heard(e) == IdsOf(heard[e])

(* The ways to the ends: a message is at no two places of a way, and at    *)
(* one of them if it belongs to the end.                                   *)
ClientWay(n) ==
    /\ n \in Heard("client") =>
          /\ n \notin Run /\ n \notin In("client") /\ n \notin Sys("client")
          /\ n \notin Air("client") /\ n \notin Out("daw") /\ n \notin Out("clientHost")
    /\ n \in Run =>
          /\ n \notin In("client") /\ n \notin Sys("client")
          /\ n \notin Air("client") /\ n \notin Out("daw") /\ n \notin Out("clientHost")
    /\ n \in In("client") =>
          /\ n \notin Sys("client")
          /\ n \notin Air("client") /\ n \notin Out("daw") /\ n \notin Out("clientHost")
    /\ n \in Sys("client") =>
          n \notin Air("client") /\ n \notin Out("daw") /\ n \notin Out("clientHost")
    /\ n \in Air("client") => n \notin Out("daw") /\ n \notin Out("clientHost")
    /\ n \in Out("clientHost") => n \notin Out("daw")
    /\ n \in Dest("client") =>
          \/ n \in Heard("client") \/ n \in Run \/ n \in In("client") \/ n \in Sys("client")
          \/ n \in Air("client") \/ n \in Out("daw") \/ n \in Out("clientHost")

DawWay(n) ==
    /\ n \in Heard("daw") =>
          n \notin Daw /\ n \notin In("dongle") /\ n \notin Sys("dongle") /\ n \notin Air("dongle")
    /\ n \in Daw => n \notin In("dongle") /\ n \notin Sys("dongle") /\ n \notin Air("dongle")
    /\ n \in In("dongle") => n \notin Sys("dongle") /\ n \notin Air("dongle")
    /\ n \in Sys("dongle") => n \notin Air("dongle")
    /\ n \in Dest("daw") =>
          \/ n \in Heard("daw") \/ n \in Daw \/ n \in In("dongle") \/ n \in Sys("dongle")
          \/ n \in Air("dongle")

PlainWay(n, p) ==
    /\ n \in Heard(p) => n \notin Air(p) /\ n \notin Out("daw")
    /\ n \in Air(p) => n \notin Out("daw")
    /\ n \in Dest(p) => n \in Heard(p) \/ n \in Air(p) \/ n \in Out("daw")

UsbWays(n) ==
    /\ n \in Dest("clientHost") => n \in Heard("clientHost")
    /\ n \in Heard("dongleConfig") => n \notin Out("daw")
    /\ n \in Dest("dongleConfig") => n \in Heard("dongleConfig") \/ n \in Out("daw")
    /\ n \in Heard("clientConfig") => n \notin Out("clientHost")
    /\ n \in Dest("clientConfig") => n \in Heard("clientConfig") \/ n \in Out("clientHost")
    /\ n \in Heard("directory") => n \notin Air("dongle")
    /\ n \in Dest("directory") => n \in Heard("directory") \/ n \in Air("dongle")

OnWay(n) == ClientWay(n) /\ DawWay(n) /\ UsbWays(n) /\ \A p \in Plain : PlainWay(n, p)

Routed == \A n \in Known : OnWay(n)

(* How many messages there are.                                            *)
Counted ==
    /\ IsFiniteSet(Echoes)
    /\ Cardinality(Echoes) <= MaxEchoes /\ Len(sent) <= MaxSends + Cardinality(Echoes)

RoutesInv == Contents /\ Routed /\ Counted

------------------------------------------------------------------------------
(* Lists of messages that are told apart by their numbers.                 *)
LEMMA EmptyList ==
    ASSUME NEW S
    PROVE  <<>> \in Lists(S) /\ IdsOf(<<>>) = {}
BY DEF Lists, Distinct, IdsOf

LEMMA ListGrows ==
    ASSUME NEW S, NEW s \in Lists(S), NEW x \in S, x.id \notin IdsOf(s)
    PROVE  Append(s, x) \in Lists(S) /\ IdsOf(Append(s, x)) = IdsOf(s) \cup {x.id}
<1> DEFINE t == Append(s, x)
<1>1. s \in Seq(S) /\ Distinct(s)
  BY DEF Lists
<1>2. /\ t \in Seq(S) /\ Len(t) = Len(s) + 1 /\ Len(s) \in Nat
      /\ \A i \in 1..Len(s) : t[i] = s[i]
      /\ t[Len(s) + 1] = x
      /\ DOMAIN t = 1..Len(t) /\ DOMAIN s = 1..Len(s)
  BY <1>1, AppendProperties, LenProperties
<1> HIDE DEF t
<1>3. \A i \in DOMAIN s : s[i].id # x.id
  BY DEF IdsOf
<1>4. Distinct(t)
  <2> SUFFICES ASSUME NEW i \in DOMAIN t, NEW j \in DOMAIN t, t[i].id = t[j].id PROVE i = j
    BY DEF Distinct
  <2>1. i \in DOMAIN s \/ i = Len(s) + 1
    BY <1>2
  <2>2. j \in DOMAIN s \/ j = Len(s) + 1
    BY <1>2
  <2>3. CASE i \in DOMAIN s /\ j \in DOMAIN s
    BY <1>1, <1>2, <2>3 DEF Distinct
  <2>4. QED
    BY <1>2, <1>3, <2>1, <2>2, <2>3
<1>5. IdsOf(t) = IdsOf(s) \cup {x.id}
  <2>1. \A i \in DOMAIN t : t[i].id = x.id \/ (i \in DOMAIN s /\ t[i].id = s[i].id)
    BY <1>2
  <2>2. \A i \in DOMAIN s : i \in DOMAIN t /\ t[i].id = s[i].id
    BY <1>2
  <2>3. Len(s) + 1 \in DOMAIN t /\ t[Len(s) + 1].id = x.id
    BY <1>2
  <2>4. QED
    BY <2>1, <2>2, <2>3 DEF IdsOf
<1>6. QED
  BY <1>2, <1>4, <1>5 DEF Lists, t

LEMMA ListShrinks ==
    ASSUME NEW S, NEW s \in Lists(S), s # <<>>
    PROVE  /\ Head(s) \in S /\ Head(s).id \in IdsOf(s)
           /\ Tail(s) \in Lists(S) /\ IdsOf(Tail(s)) = IdsOf(s) \ {Head(s).id}
<1> DEFINE t == Tail(s)
<1>1. s \in Seq(S) /\ Distinct(s)
  BY DEF Lists
<1>2. /\ Head(s) = s[1] /\ Len(s) \in Nat /\ Len(s) > 0
      /\ t \in Seq(S) /\ Len(t) = Len(s) - 1 /\ \A i \in 1..Len(t) : t[i] = s[i + 1]
      /\ DOMAIN t = 1..Len(t) /\ DOMAIN s = 1..Len(s)
  BY <1>1, HeadTailProperties, LenProperties, EmptySeq
<1>3. s[1] \in S /\ 1 \in DOMAIN s
  BY <1>1, <1>2, ElementOfSeq
<1> HIDE DEF t
<1>4. \A i \in DOMAIN t : i + 1 \in DOMAIN s /\ t[i] = s[i + 1] /\ i + 1 # 1
  BY <1>2
<1>5. Distinct(t)
  <2> SUFFICES ASSUME NEW i \in DOMAIN t, NEW j \in DOMAIN t, t[i].id = t[j].id PROVE i = j
    BY DEF Distinct
  <2>1. s[i + 1].id = s[j + 1].id /\ i + 1 \in DOMAIN s /\ j + 1 \in DOMAIN s
    BY <1>4
  <2>2. i + 1 = j + 1
    BY <1>1, <2>1 DEF Distinct
  <2>3. QED
    BY <1>2, <2>2
<1>6. IdsOf(t) = IdsOf(s) \ {s[1].id}
  <2>1. \A i \in DOMAIN t : t[i].id \in IdsOf(s) /\ t[i].id # s[1].id
    BY <1>1, <1>3, <1>4 DEF IdsOf, Distinct
  <2>2. ASSUME NEW i \in DOMAIN s, s[i].id # s[1].id PROVE s[i].id \in IdsOf(t)
    <3>1. i # 1
      BY <2>2
    <3>2. i - 1 \in DOMAIN t /\ t[i - 1] = s[i]
      BY <1>2, <3>1
    <3>3. QED
      BY <3>2 DEF IdsOf
  <2>3. QED
    BY <2>1, <2>2 DEF IdsOf
<1>7. QED
  BY <1>2, <1>3, <1>5, <1>6 DEF Lists, IdsOf, t

LEMMA ListsGrow ==
    ASSUME NEW S, NEW T, S \subseteq T
    PROVE  Lists(S) \subseteq Lists(T)
<1>1. ASSUME NEW s \in Seq(S) PROVE s \in Seq(T)
  <2>1. Len(s) \in Nat /\ s \in [1..Len(s) -> S]
    BY <1>1
  <2>2. s \in [1..Len(s) -> T]
    BY <2>1
  <2>3. QED
    BY <2>1, <2>2, SeqDef
<1>2. QED
  BY <1>1 DEF Lists

LEMMA IdsAreOf ==
    ASSUME NEW S, NEW s \in Lists(S), NEW n \in IdsOf(s)
    PROVE  \E x \in S : x.id = n
<1>1. s \in Seq(S)
  BY DEF Lists
<1>2. PICK i \in DOMAIN s : n = s[i].id
  BY DEF IdsOf
<1>3. s[i] \in S
  BY <1>1, <1>2
<1>4. QED
  BY <1>2, <1>3

------------------------------------------------------------------------------
(* The log of what was sent only grows, and what it holds keeps its        *)
(* meaning: nothing changes loopback or the muted peers.                   *)
Grows ==
    /\ loopback' = loopback /\ muted' = muted /\ SentOK'
    /\ Known \subseteq Known' /\ \A n \in Known : sent'[n] = sent[n]

LEMMA SentStays ==
    ASSUME SentOK, UNCHANGED <<loopback, muted, sent>>
    PROVE  Grows /\ Known' = Known
BY DEF Grows, SentOK, Known

LEMMA SentGrows ==
    ASSUME SentOK, UNCHANGED <<loopback, muted>>,
           NEW m \in Entries, Allowed(m), sent' = Append(sent, m)
    PROVE  /\ Grows /\ Known' = Known \cup {Id} /\ Id \notin Known /\ Id \in Nat
           /\ sent'[Id] = m /\ Len(sent') = Id
<1>1. sent \in Seq(Entries) /\ Len(sent) \in Nat
  BY DEF SentOK
<1>2. /\ sent' \in Seq(Entries) /\ Len(sent') = Id
      /\ \A i \in 1..Len(sent) : sent'[i] = sent[i]
      /\ sent'[Id] = m
  BY <1>1, AppendProperties DEF Id
<1>3. Known' = Known \cup {Id} /\ Id \notin Known /\ Id \in Nat
  BY <1>1, <1>2 DEF Known, Id
<1>4. \A n \in Known : sent'[n] = sent[n]
  BY <1>2 DEF Known
<1>5. \A n \in Known' : Allowed(sent'[n])
  BY <1>2, <1>3, <1>4 DEF SentOK
<1>6. SentOK'
  BY <1>2, <1>5 DEF SentOK
<1>7. QED
  BY <1>2, <1>3, <1>4, <1>6 DEF Grows

LEMMA AlwaysSame ==
    ASSUME Grows
    PROVE  \A m : Addressed(m)' = Addressed(m) /\ Targets(m)' = Targets(m)
BY DEF Grows, Addressed, Targets, Unmuted

LEMMA DestStays ==
    ASSUME Grows, NEW n \in Known
    PROVE  /\ n \in Known' /\ sent'[n] = sent[n]
           /\ \A e : n \in Dest(e)' <=> n \in Dest(e)
<1>1. n \in Known' /\ sent'[n] = sent[n]
  BY DEF Grows
<1>2. \A e : e \in Addressed(sent[n])' <=> e \in Addressed(sent[n])
  BY <1>1, AlwaysSame DEF Grows, Addressed
<1>3. QED
  BY <1>1, <1>2 DEF Dest

LEMMA ItemsGrow ==
    ASSUME Grows
    PROVE  /\ \A h : OutItems(h) \subseteq OutItems(h)'
           /\ \A s : InItems(s) \subseteq InItems(s)' /\ SysItems(s) \subseteq SysItems(s)'
           /\ DawItems \subseteq DawItems' /\ Runs \subseteq Runs'
           /\ \A e : HeardItems(e) \subseteq HeardItems(e)'
           /\ \A f : IsFlight(f) => IsFlight(f)'
<1>1. \A n \in Known : n \in Known' /\ sent'[n] = sent[n] /\ \A e : n \in Dest(e) => n \in Dest(e)'
  BY DestStays
<1>2. \A m : Targets(m)' = Targets(m)
  BY AlwaysSame
<1>3. ASSUME NEW h PROVE OutItems(h) \subseteq OutItems(h)'
  BY <1>1 DEF OutItems
<1>4. ASSUME NEW s PROVE InItems(s) \subseteq InItems(s)' /\ SysItems(s) \subseteq SysItems(s)'
  <2>1. InItems(s) \subseteq InItems(s)'
    BY <1>1, <1>2 DEF InItems
  <2>2. SysItems(s) \subseteq SysItems(s)'
    BY <1>1, <1>2 DEF SysItems
  <2>3. QED
    BY <2>1, <2>2
<1>5. \A e : \A n \in Dest(e) : n \in Known
  BY DEF Dest
<1>6. DawItems \subseteq DawItems'
  BY <1>1, <1>5 DEF DawItems
<1>7. Runs \subseteq Runs'
  BY <1>1, <1>5 DEF Runs
<1>8. ASSUME NEW e PROVE HeardItems(e) \subseteq HeardItems(e)'
  BY <1>1, <1>5 DEF HeardItems
<1>9. ASSUME NEW f, IsFlight(f) PROVE IsFlight(f)'
  BY <1>1, <1>2, <1>9 DEF IsFlight
<1>10. QED
  BY <1>3, <1>4, <1>6, <1>7, <1>8, <1>9

------------------------------------------------------------------------------
(* What a variable that does not change holds stays right, and in place.   *)
LEMMA Untouched ==
    ASSUME Contents, Grows
    PROVE  /\ hostOut' = hostOut => OutOK' /\ \A h \in Hosts : Out(h)' = Out(h)
           /\ air' = air => AirOK' /\ \A x \in Radios : Air(x)' = Air(x)
           /\ inbox' = inbox => InOK' /\ \A s \in Boxes : In(s)' = In(s)
           /\ sysexInbox' = sysexInbox => SysOK' /\ \A s \in Boxes : Sys(s)' = Sys(s)
           /\ toDaw' = toDaw => DawOK' /\ Daw' = Daw
           /\ running' = running => RunOK' /\ Run' = Run
           /\ heard' = heard => HeardOK' /\ \A e \in Ends : Heard(e)' = Heard(e)
<1>1. hostOut' = hostOut => OutOK' /\ \A h \in Hosts : Out(h)' = Out(h)
  <2> SUFFICES ASSUME hostOut' = hostOut PROVE OutOK' /\ \A h \in Hosts : Out(h)' = Out(h)
    OBVIOUS
  <2>1. ASSUME NEW h \in Hosts PROVE hostOut[h] \in Lists(OutItems(h)')
    BY ItemsGrow, ListsGrow DEF Contents, OutOK
  <2>2. QED
    BY <2>1 DEF Contents, OutOK, Out
<1>2. air' = air => AirOK' /\ \A x \in Radios : Air(x)' = Air(x)
  BY ItemsGrow DEF Contents, AirOK, Air
<1>3. inbox' = inbox => InOK' /\ \A s \in Boxes : In(s)' = In(s)
  <2> SUFFICES ASSUME inbox' = inbox PROVE InOK' /\ \A s \in Boxes : In(s)' = In(s)
    OBVIOUS
  <2>1. ASSUME NEW s \in Boxes PROVE inbox[s] \in Lists(InItems(s)')
    BY ItemsGrow, ListsGrow DEF Contents, InOK
  <2>2. QED
    BY <2>1 DEF Contents, InOK, In
<1>4. sysexInbox' = sysexInbox => SysOK' /\ \A s \in Boxes : Sys(s)' = Sys(s)
  <2> SUFFICES ASSUME sysexInbox' = sysexInbox PROVE SysOK' /\ \A s \in Boxes : Sys(s)' = Sys(s)
    OBVIOUS
  <2>1. ASSUME NEW s \in Boxes PROVE sysexInbox[s] \in Lists(SysItems(s)')
    BY ItemsGrow, ListsGrow DEF Contents, SysOK
  <2>2. QED
    BY <2>1 DEF Contents, SysOK, Sys
<1>5. toDaw' = toDaw => DawOK' /\ Daw' = Daw
  <2>1. toDaw \in Lists(DawItems')
    BY ItemsGrow, ListsGrow DEF Contents, DawOK
  <2>2. QED
    BY <2>1 DEF DawOK, Daw
<1>6. running' = running => RunOK' /\ Run' = Run
  BY ItemsGrow DEF Contents, RunOK, Run
<1>7. heard' = heard => HeardOK' /\ \A e \in Ends : Heard(e)' = Heard(e)
  <2> SUFFICES ASSUME heard' = heard PROVE HeardOK' /\ \A e \in Ends : Heard(e)' = Heard(e)
    OBVIOUS
  <2>1. ASSUME NEW e \in Ends PROVE heard[e] \in Lists(HeardItems(e)')
    BY ItemsGrow, ListsGrow DEF Contents, HeardOK
  <2>2. QED
    BY <2>1 DEF Contents, HeardOK, Heard
<1>8. QED
  BY <1>1, <1>2, <1>3, <1>4, <1>5, <1>6, <1>7

(* A message whose places do not change stays on its ways.                 *)
Resting(n) ==
    /\ \A h \in Hosts : n \in Out(h)' <=> n \in Out(h)
    /\ \A x \in Radios : n \in Air(x)' <=> n \in Air(x)
    /\ \A s \in Boxes : (n \in In(s)' <=> n \in In(s)) /\ (n \in Sys(s)' <=> n \in Sys(s))
    /\ (n \in Daw' <=> n \in Daw) /\ (n \in Run' <=> n \in Run)
    /\ \A e \in Ends : n \in Heard(e)' <=> n \in Heard(e)

LEMMA RestingStays ==
    ASSUME Grows, NEW n \in Known, OnWay(n), Resting(n)
    PROVE  OnWay(n)'
<1>1. \A e : n \in Dest(e)' <=> n \in Dest(e)
  BY DestStays
<1>2. /\ (n \in Out("daw")' <=> n \in Out("daw")) /\ (n \in Out("clientHost")' <=> n \in Out("clientHost"))
      /\ (n \in Air("dongle")' <=> n \in Air("dongle")) /\ (n \in Air("client")' <=> n \in Air("client"))
      /\ (n \in In("dongle")' <=> n \in In("dongle")) /\ (n \in In("client")' <=> n \in In("client"))
      /\ (n \in Sys("dongle")' <=> n \in Sys("dongle")) /\ (n \in Sys("client")' <=> n \in Sys("client"))
      /\ (n \in Daw' <=> n \in Daw) /\ (n \in Run' <=> n \in Run)
  BY DEF Resting, Hosts, Radios, Boxes
<1>3. \A e \in {"daw", "client", "clientHost", "dongleConfig", "clientConfig", "directory"} :
          n \in Heard(e)' <=> n \in Heard(e)
  BY DEF Resting, Ends
<1>4. ClientWay(n)'
  BY <1>1, <1>2, <1>3 DEF OnWay, ClientWay
<1>5. DawWay(n)'
  BY <1>1, <1>2, <1>3 DEF OnWay, DawWay
<1>6. UsbWays(n)'
  BY <1>1, <1>2, <1>3 DEF OnWay, UsbWays
<1>7. ASSUME NEW p \in Plain PROVE PlainWay(n, p)'
  <2>1. (n \in Heard(p)' <=> n \in Heard(p)) /\ (n \in Air(p)' <=> n \in Air(p))
    BY DEF Resting, Ends, Radios
  <2>2. PlainWay(n, p)
    BY DEF OnWay
  <2>3. QED
    BY <1>1, <1>2, <2>1, <2>2 DEF PlainWay
<1>8. QED
  BY <1>4, <1>5, <1>6, <1>7 DEF OnWay

------------------------------------------------------------------------------
(* What a packet to or from a USB host is.                                 *)
LEMMA SysExCalls ==
    ASSUME NEW c \in LegalCalls, c.status = SysEx
    PROVE  c = SysExCall(c.a) /\ c.a \in {Vendor, Config, Announce}
<1>1. c.channel = 0 /\ c.b = 0 /\ c.a \in {Vendor, Config, Announce}
  BY LegalFields, Kinds
<1>2. QED
  BY <1>1, LegalRecord DEF SysExCall

LEMMA HostPacketIs ==
    ASSUME NEW c \in LegalCalls, c.status \in Bridged \cup {SysEx}
    PROVE  LET packet == HostPacket(c)
           IN  /\ packet[1] = 4 <=> c.status = SysEx
               /\ c.status = SysEx => packet[3] = c.a /\ SysExCall(packet[3]) = c
               /\ c.status # SysEx => DispatchPacket(packet) = c
<1>1. CASE c.status = SysEx
  <2>1. HostPacket(c) = <<4, SysEx, c.a>>
    BY <1>1 DEF HostPacket
  <2>2. QED
    BY <1>1, <2>1, SysExCalls
<1>2. CASE c.status # SysEx
  <2>1. c \in Shorts /\ c.status \in Bridged
    BY <1>2 DEF Shorts
  <2>2. HostPacket(c) = ToUsbMidiPacket(CoreMessage(c))
    BY <1>2 DEF HostPacket
  <2>3. QED
    BY <1>2, <2>1, <2>2, PacketsKeepCall
<1>3. QED
  BY <1>1, <1>2

LEMMA Others ==
    /\ \A p \in Plain : p \notin {"daw", "dongle", "client", "pin", "clientHost", "echo",
                                  "dongleConfig", "clientConfig", "directory"}
    /\ \A p \in Mutable : p \in Plain \/ p = "client"
    /\ Originals \subseteq LegalCalls
BY RoutesAssumption

LEMMA SentIs ==
    ASSUME SentOK, NEW n \in Known
    PROVE  /\ sent[n] \in Entries /\ Allowed(sent[n])
           /\ sent[n].call \in LegalCalls /\ sent[n].from \in Froms /\ sent[n].depth \in Nat
<1>1. sent[n] \in Entries
  BY DEF SentOK, Known
<1>2. QED
  BY <1>1 DEF Entries, SentOK

(* To whom a message belongs, and which stations have to get it for that.  *)
LEMMA Belongs ==
    ASSUME NEW m, m.from \in Froms, m.call \in LegalCalls, Allowed(m), muted \subseteq Mutable
    PROVE  /\ "daw" \in Addressed(m) <=>
                 IsKnown(m) /\ \/ m.from = "dongle"
                               \/ "dongle" \in Targets(m) /\ RadioOf(m.from) \notin muted
           /\ "client" \in Addressed(m) <=>
                 \/ m.from \in Own /\ loopback /\ m.depth = 0 /\ m.call.status # SysEx
                 \/ m.from = "clientHost"
                 \/ "client" \in Targets(m) /\ IsKnown(m)
           /\ "clientHost" \in Addressed(m) <=> m.from \in Own /\ m.call # SysExCall(Announce)
           /\ "dongleConfig" \in Addressed(m) <=> m.from = "daw" /\ m.call = SysExCall(Config)
           /\ "clientConfig" \in Addressed(m) <=> m.from = "clientHost" /\ m.call = SysExCall(Config)
           /\ "directory" \in Addressed(m) <=> m.call = SysExCall(Announce)
           /\ \A p \in Plain : p \in Addressed(m) <=>
                 p \in Targets(m) /\ m.call.status \in CoreHandles \cup {SysEx}
<1> DEFINE sysex == m.call.status = SysEx
           client == m.from \in {"client", "pin", "echo"}
           radio == client \/ m.from \in Plain
           dongle == m.from \in {"daw", "dongle"}
           silent == {m.from, IF client THEN "client" ELSE m.from} \cap muted # {}
           known == m.call.status \in Bridged \/ m.call = SysExCall(Vendor)
           toDawEnd == m.from = "dongle" \/ (radio /\ ~silent)
           toPeer(p) == IF dongle THEN sysex \/ p \notin muted ELSE radio /\ p # m.from
           looped == client /\ loopback /\ m.depth = 0 /\ ~sysex
           common == (IF known /\ toDawEnd THEN {"daw"} ELSE {})
                     \cup (IF client THEN {"clientHost"} ELSE {})
                     \cup (IF known /\ (IF client THEN looped
                                        ELSE m.from = "clientHost" \/ toPeer("client"))
                           THEN {"client"} ELSE {})
                     \cup {p \in Plain : m.call.status \in CoreHandles \cup {SysEx} /\ toPeer(p)}
<1>1. Addressed(m) = CASE m.call = SysExCall(Config) ->
                              IF m.from = "daw" THEN {"dongleConfig"} ELSE {"clientConfig", "client"}
                       [] m.call = SysExCall(Announce) -> {"directory"} \cup Plain
                       [] OTHER -> common
  BY DEF Addressed
<1>2. /\ SysExCall(Config) # SysExCall(Announce) /\ SysExCall(Config) # SysExCall(Vendor)
      /\ SysExCall(Announce) # SysExCall(Vendor) /\ SysEx \notin Bridged
      /\ \A k : SysExCall(k).status = SysEx /\ SysExCall(k).a = k
      /\ Vendor # Config /\ Vendor # Announce /\ Config # Announce
  BY Kinds DEF SysExCall, Vendor, Config, Announce
<1>3. sysex => m.call = SysExCall(m.call.a)
  BY SysExCalls
<1>4. Own = {"client", "pin", "echo"} /\ Hosts = {"daw", "clientHost"}
  BY DEF Own, Hosts
<1>5. client \/ m.from = "daw" \/ m.from = "clientHost" \/ m.from = "dongle" \/ m.from \in Plain
  BY <1>4 DEF Froms
<1>6. RadioOf(m.from) = IF client THEN "client" ELSE IF m.from = "daw" THEN "dongle" ELSE m.from
  BY <1>4 DEF RadioOf
<1>7. radio => (silent <=> RadioOf(m.from) \in muted)
  BY <1>6, Others
<1>8. m.from \in Plain => ~client /\ m.from \notin {"daw", "clientHost", "dongle"}
  BY Others
<1>9. \A p \in Plain : p \notin {"daw", "dongle", "client", "clientHost", "dongleConfig", "clientConfig", "directory"}
  BY Others
<1>10. CASE m.call = SysExCall(Config)
  <2>1. m.from = "daw" \/ m.from = "clientHost"
    BY <1>2, <1>4, <1>5, <1>8, <1>10 DEF Allowed
  <2>2. Addressed(m) = IF m.from = "daw" THEN {"dongleConfig"} ELSE {"clientConfig", "client"}
    BY <1>1, <1>2, <1>10
  <2>3. Targets(m) = {} /\ ~IsKnown(m) /\ sysex
    BY <1>2, <1>10 DEF Targets, IsKnown
  <2>4. QED
    BY <1>2, <1>4, <1>9, <1>10, <2>1, <2>2, <2>3
<1>11. CASE m.call = SysExCall(Announce)
  <2>1. client
    BY <1>2, <1>4, <1>5, <1>8, <1>11 DEF Allowed
  <2>2. Addressed(m) = {"directory"} \cup Plain
    BY <1>1, <1>2, <1>11
  <2>3. Targets(m) = Radios \ {"client"} /\ ~IsKnown(m) /\ sysex
    BY <1>2, <1>6, <1>11, <2>1 DEF Targets, IsKnown
  <2>4. QED
    BY <1>2, <1>4, <1>9, <1>11, <2>1, <2>2, <2>3 DEF Radios
<1>12. CASE m.call # SysExCall(Config) /\ m.call # SysExCall(Announce)
  <2>1. Addressed(m) = common
    BY <1>1, <1>12
  <2>2. IsKnown(m) <=> known
    BY DEF IsKnown
  <2>3. m.from \notin Plain => known
    BY <1>2, <1>3, <1>4, <1>5, <1>12 DEF Allowed
  <2>4. Targets(m) = IF m.from = "clientHost" THEN {}
                     ELSE IF dongle THEN IF sysex THEN Radios \ {"dongle"} ELSE Unmuted
                     ELSE Radios \ {RadioOf(m.from)}
    BY <1>12 DEF Targets
  <2>5. \A p \in Plain \cup {"client"} : p \in Targets(m) <=> toPeer(p) /\ ~(client /\ p = "client")
    BY <1>5, <1>6, <1>8, <1>9, <2>4 DEF Radios, Unmuted
  <2>6. "dongle" \in Targets(m) <=> radio
    BY <1>5, <1>6, <1>8, <1>9, <2>4 DEF Radios, Unmuted
  <2> HIDE DEF toPeer, known
  <2>7. "daw" \in Addressed(m) <=> known /\ toDawEnd
    BY <1>9, <2>1
  <2>8. "client" \in Addressed(m) <=>
            known /\ (IF client THEN looped ELSE m.from = "clientHost" \/ toPeer("client"))
    BY <1>9, <2>1
  <2>9. "clientHost" \in Addressed(m) <=> client
    BY <1>9, <2>1
  <2>10. /\ "dongleConfig" \notin Addressed(m) /\ "clientConfig" \notin Addressed(m)
         /\ "directory" \notin Addressed(m)
    BY <1>9, <2>1
  <2>11. \A p \in Plain : p \in Addressed(m) <=> m.call.status \in CoreHandles \cup {SysEx} /\ toPeer(p)
    BY <1>9, <2>1
  <2>12. "daw" \in Addressed(m) <=>
            IsKnown(m) /\ (m.from = "dongle" \/ ("dongle" \in Targets(m) /\ RadioOf(m.from) \notin muted))
    BY <1>7, <2>2, <2>6, <2>7
  <2>13. "client" \in Addressed(m) <=>
             \/ m.from \in Own /\ loopback /\ m.depth = 0 /\ m.call.status # SysEx
             \/ m.from = "clientHost"
             \/ "client" \in Targets(m) /\ IsKnown(m)
    BY <1>4, <1>8, <2>2, <2>3, <2>5, <2>8
  <2>14. QED
    BY <1>4, <1>9, <1>12, <2>5, <2>9, <2>10, <2>11, <2>12, <2>13
<1>13. QED
  BY <1>10, <1>11, <1>12

(* The same of a message that was sent.                                    *)
LEMMA Destinations ==
    ASSUME SentOK, NEW n \in Known
    PROVE  LET m == sent[n]
           IN  /\ n \in Dest("daw") <=>
                     IsKnown(m) /\ \/ m.from = "dongle"
                                   \/ "dongle" \in Targets(m) /\ RadioOf(m.from) \notin muted
               /\ n \in Dest("client") <=>
                     \/ m.from \in Own /\ loopback /\ m.depth = 0 /\ m.call.status # SysEx
                     \/ m.from = "clientHost"
                     \/ "client" \in Targets(m) /\ IsKnown(m)
               /\ n \in Dest("clientHost") <=> m.from \in Own /\ m.call # SysExCall(Announce)
               /\ n \in Dest("dongleConfig") <=> m.from = "daw" /\ m.call = SysExCall(Config)
               /\ n \in Dest("clientConfig") <=> m.from = "clientHost" /\ m.call = SysExCall(Config)
               /\ n \in Dest("directory") <=> m.call = SysExCall(Announce)
               /\ \A p \in Plain : n \in Dest(p) <=>
                     p \in Targets(m) /\ m.call.status \in CoreHandles \cup {SysEx}
<1>1. \A e : n \in Dest(e) <=> e \in Addressed(sent[n])
  BY DEF Dest
<1>2. muted \subseteq Mutable
  BY DEF SentOK
<1>3. QED
  BY <1>1, <1>2, SentIs, Belongs

------------------------------------------------------------------------------
(* A message leaves a place.                                               *)
LEMMA OutTaken ==
    ASSUME Contents, Grows, NEW h \in Hosts, hostOut[h] # <<>>,
           hostOut' = [hostOut EXCEPT ![h] = Tail(@)]
    PROVE  LET head == Head(hostOut[h])
           IN  /\ head.id \in Known /\ head.id \in Out(h) /\ sent[head.id].from = h
               /\ head.packet = HostPacket(sent[head.id].call)
               /\ OutOK' /\ Out(h)' = Out(h) \ {head.id} /\ \A g \in Hosts \ {h} : Out(g)' = Out(g)
<1> DEFINE head == Head(hostOut[h])
<1>1. DOMAIN hostOut = Hosts /\ \A g \in Hosts : hostOut[g] \in Lists(OutItems(g))
  BY DEF Contents, OutOK
<1>2. /\ head \in OutItems(h) /\ head.id \in Out(h)
      /\ Tail(hostOut[h]) \in Lists(OutItems(h)) /\ IdsOf(Tail(hostOut[h])) = Out(h) \ {head.id}
  BY <1>1, ListShrinks DEF Out
<1>3. DOMAIN hostOut' = Hosts /\ hostOut'[h] = Tail(hostOut[h]) /\ \A g \in Hosts \ {h} : hostOut'[g] = hostOut[g]
  BY <1>1
<1>4. ASSUME NEW g \in Hosts PROVE hostOut'[g] \in Lists(OutItems(g)')
  <2>1. hostOut'[g] \in Lists(OutItems(g))
    BY <1>1, <1>2, <1>3
  <2>2. QED
    BY <2>1, ItemsGrow, ListsGrow
<1>5. OutOK'
  BY <1>3, <1>4 DEF OutOK
<1>6. Out(h)' = Out(h) \ {head.id} /\ \A g \in Hosts \ {h} : Out(g)' = Out(g)
  BY <1>2, <1>3 DEF Out
<1>7. QED
  BY <1>2, <1>5, <1>6 DEF OutItems

LEMMA InTaken ==
    ASSUME Contents, Grows, NEW s \in Boxes, inbox[s] # <<>>,
           inbox' = [inbox EXCEPT ![s] = Tail(@)]
    PROVE  LET head == Head(inbox[s])
               m == sent[head.id]
           IN  /\ head.id \in Known /\ head.id \in In(s)
               /\ s \in Targets(m) /\ m.call.status # SysEx
               /\ head.msg = CoreMessage(m.call) /\ head.from = RadioOf(m.from)
               /\ InOK' /\ In(s)' = In(s) \ {head.id} /\ \A g \in Boxes \ {s} : In(g)' = In(g)
<1> DEFINE head == Head(inbox[s])
<1>1. DOMAIN inbox = Boxes /\ \A g \in Boxes : inbox[g] \in Lists(InItems(g))
  BY DEF Contents, InOK
<1>2. /\ head \in InItems(s) /\ head.id \in In(s)
      /\ Tail(inbox[s]) \in Lists(InItems(s)) /\ IdsOf(Tail(inbox[s])) = In(s) \ {head.id}
  BY <1>1, ListShrinks DEF In
<1>3. DOMAIN inbox' = Boxes /\ inbox'[s] = Tail(inbox[s]) /\ \A g \in Boxes \ {s} : inbox'[g] = inbox[g]
  BY <1>1
<1>4. ASSUME NEW g \in Boxes PROVE inbox'[g] \in Lists(InItems(g)')
  <2>1. inbox'[g] \in Lists(InItems(g))
    BY <1>1, <1>2, <1>3
  <2>2. QED
    BY <2>1, ItemsGrow, ListsGrow
<1>5. InOK'
  BY <1>3, <1>4 DEF InOK
<1>6. In(s)' = In(s) \ {head.id} /\ \A g \in Boxes \ {s} : In(g)' = In(g)
  BY <1>2, <1>3 DEF In
<1>7. QED
  BY <1>2, <1>5, <1>6 DEF InItems

LEMMA SysTaken ==
    ASSUME Contents, Grows, NEW s \in Boxes, sysexInbox[s] # <<>>,
           sysexInbox' = [sysexInbox EXCEPT ![s] = Tail(@)]
    PROVE  LET head == Head(sysexInbox[s])
               m == sent[head.id]
           IN  /\ head.id \in Known /\ head.id \in Sys(s)
               /\ s \in Targets(m) /\ m.call = SysExCall(Vendor)
               /\ head.a = m.call.a /\ head.from = RadioOf(m.from)
               /\ SysOK' /\ Sys(s)' = Sys(s) \ {head.id} /\ \A g \in Boxes \ {s} : Sys(g)' = Sys(g)
<1> DEFINE head == Head(sysexInbox[s])
<1>1. DOMAIN sysexInbox = Boxes /\ \A g \in Boxes : sysexInbox[g] \in Lists(SysItems(g))
  BY DEF Contents, SysOK
<1>2. /\ head \in SysItems(s) /\ head.id \in Sys(s)
      /\ Tail(sysexInbox[s]) \in Lists(SysItems(s)) /\ IdsOf(Tail(sysexInbox[s])) = Sys(s) \ {head.id}
  BY <1>1, ListShrinks DEF Sys
<1>3. DOMAIN sysexInbox' = Boxes /\ sysexInbox'[s] = Tail(sysexInbox[s]) /\ \A g \in Boxes \ {s} : sysexInbox'[g] = sysexInbox[g]
  BY <1>1
<1>4. ASSUME NEW g \in Boxes PROVE sysexInbox'[g] \in Lists(SysItems(g)')
  <2>1. sysexInbox'[g] \in Lists(SysItems(g))
    BY <1>1, <1>2, <1>3
  <2>2. QED
    BY <2>1, ItemsGrow, ListsGrow
<1>5. SysOK'
  BY <1>3, <1>4 DEF SysOK
<1>6. Sys(s)' = Sys(s) \ {head.id} /\ \A g \in Boxes \ {s} : Sys(g)' = Sys(g)
  BY <1>2, <1>3 DEF Sys
<1>7. QED
  BY <1>2, <1>5, <1>6 DEF SysItems

LEMMA DawTaken ==
    ASSUME Contents, Grows, toDaw # <<>>, toDaw' = Tail(toDaw)
    PROVE  LET head == Head(toDaw)
           IN  /\ head.id \in Dest("daw") /\ head.id \in Daw
               /\ head.packet = HostPacket(sent[head.id].call)
               /\ DawOK' /\ Daw' = Daw \ {head.id}
<1>1. toDaw \in Lists(DawItems)
  BY DEF Contents, DawOK
<1>2. /\ Head(toDaw) \in DawItems /\ Head(toDaw).id \in Daw
      /\ toDaw' \in Lists(DawItems) /\ Daw' = Daw \ {Head(toDaw).id}
  BY <1>1, ListShrinks DEF Daw
<1>3. DawOK'
  BY <1>2, ItemsGrow, ListsGrow DEF DawOK
<1>4. PICK n \in Dest("daw") : Head(toDaw) = [id |-> n, packet |-> HostPacket(sent[n].call)]
  BY <1>2 DEF DawItems
<1>5. QED
  BY <1>2, <1>3, <1>4

LEMMA AirTaken ==
    ASSUME Contents, Grows, NEW f \in air, air' = air \ {f}
    PROVE  /\ f.id \in Known /\ f.id \in Air(f.to) /\ f.to \in Targets(sent[f.id])
           /\ f.from = RadioOf(sent[f.id].from) /\ f.bytes = Transport(sent[f.id].call)
           /\ AirOK' /\ Air(f.to)' = Air(f.to) \ {f.id}
           /\ \A x \in Radios \ {f.to} : Air(x)' = Air(x)
<1>1. IsFlight(f)
  BY DEF Contents, AirOK
<1>2. \A g \in air : g.to = f.to /\ g.id = f.id => g = f
  BY <1>1 DEF Contents, AirOK, IsFlight
<1>3. AirOK'
  BY ItemsGrow DEF Contents, AirOK
<1>4. /\ f.from = RadioOf(sent[f.id].from) /\ f.bytes = Transport(sent[f.id].call)
  BY <1>1 DEF IsFlight
<1>5. \A x \in Radios \ {f.to} : Air(x)' = Air(x)
  BY DEF Air
<1>6. Air(f.to)' = Air(f.to) \ {f.id}
  BY <1>2 DEF Air
<1>7. f.id \in Known /\ f.id \in Air(f.to) /\ f.to \in Targets(sent[f.id])
  BY <1>1 DEF IsFlight, Air
<1>8. QED
  BY <1>3, <1>4, <1>5, <1>6, <1>7

------------------------------------------------------------------------------
(* A message comes to a place.                                             *)
LEMMA OutAdded ==
    ASSUME Contents, Grows, NEW h \in Hosts, NEW n \in Known', n \notin Out(h),
           sent'[n].from = h, NEW packet, packet = HostPacket(sent'[n].call),
           hostOut' = [hostOut EXCEPT ![h] = Append(@, [id |-> n, packet |-> packet])]
    PROVE  OutOK' /\ Out(h)' = Out(h) \cup {n} /\ \A g \in Hosts \ {h} : Out(g)' = Out(g)
<1> DEFINE x == [id |-> n, packet |-> packet]
<1>1. DOMAIN hostOut = Hosts /\ \A g \in Hosts : hostOut[g] \in Lists(OutItems(g)')
  <2>1. DOMAIN hostOut = Hosts /\ \A g \in Hosts : hostOut[g] \in Lists(OutItems(g))
    BY DEF Contents, OutOK
  <2>2. QED
    BY <2>1, ItemsGrow, ListsGrow
<1>2. x \in OutItems(h)' /\ x.id = n
  BY DEF OutItems
<1> HIDE DEF x
<1>3. /\ Append(hostOut[h], x) \in Lists(OutItems(h)')
      /\ IdsOf(Append(hostOut[h], x)) = Out(h) \cup {n}
  BY <1>1, <1>2, ListGrows DEF Out
<1>4. /\ DOMAIN hostOut' = Hosts /\ hostOut'[h] = Append(hostOut[h], x)
      /\ \A g \in Hosts \ {h} : hostOut'[g] = hostOut[g]
  BY <1>1 DEF x
<1>5. OutOK'
  BY <1>1, <1>3, <1>4 DEF OutOK
<1>6. QED
  BY <1>3, <1>4, <1>5 DEF Out

LEMMA InAdded ==
    ASSUME Contents, Grows, NEW s \in Boxes, NEW n \in Known, n \notin In(s),
           s \in Targets(sent[n]), sent[n].call.status # SysEx, NEW x,
           x = [id |-> n, msg |-> CoreMessage(sent[n].call), from |-> RadioOf(sent[n].from)],
           inbox' = [inbox EXCEPT ![s] = Append(@, x)]
    PROVE  InOK' /\ In(s)' = In(s) \cup {n} /\ \A g \in Boxes \ {s} : In(g)' = In(g)
<1>1. DOMAIN inbox = Boxes /\ \A g \in Boxes : inbox[g] \in Lists(InItems(g)')
  <2>1. DOMAIN inbox = Boxes /\ \A g \in Boxes : inbox[g] \in Lists(InItems(g))
    BY DEF Contents, InOK
  <2>2. QED
    BY <2>1, ItemsGrow, ListsGrow
<1>2. x \in InItems(s)' /\ x.id = n
  <2>1. x \in InItems(s)
    BY DEF InItems
  <2>2. QED
    BY <2>1, ItemsGrow
<1>3. /\ Append(inbox[s], x) \in Lists(InItems(s)')
      /\ IdsOf(Append(inbox[s], x)) = In(s) \cup {n}
  BY <1>1, <1>2, ListGrows DEF In
<1>4. /\ DOMAIN inbox' = Boxes /\ inbox'[s] = Append(inbox[s], x)
      /\ \A g \in Boxes \ {s} : inbox'[g] = inbox[g]
  BY <1>1
<1>5. InOK'
  BY <1>1, <1>3, <1>4 DEF InOK
<1>6. QED
  BY <1>3, <1>4, <1>5 DEF In

LEMMA SysAdded ==
    ASSUME Contents, Grows, NEW s \in Boxes, NEW n \in Known, n \notin Sys(s),
           s \in Targets(sent[n]), sent[n].call = SysExCall(Vendor), NEW x,
           x = [id |-> n, a |-> sent[n].call.a, from |-> RadioOf(sent[n].from)],
           sysexInbox' = [sysexInbox EXCEPT ![s] = Append(@, x)]
    PROVE  SysOK' /\ Sys(s)' = Sys(s) \cup {n} /\ \A g \in Boxes \ {s} : Sys(g)' = Sys(g)
<1>1. DOMAIN sysexInbox = Boxes /\ \A g \in Boxes : sysexInbox[g] \in Lists(SysItems(g)')
  <2>1. DOMAIN sysexInbox = Boxes /\ \A g \in Boxes : sysexInbox[g] \in Lists(SysItems(g))
    BY DEF Contents, SysOK
  <2>2. QED
    BY <2>1, ItemsGrow, ListsGrow
<1>2. x \in SysItems(s)' /\ x.id = n
  <2>1. x \in SysItems(s)
    BY DEF SysItems
  <2>2. QED
    BY <2>1, ItemsGrow
<1>3. /\ Append(sysexInbox[s], x) \in Lists(SysItems(s)')
      /\ IdsOf(Append(sysexInbox[s], x)) = Sys(s) \cup {n}
  BY <1>1, <1>2, ListGrows DEF Sys
<1>4. /\ DOMAIN sysexInbox' = Boxes /\ sysexInbox'[s] = Append(sysexInbox[s], x)
      /\ \A g \in Boxes \ {s} : sysexInbox'[g] = sysexInbox[g]
  BY <1>1
<1>5. SysOK'
  BY <1>1, <1>3, <1>4 DEF SysOK
<1>6. QED
  BY <1>3, <1>4, <1>5 DEF Sys

LEMMA DawAdded ==
    ASSUME Contents, Grows, NEW n \in Dest("daw")', n \notin Daw,
           NEW packet, packet = HostPacket(sent'[n].call),
           toDaw' = Append(toDaw, [id |-> n, packet |-> packet])
    PROVE  DawOK' /\ Daw' = Daw \cup {n}
<1> DEFINE x == [id |-> n, packet |-> packet]
<1>1. toDaw \in Lists(DawItems')
  BY ItemsGrow, ListsGrow DEF Contents, DawOK
<1>2. x \in DawItems' /\ x.id = n /\ x.id \notin IdsOf(toDaw)
  BY DEF DawItems, Daw
<1> HIDE DEF x
<1>3. toDaw' = Append(toDaw, x)
  BY DEF x
<1>4. toDaw' \in Lists(DawItems') /\ IdsOf(toDaw') = IdsOf(toDaw) \cup {n}
  BY <1>1, <1>2, <1>3, ListGrows
<1>5. QED
  BY <1>4 DEF DawOK, Daw

LEMMA AirAdded ==
    ASSUME Contents, Grows, NEW n \in Known', NEW T, T \subseteq Targets(sent'[n]), NEW from,
           from = RadioOf(sent'[n].from), NEW bytes, bytes = Transport(sent'[n].call),
           air' = air \cup OnAir(from, bytes, T, n)
    PROVE  /\ AirOK'
           /\ \A x \in Radios : Air(x)' = Air(x) \cup IF x \in T THEN {n} ELSE {}
<1> DEFINE new == OnAir(from, bytes, T, n)
<1>1. \A f \in new : f.to \in T /\ f.id = n
                     /\ f = [from |-> from, to |-> f.to, id |-> n, bytes |-> bytes]
  BY DEF OnAir
<1>2. ASSUME NEW x \in T PROVE \E f \in new : f.to = x /\ f.id = n
  <2>1. [from |-> from, to |-> x, id |-> n, bytes |-> bytes] \in new
    BY DEF OnAir
  <2>2. QED
    BY <2>1
<1> HIDE DEF new
<1>3. \A f \in new : IsFlight(f)'
  <2>1. \A p : p \in Targets(sent'[n]) => p \in Targets(sent[n])'
    BY AlwaysSame DEF Targets, Unmuted, Grows
  <2>2. QED
    BY <1>1, <2>1 DEF IsFlight
<1>4. air' = air \cup new
  BY DEF new
<1>5. AirOK'
  BY <1>3, <1>4, ItemsGrow DEF Contents, AirOK
<1>6. ASSUME NEW x \in Radios PROVE Air(x)' = Air(x) \cup IF x \in T THEN {n} ELSE {}
  BY <1>1, <1>2, <1>4 DEF Air
<1>7. QED
  BY <1>5, <1>6

(* The end of a way: log is what was heard, possibly in the same step.     *)
LogOK(log) == DOMAIN log = Ends /\ \A e \in Ends : log[e] \in Lists(HeardItems(e)')

LEMMA LogStarts ==
    ASSUME Contents, Grows
    PROVE  LogOK(heard)
BY ItemsGrow, ListsGrow DEF Contents, HeardOK, LogOK

LEMMA LogGrows ==
    ASSUME NEW log, LogOK(log), NEW e \in Ends, NEW n \in Dest(e)', n \notin IdsOf(log[e]),
           NEW c, c = sent'[n].call
    PROVE  LET new == Hear(log, e, n, c)
           IN  /\ LogOK(new) /\ IdsOf(new[e]) = IdsOf(log[e]) \cup {n}
               /\ \A k \in Ends \ {e} : IdsOf(new[k]) = IdsOf(log[k])
<1> DEFINE x == [id |-> n, call |-> c]
           new == Hear(log, e, n, c)
<1>1. DOMAIN log = Ends /\ \A k \in Ends : log[k] \in Lists(HeardItems(k)')
  BY DEF LogOK
<1>2. x \in HeardItems(e)' /\ x.id = n
  BY DEF HeardItems
<1>3. new = [log EXCEPT ![e] = Append(@, x)]
  BY DEF Hear
<1> HIDE DEF x, new
<1>4. /\ Append(log[e], x) \in Lists(HeardItems(e)')
      /\ IdsOf(Append(log[e], x)) = IdsOf(log[e]) \cup {n}
  BY <1>1, <1>2, ListGrows
<1>5. DOMAIN new = Ends /\ new[e] = Append(log[e], x) /\ \A k \in Ends \ {e} : new[k] = log[k]
  BY <1>1, <1>3
<1>6. LogOK(new)
  BY <1>1, <1>4, <1>5 DEF LogOK
<1>7. QED
  BY <1>4, <1>5, <1>6 DEF new

LEMMA HeardAdded ==
    ASSUME Contents, Grows, NEW e \in Ends, NEW n \in Dest(e)', n \notin Heard(e),
           NEW c, c = sent'[n].call, heard' = Hear(heard, e, n, c)
    PROVE  HeardOK' /\ Heard(e)' = Heard(e) \cup {n} /\ \A k \in Ends \ {e} : Heard(k)' = Heard(k)
<1>1. n \notin IdsOf(heard[e])
  BY DEF Heard
<1>2. /\ LogOK(heard') /\ IdsOf(heard'[e]) = IdsOf(heard[e]) \cup {n}
      /\ \A k \in Ends \ {e} : IdsOf(heard'[k]) = IdsOf(heard[k])
  BY <1>1, LogStarts, LogGrows
<1>3. QED
  BY <1>2 DEF LogOK, HeardOK, Heard

------------------------------------------------------------------------------
(* A step that sends nothing moves one message.                            *)
LEMMA CountStays ==
    ASSUME Counted, sent' = sent
    PROVE  Counted'
BY DEF Counted, Echoes

LEMMA Transports ==
    ASSUME NEW c \in LegalCalls
    PROVE  /\ c.status = SysEx => Transport(c) = <<SysEx, c.a>>
           /\ c.status # SysEx => /\ Transport(c) = FromMessage(CoreMessage(c))
                                  /\ Transport(c)[1] # SysEx /\ IsMidiPacket(Transport(c))
                                  /\ ToMessage(Transport(c)) = CoreMessage(c)
                                  /\ Arguments(CoreMessage(c)) = c
<1>1. c.status # SysEx => c \in Shorts
  BY DEF Shorts
<1>2. QED
  BY <1>1, BytesKeepMessage, ArgumentsAreCall DEF Transport

LEMMA BridgeFromHostMoves ==
    ASSUME RoutesInv, BridgeFromHost
    PROVE  RoutesInv'
<1> DEFINE head == Head(hostOut["daw"])
<1>1. PICK n, m, c : n = head.id /\ m = sent[n] /\ c = m.call
  OBVIOUS
<1>2. /\ Contents /\ SentOK /\ Grows /\ Known' = Known /\ Counted'
      /\ UNCHANGED <<loopback, muted, sent, inbox, sysexInbox, toDaw, running>>
      /\ \A k \in Known : OnWay(k)
  BY SentStays, CountStays DEF RoutesInv, Contents, Routed, BridgeFromHost
<1>3. /\ n \in Known /\ n \in Out("daw") /\ m.from = "daw" /\ head.packet = HostPacket(c)
      /\ OutOK' /\ Out("daw")' = Out("daw") \ {n} /\ Out("clientHost")' = Out("clientHost")
  BY <1>1, <1>2, OutTaken DEF BridgeFromHost, Hosts
<1>4. /\ c \in LegalCalls /\ OnWay(n)
      /\ c.status \in Bridged \/ (c.status = SysEx /\ c.a \in {Vendor, Config})
  <2>1. c \in LegalCalls /\ OnWay(n) /\ Allowed(m)
    BY <1>1, <1>2, <1>3, SentIs
  <2>2. m.from \notin Own /\ m.from # "dongle" /\ m.from \in Hosts
    BY <1>3 DEF Own, Hosts
  <2>3. QED
    BY <1>1, <2>1, <2>2 DEF Allowed
<1>5. /\ head.packet[1] = 4 <=> c.status = SysEx
      /\ c.status = SysEx => head.packet[3] = c.a /\ SysExCall(head.packet[3]) = c
      /\ c.status # SysEx => DispatchPacket(head.packet) = c
  BY <1>3, <1>4, HostPacketIs
<1>6. /\ n \in Known' /\ sent'[n] = m /\ \A e : n \in Dest(e)' <=> n \in Dest(e)
  BY <1>1, <1>2, <1>3, DestStays
<1>7. /\ InOK' /\ \A s \in Boxes : In(s)' = In(s)
      /\ SysOK' /\ \A s \in Boxes : Sys(s)' = Sys(s)
      /\ DawOK' /\ Daw' = Daw /\ RunOK' /\ Run' = Run /\ SentOK'
  BY <1>2, Untouched DEF Grows
<1>8. CASE c.status = SysEx /\ c.a # Vendor
  <2>1. c = SysExCall(Config)
    BY <1>4, <1>5, <1>8, Kinds DEF Vendor, Config
  <2>2. air' = air /\ heard' = Hear(heard, "dongleConfig", n, c)
    <3>1. head.packet[1] = 4 /\ head.packet[3] = c.a /\ head.packet[3] # Vendor
          /\ SysExCall(head.packet[3]) = c
      BY <1>5, <1>8
    <3>2. heard' = Hear(heard, "dongleConfig", head.id, SysExCall(head.packet[3]))
      BY <3>1 DEF BridgeFromHost
    <3>3. air' = air
      BY <3>1 DEF BridgeFromHost
    <3>4. QED
      BY <1>1, <3>1, <3>2, <3>3
  <2>3. AirOK' /\ \A x \in Radios : Air(x)' = Air(x)
    BY <1>2, <2>2, Untouched
  <2>4. n \in Dest("dongleConfig")' /\ n \notin Heard("dongleConfig")
    BY <1>1, <1>2, <1>3, <1>4, <1>6, <2>1, Destinations DEF OnWay, UsbWays
  <2>5. /\ HeardOK' /\ Heard("dongleConfig")' = Heard("dongleConfig") \cup {n}
        /\ \A k \in Ends \ {"dongleConfig"} : Heard(k)' = Heard(k)
    BY <1>1, <1>2, <1>6, <2>2, <2>4, HeardAdded DEF Ends
  <2>6. Contents'
    BY <1>3, <1>7, <2>3, <2>5 DEF Contents
  <2>7. ASSUME NEW k \in Known' PROVE OnWay(k)'
    <3>1. CASE k = n
      <4>1. /\ n \notin Dest("client") /\ n \notin Dest("daw") /\ n \notin Dest("clientHost")
            /\ n \notin Dest("clientConfig") /\ n \notin Dest("directory")
            /\ \A p \in Plain : n \notin Dest(p)
        <5>1. /\ Targets(m) = {} /\ ~IsKnown(m) /\ m.from \notin Own /\ m.from # "clientHost"
              /\ SysExCall(Config) # SysExCall(Announce)
          BY <1>1, <1>3, <2>1, Kinds DEF Targets, IsKnown, Own, SysExCall, Vendor, Config, Announce
        <5>2. QED
          BY <1>1, <1>2, <1>3, <2>1, <5>1, Destinations
      <4>2. /\ n \notin Heard("client") /\ n \notin Run /\ n \notin In("client") /\ n \notin Sys("client")
            /\ n \notin Air("client") /\ n \notin Out("clientHost")
        BY <1>3, <1>4 DEF OnWay, ClientWay
      <4>3. Out("daw")' = Out("daw") \ {n} /\ \A p \in Plain : PlainWay(n, p) /\ p # "dongleConfig"
        BY <1>3, <1>4, Others DEF OnWay
      <4>4. ClientWay(n)'
        BY <1>3, <1>6, <1>7, <2>3, <2>5, <4>1, <4>2 DEF ClientWay, Boxes, Radios, Ends
      <4>5. DawWay(n)'
        BY <1>4, <1>6, <1>7, <2>3, <2>5, <4>1 DEF OnWay, DawWay, Boxes, Radios, Ends
      <4>6. UsbWays(n)'
        BY <1>3, <1>4, <1>6, <1>7, <2>3, <2>5, <4>1 DEF OnWay, UsbWays, Boxes, Radios, Ends
      <4>7. \A p \in Plain : PlainWay(n, p)'
        BY <1>3, <1>6, <2>3, <2>5, <4>1, <4>3 DEF PlainWay, Radios, Ends
      <4>8. QED
        BY <3>1, <4>4, <4>5, <4>6, <4>7 DEF OnWay
    <3>2. CASE k # n
      <4>1. Resting(k)
        BY <1>3, <1>7, <2>3, <2>5, <3>2 DEF Resting, Hosts
      <4>2. QED
        BY <1>2, <4>1, RestingStays
    <3>3. QED
      BY <3>1, <3>2
  <2>8. QED
    BY <1>2, <2>6, <2>7 DEF RoutesInv, Routed
<1>9. CASE ~(c.status = SysEx /\ c.a # Vendor)
  <2> DEFINE T == Targets(m)
  <2>1. T = IF c.status = SysEx THEN Radios \ {"dongle"} ELSE Unmuted
    <3>1. c # SysExCall(Config)
      BY <1>9, Kinds DEF SysExCall, Vendor, Config
    <3>2. QED
      BY <1>1, <1>3, <3>1 DEF Targets
  <2>2. heard' = heard /\ air' = air \cup OnAir("dongle", Transport(c), T, n)
    <3>1. CASE c.status = SysEx
      BY <1>1, <1>4, <1>5, <1>9, <2>1, <3>1, Transports DEF BridgeFromHost
    <3>2. CASE c.status # SysEx
      <4>1. c \in Shorts
        BY <1>4, <3>2 DEF Shorts
      <4>2. Transport(c) = FromMessage(FromHostMessage(c))
        BY <3>2, <4>1, SameMessage DEF Transport
      <4>3. QED
        BY <1>1, <1>5, <2>1, <3>2, <4>2 DEF BridgeFromHost
    <3>3. QED
      BY <3>1, <3>2
  <2>3. RadioOf(m.from) = "dongle" /\ T \subseteq Radios /\ "dongle" \notin T
    BY <1>3, <2>1 DEF RadioOf, Own, Unmuted
  <2> HIDE DEF T
  <2>4. /\ AirOK' /\ \A x \in Radios : Air(x)' = Air(x) \cup IF x \in T THEN {n} ELSE {}
    <3>1. T \subseteq Targets(sent'[n]) /\ "dongle" = RadioOf(sent'[n].from)
          /\ Transport(c) = Transport(sent'[n].call)
      BY <1>1, <1>6, <2>3 DEF T
    <3>2. QED
      BY <1>2, <1>6, <2>2, <3>1, AirAdded
  <2>5. HeardOK' /\ \A e \in Ends : Heard(e)' = Heard(e)
    BY <1>2, <2>2, Untouched
  <2>6. Contents'
    BY <1>3, <1>7, <2>4, <2>5 DEF Contents
  <2>7. ASSUME NEW k \in Known' PROVE OnWay(k)'
    <3>1. CASE k = n
      <4>1. /\ n \in Dest("client") => "client" \in T
            /\ n \notin Dest("daw") /\ n \notin Dest("clientHost") /\ n \notin Dest("dongleConfig")
            /\ n \notin Dest("clientConfig") /\ n \notin Dest("directory")
            /\ \A p \in Plain : n \in Dest(p) => p \in T
        <5>1. /\ m.from \notin Own /\ m.from # "clientHost" /\ m.from # "dongle"
              /\ c # SysExCall(Config) /\ c # SysExCall(Announce)
          BY <1>3, <1>4, <1>9, Kinds DEF Own, SysExCall, Vendor, Config, Announce
        <5>2. QED
          BY <1>1, <1>2, <1>3, <2>3, <5>1, Destinations DEF T
      <4>2. /\ n \notin Heard("client") /\ n \notin Run /\ n \notin In("client") /\ n \notin Sys("client")
            /\ n \notin Air("client") /\ n \notin Out("clientHost")
        BY <1>3, <1>4 DEF OnWay, ClientWay
      <4>3. ClientWay(n)'
        <5>1. n \in Air("client")' <=> "client" \in T
          BY <2>4, <4>2 DEF Radios
        <5>2. n \notin Out("daw")'
          BY <1>3
        <5>3. QED
          BY <1>3, <1>6, <1>7, <2>5, <4>1, <4>2, <5>1, <5>2 DEF ClientWay, Boxes, Ends
      <4>4. Air("dongle")' = Air("dongle")
        BY <2>3, <2>4 DEF Radios
      <4>5. DawWay(n)'
        BY <1>4, <1>6, <1>7, <2>5, <4>1, <4>4 DEF OnWay, DawWay, Boxes, Ends
      <4>6. UsbWays(n)'
        BY <1>3, <1>4, <1>6, <1>7, <2>5, <4>1, <4>4 DEF OnWay, UsbWays, Ends
      <4>7. ASSUME NEW p \in Plain PROVE PlainWay(n, p)'
        <5>1. n \notin Heard(p) /\ n \notin Air(p)
          BY <1>3, <1>4 DEF OnWay, PlainWay
        <5>2. n \in Air(p)' <=> p \in T
          BY <2>4, <5>1 DEF Radios
        <5>3. QED
          BY <1>3, <1>6, <2>5, <4>1, <5>1, <5>2 DEF PlainWay, Ends
      <4>8. QED
        BY <3>1, <4>3, <4>5, <4>6, <4>7 DEF OnWay
    <3>2. CASE k # n
      <4>1. Resting(k)
        BY <1>3, <1>7, <2>4, <2>5, <3>2 DEF Resting, Hosts
      <4>2. QED
        BY <1>2, <4>1, RestingStays
    <3>3. QED
      BY <3>1, <3>2
  <2>8. QED
    BY <1>2, <2>6, <2>7 DEF RoutesInv, Routed
<1>10. QED
  BY <1>8, <1>9

LEMMA BridgeToHostMoves ==
    ASSUME RoutesInv, BridgeToHost
    PROVE  RoutesInv'
<1> DEFINE head == Head(inbox["dongle"])
<1>1. PICK n, m, c : n = head.id /\ m = sent[n] /\ c = m.call
  OBVIOUS
<1>2. /\ Contents /\ SentOK /\ Grows /\ Known' = Known /\ Counted'
      /\ UNCHANGED <<loopback, muted, sent, hostOut, air, sysexInbox, running, heard>>
      /\ \A k \in Known : OnWay(k)
  BY SentStays, CountStays DEF RoutesInv, Contents, Routed, BridgeToHost
<1>3. /\ n \in Known /\ n \in In("dongle") /\ "dongle" \in Targets(m) /\ c.status # SysEx
      /\ head.msg = CoreMessage(c) /\ head.from = RadioOf(m.from)
      /\ InOK' /\ In("dongle")' = In("dongle") \ {n} /\ In("client")' = In("client")
  BY <1>1, <1>2, InTaken DEF BridgeToHost, Boxes
<1>4. /\ c \in LegalCalls /\ OnWay(n) /\ Allowed(m) /\ m.from \in Froms
  BY <1>1, <1>2, <1>3, SentIs
<1>5. /\ n \in Known' /\ sent'[n] = m /\ \A e : n \in Dest(e)' <=> n \in Dest(e)
  BY <1>1, <1>2, <1>3, DestStays
<1>6. /\ OutOK' /\ (\A h \in Hosts : Out(h)' = Out(h)) /\ AirOK' /\ (\A x \in Radios : Air(x)' = Air(x))
      /\ SysOK' /\ (\A s \in Boxes : Sys(s)' = Sys(s)) /\ RunOK' /\ Run' = Run /\ SentOK'
      /\ HeardOK' /\ \A e \in Ends : Heard(e)' = Heard(e)
  BY <1>2, Untouched DEF Grows
<1>7. n \in Dest("daw") <=> c.status \in Bridged /\ head.from \notin muted
  <2>1. m.from # "dongle"
    BY <1>3 DEF Targets, Unmuted
  <2>2. IsKnown(m) <=> c.status \in Bridged
    BY <1>1, <1>3, Kinds DEF IsKnown, SysExCall
  <2>3. QED
    BY <1>1, <1>2, <1>3, <2>1, <2>2, Destinations
<1>8. head.msg.status = c.status
  BY <1>3, <1>4, SameMessage DEF Shorts, Canonical
<1>9. n \notin Daw /\ n \notin Heard("daw") /\ n \notin Sys("dongle") /\ n \notin Air("dongle")
  BY <1>3, <1>4 DEF OnWay, DawWay
<1>10. DawOK' /\ Daw' = Daw \cup IF n \in Dest("daw") THEN {n} ELSE {}
  <2>1. CASE n \in Dest("daw")
    <3>1. HostPacket(c) = ToUsbMidiPacket(head.msg)
      BY <1>3 DEF HostPacket
    <3>2. toDaw' = Append(toDaw, [id |-> head.id, packet |-> ToUsbMidiPacket(head.msg)])
      BY <1>7, <1>8, <2>1 DEF BridgeToHost
    <3>3. QED
      BY <1>1, <1>2, <1>5, <1>9, <2>1, <3>1, <3>2, DawAdded
  <2>2. CASE n \notin Dest("daw")
    <3>1. toDaw' = toDaw
      BY <1>7, <1>8, <2>2 DEF BridgeToHost
    <3>2. QED
      BY <1>2, <2>2, <3>1, Untouched
  <2>3. QED
    BY <2>1, <2>2
<1>11. Contents'
  BY <1>3, <1>6, <1>10 DEF Contents
<1>12. ASSUME NEW k \in Known' PROVE OnWay(k)'
  <2>1. CASE k = n
    <3>1. ClientWay(n)'
      BY <1>3, <1>4, <1>5, <1>6 DEF OnWay, ClientWay, Hosts, Boxes, Radios, Ends
    <3>2. DawWay(n)'
      BY <1>3, <1>5, <1>6, <1>9, <1>10 DEF DawWay, Boxes, Radios, Ends
    <3>3. UsbWays(n)'
      BY <1>4, <1>5, <1>6 DEF OnWay, UsbWays, Hosts, Radios, Ends
    <3>4. \A p \in Plain : PlainWay(n, p)'
      BY <1>4, <1>5, <1>6 DEF OnWay, PlainWay, Hosts, Radios, Ends
    <3>5. QED
      BY <2>1, <3>1, <3>2, <3>3, <3>4 DEF OnWay
  <2>2. CASE k # n
    <3>1. Resting(k)
      BY <1>3, <1>6, <1>10, <2>2 DEF Resting, Boxes
    <3>2. QED
      BY <1>2, <3>1, RestingStays
  <2>3. QED
    BY <2>1, <2>2
<1>13. QED
  BY <1>2, <1>11, <1>12 DEF RoutesInv, Routed

LEMMA DrainUsbSysExQueueMoves ==
    ASSUME RoutesInv, DrainUsbSysExQueue
    PROVE  RoutesInv'
<1> DEFINE head == Head(sysexInbox["dongle"])
<1>1. PICK n, m, c : n = head.id /\ m = sent[n] /\ c = m.call
  OBVIOUS
<1>2. /\ Contents /\ SentOK /\ Grows /\ Known' = Known /\ Counted'
      /\ UNCHANGED <<loopback, muted, sent, hostOut, air, inbox, running, heard>>
      /\ \A k \in Known : OnWay(k)
  BY SentStays, CountStays DEF RoutesInv, Contents, Routed, DrainUsbSysExQueue
<1>3. /\ n \in Known /\ n \in Sys("dongle") /\ "dongle" \in Targets(m) /\ c = SysExCall(Vendor)
      /\ head.a = c.a /\ head.from = RadioOf(m.from)
      /\ SysOK' /\ Sys("dongle")' = Sys("dongle") \ {n} /\ Sys("client")' = Sys("client")
  BY <1>1, <1>2, SysTaken DEF DrainUsbSysExQueue, Boxes
<1>4. /\ OnWay(n) /\ n \in Known' /\ sent'[n] = m /\ \A e : n \in Dest(e)' <=> n \in Dest(e)
  BY <1>1, <1>2, <1>3, DestStays
<1>5. /\ OutOK' /\ (\A h \in Hosts : Out(h)' = Out(h)) /\ AirOK' /\ (\A x \in Radios : Air(x)' = Air(x))
      /\ InOK' /\ (\A s \in Boxes : In(s)' = In(s)) /\ RunOK' /\ Run' = Run /\ SentOK'
      /\ HeardOK' /\ \A e \in Ends : Heard(e)' = Heard(e)
  BY <1>2, Untouched DEF Grows
<1>6. n \in Dest("daw") <=> head.from \notin muted
  <2>1. IsKnown(m)
    BY <1>1, <1>3 DEF IsKnown
  <2>2. m.from = "dongle" => FALSE
    <3>1. m.from = "dongle" => Allowed(m) /\ m.from \notin Own /\ c.status = SysEx
      BY <1>1, <1>2, <1>3, SentIs DEF Own, SysExCall
    <3>2. QED
      BY <1>1, <3>1, Kinds DEF Allowed
  <2>3. QED
    BY <1>1, <1>2, <1>3, <2>1, <2>2, Destinations
<1>7. n \notin Daw /\ n \notin Heard("daw") /\ n \notin In("dongle") /\ n \notin Air("dongle")
  BY <1>3, <1>4 DEF OnWay, DawWay
<1>8. DawOK' /\ Daw' = Daw \cup IF n \in Dest("daw") THEN {n} ELSE {}
  <2>1. CASE n \in Dest("daw")
    <3>1. HostPacket(c) = <<4, SysEx, head.a>>
      BY <1>3 DEF HostPacket, SysExCall
    <3>2. toDaw' = Append(toDaw, [id |-> head.id, packet |-> <<4, SysEx, head.a>>])
      BY <1>6, <2>1 DEF DrainUsbSysExQueue
    <3>3. QED
      BY <1>1, <1>2, <1>4, <1>7, <2>1, <3>1, <3>2, DawAdded
  <2>2. CASE n \notin Dest("daw")
    <3>1. toDaw' = toDaw
      BY <1>6, <2>2 DEF DrainUsbSysExQueue
    <3>2. QED
      BY <1>2, <2>2, <3>1, Untouched
  <2>3. QED
    BY <2>1, <2>2
<1>9. Contents'
  BY <1>3, <1>5, <1>8 DEF Contents
<1>10. ASSUME NEW k \in Known' PROVE OnWay(k)'
  <2>1. CASE k = n
    <3>1. ClientWay(n)'
      BY <1>3, <1>4, <1>5 DEF OnWay, ClientWay, Hosts, Boxes, Radios, Ends
    <3>2. DawWay(n)'
      BY <1>3, <1>4, <1>5, <1>7, <1>8 DEF DawWay, Boxes, Radios, Ends
    <3>3. UsbWays(n)'
      BY <1>4, <1>5 DEF OnWay, UsbWays, Hosts, Radios, Ends
    <3>4. \A p \in Plain : PlainWay(n, p)'
      BY <1>4, <1>5 DEF OnWay, PlainWay, Hosts, Radios, Ends
    <3>5. QED
      BY <2>1, <3>1, <3>2, <3>3, <3>4 DEF OnWay
  <2>2. CASE k # n
    <3>1. Resting(k)
      BY <1>3, <1>5, <1>8, <2>2 DEF Resting, Boxes
    <3>2. QED
      BY <1>2, <3>1, RestingStays
  <2>3. QED
    BY <2>1, <2>2
<1>11. QED
  BY <1>2, <1>9, <1>10 DEF RoutesInv, Routed

LEMMA DawReadsMoves ==
    ASSUME RoutesInv, DawReads
    PROVE  RoutesInv'
<1> DEFINE head == Head(toDaw)
<1>1. PICK n, m, c : n = head.id /\ m = sent[n] /\ c = m.call
  OBVIOUS
<1>2. /\ Contents /\ SentOK /\ Grows /\ Known' = Known /\ Counted'
      /\ UNCHANGED <<loopback, muted, sent, hostOut, air, inbox, sysexInbox, running>>
      /\ \A k \in Known : OnWay(k)
  BY SentStays, CountStays DEF RoutesInv, Contents, Routed, DawReads
<1>3. /\ n \in Dest("daw") /\ n \in Known /\ n \in Daw /\ head.packet = HostPacket(c)
      /\ DawOK' /\ Daw' = Daw \ {n}
  BY <1>1, <1>2, DawTaken DEF DawReads, Dest
<1>4. /\ OnWay(n) /\ n \in Known' /\ sent'[n] = m /\ \A e : n \in Dest(e)' <=> n \in Dest(e)
  BY <1>1, <1>2, <1>3, DestStays
<1>5. /\ OutOK' /\ (\A h \in Hosts : Out(h)' = Out(h)) /\ AirOK' /\ (\A x \in Radios : Air(x)' = Air(x))
      /\ InOK' /\ (\A s \in Boxes : In(s)' = In(s)) /\ SysOK' /\ (\A s \in Boxes : Sys(s)' = Sys(s))
      /\ RunOK' /\ Run' = Run /\ SentOK'
  BY <1>2, Untouched DEF Grows
<1>6. c \in LegalCalls /\ c.status \in Bridged \cup {SysEx}
  <2>1. IsKnown(m) /\ c \in LegalCalls
    BY <1>1, <1>2, <1>3, Destinations, SentIs
  <2>2. QED
    BY <1>1, <2>1 DEF IsKnown, SysExCall
<1>7. heard' = Hear(heard, "daw", n, c)
  <2>1. heard' = Hear(heard, "daw", head.id, IF head.packet[1] = 4 THEN SysExCall(head.packet[3])
                                                                  ELSE DispatchPacket(head.packet))
    BY DEF DawReads
  <2>2. (IF head.packet[1] = 4 THEN SysExCall(head.packet[3]) ELSE DispatchPacket(head.packet)) = c
    BY <1>3, <1>6, HostPacketIs
  <2>3. QED
    BY <1>1, <2>1, <2>2
<1>8. n \notin Heard("daw") /\ n \notin In("dongle") /\ n \notin Sys("dongle") /\ n \notin Air("dongle")
  BY <1>3, <1>4 DEF OnWay, DawWay
<1>9. HeardOK' /\ Heard("daw")' = Heard("daw") \cup {n} /\ \A e \in Ends \ {"daw"} : Heard(e)' = Heard(e)
  BY <1>1, <1>2, <1>3, <1>4, <1>7, <1>8, HeardAdded DEF Ends
<1>10. Contents'
  BY <1>3, <1>5, <1>9 DEF Contents
<1>11. ASSUME NEW k \in Known' PROVE OnWay(k)'
  <2>1. CASE k = n
    <3>1. ClientWay(n)'
      BY <1>4, <1>5, <1>9 DEF OnWay, ClientWay, Hosts, Boxes, Radios, Ends
    <3>2. DawWay(n)'
      BY <1>3, <1>5, <1>8, <1>9 DEF DawWay, Boxes, Radios
    <3>3. UsbWays(n)'
      BY <1>4, <1>5, <1>9 DEF OnWay, UsbWays, Hosts, Radios, Ends
    <3>4. \A p \in Plain : PlainWay(n, p)'
      BY <1>4, <1>5, <1>9, Others DEF OnWay, PlainWay, Hosts, Radios, Ends
    <3>5. QED
      BY <2>1, <3>1, <3>2, <3>3, <3>4 DEF OnWay
  <2>2. CASE k # n
    <3>1. Resting(k)
      BY <1>3, <1>5, <1>9, <2>2 DEF Resting
    <3>2. QED
      BY <1>2, <3>1, RestingStays
  <2>3. QED
    BY <2>1, <2>2
<1>12. QED
  BY <1>2, <1>10, <1>11 DEF RoutesInv, Routed

LEMMA OnDataRecvMoves ==
    ASSUME RoutesInv, NEW f \in air, OnDataRecv(f)
    PROVE  RoutesInv'
<1>1. PICK n, m, c, x : n = f.id /\ m = sent[n] /\ c = m.call /\ x = f.to
  OBVIOUS
<1>2. /\ Contents /\ SentOK /\ Grows /\ Known' = Known /\ Counted' /\ air' = air \ {f}
      /\ UNCHANGED <<loopback, muted, sent, hostOut, toDaw, running>>
      /\ \A k \in Known : OnWay(k)
  BY SentStays, CountStays DEF RoutesInv, Contents, Routed, OnDataRecv
<1>3. /\ n \in Known /\ n \in Air(x) /\ x \in Targets(m) /\ f.from = RadioOf(m.from) /\ f.bytes = Transport(c)
      /\ AirOK' /\ Air(x)' = Air(x) \ {n} /\ \A y \in Radios \ {x} : Air(y)' = Air(y)
  BY <1>1, <1>2, AirTaken
<1>4. /\ OnWay(n) /\ n \in Known' /\ sent'[n] = m /\ \A e : n \in Dest(e)' <=> n \in Dest(e)
  BY <1>1, <1>2, <1>3, DestStays
<1>5. /\ OutOK' /\ (\A h \in Hosts : Out(h)' = Out(h)) /\ DawOK' /\ Daw' = Daw
      /\ RunOK' /\ Run' = Run /\ SentOK'
  BY <1>2, Untouched DEF Grows
<1>6. c \in LegalCalls /\ Allowed(m) /\ m.from \in Froms
  BY <1>1, <1>2, <1>3, SentIs
<1>7. x \in Radios /\ (x \in Plain \/ x = "dongle" \/ x = "client") /\ (x \in Boxes <=> x \notin Plain)
  BY <1>3, Others DEF Targets, Unmuted, Radios, Boxes
<1>8. /\ n \in Dest("directory") <=> c = SysExCall(Announce)
      /\ x \in Plain => (n \in Dest(x) <=> c.status \in CoreHandles \cup {SysEx})
      /\ n \in Dest("daw") => IsKnown(m)
  BY <1>1, <1>2, <1>3, Destinations
<1>9. /\ c # SysExCall(Config)
      /\ c = SysExCall(Announce) => x # "client"
  <2>1. c # SysExCall(Config)
    BY <1>1, <1>3 DEF Targets
  <2>2. ASSUME c = SysExCall(Announce) PROVE x # "client"
    <3>1. m.from \in Own
      <4>1. c.status = SysEx /\ c.a = Announce /\ SysEx \notin Bridged
        BY <2>2, Kinds DEF SysExCall
      <4>2. QED
        BY <1>1, <1>6, <4>1 DEF Allowed, Vendor, Config, Announce
    <3>2. m.from \notin {"clientHost", "daw", "dongle"} /\ RadioOf(m.from) = "client"
      BY <3>1 DEF Own, RadioOf
    <3>3. QED
      BY <1>3, <3>2 DEF Targets
  <2>3. QED
    BY <2>1, <2>2
<1>10. /\ \A s \in Boxes : x = s => n \notin In(s) /\ n \notin Sys(s)
       /\ x = "dongle" => n \notin Heard("directory") /\ n \notin Daw /\ n \notin Heard("daw")
       /\ x = "client" => n \notin Run /\ n \notin Heard("client") /\ n \notin Out("daw") /\ n \notin Out("clientHost")
       /\ x \in Plain => n \notin Heard(x) /\ n \notin Out("daw")
  <2>1. x = "client" => /\ n \notin In(x) /\ n \notin Sys(x) /\ n \notin Run /\ n \notin Heard("client")
                        /\ n \notin Out("daw") /\ n \notin Out("clientHost")
    BY <1>3, <1>4 DEF OnWay, ClientWay
  <2>2. x = "dongle" => /\ n \notin In(x) /\ n \notin Sys(x) /\ n \notin Daw /\ n \notin Heard("daw")
                        /\ n \notin Heard("directory")
    BY <1>3, <1>4 DEF OnWay, DawWay, UsbWays
  <2>3. x \in Plain => n \notin Heard(x) /\ n \notin Out("daw")
    BY <1>3, <1>4 DEF OnWay, PlainWay
  <2>4. QED
    BY <2>1, <2>2, <2>3 DEF Boxes
<1>11. /\ HeardOK' /\ InOK' /\ SysOK'
       /\ \A e \in Ends : Heard(e)' = Heard(e) \cup
             IF \/ e = x /\ x \in Plain /\ n \in Dest(x)
                \/ e = "directory" /\ x = "dongle" /\ c = SysExCall(Announce) THEN {n} ELSE {}
       /\ \A s \in Boxes : In(s)' = In(s) \cup IF s = x /\ c.status # SysEx THEN {n} ELSE {}
       /\ \A s \in Boxes : Sys(s)' = Sys(s) \cup IF s = x /\ c = SysExCall(Vendor) THEN {n} ELSE {}
  <2>1. CASE c.status = SysEx
    <3>1. /\ c = SysExCall(c.a) /\ c.a \in {Vendor, Config, Announce}
          /\ f.bytes[1] = SysEx /\ f.bytes[2] = c.a
      BY <1>3, <1>6, <2>1, SysExCalls, Transports
    <3>2. inbox' = inbox /\ ReceiveSysEx(f, c.a)
      BY <3>1 DEF OnDataRecv
    <3>3. InOK' /\ \A s \in Boxes : In(s)' = In(s)
      BY <1>2, <3>2, Untouched
    <3>4. CASE x \in Plain
      <4>1. sysexInbox' = sysexInbox /\ heard' = Hear(heard, x, n, c)
        BY <1>1, <1>7, <3>1, <3>2, <3>4, Others DEF ReceiveSysEx
      <4>2. SysOK' /\ \A s \in Boxes : Sys(s)' = Sys(s)
        BY <1>2, <4>1, Untouched
      <4>3. HeardOK' /\ Heard(x)' = Heard(x) \cup {n} /\ \A e \in Ends \ {x} : Heard(e)' = Heard(e)
        BY <1>1, <1>2, <1>4, <1>8, <1>10, <2>1, <3>4, <4>1, HeardAdded DEF Ends
      <4>4. n \in Dest(x) /\ x # "dongle" /\ x \notin Boxes
        BY <1>7, <1>8, <2>1, <3>4, Others
      <4>5. QED
        BY <2>1, <3>3, <3>4, <4>2, <4>3, <4>4
    <3>5. CASE x = "dongle" /\ c.a = Announce
      <4>1. sysexInbox' = sysexInbox /\ heard' = Hear(heard, "directory", n, c)
        BY <1>1, <3>1, <3>2, <3>5, Others DEF ReceiveSysEx
      <4>2. SysOK' /\ \A s \in Boxes : Sys(s)' = Sys(s)
        BY <1>2, <4>1, Untouched
      <4>3. /\ HeardOK' /\ Heard("directory")' = Heard("directory") \cup {n}
            /\ \A e \in Ends \ {"directory"} : Heard(e)' = Heard(e)
        BY <1>1, <1>2, <1>4, <1>8, <1>10, <3>1, <3>5, <4>1, HeardAdded DEF Ends
      <4>4. x \notin Plain /\ c = SysExCall(Announce) /\ c # SysExCall(Vendor)
        BY <3>1, <3>5, Others DEF SysExCall, Vendor, Announce
      <4>5. QED
        BY <2>1, <3>3, <3>5, <4>2, <4>3, <4>4
    <3>6. CASE x \notin Plain /\ ~(x = "dongle" /\ c.a = Announce)
      <4>1. c = SysExCall(Vendor) /\ c.a = Vendor /\ x \in Boxes
        BY <1>7, <1>9, <3>1, <3>6
      <4>2. /\ heard' = heard
            /\ sysexInbox' = [sysexInbox EXCEPT ![x] = Append(@, [id |-> n, a |-> c.a, from |-> f.from])]
        BY <1>1, <3>2, <3>6, <4>1 DEF ReceiveSysEx, Vendor, Announce
      <4>3. HeardOK' /\ \A e \in Ends : Heard(e)' = Heard(e)
        BY <1>2, <4>2, Untouched
      <4>4. SysOK' /\ Sys(x)' = Sys(x) \cup {n} /\ \A s \in Boxes \ {x} : Sys(s)' = Sys(s)
        BY <1>1, <1>2, <1>3, <1>10, <4>1, <4>2, SysAdded
      <4>5. c # SysExCall(Announce)
        BY <4>1 DEF SysExCall, Vendor, Announce
      <4>6. QED
        BY <2>1, <3>3, <3>6, <4>1, <4>3, <4>4, <4>5
    <3>7. QED
      BY <3>4, <3>5, <3>6
  <2>2. CASE c.status # SysEx
    <3>1. /\ f.bytes[1] # SysEx /\ IsMidiPacket(f.bytes) /\ ToMessage(f.bytes) = CoreMessage(c)
          /\ Arguments(CoreMessage(c)) = c
      BY <1>3, <1>6, <2>2, Transports
    <3>2. sysexInbox' = sysexInbox /\ ReceiveShort(f, CoreMessage(c))
      BY <3>1 DEF OnDataRecv
    <3>3. SysOK' /\ \A s \in Boxes : Sys(s)' = Sys(s)
      BY <1>2, <3>2, Untouched
    <3>4. \A k : c # SysExCall(k)
      BY <2>2 DEF SysExCall
    <3>5. CoreMessage(c).status = c.status
      BY <1>6, <2>2, SameMessage DEF Shorts, Canonical
    <3>6. CASE x \in Plain
      <4>1. /\ inbox' = inbox
            /\ heard' = IF c.status \in CoreHandles THEN Hear(heard, x, n, c) ELSE heard
        BY <1>1, <3>1, <3>2, <3>5, <3>6 DEF ReceiveShort
      <4>2. InOK' /\ \A s \in Boxes : In(s)' = In(s)
        BY <1>2, <4>1, Untouched
      <4>3. CASE n \in Dest(x)
        <5>1. heard' = Hear(heard, x, n, c)
          BY <1>8, <2>2, <3>6, <4>1, <4>3
        <5>2. HeardOK' /\ Heard(x)' = Heard(x) \cup {n} /\ \A e \in Ends \ {x} : Heard(e)' = Heard(e)
          BY <1>1, <1>2, <1>4, <1>10, <3>6, <4>3, <5>1, HeardAdded DEF Ends
        <5>3. QED
          BY <1>7, <3>3, <3>4, <3>6, <4>2, <4>3, <5>2
      <4>4. CASE n \notin Dest(x)
        <5>1. heard' = heard
          BY <1>8, <2>2, <3>6, <4>1, <4>4
        <5>2. HeardOK' /\ \A e \in Ends : Heard(e)' = Heard(e)
          BY <1>2, <5>1, Untouched
        <5>3. QED
          BY <1>7, <3>3, <3>4, <3>6, <4>2, <4>4, <5>2
      <4>5. QED
        BY <4>3, <4>4
    <3>7. CASE x \notin Plain
      <4>1. /\ heard' = heard
            /\ inbox' = [inbox EXCEPT ![x] = Append(@, [id |-> n, msg |-> CoreMessage(c), from |-> f.from])]
        BY <1>1, <3>2, <3>7 DEF ReceiveShort
      <4>2. HeardOK' /\ \A e \in Ends : Heard(e)' = Heard(e)
        BY <1>2, <4>1, Untouched
      <4>3. InOK' /\ In(x)' = In(x) \cup {n} /\ \A s \in Boxes \ {x} : In(s)' = In(s)
        BY <1>1, <1>2, <1>3, <1>7, <1>10, <2>2, <3>7, <4>1, InAdded
      <4>4. QED
        BY <1>7, <2>2, <3>3, <3>4, <3>7, <4>2, <4>3
    <3>8. QED
      BY <3>6, <3>7
  <2>3. QED
    BY <2>1, <2>2
<1>12. Contents'
  BY <1>3, <1>5, <1>11 DEF Contents
<1>13. /\ n \notin Air(x)'
       /\ \A y \in Radios \ {x} : n \in Air(y)' <=> n \in Air(y)
       /\ \A e \in Ends \ (Plain \cup {"directory"}) : n \in Heard(e)' <=> n \in Heard(e)
  BY <1>3, <1>11
<1>14. ASSUME NEW k \in Known' PROVE OnWay(k)'
  <2>1. CASE k = n
    <3>1. ClientWay(n)'
      <4>1. n \in Heard("client")' <=> n \in Heard("client")
        BY <1>13, Others DEF Ends
      <4>2. CASE x = "client"
        <5>1. c.status # SysEx \/ c = SysExCall(Vendor)
          BY <1>6, <1>9, <4>2, SysExCalls
        <5>2. /\ n \in In("client")' <=> c.status # SysEx
              /\ n \in Sys("client")' <=> c = SysExCall(Vendor)
          BY <1>10, <1>11, <4>2 DEF Boxes
        <5>3. /\ n \notin Air("client")' /\ n \notin Out("daw")' /\ n \notin Out("clientHost")'
              /\ n \notin Run' /\ n \notin Heard("client")'
          BY <1>5, <1>10, <1>13, <4>1, <4>2 DEF Hosts
        <5>4. c = SysExCall(Vendor) => c.status = SysEx
          BY DEF SysExCall
        <5>5. QED
          BY <5>1, <5>2, <5>3, <5>4 DEF ClientWay
      <4>3. CASE x # "client"
        <5>1. /\ n \in In("client")' <=> n \in In("client")
              /\ n \in Sys("client")' <=> n \in Sys("client")
              /\ n \in Air("client")' <=> n \in Air("client")
          BY <1>11, <1>13, <4>3 DEF Boxes, Radios
        <5>2. QED
          BY <1>4, <1>5, <4>1, <5>1 DEF OnWay, ClientWay, Hosts
      <4>4. QED
        BY <4>2, <4>3
    <3>2. DawWay(n)'
      <4>1. n \in Heard("daw")' <=> n \in Heard("daw")
        BY <1>13, Others DEF Ends
      <4>2. CASE x = "dongle"
        <5>1. n \in Dest("daw") => c.status # SysEx \/ c = SysExCall(Vendor)
          BY <1>1, <1>8, Kinds DEF IsKnown
        <5>2. /\ n \in In("dongle")' <=> c.status # SysEx
              /\ n \in Sys("dongle")' <=> c = SysExCall(Vendor)
          BY <1>10, <1>11, <4>2 DEF Boxes
        <5>3. n \notin Air("dongle")' /\ n \notin Daw' /\ n \notin Heard("daw")'
          BY <1>5, <1>10, <1>13, <4>1, <4>2
        <5>4. c = SysExCall(Vendor) => c.status = SysEx
          BY DEF SysExCall
        <5>5. QED
          BY <1>4, <5>1, <5>2, <5>3, <5>4 DEF DawWay
      <4>3. CASE x # "dongle"
        <5>1. /\ n \in In("dongle")' <=> n \in In("dongle")
              /\ n \in Sys("dongle")' <=> n \in Sys("dongle")
              /\ n \in Air("dongle")' <=> n \in Air("dongle")
          BY <1>11, <1>13, <4>3 DEF Boxes, Radios
        <5>2. QED
          BY <1>4, <1>5, <4>1, <5>1 DEF OnWay, DawWay
      <4>4. QED
        BY <4>2, <4>3
    <3>3. UsbWays(n)'
      <4>1. \A e \in {"clientHost", "dongleConfig", "clientConfig"} : n \in Heard(e)' <=> n \in Heard(e)
        BY <1>13, Others DEF Ends
      <4>2. /\ n \in Heard("directory")' => n \notin Air("dongle")'
            /\ n \in Dest("directory")' => n \in Heard("directory")' \/ n \in Air("dongle")'
        <5>1. n \in Heard("directory")' <=> n \in Heard("directory") \/ (x = "dongle" /\ c = SysExCall(Announce))
          BY <1>11, Others DEF Ends
        <5>2. CASE x = "dongle"
          BY <1>4, <1>8, <1>13, <5>1, <5>2
        <5>3. CASE x # "dongle"
          BY <1>4, <1>13, <5>1, <5>3 DEF OnWay, UsbWays, Radios
        <5>4. QED
          BY <5>2, <5>3
      <4>3. QED
        BY <1>4, <1>5, <4>1, <4>2 DEF OnWay, UsbWays, Hosts
    <3>4. ASSUME NEW p \in Plain PROVE PlainWay(n, p)'
      <4>1. PlainWay(n, p) /\ p # "directory" /\ p \in Ends /\ p \in Radios
        BY <1>4, Others DEF OnWay, Ends, Radios
      <4>2. n \in Heard(p)' <=> n \in Heard(p) \/ (p = x /\ n \in Dest(x))
        BY <1>11, <4>1
      <4>3. CASE p = x
        BY <1>4, <1>5, <1>10, <1>13, <4>2, <4>3 DEF PlainWay, Hosts
      <4>4. CASE p # x
        BY <1>4, <1>5, <1>13, <4>1, <4>2, <4>4 DEF PlainWay, Hosts
      <4>5. QED
        BY <4>3, <4>4
    <3>5. QED
      BY <2>1, <3>1, <3>2, <3>3, <3>4 DEF OnWay
  <2>2. CASE k # n
    <3>1. Resting(k)
      BY <1>3, <1>5, <1>11, <2>2 DEF Resting
    <3>2. QED
      BY <1>2, <3>1, RestingStays
  <2>3. QED
    BY <2>1, <2>2
<1>15. QED
  BY <1>2, <1>12, <1>14 DEF RoutesInv, Routed

LEMMA RunStarts ==
    ASSUME Contents, Grows, NEW n \in Dest("client")', NEW c, c = sent'[n].call,
           NEW d \in {0, 1}, running' = [id |-> n, call |-> c, depth |-> d]
    PROVE  RunOK' /\ Run' = {n}
<1>1. running' \in Runs' /\ running'.id = n
  BY DEF Runs
<1>2. running' # NotRunning
  <2>1. n \in Known'
    BY DEF Dest
  <2>2. n # 0
    BY <2>1 DEF Known
  <2>3. QED
    BY <1>1, <2>2 DEF NotRunning
<1>3. QED
  BY <1>1, <1>2 DEF RunOK, Run

LEMMA RunStops ==
    ASSUME running' = NotRunning
    PROVE  RunOK' /\ Run' = {}
BY DEF RunOK, Run

LEMMA ReadUsbMoves ==
    ASSUME RoutesInv, ReadUsb
    PROVE  RoutesInv'
<1> DEFINE head == Head(hostOut["clientHost"])
<1>1. PICK n, m, c : n = head.id /\ m = sent[n] /\ c = m.call
  OBVIOUS
<1>2. /\ Contents /\ SentOK /\ Grows /\ Known' = Known /\ Counted'
      /\ UNCHANGED <<loopback, muted, sent, air, inbox, sysexInbox, toDaw>>
      /\ running = NotRunning /\ \A k \in Known : OnWay(k)
  BY SentStays, CountStays DEF RoutesInv, Contents, Routed, ReadUsb
<1>3. /\ n \in Known /\ n \in Out("clientHost") /\ m.from = "clientHost" /\ head.packet = HostPacket(c)
      /\ OutOK' /\ Out("clientHost")' = Out("clientHost") \ {n} /\ Out("daw")' = Out("daw")
  BY <1>1, <1>2, OutTaken DEF ReadUsb, Hosts
<1>4. /\ OnWay(n) /\ n \in Known' /\ sent'[n] = m /\ \A e : n \in Dest(e)' <=> n \in Dest(e)
  BY <1>1, <1>2, <1>3, DestStays
<1>5. /\ AirOK' /\ (\A x \in Radios : Air(x)' = Air(x)) /\ DawOK' /\ Daw' = Daw
      /\ InOK' /\ (\A s \in Boxes : In(s)' = In(s)) /\ SysOK' /\ (\A s \in Boxes : Sys(s)' = Sys(s))
      /\ SentOK'
  BY <1>2, Untouched DEF Grows
<1>6. c \in LegalCalls /\ c.status \in Bridged \cup {SysEx} /\ (c.status = SysEx => c.a \in {Vendor, Config})
  <2>1. c \in LegalCalls /\ Allowed(m)
    BY <1>1, <1>2, <1>3, SentIs
  <2>2. m.from \notin Own /\ m.from # "dongle" /\ m.from \in Hosts
    BY <1>3 DEF Own, Hosts
  <2>3. QED
    BY <1>1, <2>1, <2>2, Kinds DEF Allowed
<1>7. /\ n \in Dest("client") /\ n \notin Dest("daw") /\ n \notin Dest("clientHost")
      /\ n \notin Dest("dongleConfig") /\ n \notin Dest("directory")
      /\ n \in Dest("clientConfig") <=> c = SysExCall(Config)
      /\ \A p \in Plain : n \notin Dest(p)
  <2>1. m.from \notin Own /\ Targets(m) = {} /\ m.from # "dongle" /\ m.from # "daw"
    BY <1>3 DEF Own, Targets
  <2>2. c # SysExCall(Announce)
    BY <1>6 DEF SysExCall, Vendor, Config, Announce
  <2>3. QED
    BY <1>1, <1>2, <1>3, <2>1, <2>2, Destinations
<1>8. /\ head.packet[1] = 4 <=> c.status = SysEx
      /\ (IF head.packet[1] = 4 THEN SysExCall(head.packet[3]) ELSE DispatchPacket(head.packet)) = c
  BY <1>3, <1>6, HostPacketIs
<1>9. running' = [id |-> n, call |-> c, depth |-> 0]
  BY <1>1, <1>8 DEF ReadUsb
<1>10. RunOK' /\ Run' = {n} /\ Run = {}
  BY <1>1, <1>2, <1>4, <1>7, <1>9, RunStarts DEF Run
<1>11. (c.status = SysEx /\ c.a # Vendor) <=> c = SysExCall(Config)
  BY <1>6, SysExCalls DEF SysExCall, Vendor, Config
<1>12. heard' = IF c = SysExCall(Config) THEN Hear(heard, "clientConfig", n, c) ELSE heard
  BY <1>1, <1>8, <1>11 DEF ReadUsb
<1>13. /\ n \notin Heard("client") /\ n \notin In("client") /\ n \notin Sys("client")
       /\ n \notin Air("client") /\ n \notin Out("daw") /\ n \notin Heard("clientConfig")
  BY <1>3, <1>4 DEF OnWay, ClientWay, UsbWays
<1>14. /\ HeardOK' /\ \A e \in Ends \ {"clientConfig"} : Heard(e)' = Heard(e)
       /\ Heard("clientConfig")' = Heard("clientConfig") \cup IF c = SysExCall(Config) THEN {n} ELSE {}
  <2>1. CASE c = SysExCall(Config)
    BY <1>1, <1>2, <1>4, <1>7, <1>12, <1>13, <2>1, HeardAdded DEF Ends
  <2>2. CASE c # SysExCall(Config)
    BY <1>2, <1>12, <2>2, Untouched DEF Ends
  <2>3. QED
    BY <2>1, <2>2
<1>15. Contents'
  BY <1>3, <1>5, <1>10, <1>14 DEF Contents
<1>16. ASSUME NEW k \in Known' PROVE OnWay(k)'
  <2>1. CASE k = n
    <3>1. ClientWay(n)'
      BY <1>3, <1>5, <1>10, <1>13, <1>14 DEF ClientWay, Boxes, Radios, Ends
    <3>2. DawWay(n)'
      BY <1>4, <1>5, <1>7, <1>14 DEF OnWay, DawWay, Boxes, Radios, Ends
    <3>3. UsbWays(n)'
      BY <1>3, <1>4, <1>5, <1>7, <1>14 DEF OnWay, UsbWays, Radios, Ends
    <3>4. \A p \in Plain : PlainWay(n, p)'
      BY <1>3, <1>4, <1>5, <1>7, <1>14, Others DEF OnWay, PlainWay, Radios, Ends
    <3>5. QED
      BY <2>1, <3>1, <3>2, <3>3, <3>4 DEF OnWay
  <2>2. CASE k # n
    <3>1. Resting(k)
      BY <1>3, <1>5, <1>10, <1>14, <2>2 DEF Resting, Hosts
    <3>2. QED
      BY <1>2, <3>1, RestingStays
  <2>3. QED
    BY <2>1, <2>2
<1>17. QED
  BY <1>2, <1>15, <1>16 DEF RoutesInv, Routed

LEMMA DispatchMoves ==
    ASSUME RoutesInv, Dispatch
    PROVE  RoutesInv'
<1> DEFINE head == Head(inbox["client"])
<1>1. PICK n, m, c : n = head.id /\ m = sent[n] /\ c = m.call
  OBVIOUS
<1>2. /\ Contents /\ SentOK /\ Grows /\ Known' = Known /\ Counted'
      /\ UNCHANGED <<loopback, muted, sent, hostOut, air, sysexInbox, toDaw, heard>>
      /\ running = NotRunning /\ \A k \in Known : OnWay(k)
  BY SentStays, CountStays DEF RoutesInv, Contents, Routed, Dispatch
<1>3. /\ n \in Known /\ n \in In("client") /\ "client" \in Targets(m) /\ c.status # SysEx
      /\ head.msg = CoreMessage(c)
      /\ InOK' /\ In("client")' = In("client") \ {n} /\ In("dongle")' = In("dongle")
  BY <1>1, <1>2, InTaken DEF Dispatch, Boxes
<1>4. /\ OnWay(n) /\ n \in Known' /\ sent'[n] = m /\ \A e : n \in Dest(e)' <=> n \in Dest(e)
  BY <1>1, <1>2, <1>3, DestStays
<1>5. /\ OutOK' /\ (\A h \in Hosts : Out(h)' = Out(h)) /\ AirOK' /\ (\A x \in Radios : Air(x)' = Air(x))
      /\ SysOK' /\ (\A s \in Boxes : Sys(s)' = Sys(s)) /\ DawOK' /\ Daw' = Daw /\ SentOK'
      /\ HeardOK' /\ \A e \in Ends : Heard(e)' = Heard(e)
  BY <1>2, Untouched DEF Grows
<1>6. n \in Dest("client") <=> c.status \in Bridged
  <2>1. m.from \notin Own /\ m.from # "clientHost"
    <3>1. m.from # "clientHost"
      BY <1>3 DEF Targets
    <3>2. m.from \in Own => RadioOf(m.from) = "client" /\ m.from \notin {"daw", "dongle"}
      BY DEF RadioOf, Own
    <3>3. QED
      BY <1>3, <3>1, <3>2 DEF Targets
  <2>2. IsKnown(m) <=> c.status \in Bridged
    BY <1>1, <1>3 DEF IsKnown, SysExCall
  <2>3. QED
    BY <1>1, <1>2, <1>3, <2>1, <2>2, Destinations
<1>7. head.msg.status = c.status /\ Arguments(head.msg) = c
  <2>1. c \in Shorts
    BY <1>1, <1>2, <1>3, SentIs DEF Shorts
  <2>2. QED
    BY <1>3, <2>1, SameMessage, ArgumentsAreCall DEF Canonical
<1>8. RunOK' /\ Run' = (IF n \in Dest("client") THEN {n} ELSE {}) /\ Run = {}
  <2>1. CASE n \in Dest("client")
    <3>1. running' = [id |-> n, call |-> c, depth |-> 0]
      BY <1>1, <1>6, <1>7, <2>1 DEF Dispatch
    <3>2. QED
      BY <1>1, <1>2, <1>4, <2>1, <3>1, RunStarts DEF Run
  <2>2. CASE n \notin Dest("client")
    <3>1. running' = NotRunning
      BY <1>6, <1>7, <2>2 DEF Dispatch
    <3>2. QED
      BY <1>2, <2>2, <3>1, RunStops DEF Run
  <2>3. QED
    BY <2>1, <2>2
<1>9. /\ n \notin Heard("client") /\ n \notin Sys("client") /\ n \notin Air("client")
      /\ n \notin Out("daw") /\ n \notin Out("clientHost")
  BY <1>3, <1>4 DEF OnWay, ClientWay
<1>10. Contents'
  BY <1>3, <1>5, <1>8 DEF Contents
<1>11. ASSUME NEW k \in Known' PROVE OnWay(k)'
  <2>1. CASE k = n
    <3>1. ClientWay(n)'
      BY <1>3, <1>4, <1>5, <1>8, <1>9 DEF ClientWay, Hosts, Boxes, Radios, Ends
    <3>2. DawWay(n)'
      BY <1>3, <1>4, <1>5 DEF OnWay, DawWay, Boxes, Radios, Ends
    <3>3. UsbWays(n)'
      BY <1>4, <1>5 DEF OnWay, UsbWays, Hosts, Radios, Ends
    <3>4. \A p \in Plain : PlainWay(n, p)'
      BY <1>4, <1>5 DEF OnWay, PlainWay, Hosts, Radios, Ends
    <3>5. QED
      BY <2>1, <3>1, <3>2, <3>3, <3>4 DEF OnWay
  <2>2. CASE k # n
    <3>1. Resting(k)
      BY <1>3, <1>5, <1>8, <2>2 DEF Resting, Boxes
    <3>2. QED
      BY <1>2, <3>1, RestingStays
  <2>3. QED
    BY <2>1, <2>2
<1>12. QED
  BY <1>2, <1>10, <1>11 DEF RoutesInv, Routed

LEMMA DispatchSysExMoves ==
    ASSUME RoutesInv, DispatchSysEx
    PROVE  RoutesInv'
<1> DEFINE head == Head(sysexInbox["client"])
<1>1. PICK n, m, c : n = head.id /\ m = sent[n] /\ c = m.call
  OBVIOUS
<1>2. /\ Contents /\ SentOK /\ Grows /\ Known' = Known /\ Counted'
      /\ UNCHANGED <<loopback, muted, sent, hostOut, air, inbox, toDaw, heard>>
      /\ running = NotRunning /\ \A k \in Known : OnWay(k)
  BY SentStays, CountStays DEF RoutesInv, Contents, Routed, DispatchSysEx
<1>3. /\ n \in Known /\ n \in Sys("client") /\ "client" \in Targets(m) /\ c = SysExCall(Vendor)
      /\ head.a = c.a
      /\ SysOK' /\ Sys("client")' = Sys("client") \ {n} /\ Sys("dongle")' = Sys("dongle")
  BY <1>1, <1>2, SysTaken DEF DispatchSysEx, Boxes
<1>4. /\ OnWay(n) /\ n \in Known' /\ sent'[n] = m /\ \A e : n \in Dest(e)' <=> n \in Dest(e)
  BY <1>1, <1>2, <1>3, DestStays
<1>5. /\ OutOK' /\ (\A h \in Hosts : Out(h)' = Out(h)) /\ AirOK' /\ (\A x \in Radios : Air(x)' = Air(x))
      /\ InOK' /\ (\A s \in Boxes : In(s)' = In(s)) /\ DawOK' /\ Daw' = Daw /\ SentOK'
      /\ HeardOK' /\ \A e \in Ends : Heard(e)' = Heard(e)
  BY <1>2, Untouched DEF Grows
<1>6. n \in Dest("client")
  <2>1. IsKnown(m)
    BY <1>1, <1>3 DEF IsKnown
  <2>2. QED
    BY <1>1, <1>2, <1>3, <2>1, Destinations
<1>7. running' = [id |-> n, call |-> c, depth |-> 0]
  <2>1. SysExCall(head.a) = c
    BY <1>3 DEF SysExCall
  <2>2. QED
    BY <1>1, <2>1 DEF DispatchSysEx
<1>8. RunOK' /\ Run' = {n} /\ Run = {}
  BY <1>1, <1>2, <1>4, <1>6, <1>7, RunStarts DEF Run
<1>9. /\ n \notin Heard("client") /\ n \notin In("client") /\ n \notin Air("client")
      /\ n \notin Out("daw") /\ n \notin Out("clientHost")
  BY <1>3, <1>4 DEF OnWay, ClientWay
<1>10. Contents'
  BY <1>3, <1>5, <1>8 DEF Contents
<1>11. ASSUME NEW k \in Known' PROVE OnWay(k)'
  <2>1. CASE k = n
    <3>1. ClientWay(n)'
      BY <1>3, <1>5, <1>8, <1>9 DEF ClientWay, Hosts, Boxes, Radios, Ends
    <3>2. DawWay(n)'
      BY <1>3, <1>4, <1>5 DEF OnWay, DawWay, Boxes, Radios, Ends
    <3>3. UsbWays(n)'
      BY <1>4, <1>5 DEF OnWay, UsbWays, Hosts, Radios, Ends
    <3>4. \A p \in Plain : PlainWay(n, p)'
      BY <1>4, <1>5 DEF OnWay, PlainWay, Hosts, Radios, Ends
    <3>5. QED
      BY <2>1, <3>1, <3>2, <3>3, <3>4 DEF OnWay
  <2>2. CASE k # n
    <3>1. Resting(k)
      BY <1>3, <1>5, <1>8, <2>2 DEF Resting, Boxes
    <3>2. QED
      BY <1>2, <3>1, RestingStays
  <2>3. QED
    BY <2>1, <2>2
<1>12. QED
  BY <1>2, <1>10, <1>11 DEF RoutesInv, Routed

(* The handler that runs was given what was sent, and it alone has it.     *)
LEMMA RunningIs ==
    ASSUME Contents, Routed, running # NotRunning
    PROVE  /\ running.id \in Known /\ running.id \in Dest("client") /\ Run = {running.id}
           /\ running.call = sent[running.id].call /\ running.depth \in {0, 1}
           /\ running.id \notin Heard("client")
<1>1. running \in Runs
  BY DEF Contents, RunOK
<1>2. PICK n \in Dest("client"), d \in {0, 1} : running = [id |-> n, call |-> sent[n].call, depth |-> d]
  BY <1>1 DEF Runs
<1>3. n \in Known /\ Run = {n} /\ running.id = n
  BY <1>2 DEF Dest, Run
<1>4. n \notin Heard("client")
  BY <1>3 DEF Routed, OnWay, ClientWay
<1>5. QED
  BY <1>2, <1>3, <1>4

LEMMA HandlerReturnsMoves ==
    ASSUME RoutesInv, HandlerReturns
    PROVE  RoutesInv'
<1>1. PICK n, m, c : n = running.id /\ m = sent[n] /\ c = m.call
  OBVIOUS
<1>2. /\ Contents /\ SentOK /\ Grows /\ Known' = Known /\ Counted'
      /\ UNCHANGED <<loopback, muted, sent, hostOut, air, inbox, sysexInbox, toDaw>>
      /\ running # NotRunning /\ running' = NotRunning /\ Routed /\ \A k \in Known : OnWay(k)
  BY SentStays, CountStays DEF RoutesInv, Contents, Routed, HandlerReturns
<1>3. n \in Known /\ n \in Dest("client") /\ Run = {n} /\ running.call = c /\ n \notin Heard("client")
  BY <1>1, <1>2, RunningIs
<1>4. /\ OnWay(n) /\ n \in Known' /\ sent'[n] = m /\ \A e : n \in Dest(e)' <=> n \in Dest(e)
  BY <1>1, <1>2, <1>3, DestStays
<1>5. /\ OutOK' /\ (\A h \in Hosts : Out(h)' = Out(h)) /\ AirOK' /\ (\A x \in Radios : Air(x)' = Air(x))
      /\ InOK' /\ (\A s \in Boxes : In(s)' = In(s)) /\ SysOK' /\ (\A s \in Boxes : Sys(s)' = Sys(s))
      /\ DawOK' /\ Daw' = Daw /\ SentOK' /\ RunOK' /\ Run' = {}
  BY <1>2, Untouched, RunStops DEF Grows
<1>6. heard' = Hear(heard, "client", n, c)
  BY <1>1, <1>3 DEF HandlerReturns
<1>7. HeardOK' /\ Heard("client")' = Heard("client") \cup {n} /\ \A e \in Ends \ {"client"} : Heard(e)' = Heard(e)
  BY <1>1, <1>2, <1>3, <1>4, <1>6, HeardAdded DEF Ends
<1>8. /\ n \notin In("client") /\ n \notin Sys("client") /\ n \notin Air("client")
      /\ n \notin Out("daw") /\ n \notin Out("clientHost")
  BY <1>3, <1>4 DEF OnWay, ClientWay
<1>9. Contents'
  BY <1>5, <1>7 DEF Contents
<1>10. ASSUME NEW k \in Known' PROVE OnWay(k)'
  <2>1. CASE k = n
    <3>1. ClientWay(n)'
      BY <1>5, <1>7, <1>8 DEF ClientWay, Hosts, Boxes, Radios
    <3>2. DawWay(n)'
      BY <1>4, <1>5, <1>7 DEF OnWay, DawWay, Boxes, Radios, Ends
    <3>3. UsbWays(n)'
      BY <1>4, <1>5, <1>7 DEF OnWay, UsbWays, Hosts, Radios, Ends
    <3>4. \A p \in Plain : PlainWay(n, p)'
      BY <1>4, <1>5, <1>7, Others DEF OnWay, PlainWay, Hosts, Radios, Ends
    <3>5. QED
      BY <2>1, <3>1, <3>2, <3>3, <3>4 DEF OnWay
  <2>2. CASE k # n
    <3>1. Resting(k)
      BY <1>3, <1>5, <1>7, <2>2 DEF Resting
    <3>2. QED
      BY <1>2, <3>1, RestingStays
  <2>3. QED
    BY <2>1, <2>2
<1>11. QED
  BY <1>2, <1>9, <1>10 DEF RoutesInv, Routed

------------------------------------------------------------------------------
(* A step that sends: the new message is nowhere before it.                *)
LEMMA Registers ==
    ASSUME RoutesInv, UNCHANGED <<loopback, muted>>, NEW m \in Entries, Allowed(m),
           Register(m.from, m.call, m.depth)
    PROVE  /\ Grows /\ Known' = Known \cup {Id} /\ Id \notin Known /\ sent'[Id] = m
           /\ Counted'
<1>1. SentOK /\ Counted /\ sent \in Seq(Entries) /\ Len(sent) \in Nat
  BY DEF RoutesInv, Contents, SentOK
<1>2. sent' = Append(sent, m)
  BY DEF Register, Entries
<1>3. /\ Grows /\ Known' = Known \cup {Id} /\ Id \notin Known /\ Id \in Nat
      /\ sent'[Id] = m /\ Len(sent') = Id
  BY <1>1, <1>2, SentGrows
<1>4. /\ DOMAIN sent = Known /\ DOMAIN sent' = Known' /\ \A n \in Known : sent'[n] = sent[n]
  BY <1>1, <1>3 DEF Grows, SentOK, Known
<1>5. /\ IsFiniteSet(Echoes) /\ Cardinality(Echoes) \in Nat /\ Cardinality(Echoes) <= MaxEchoes
      /\ Len(sent) <= MaxSends + Cardinality(Echoes) /\ MaxSends \in Nat /\ MaxEchoes \in Nat
  BY <1>1, FS_CardinalityType, RoutesAssumption DEF Counted
<1>6. CASE m.from = "echo"
  <2>1. Echoes' = Echoes \cup {Id} /\ Id \notin Echoes
    BY <1>3, <1>4, <1>6 DEF Echoes
  <2>2. IsFiniteSet(Echoes') /\ Cardinality(Echoes') = Cardinality(Echoes) + 1
    BY <1>5, <2>1, FS_AddElement
  <2>3. Cardinality(Echoes) < MaxEchoes
    BY <1>6 DEF Register
  <2>4. QED
    BY <1>3, <1>5, <2>2, <2>3 DEF Counted, Id
<1>7. CASE m.from # "echo"
  <2>1. Echoes' = Echoes
    BY <1>3, <1>4, <1>7 DEF Echoes
  <2>2. Len(sent) < MaxSends + Cardinality(Echoes)
    BY <1>7 DEF Register
  <2>3. Len(sent') <= MaxSends + Cardinality(Echoes)
    BY <1>1, <1>3, <1>5, <2>2 DEF Id
  <2>4. QED
    BY <1>3, <1>5, <2>1, <2>3 DEF Counted
<1>8. QED
  BY <1>3, <1>6, <1>7

LEMMA PlacesKnown ==
    ASSUME Contents
    PROVE  /\ \A h \in Hosts : Out(h) \subseteq Known
           /\ \A x : Air(x) \subseteq Known
           /\ \A s \in Boxes : In(s) \subseteq Known /\ Sys(s) \subseteq Known
           /\ Daw \subseteq Known /\ Run \subseteq Known
           /\ \A e \in Ends : Heard(e) \subseteq Known
<1>1. \A e : Dest(e) \subseteq Known
  BY DEF Dest
<1>2. ASSUME NEW h \in Hosts, NEW n \in Out(h) PROVE n \in Known
  <2>1. \E x \in OutItems(h) : x.id = n
    BY <1>2, IdsAreOf DEF Contents, OutOK, Out
  <2>2. QED
    BY <2>1 DEF OutItems
<1>3. ASSUME NEW x, NEW n \in Air(x) PROVE n \in Known
  BY <1>3 DEF Contents, AirOK, Air, IsFlight
<1>4. ASSUME NEW s \in Boxes, NEW n \in In(s) PROVE n \in Known
  <2>1. \E x \in InItems(s) : x.id = n
    BY <1>4, IdsAreOf DEF Contents, InOK, In
  <2>2. QED
    BY <2>1 DEF InItems
<1>5. ASSUME NEW s \in Boxes, NEW n \in Sys(s) PROVE n \in Known
  <2>1. \E x \in SysItems(s) : x.id = n
    BY <1>5, IdsAreOf DEF Contents, SysOK, Sys
  <2>2. QED
    BY <2>1 DEF SysItems
<1>6. ASSUME NEW n \in Daw PROVE n \in Known
  <2>1. \E x \in DawItems : x.id = n
    BY <1>6, IdsAreOf DEF Contents, DawOK, Daw
  <2>2. QED
    BY <1>1, <2>1 DEF DawItems
<1>7. ASSUME NEW n \in Run PROVE n \in Known
  <2>1. running \in Runs /\ n = running.id
    BY <1>7 DEF Contents, RunOK, Run
  <2>2. QED
    BY <1>1, <2>1 DEF Runs
<1>8. ASSUME NEW e \in Ends, NEW n \in Heard(e) PROVE n \in Known
  <2>1. \E x \in HeardItems(e) : x.id = n
    BY <1>8, IdsAreOf DEF Contents, HeardOK, Heard
  <2>2. QED
    BY <1>1, <2>1 DEF HeardItems
<1>9. QED
  BY <1>2, <1>3, <1>4, <1>5, <1>6, <1>7, <1>8

LEMMA NewDest ==
    ASSUME Grows, NEW n \in Known', NEW m, sent'[n] = m
    PROVE  \A e : n \in Dest(e)' <=> e \in Addressed(m)
<1>1. \A e : e \in Addressed(sent[n])' <=> e \in Addressed(m)
  BY DEF Addressed, Grows
<1>2. QED
  BY <1>1 DEF Dest

(* Where a message is when it was sent.                                    *)
Starts(n, m) ==
    /\ \A h \in Hosts : n \in Out(h)' <=> m.from = h
    /\ \A x \in Radios : n \in Air(x)' <=> m.from \notin Hosts /\ x \in Targets(m)
    /\ \A s \in Boxes : n \notin In(s)' /\ n \notin Sys(s)'
    /\ n \in Daw' <=> m.from = "dongle"
    /\ n \in Run' <=> m.from \in Own /\ loopback /\ m.depth = 0 /\ m.call.status # SysEx
    /\ \A e \in Ends :
          n \in Heard(e)' <=> e = "clientHost" /\ m.from \in Own /\ m.call # SysExCall(Announce)

LEMMA StartsOnWay ==
    ASSUME SentOK, Grows, NEW n \in Known', NEW m \in Entries, Allowed(m), sent'[n] = m, Starts(n, m)
    PROVE  OnWay(n)'
<1>1. m.from \in Froms /\ m.call \in LegalCalls /\ muted \subseteq Mutable
  BY DEF Entries, SentOK
<1> DEFINE own == m.from \in Own
           looped == own /\ loopback /\ m.depth = 0 /\ m.call.status # SysEx
<1>2. /\ n \in Dest("daw")' => m.from = "dongle" \/ "dongle" \in Targets(m)
      /\ n \in Dest("client")' <=> looped \/ m.from = "clientHost" \/ ("client" \in Targets(m) /\ IsKnown(m))
      /\ n \in Dest("clientHost")' <=> own /\ m.call # SysExCall(Announce)
      /\ n \in Dest("dongleConfig")' <=> m.from = "daw" /\ m.call = SysExCall(Config)
      /\ n \in Dest("clientConfig")' <=> m.from = "clientHost" /\ m.call = SysExCall(Config)
      /\ n \in Dest("directory")' <=> m.call = SysExCall(Announce)
      /\ \A p \in Plain : n \in Dest(p)' => p \in Targets(m)
  BY <1>1, NewDest, Belongs
<1>3. /\ m.from \in Hosts => ~own /\ m.from # "dongle"
      /\ own => m.from # "dongle" /\ "client" \notin Targets(m)
      /\ m.from = "clientHost" => Targets(m) = {}
      /\ m.from \in {"daw", "dongle"} => "dongle" \notin Targets(m)
      /\ m.call = SysExCall(Announce) => own /\ "dongle" \in Targets(m)
  <2>1. m.from \in Hosts => ~own /\ m.from # "dongle"
    BY DEF Hosts, Own
  <2>2. own => m.from \notin {"clientHost", "daw", "dongle"} /\ RadioOf(m.from) = "client"
    BY DEF Own, RadioOf
  <2>3. own => "client" \notin Targets(m)
    BY <2>2 DEF Targets
  <2>4. m.from = "clientHost" => Targets(m) = {}
    BY DEF Targets
  <2>5. m.from \in {"daw", "dongle"} => "dongle" \notin Targets(m)
    BY DEF Targets, Unmuted
  <2>6. m.call = SysExCall(Announce) => own
    <3>1. m.call = SysExCall(Announce) => m.call.status = SysEx /\ m.call.a = Announce
      BY DEF SysExCall
    <3>2. SysEx \notin Bridged
      BY Kinds
    <3>3. QED
      BY <1>1, <3>1, <3>2 DEF Allowed, Vendor, Config, Announce
  <2>7. own /\ m.call = SysExCall(Announce) => "dongle" \in Targets(m)
    BY <2>2 DEF Targets, Radios, SysExCall, Config, Announce
  <2>8. QED
    BY <2>1, <2>2, <2>3, <2>4, <2>5, <2>6, <2>7
<1>4. /\ n \in Out("daw")' <=> m.from = "daw"
      /\ n \in Out("clientHost")' <=> m.from = "clientHost"
      /\ n \in Air("client")' <=> m.from \notin Hosts /\ "client" \in Targets(m)
      /\ n \in Air("dongle")' <=> m.from \notin Hosts /\ "dongle" \in Targets(m)
      /\ n \notin In("client")' /\ n \notin Sys("client")' /\ n \notin In("dongle")' /\ n \notin Sys("dongle")'
      /\ n \in Daw' <=> m.from = "dongle"
      /\ n \in Run' <=> looped
      /\ n \in Heard("clientHost")' <=> own /\ m.call # SysExCall(Announce)
      /\ \A e \in Ends \ {"clientHost"} : n \notin Heard(e)'
      /\ m.from \in Hosts <=> m.from = "daw" \/ m.from = "clientHost"
  BY DEF Starts, Hosts, Radios, Boxes, Ends
<1>5. /\ n \notin Heard("client")' /\ n \notin Heard("daw")' /\ n \notin Heard("dongleConfig")'
      /\ n \notin Heard("clientConfig")' /\ n \notin Heard("directory")'
  BY <1>4 DEF Ends
<1> HIDE DEF own, looped
<1>6. looped => own
  BY DEF looped
<1>7. ClientWay(n)'
  BY <1>2, <1>3, <1>4, <1>5, <1>6 DEF ClientWay
<1>8. DawWay(n)'
  BY <1>2, <1>3, <1>4, <1>5 DEF DawWay
<1>9. UsbWays(n)'
  BY <1>2, <1>3, <1>4, <1>5 DEF UsbWays
<1>10. ASSUME NEW p \in Plain PROVE PlainWay(n, p)'
  <2>1. n \notin Heard(p)' /\ (n \in Air(p)' <=> m.from \notin Hosts /\ p \in Targets(m))
    BY Others DEF Starts, Ends, Radios
  <2>2. p \in Targets(m) => m.from # "clientHost"
    BY <1>3
  <2>3. QED
    BY <1>2, <1>4, <2>1, <2>2 DEF PlainWay
<1>11. QED
  BY <1>7, <1>8, <1>9, <1>10 DEF OnWay

(* A new message, and the others where they were.                          *)
LEMMA SentMoves ==
    ASSUME RoutesInv, NEW n, n = Id, NEW m \in Entries, Allowed(m), sent'[n] = m, Grows,
           Known' = Known \cup {n}, n \notin Known, Counted', Contents', Starts(n, m),
           \A k \in Known : OnWay(k) /\ Resting(k)
    PROVE  RoutesInv'
<1>1. OnWay(n)'
  BY StartsOnWay DEF RoutesInv, Contents
<1>2. \A k \in Known : OnWay(k)'
  BY RestingStays
<1>3. QED
  BY <1>1, <1>2 DEF RoutesInv, Routed

LEMMA BridgedIsShort ==
    \A s \in Bridged : s # SysEx
BY DEF Bridged, Voice, RealTime, PitchBend, SongPosition, SongSelect, SysEx, Clock, NoteOff, NoteOn,
       PolyAftertouch, ControlChange, ProgramChange, Aftertouch

LEMMA PlainSendsMoves ==
    ASSUME RoutesInv, NEW p \in Plain, PlainSends(p)
    PROVE  RoutesInv'
<1>1. PICK c \in Originals :
          /\ c.status = SysEx => c.a = Vendor
          /\ Register(p, c, 0)
          /\ air' = air \cup OnAir(p, Transport(c), Radios \ {p}, Id)
          /\ UNCHANGED <<loopback, muted, hostOut, inbox, sysexInbox, toDaw, running, heard>>
  BY DEF PlainSends
<1>2. PICK m, n : m = [from |-> p, call |-> c, depth |-> 0] /\ n = Id
  OBVIOUS
<1>3. p \in Froms /\ p \notin Own /\ p \notin Hosts /\ p # "dongle" /\ p # "client" /\ c \in LegalCalls
  BY Others DEF Froms, Own, Hosts
<1>4. m \in Entries /\ Allowed(m) /\ m.from = p /\ m.call = c /\ m.depth = 0
  BY <1>1, <1>2, <1>3 DEF Entries, Allowed
<1>5. /\ Contents /\ SentOK /\ \A k \in Known : OnWay(k)
  BY DEF RoutesInv, Contents, Routed
<1>6. /\ Grows /\ Known' = Known \cup {n} /\ n \notin Known /\ sent'[n] = m /\ Counted'
      /\ n \in Known' /\ SentOK'
  BY <1>1, <1>2, <1>4, Registers DEF Grows
<1>7. Targets(m) = Radios \ {p} /\ RadioOf(p) = p
  <2>1. c # SysExCall(Config)
    BY <1>1 DEF SysExCall, Vendor, Config
  <2>2. RadioOf(p) = p
    BY <1>3 DEF RadioOf, Hosts
  <2>3. QED
    BY <1>3, <1>4, <2>1, <2>2 DEF Targets, Hosts
<1>8. AirOK' /\ \A x \in Radios : Air(x)' = Air(x) \cup IF x \in Radios \ {p} THEN {n} ELSE {}
  <2>1. PICK T : T = Radios \ {p}
    OBVIOUS
  <2>2. air' = air \cup OnAir(p, Transport(c), T, n)
    BY <1>1, <1>2, <2>1
  <2>3. T \subseteq Targets(sent'[n]) /\ p = RadioOf(sent'[n].from)
        /\ Transport(c) = Transport(sent'[n].call)
    BY <1>4, <1>6, <1>7, <2>1
  <2>4. QED
    BY <1>5, <1>6, <2>1, <2>2, <2>3, AirAdded
<1>9. /\ OutOK' /\ (\A h \in Hosts : Out(h)' = Out(h)) /\ InOK' /\ (\A s \in Boxes : In(s)' = In(s))
      /\ SysOK' /\ (\A s \in Boxes : Sys(s)' = Sys(s)) /\ DawOK' /\ Daw' = Daw /\ RunOK' /\ Run' = Run
      /\ HeardOK' /\ \A e \in Ends : Heard(e)' = Heard(e)
  BY <1>1, <1>5, <1>6, Untouched
<1>10. Contents'
  BY <1>6, <1>8, <1>9 DEF Contents
<1>11. Starts(n, m)
  BY <1>3, <1>4, <1>5, <1>6, <1>7, <1>8, <1>9, PlacesKnown DEF Starts, Hosts
<1>12. \A k \in Known : Resting(k)
  BY <1>6, <1>8, <1>9 DEF Resting
<1>13. QED
  BY <1>2, <1>4, <1>5, <1>6, <1>10, <1>11, <1>12, SentMoves

LEMMA DongleSendsMoves ==
    ASSUME RoutesInv, DongleSends
    PROVE  RoutesInv'
<1>1. PICK c \in Originals :
          /\ c.status \in Bridged
          /\ Register("dongle", c, 0)
          /\ toDaw' = Append(toDaw, [id |-> Id, packet |-> ToUsbMidiPacket(DongleMessage(c))])
          /\ air' = air \cup OnAir("dongle", FromMessage(DongleMessage(c)), Unmuted, Id)
          /\ UNCHANGED <<loopback, muted, hostOut, inbox, sysexInbox, running, heard>>
  BY DEF DongleSends
<1>2. PICK m, n : m = [from |-> "dongle", call |-> c, depth |-> 0] /\ n = Id
  OBVIOUS
<1>3. "dongle" \in Froms /\ "dongle" \notin Own /\ "dongle" \notin Hosts /\ c \in LegalCalls
  BY Others DEF Froms, Own, Hosts
<1>4. m \in Entries /\ Allowed(m) /\ m.from = "dongle" /\ m.call = c /\ m.depth = 0
  BY <1>1, <1>2, <1>3 DEF Entries, Allowed
<1>5. /\ Contents /\ SentOK /\ \A k \in Known : OnWay(k)
  BY DEF RoutesInv, Contents, Routed
<1>6. /\ Grows /\ Known' = Known \cup {n} /\ n \notin Known /\ sent'[n] = m /\ Counted'
      /\ n \in Known' /\ SentOK'
  BY <1>1, <1>2, <1>4, Registers DEF Grows
<1>7. /\ c.status # SysEx /\ Transport(c) = FromMessage(DongleMessage(c))
      /\ HostPacket(c) = ToUsbMidiPacket(DongleMessage(c))
  <2>1. c.status # SysEx
    BY <1>1, BridgedIsShort
  <2>2. c \in Shorts
    BY <1>3, <2>1 DEF Shorts
  <2>3. QED
    BY <2>1, <2>2, SameMessage DEF Transport, HostPacket
<1>8. Targets(m) = Unmuted /\ RadioOf("dongle") = "dongle"
  <2>1. c # SysExCall(Config)
    BY <1>7 DEF SysExCall
  <2>2. QED
    BY <1>4, <1>7, <2>1 DEF Targets, RadioOf, Own
<1>9. AirOK' /\ \A x \in Radios : Air(x)' = Air(x) \cup IF x \in Unmuted THEN {n} ELSE {}
  <2>1. PICK T : T = Unmuted
    OBVIOUS
  <2>2. air' = air \cup OnAir("dongle", Transport(c), T, n)
    BY <1>1, <1>2, <1>7, <2>1
  <2>3. T \subseteq Targets(sent'[n]) /\ "dongle" = RadioOf(sent'[n].from)
        /\ Transport(c) = Transport(sent'[n].call)
    BY <1>4, <1>6, <1>8, <2>1
  <2>4. QED
    BY <1>5, <1>6, <2>1, <2>2, <2>3, AirAdded
<1>10. DawOK' /\ Daw' = Daw \cup {n}
  <2>1. n \in Dest("daw")'
    <3>1. "daw" \in Addressed(m)
      BY <1>1, <1>3, <1>4, <1>5, Belongs DEF IsKnown, SentOK
    <3>2. QED
      BY <1>6, <3>1, NewDest
  <2>2. n \notin Daw
    BY <1>5, <1>6, PlacesKnown
  <2>3. QED
    BY <1>1, <1>2, <1>4, <1>5, <1>6, <1>7, <2>1, <2>2, DawAdded
<1>11. /\ OutOK' /\ (\A h \in Hosts : Out(h)' = Out(h)) /\ InOK' /\ (\A s \in Boxes : In(s)' = In(s))
       /\ SysOK' /\ (\A s \in Boxes : Sys(s)' = Sys(s)) /\ RunOK' /\ Run' = Run
       /\ HeardOK' /\ \A e \in Ends : Heard(e)' = Heard(e)
  BY <1>1, <1>5, <1>6, Untouched
<1>12. Contents'
  BY <1>6, <1>9, <1>10, <1>11 DEF Contents
<1>13. Starts(n, m)
  BY <1>3, <1>4, <1>5, <1>6, <1>8, <1>9, <1>10, <1>11, PlacesKnown DEF Starts, Hosts
<1>14. \A k \in Known : Resting(k)
  BY <1>6, <1>9, <1>10, <1>11 DEF Resting
<1>15. QED
  BY <1>2, <1>4, <1>5, <1>6, <1>12, <1>13, <1>14, SentMoves

LEMMA UsbSendsMoves ==
    ASSUME RoutesInv, NEW h \in Hosts, UsbSends(h)
    PROVE  RoutesInv'
<1>1. PICK c \in Originals :
          /\ c.status \in Bridged \/ (c.status = SysEx /\ c.a # Announce)
          /\ Register(h, c, 0)
          /\ hostOut' = [hostOut EXCEPT ![h] = Append(@, [id |-> Id, packet |->
                 IF c.status = SysEx THEN <<4, SysEx, c.a>>
                                        ELSE ToUsbMidiPacket(DongleMessage(c))])]
          /\ UNCHANGED <<loopback, muted, air, inbox, sysexInbox, toDaw, running, heard>>
  BY DEF UsbSends
<1>2. PICK m, n : m = [from |-> h, call |-> c, depth |-> 0] /\ n = Id
  OBVIOUS
<1>3. h \in Froms /\ h \notin Own /\ h # "dongle" /\ c \in LegalCalls
  BY Others DEF Froms, Own, Hosts
<1>4. m \in Entries /\ Allowed(m) /\ m.from = h /\ m.call = c /\ m.depth = 0
  <2>1. c.status = SysEx => c.a \in {Vendor, Config}
    BY <1>1, <1>3, SysExCalls, BridgedIsShort
  <2>2. QED
    BY <1>1, <1>2, <1>3, <2>1 DEF Entries, Allowed
<1>5. /\ Contents /\ SentOK /\ \A k \in Known : OnWay(k)
  BY DEF RoutesInv, Contents, Routed
<1>6. /\ Grows /\ Known' = Known \cup {n} /\ n \notin Known /\ sent'[n] = m /\ Counted'
      /\ n \in Known' /\ SentOK'
  BY <1>1, <1>2, <1>4, Registers DEF Grows
<1>7. HostPacket(c) = IF c.status = SysEx THEN <<4, SysEx, c.a>>
                                                ELSE ToUsbMidiPacket(DongleMessage(c))
  <2>1. c.status # SysEx => c \in Shorts
    BY <1>3 DEF Shorts
  <2>2. QED
    BY <2>1, SameMessage DEF HostPacket
<1>8. OutOK' /\ Out(h)' = Out(h) \cup {n} /\ \A g \in Hosts \ {h} : Out(g)' = Out(g)
  <2>1. n \notin Out(h)
    BY <1>5, <1>6, PlacesKnown
  <2>2. hostOut' = [hostOut EXCEPT ![h] = Append(@, [id |-> n, packet |-> HostPacket(c)])]
    BY <1>1, <1>2, <1>7
  <2>3. QED
    BY <1>4, <1>5, <1>6, <2>1, <2>2, OutAdded
<1>9. /\ AirOK' /\ (\A x \in Radios : Air(x)' = Air(x)) /\ InOK' /\ (\A s \in Boxes : In(s)' = In(s))
      /\ SysOK' /\ (\A s \in Boxes : Sys(s)' = Sys(s)) /\ DawOK' /\ Daw' = Daw /\ RunOK' /\ Run' = Run
      /\ HeardOK' /\ \A e \in Ends : Heard(e)' = Heard(e)
  BY <1>1, <1>5, <1>6, Untouched
<1>10. Contents'
  BY <1>6, <1>8, <1>9 DEF Contents
<1>11. Starts(n, m)
  BY <1>3, <1>4, <1>5, <1>6, <1>8, <1>9, PlacesKnown DEF Starts
<1>12. \A k \in Known : Resting(k)
  BY <1>6, <1>8, <1>9 DEF Resting
<1>13. QED
  BY <1>2, <1>4, <1>5, <1>6, <1>10, <1>11, <1>12, SentMoves

(* A c of the client, whose log then is log.                            *)
LEMMA ClientSendMoves ==
    ASSUME RoutesInv, UNCHANGED <<loopback, muted, hostOut, inbox, sysexInbox, toDaw>>,
           NEW from \in Own, NEW c \in LegalCalls, NEW depth \in {0, 1},
           c.status \in Bridged \/ (c.status = SysEx /\ c.a \in {Vendor, Announce}),
           NEW log, LogOK(log), \A e \in Ends : Id \notin IdsOf(log[e]),
           ClientSend(from, c, depth, log), NEW n, n = Id,
           NEW m, m = [from |-> from, call |-> c, depth |-> depth]
    PROVE  /\ m \in Entries /\ Allowed(m) /\ sent'[n] = m /\ Grows
           /\ Known' = Known \cup {n} /\ n \notin Known /\ Counted' /\ Contents' /\ Starts(n, m)
           /\ \A k \in Known :
                 /\ \A h \in Hosts : k \in Out(h)' <=> k \in Out(h)
                 /\ \A x \in Radios : k \in Air(x)' <=> k \in Air(x)
                 /\ \A s \in Boxes : (k \in In(s)' <=> k \in In(s)) /\ (k \in Sys(s)' <=> k \in Sys(s))
                 /\ (k \in Daw' <=> k \in Daw) /\ k \notin Run'
                 /\ \A e \in Ends : k \in Heard(e)' <=> k \in IdsOf(log[e])
<1>1. /\ Register(from, c, depth)
      /\ air' = air \cup OnAir("client", Transport(c), Radios \ {"client"}, Id)
      /\ heard' = CASE c.status # SysEx ->
                         Hear(log, "clientHost", Id,
                              DispatchPacket(ToUsbMidiPacket(ClientUsbMessage(c))))
                    [] c = SysExCall(Announce) -> log
                    [] OTHER -> Hear(log, "clientHost", Id, c)
      /\ running' = MaybeLoopback(c, Id, depth)
  BY DEF ClientSend
<1>2. from \in Froms /\ from \notin {"clientHost", "daw", "dongle"} /\ from \notin Hosts /\ RadioOf(from) = "client"
  BY DEF Own, Froms, Hosts, RadioOf
<1>3. m \in Entries /\ Allowed(m) /\ m.from = from /\ m.call = c /\ m.depth = depth
  BY <1>2 DEF Entries, Allowed
<1>4. /\ Contents /\ SentOK /\ \A k \in Known : OnWay(k)
  BY DEF RoutesInv, Contents, Routed
<1>5. /\ Grows /\ Known' = Known \cup {n} /\ n \notin Known /\ sent'[n] = m /\ Counted'
      /\ n \in Known' /\ SentOK'
  BY <1>1, <1>3, Registers DEF Grows
<1>6. Targets(m) = Radios \ {"client"}
  <2>1. c # SysExCall(Config)
    BY Kinds DEF SysExCall, Vendor, Config, Announce
  <2>2. QED
    BY <1>2, <1>3, <2>1 DEF Targets
<1>7. AirOK' /\ \A x \in Radios : Air(x)' = Air(x) \cup IF x \in Radios \ {"client"} THEN {n} ELSE {}
  <2>1. PICK T : T = Radios \ {"client"}
    OBVIOUS
  <2>2. air' = air \cup OnAir("client", Transport(c), T, n)
    BY <1>1, <2>1
  <2>3. T \subseteq Targets(sent'[n]) /\ "client" = RadioOf(sent'[n].from)
        /\ Transport(c) = Transport(sent'[n].call)
    BY <1>2, <1>3, <1>5, <1>6, <2>1
  <2>4. QED
    BY <1>4, <1>5, <2>1, <2>2, <2>3, AirAdded
<1>8. /\ \A e : n \in Dest(e)' <=> e \in Addressed(m)
      /\ "clientHost" \in Addressed(m) <=> c # SysExCall(Announce)
      /\ loopback /\ depth = 0 /\ c.status # SysEx => "client" \in Addressed(m)
  BY <1>2, <1>3, <1>4, <1>5, NewDest, Belongs DEF SentOK
<1>9. RunOK' /\ Run' = IF loopback /\ depth = 0 /\ c.status # SysEx THEN {n} ELSE {}
  <2>1. CASE loopback /\ depth = 0 /\ c.status # SysEx
    <3>1. running' = [id |-> n, call |-> c, depth |-> 1]
      BY <1>1, <2>1 DEF MaybeLoopback
    <3>2. QED
      BY <1>3, <1>4, <1>5, <1>8, <2>1, <3>1, RunStarts
  <2>2. CASE ~(loopback /\ depth = 0 /\ c.status # SysEx)
    <3>1. running' = NotRunning
      BY <1>1, <2>2 DEF MaybeLoopback
    <3>2. QED
      BY <2>2, <3>1, RunStops
  <2>3. QED
    BY <2>1, <2>2
<1>10. heard' = IF c = SysExCall(Announce) THEN log ELSE Hear(log, "clientHost", n, c)
  <2>1. CASE c.status # SysEx
    <3>1. c \in Shorts /\ c.status \in Bridged /\ c # SysExCall(Announce)
      BY <2>1 DEF Shorts, SysExCall
    <3>2. DispatchPacket(ToUsbMidiPacket(ClientUsbMessage(c))) = c
      BY <3>1, SameMessage, PacketsKeepCall
    <3>3. QED
      BY <1>1, <2>1, <3>1, <3>2
  <2>2. CASE c.status = SysEx
    BY <1>1, <2>2
  <2>3. QED
    BY <2>1, <2>2
<1>11. /\ HeardOK'
       /\ \A e \in Ends : Heard(e)' = IdsOf(log[e]) \cup
             IF e = "clientHost" /\ c # SysExCall(Announce) THEN {n} ELSE {}
  <2>1. CASE c = SysExCall(Announce)
    BY <1>10, <2>1 DEF LogOK, HeardOK, Heard
  <2>2. CASE c # SysExCall(Announce)
    <3>1. /\ LogOK(heard') /\ IdsOf(heard'["clientHost"]) = IdsOf(log["clientHost"]) \cup {n}
          /\ \A e \in Ends \ {"clientHost"} : IdsOf(heard'[e]) = IdsOf(log[e])
      BY <1>3, <1>5, <1>8, <1>10, <2>2, LogGrows DEF Ends
    <3>2. QED
      BY <2>2, <3>1 DEF LogOK, HeardOK, Heard, Ends
  <2>3. QED
    BY <2>1, <2>2
<1>12. /\ OutOK' /\ (\A h \in Hosts : Out(h)' = Out(h)) /\ InOK' /\ (\A s \in Boxes : In(s)' = In(s))
       /\ SysOK' /\ (\A s \in Boxes : Sys(s)' = Sys(s)) /\ DawOK' /\ Daw' = Daw
  BY <1>4, <1>5, Untouched
<1>13. Contents'
  BY <1>5, <1>7, <1>9, <1>11, <1>12 DEF Contents
<1>14. Starts(n, m)
  <2>1. \A h \in Hosts : n \in Out(h)' <=> m.from = h
    BY <1>2, <1>3, <1>4, <1>5, <1>12, PlacesKnown
  <2>2. \A x \in Radios : n \in Air(x)' <=> m.from \notin Hosts /\ x \in Targets(m)
    BY <1>2, <1>3, <1>4, <1>5, <1>6, <1>7, PlacesKnown
  <2>3. /\ \A s \in Boxes : n \notin In(s)' /\ n \notin Sys(s)'
        /\ n \notin Daw'
    BY <1>4, <1>5, <1>12, PlacesKnown
  <2>4. n \in Run' <=> m.from \in Own /\ loopback /\ m.depth = 0 /\ m.call.status # SysEx
    BY <1>3, <1>9
  <2>5. \A e \in Ends : n \in Heard(e)' <=> e = "clientHost" /\ m.from \in Own /\ m.call # SysExCall(Announce)
    BY <1>3, <1>11
  <2>6. QED
    BY <1>2, <1>3, <2>1, <2>2, <2>3, <2>4, <2>5 DEF Starts
<1>15. \A k \in Known : k # n
  BY <1>5
<1>16. QED
  BY <1>3, <1>5, <1>7, <1>9, <1>11, <1>12, <1>13, <1>14, <1>15

LEMMA OriginalSent ==
    ASSUME RoutesInv, running = NotRunning,
           UNCHANGED <<loopback, muted, hostOut, inbox, sysexInbox, toDaw>>,
           NEW from \in {"client", "pin"}, NEW c \in LegalCalls,
           c.status \in Bridged \/ (c.status = SysEx /\ c.a \in {Vendor, Announce}),
           ClientSend(from, c, 0, heard)
    PROVE  RoutesInv'
<1>1. PICK m, n : m = [from |-> from, call |-> c, depth |-> 0] /\ n = Id
  OBVIOUS
<1>2. from \in Own /\ from \in Froms
  BY DEF Own, Froms
<1>3. Contents /\ \A k \in Known : OnWay(k)
  BY DEF RoutesInv, Routed
<1>4. Grows /\ Id \notin Known
  <2>1. m \in Entries /\ Allowed(m) /\ m.from = from /\ m.call = c /\ m.depth = 0
    BY <1>1, <1>2 DEF Entries, Allowed
  <2>2. Register(m.from, m.call, m.depth)
    BY <2>1 DEF ClientSend
  <2>3. QED
    BY <2>1, <2>2, Registers
<1>5. LogOK(heard) /\ \A e \in Ends : Id \notin IdsOf(heard[e])
  BY <1>3, <1>4, LogStarts, PlacesKnown DEF Heard
<1>6. /\ m \in Entries /\ Allowed(m) /\ sent'[n] = m
      /\ Known' = Known \cup {n} /\ n \notin Known /\ Counted' /\ Contents' /\ Starts(n, m)
      /\ \A k \in Known :
            /\ \A h \in Hosts : k \in Out(h)' <=> k \in Out(h)
            /\ \A x \in Radios : k \in Air(x)' <=> k \in Air(x)
            /\ \A s \in Boxes : (k \in In(s)' <=> k \in In(s)) /\ (k \in Sys(s)' <=> k \in Sys(s))
            /\ (k \in Daw' <=> k \in Daw) /\ k \notin Run'
            /\ \A e \in Ends : k \in Heard(e)' <=> k \in IdsOf(heard[e])
  BY <1>1, <1>2, <1>5, ClientSendMoves
<1>7. Run = {}
  BY DEF Run
<1>8. \A k \in Known : Resting(k)
  BY <1>6, <1>7 DEF Resting, Heard
<1>9. QED
  BY <1>1, <1>3, <1>4, <1>6, <1>8, SentMoves

LEMMA ClientSendsMoves ==
    ASSUME RoutesInv, ClientSends
    PROVE  RoutesInv'
<1>1. PICK c \in Originals :
          /\ c.status \in Bridged \/ (c.status = SysEx /\ c.a \in {Vendor, Announce})
          /\ ClientSend("client", c, 0, heard)
  BY DEF ClientSends
<1>2. QED
  BY <1>1, OriginalSent, Others DEF ClientSends

LEMMA PinSendsMoves ==
    ASSUME RoutesInv, PinSends
    PROVE  RoutesInv'
<1>1. PICK c \in Originals :
          /\ c.status \in {NoteOn, NoteOff, ControlChange, PitchBend}
          /\ ClientSend("pin", Request(PinMessage(c)), 0, heard)
  BY DEF PinSends
<1>2. c \in LegalCalls /\ c.status \in Bridged /\ c.status # SysEx
  BY <1>1, Others, Kinds DEF NoteOn, NoteOff, ControlChange
<1>3. Request(PinMessage(c)) = c
  BY <1>2, SameMessage, ArgumentsAreCall DEF Request, Shorts
<1>4. QED
  BY <1>1, <1>2, <1>3, OriginalSent DEF PinSends

LEMMA HandlerEchoesMoves ==
    ASSUME RoutesInv, HandlerEchoes
    PROVE  RoutesInv'
<1>1. PICK c, j, depth, log : /\ c = running.call /\ j = running.id /\ depth = running.depth
                                 /\ log = Hear(heard, "client", j, c)
  OBVIOUS
<1>2. /\ running # NotRunning /\ c.status # SysEx /\ ClientSend("echo", c, depth, log)
      /\ UNCHANGED <<loopback, muted, hostOut, inbox, sysexInbox, toDaw>>
  BY <1>1 DEF HandlerEchoes
<1>3. PICK m, n : m = [from |-> "echo", call |-> c, depth |-> depth] /\ n = Id
  OBVIOUS
<1>4. Contents /\ SentOK /\ Routed /\ \A k \in Known : OnWay(k)
  BY DEF RoutesInv, Contents, Routed
<1>5. /\ j \in Known /\ j \in Dest("client") /\ Run = {j}
      /\ c = sent[j].call /\ depth \in {0, 1} /\ j \notin Heard("client")
  BY <1>1, <1>2, <1>4, RunningIs
<1>6. c \in LegalCalls /\ c.status \in Bridged
  <2>1. c \in LegalCalls /\ Allowed(sent[j]) /\ sent[j].from \in Froms
    BY <1>4, <1>5, SentIs
  <2>2. sent[j].from \in Own \/ sent[j].from \in Hosts => c.status \in Bridged
    BY <1>2, <1>5, <2>1, Kinds DEF Allowed, Own, Hosts
  <2>3. sent[j].from \notin Own /\ sent[j].from \notin Hosts => IsKnown(sent[j])
    BY <1>4, <1>5, Destinations DEF Hosts
  <2>4. QED
    BY <1>2, <1>5, <2>1, <2>2, <2>3 DEF IsKnown, SysExCall
<1>7. "echo" \in Own /\ "echo" \in Froms
  BY DEF Own, Froms
<1>8. Grows /\ Id \notin Known
  <2>1. m \in Entries /\ Allowed(m) /\ m.from = "echo" /\ m.call = c /\ m.depth = depth
    BY <1>3, <1>5, <1>6, <1>7 DEF Entries, Allowed
  <2>2. Register(m.from, m.call, m.depth)
    BY <1>2, <2>1 DEF ClientSend
  <2>3. QED
    BY <1>2, <2>1, <2>2, Registers
<1>9. j \in Known' /\ sent'[j] = sent[j] /\ \A e : j \in Dest(e)' <=> j \in Dest(e)
  BY <1>5, <1>8, DestStays
<1>10. /\ LogOK(log) /\ IdsOf(log["client"]) = Heard("client") \cup {j}
       /\ \A e \in Ends \ {"client"} : IdsOf(log[e]) = Heard(e)
  <2>1. LogOK(heard) /\ "client" \in Ends
    BY <1>4, <1>8, LogStarts DEF Ends
  <2>2. j \notin IdsOf(heard["client"]) /\ j \in Dest("client")' /\ c = sent'[j].call
    BY <1>5, <1>9 DEF Heard
  <2>3. QED
    BY <1>1, <2>1, <2>2, LogGrows DEF Heard
<1>11. \A e \in Ends : Id \notin IdsOf(log[e])
  BY <1>4, <1>5, <1>8, <1>10, PlacesKnown
<1>12. /\ m \in Entries /\ Allowed(m) /\ sent'[n] = m
       /\ Known' = Known \cup {n} /\ n \notin Known /\ Counted' /\ Contents' /\ Starts(n, m)
       /\ \A k \in Known :
             /\ \A h \in Hosts : k \in Out(h)' <=> k \in Out(h)
             /\ \A x \in Radios : k \in Air(x)' <=> k \in Air(x)
             /\ \A s \in Boxes : (k \in In(s)' <=> k \in In(s)) /\ (k \in Sys(s)' <=> k \in Sys(s))
             /\ (k \in Daw' <=> k \in Daw) /\ k \notin Run'
             /\ \A e \in Ends : k \in Heard(e)' <=> k \in IdsOf(log[e])
  BY <1>2, <1>3, <1>5, <1>6, <1>7, <1>10, <1>11, ClientSendMoves
<1>13. OnWay(n)'
  BY <1>4, <1>8, <1>12, StartsOnWay
<1>14. OnWay(j)'
  <2>1. /\ \A h \in Hosts : j \in Out(h)' <=> j \in Out(h)
        /\ \A x \in Radios : j \in Air(x)' <=> j \in Air(x)
        /\ \A s \in Boxes : (j \in In(s)' <=> j \in In(s)) /\ (j \in Sys(s)' <=> j \in Sys(s))
        /\ (j \in Daw' <=> j \in Daw) /\ j \notin Run' /\ j \in Heard("client")'
        /\ \A e \in Ends \ {"client"} : j \in Heard(e)' <=> j \in Heard(e)
    BY <1>5, <1>10, <1>12 DEF Ends
  <2>2. OnWay(j)
    BY <1>4, <1>5
  <2>3. /\ j \notin In("client") /\ j \notin Sys("client") /\ j \notin Air("client")
        /\ j \notin Out("daw") /\ j \notin Out("clientHost")
    BY <1>5, <2>2 DEF OnWay, ClientWay
  <2>4. ClientWay(j)'
    BY <2>1, <2>3 DEF ClientWay, Hosts, Boxes, Radios
  <2>5. DawWay(j)'
    BY <1>9, <2>1, <2>2 DEF OnWay, DawWay, Boxes, Radios, Ends
  <2>6. UsbWays(j)'
    BY <1>9, <2>1, <2>2 DEF OnWay, UsbWays, Hosts, Radios, Ends
  <2>7. \A p \in Plain : PlainWay(j, p)'
    BY <1>9, <2>1, <2>2, Others DEF OnWay, PlainWay, Hosts, Radios, Ends
  <2>8. QED
    BY <2>4, <2>5, <2>6, <2>7 DEF OnWay
<1>15. ASSUME NEW k \in Known, k # j PROVE OnWay(k)'
  <2>1. Resting(k)
    BY <1>5, <1>10, <1>12, <1>15 DEF Resting
  <2>2. QED
    BY <1>4, <1>8, <2>1, RestingStays
<1>16. QED
  BY <1>12, <1>13, <1>14, <1>15 DEF RoutesInv, Routed

------------------------------------------------------------------------------
LEMMA RoutesInvInit ==
    RoutesInit => RoutesInv
<1> SUFFICES ASSUME RoutesInit PROVE RoutesInv
  OBVIOUS
<1>1. /\ sent = <<>> /\ air = {} /\ toDaw = <<>> /\ running = NotRunning
      /\ loopback \in BOOLEAN /\ muted \in SUBSET Mutable
      /\ DOMAIN hostOut = Hosts /\ \A h \in Hosts : hostOut[h] = <<>>
      /\ DOMAIN inbox = Boxes /\ \A s \in Boxes : inbox[s] = <<>>
      /\ DOMAIN sysexInbox = Boxes /\ \A s \in Boxes : sysexInbox[s] = <<>>
      /\ DOMAIN heard = Ends /\ \A e \in Ends : heard[e] = <<>>
  BY DEF RoutesInit, Hosts, Boxes
<1>2. Len(sent) = 0 /\ DOMAIN sent = {} /\ Known = {}
  BY <1>1 DEF Known
<1>3. SentOK
  <2>1. sent \in Seq(Entries)
    BY <1>1
  <2>2. QED
    BY <1>1, <1>2, <2>1 DEF SentOK
<1>4. OutOK /\ InOK /\ SysOK
  BY <1>1, EmptyList DEF OutOK, InOK, SysOK
<1>5. DawOK /\ HeardOK /\ AirOK /\ RunOK
  BY <1>1, EmptyList DEF DawOK, HeardOK, AirOK, RunOK
<1>6. Routed
  BY <1>2 DEF Routed
<1>7. Counted
  <2>1. Echoes = {}
    BY <1>2 DEF Echoes
  <2>2. QED
    BY <1>2, <2>1, FS_EmptySet, RoutesAssumption DEF Counted
<1>8. QED
  BY <1>3, <1>4, <1>5, <1>6, <1>7 DEF RoutesInv, Contents

LEMMA RoutesInvStep ==
    RoutesInv /\ [RoutesNext]_routesVars => RoutesInv'
<1> SUFFICES ASSUME RoutesInv, [RoutesNext]_routesVars PROVE RoutesInv'
  OBVIOUS
<1>1. ASSUME NEW h \in {"daw", "clientHost"}, UsbSends(h) PROVE RoutesInv'
  BY <1>1, UsbSendsMoves DEF Hosts
<1>2. CASE Send
  BY <1>1, <1>2, ClientSendsMoves, PinSendsMoves, DongleSendsMoves, PlainSendsMoves DEF Send
<1>3. CASE DongleStep
  BY <1>3, BridgeFromHostMoves, BridgeToHostMoves, DrainUsbSysExQueueMoves DEF DongleStep
<1>4. CASE ClientStep
  BY <1>4, ReadUsbMoves, DispatchMoves, DispatchSysExMoves, HandlerReturnsMoves,
     HandlerEchoesMoves DEF ClientStep
<1>5. CASE DawReads
  BY <1>5, DawReadsMoves
<1>6. ASSUME NEW f \in air, OnDataRecv(f) PROVE RoutesInv'
  BY <1>6, OnDataRecvMoves
<1>7. CASE UNCHANGED routesVars
  <2>1. Contents /\ SentOK /\ Routed /\ Counted
    BY DEF RoutesInv, Contents
  <2>2. UNCHANGED <<loopback, muted, sent, hostOut, air, inbox, sysexInbox, toDaw, running, heard>>
    BY <1>7 DEF routesVars
  <2>3. Grows /\ Known' = Known
    BY <2>1, <2>2, SentStays
  <2>4. /\ OutOK' /\ (\A h \in Hosts : Out(h)' = Out(h)) /\ InOK' /\ (\A s \in Boxes : In(s)' = In(s))
        /\ SysOK' /\ (\A s \in Boxes : Sys(s)' = Sys(s)) /\ RunOK' /\ Run' = Run /\ DawOK' /\ Daw' = Daw
        /\ AirOK' /\ (\A x \in Radios : Air(x)' = Air(x))
        /\ HeardOK' /\ \A e \in Ends : Heard(e)' = Heard(e)
    BY <2>1, <2>2, <2>3, Untouched
  <2>5. Contents'
    BY <2>3, <2>4 DEF Contents, Grows
  <2>6. \A n \in Known : Resting(n) /\ OnWay(n)
    BY <2>1, <2>4 DEF Resting, Routed
  <2>7. Routed'
    BY <2>3, <2>6, RestingStays DEF Routed
  <2>8. Counted'
    BY <2>1, <2>2, CountStays
  <2>9. QED
    BY <2>5, <2>7, <2>8 DEF RoutesInv
<1>8. QED
  BY <1>2, <1>3, <1>4, <1>5, <1>6, <1>7 DEF RoutesNext

(* The conversions and the routing: what is in transit, and where.         *)
THEOREM RoutesInvHolds == RoutesSpec => []RoutesInv
BY RoutesInvInit, RoutesInvStep, PTL DEF RoutesSpec

------------------------------------------------------------------------------
LEMMA InvSameMeaning ==
    ASSUME RoutesInv
    PROVE  SameMeaning
<1>1. ASSUME NEW e \in Ends, NEW i \in DOMAIN heard[e]
      PROVE  heard[e][i].call = sent[heard[e][i].id].call
  <2>1. heard[e] \in Seq(HeardItems(e))
    BY DEF RoutesInv, Contents, HeardOK, Lists
  <2>2. heard[e][i] \in HeardItems(e)
    BY <2>1
  <2>3. QED
    BY <2>2 DEF HeardItems
<1>2. QED
  BY <1>1 DEF SameMeaning

LEMMA InvTypeOK ==
    ASSUME RoutesInv
    PROVE  RoutesTypeOK
<1>1. Contents /\ Counted /\ SentOK
  BY DEF RoutesInv, Contents
<1>2. Len(sent) \in Nat
  BY <1>1 DEF SentOK
<1>3. Len(sent) \in 0..(MaxSends + MaxEchoes)
  <2>1. Cardinality(Echoes) \in Nat
    BY <1>1, FS_CardinalityType DEF Counted
  <2>2. QED
    BY <1>1, <1>2, <2>1, RoutesAssumption DEF Counted
<1>4. ASSUME NEW f \in air PROVE f.to \in Radios \ {f.from} /\ f.id \in 1..Len(sent)
  <2>1. f.id \in Known /\ f.to \in Targets(sent[f.id]) /\ f.from = RadioOf(sent[f.id].from)
    BY <1>1 DEF Contents, AirOK, IsFlight
  <2>2. \A m : m.from \in Froms => \A x \in Targets(m) : x \in Radios /\ x # RadioOf(m.from)
    BY DEF Targets, Unmuted, RadioOf, Froms, Own
  <2>3. sent[f.id].from \in Froms
    BY <1>1, <2>1, SentIs
  <2>4. QED
    BY <2>1, <2>2, <2>3 DEF Known
<1>5. running = NotRunning \/ (running.id \in 1..Len(sent) /\ running.depth \in 0..1)
  <2>1. running = NotRunning \/ running \in Runs
    BY <1>1 DEF Contents, RunOK
  <2>2. \A r \in Runs : r.id \in Known /\ (r.depth = 0 \/ r.depth = 1)
    BY DEF Runs, Dest
  <2>3. QED
    BY <2>1, <2>2 DEF Known
<1>6. QED
  BY <1>1, <1>3, <1>4, <1>5 DEF RoutesTypeOK, SentOK

(* In a list without repetitions a message has one place or none.          *)
LEMMA OnePlace ==
    ASSUME NEW S, NEW s \in Lists(S), NEW n
    PROVE  Cardinality({i \in DOMAIN s : s[i].id = n}) = IF n \in IdsOf(s) THEN 1 ELSE 0
<1> DEFINE places == {i \in DOMAIN s : s[i].id = n}
<1>1. CASE n \in IdsOf(s)
  <2>1. PICK i \in DOMAIN s : s[i].id = n
    BY <1>1 DEF IdsOf
  <2>2. \A j \in DOMAIN s : s[j].id = n => j = i
    BY <2>1 DEF Lists, Distinct
  <2>3. places = {i}
    BY <2>1, <2>2
  <2>4. QED
    BY <1>1, <2>3, FS_Singleton
<1>2. CASE n \notin IdsOf(s)
  <2>1. places = {}
    BY <1>2 DEF IdsOf
  <2>2. QED
    BY <1>2, <2>1, FS_EmptySet
<1>3. QED
  BY <1>1, <1>2

LEMMA InvEveryEndOnce ==
    ASSUME RoutesInv
    PROVE  EveryEndOnce
<1> SUFFICES ASSUME AllArrived, NEW n \in DOMAIN sent, NEW e \in Ends
             PROVE  Cardinality({i \in DOMAIN heard[e] : heard[e][i].id = n})
                        = IF e \in Addressed(sent[n]) THEN 1 ELSE 0
  BY Zenon DEF EveryEndOnce
<1>1. Contents /\ SentOK /\ n \in Known /\ OnWay(n) /\ heard[e] \in Lists(HeardItems(e))
  BY DEF RoutesInv, Contents, SentOK, Routed, Known, HeardOK
<1>2. /\ \A h \in Hosts : n \notin Out(h)
      /\ \A s \in Boxes : n \notin In(s) /\ n \notin Sys(s)
      /\ \A x : n \notin Air(x)
      /\ n \notin Daw /\ n \notin Run
  <2>1. /\ air = {} /\ toDaw = <<>> /\ running = NotRunning
        /\ \A h \in Hosts : hostOut[h] = <<>>
        /\ \A s \in Boxes : inbox[s] = <<>> /\ sysexInbox[s] = <<>>
    BY <1>1 DEF AllArrived, Contents, OutOK, InOK, SysOK
  <2>2. QED
    BY <2>1, EmptyList DEF Out, In, Sys, Air, Daw, Run
<1>3. n \in Dest(e) => n \in Heard(e)
  <2>1. /\ n \notin Out("daw") /\ n \notin Out("clientHost") /\ n \notin In("client")
        /\ n \notin In("dongle") /\ n \notin Sys("client") /\ n \notin Sys("dongle")
    BY <1>2 DEF Hosts, Boxes
  <2>2. CASE e \in Plain
    BY <1>1, <1>2, <2>1, <2>2 DEF OnWay, PlainWay
  <2>3. e \in {"daw", "client", "clientHost", "dongleConfig", "clientConfig", "directory"}
        => (n \in Dest(e) => n \in Heard(e))
    BY <1>1, <1>2, <2>1 DEF OnWay, ClientWay, DawWay, UsbWays
  <2>4. QED
    BY <2>2, <2>3 DEF Ends
<1>4. n \in Heard(e) => n \in Dest(e)
  <2>1. ASSUME n \in Heard(e) PROVE \E x \in HeardItems(e) : x.id = n
    BY <1>1, <2>1, IdsAreOf DEF Heard
  <2>2. QED
    BY <2>1 DEF HeardItems
<1>5. n \in IdsOf(heard[e]) <=> e \in Addressed(sent[n])
  BY <1>1, <1>3, <1>4 DEF Dest, Heard
<1>6. QED
  BY <1>1, <1>5, OnePlace

(* Whatever is heard at an end is what was sent, for every legal message:  *)
(* fromMessage() and toMessage(), toUsbMidiPacket() and dispatchPacket(),  *)
(* the handlers and the queues on the way change nothing.                  *)
THEOREM MeaningIsKept == RoutesSpec => []SameMeaning
<1>1. RoutesInv => SameMeaning
  BY InvSameMeaning
<1>2. QED
  BY <1>1, RoutesInvHolds, PTL

(* Once everything has arrived, every end has each message that belongs to *)
(* it exactly once and no other: with any number of peers, any of them     *)
(* muted, any number of messages and of echoes by the client's sketch.     *)
(* Whether SysEx of the DAW is for muted peers is left open (Disputed).    *)
THEOREM EveryMessageOnce == RoutesSpec => []EveryEndOnce
<1>1. RoutesInv => EveryEndOnce
  BY InvEveryEndOnce
<1>2. QED
  BY <1>1, RoutesInvHolds, PTL

(* Type correctness: the bounds on what is sent, packets in the air are of *)
(* known messages and never back at their sender, loopback nests once.     *)
THEOREM RoutesTypeCorrect == RoutesSpec => []RoutesTypeOK
<1>1. RoutesInv => RoutesTypeOK
  BY InvTypeOK
<1>2. QED
  BY <1>1, RoutesInvHolds, PTL
==============================================================================
