--------------------------- MODULE PeerList_proofs ---------------------------
(***************************************************************************)
(* Proofs about PeerList for any number of devices and any sizes of the    *)
(* tables: with one application task, and restarts while it does not       *)
(* change the list, the list and the driver agree.                         *)
(***************************************************************************)
EXTENDS PeerList, SequencesExt, SequenceTheorems, FiniteSetTheorems, TLAPS

(* A set of natural numbers has a least one.                               *)
LEMMA LeastNat ==
    ASSUME NEW T \in SUBSET Nat, T # {}
    PROVE  \E n \in T : \A m \in T : n <= m
<1>1. PICK n \in T : \A m \in T : ~(<<m, n>> \in OpToRel(<, Nat))
  BY NatLessThanWellFounded, WFMin
<1>2. \A m \in T : ~(m < n)
  BY <1>1 DEF OpToRel
<1>3. QED
  BY <1>2

(* Where the entry i comes from when the entry r is taken out.             *)
Up(r, i) == IF i < r THEN i ELSE i + 1

LEMMA RemoveAtProperties ==
    ASSUME NEW S, NEW s \in Seq(S), NEW r \in 1..Len(s)
    PROVE  /\ RemoveAt(s, r) \in Seq(S)
           /\ Len(RemoveAt(s, r)) = Len(s) - 1
           /\ \A i \in 1..(Len(s) - 1) : RemoveAt(s, r)[i] = s[Up(r, i)]
<1> DEFINE a == SubSeq(s, 1, r - 1)
           b == SubSeq(s, r + 1, Len(s))
<1>1. /\ a \in Seq(S) /\ Len(a) = r - 1 /\ \A i \in 1..(r - 1) : a[i] = s[i]
      /\ b \in Seq(S) /\ Len(b) = Len(s) - r /\ \A i \in 1..(Len(s) - r) : b[i] = s[r + i]
  BY SubSeqProperties
<1> HIDE DEF a, b
<1>2. /\ a \o b \in Seq(S) /\ Len(a \o b) = Len(a) + Len(b)
      /\ \A i \in 1..(Len(a) + Len(b)) : (a \o b)[i] = IF i <= Len(a) THEN a[i] ELSE b[i - Len(a)]
  BY <1>1, ConcatProperties
<1>3. RemoveAt(s, r) = a \o b
  BY DEF RemoveAt, a, b
<1>4. \A i \in 1..(Len(s) - 1) : (a \o b)[i] = s[Up(r, i)]
  BY <1>1, <1>2 DEF Up
<1>5. QED
  BY <1>1, <1>2, <1>3, <1>4

(* Taking the first of a sequence without repetitions, outside of L,       *)
(* leaves the others.                                                      *)
LEMMA TailOfDistinct ==
    ASSUME NEW S, NEW q \in Seq(S), q # <<>>, NEW L,
           \A i, j \in DOMAIN q : q[i] = q[j] /\ q[i] \notin L => i = j
    PROVE  /\ Tail(q) \in Seq(S) /\ Head(q) \in S
           /\ \A i, j \in DOMAIN Tail(q) : Tail(q)[i] = Tail(q)[j] /\ Tail(q)[i] \notin L => i = j
           /\ \A n : n \notin L \/ n # Head(q) =>
                ((\E i \in DOMAIN Tail(q) : Tail(q)[i] = n)
                       <=> n # Head(q) /\ \E i \in DOMAIN q : q[i] = n)
<1>1. /\ Len(q) \in Nat /\ Len(q) > 0 /\ DOMAIN q = 1..Len(q)
      /\ Head(q) = q[1] /\ Tail(q) \in Seq(S) /\ Head(q) \in S
      /\ DOMAIN Tail(q) = 1..(Len(q) - 1)
      /\ \A i \in 1..(Len(q) - 1) : Tail(q)[i] = q[i + 1]
  OBVIOUS
<1>2. \A i, j \in DOMAIN Tail(q) : Tail(q)[i] = Tail(q)[j] /\ Tail(q)[i] \notin L => i = j
  <2>1. \A i, j \in 1..(Len(q) - 1) : q[i + 1] = q[j + 1] /\ q[i + 1] \notin L => i = j
    <3>1. \A i \in 1..(Len(q) - 1) : i + 1 \in DOMAIN q
      BY <1>1
    <3>2. \A i, j \in 1..(Len(q) - 1) : i + 1 = j + 1 => i = j
      BY <1>1
    <3>3. QED
      BY <3>1, <3>2
  <2>2. QED
    BY <1>1, <2>1
<1>3. ASSUME NEW n, n \notin L \/ n # Head(q)
      PROVE (\E i \in DOMAIN Tail(q) : Tail(q)[i] = n)
                            <=> n # Head(q) /\ \E i \in DOMAIN q : q[i] = n
  <2>1. ASSUME NEW i \in DOMAIN Tail(q), Tail(q)[i] = n
        PROVE  n # Head(q) /\ \E k \in DOMAIN q : q[k] = n
    <3>1. i + 1 \in DOMAIN q /\ q[i + 1] = n /\ 1 \in DOMAIN q /\ i + 1 # 1
      BY <1>1, <2>1
    <3>2. QED
      BY <1>1, <1>3, <3>1
  <2>2. ASSUME n # Head(q), NEW i \in DOMAIN q, q[i] = n
        PROVE  \E k \in DOMAIN Tail(q) : Tail(q)[k] = n
    <3>1. i - 1 \in DOMAIN Tail(q) /\ Tail(q)[i - 1] = n
      BY <1>1, <2>2
    <3>2. QED
      BY <3>1
  <2>3. QED
    BY <2>1, <2>2
<1>4. QED
  BY <1>1, <1>2, <1>3

-----------------------------------------------------------------------------

Entry == [mac : Mac, seen : BOOLEAN]

Step == [pc : PCs, mac : Mac \cup {NoMac}, todo : Seq(Mac)]

CallerPCs == { "idle", "addCheck", "addDriver", "addList", "addUndo", "addFails", "removeDriver",
               "removeList", "clear", "clearDriver" }

SenderPCs == { "idle", "addCheck", "addDriver", "addList", "addUndo", "addFails", "discover",
               "markSeen", "checkStall", "deinit", "init", "readd" }

Named == { "addCheck", "addDriver", "addList", "addUndo", "addFails", "removeDriver", "removeList" }

TypeInv ==
    /\ list \in Seq(Entry) /\ Len(list) <= MaxPeers
    /\ discovered \in Seq(Mac) /\ Len(discovered) <= MaxDiscovered
    /\ driver \subseteq Mac /\ IsFiniteSet(driver) /\ Cardinality(driver) <= DriverSlots
    /\ driverUp \in BOOLEAN
    /\ task \in [Tasks -> Step]
    /\ receiving \in [pc : {"idle", "seen"}, mac : Mac \cup {NoMac}]
    /\ receiving.pc = "seen" => receiving.mac \in Mac
    /\ lost \subseteq Mac

(* Each task is where its role can take it.                                *)
Roles ==
    /\ \A t \in Callers : task[t].pc \in CallerPCs
    /\ task[Sender].pc \in SenderPCs
    /\ \A t \in Tasks : task[t].pc \in Named => task[t].mac \in Mac

-----------------------------------------------------------------------------
(* Who has a hold on an address.                                           *)

ToDo(t, m) == \E i \in DOMAIN task[t].todo : task[t].todo[i] = m

Adds(t, m) == task[t].pc \in {"addList", "addUndo"} /\ task[t].mac = m

Removes(t, m) == task[t].pc = "removeList" /\ task[t].mac = m

Clears(t, m) == task[t].pc = "clearDriver" /\ ToDo(t, m)

(* To be registered again by a restart.                                    *)
Owed(m) == task[Sender].pc \in {"init", "readd"} /\ ToDo(Sender, m)

FirstEntry(i) == \A j \in 1..(i - 1) : list[j].mac # list[i].mac

(* The entry that a task is about to remove, being out of the driver.      *)
Dropped(i) == FirstEntry(i) /\ \E t \in Tasks : Removes(t, list[i].mac)

Kept == {i \in DOMAIN list : ~Dropped(i)}

InKept(m) == \E i \in Kept : list[i].mac = m
InAdd(m) == \E t \in Tasks : Adds(t, m)
InClear(m) == \E t \in Tasks : Clears(t, m)

(* Once each, unless a restart lost it.                                    *)
OnceIn(q) == \A i, j \in DOMAIN q : q[i] = q[j] /\ q[i] \notin lost => i = j

OnceKept == \A i, j \in Kept : list[i].mac = list[j].mac /\ list[i].mac \notin lost => i = j

(* Apart from an entry that is being removed, and from the addresses that  *)
(* a restart lost, the list has no address twice; neither has what a task  *)
(* goes through.                                                           *)
Distinct ==
    /\ OnceKept
    /\ \A t \in Tasks : task[t].pc \in {"removeDriver", "removeList"} => HasPeer(task[t].mac)
    /\ \A t \in Tasks : task[t].pc \in {"clearDriver", "deinit", "init", "readd"}
           => OnceIn(task[t].todo)

(* What the driver holds or is owed has exactly one holder, and what is    *)
(* not has none: of each address that no restart lost.                     *)
Owned(m) ==
    /\ m \in driver \/ Owed(m) <=> InKept(m) \/ InAdd(m) \/ InClear(m)
    /\ ~(m \in driver /\ Owed(m))
    /\ ~(InKept(m) /\ InAdd(m)) /\ ~(InKept(m) /\ InClear(m)) /\ ~(InAdd(m) /\ InClear(m))
    /\ \A t, u \in Tasks : Adds(t, m) /\ Adds(u, m) => t = u

(* A restart has the list to itself.                                       *)
RestartAlone ==
    /\ task[Sender].pc = "init" => ~driverUp
    /\ Restarting => Restarts = "alone" /\ \A t \in Callers : task[t].pc = "idle"
    /\ task[Sender].pc = "deinit" => \A m \in Mac : ToDo(Sender, m) <=> m \in Listed

PeerInv == TypeInv /\ Roles /\ Distinct /\ RestartAlone /\ \A m \in Mac \ lost : Owned(m)
-----------------------------------------------------------------------------
(* Where a step takes a task.                                              *)

Move(t, p, m, q) == task' = [task EXCEPT ![t] = [pc |-> p, mac |-> m, todo |-> q]]

LEMMA MoveFacts ==
    ASSUME task \in [Tasks -> Step], NEW t \in Tasks, NEW p \in PCs,
           NEW m \in Mac \cup {NoMac}, NEW q \in Seq(Mac), Move(t, p, m, q)
    PROVE  /\ task' \in [Tasks -> Step]
           /\ task'[t].pc = p /\ task'[t].mac = m /\ task'[t].todo = q
           /\ \A u \in Tasks \ {t} : task'[u] = task[u]
<1>1. [pc |-> p, mac |-> m, todo |-> q] \in Step
  BY DEF Step
<1>2. QED
  BY <1>1 DEF Move

LEMMA GotoMoves ==
    ASSUME task \in [Tasks -> Step], NEW t \in Tasks, NEW p \in PCs, Goto(t, p)
    PROVE  Move(t, p, task[t].mac, task[t].todo)
<1> DEFINE s == [task[t] EXCEPT !.pc = p]
<1>1. task' = [task EXCEPT ![t] = s]
  BY DEF Goto
<1>2. s = [pc |-> p, mac |-> task[t].mac, todo |-> task[t].todo]
  <2>1. task[t] \in [pc : PCs, mac : Mac \cup {NoMac}, todo : Seq(Mac)]
    BY DEF Step
  <2>2. s \in [pc : PCs, mac : Mac \cup {NoMac}, todo : Seq(Mac)]
    BY <2>1, Zenon
  <2>3. s.pc = p /\ s.mac = task[t].mac /\ s.todo = task[t].todo
    BY <2>1, Zenon
  <2> HIDE DEF s
  <2>4. QED
    BY <2>2, <2>3
<1>3. QED
  BY <1>1, <1>2 DEF Move

LEMMA ReturnMoves ==
    ASSUME NEW t \in Tasks, Return(t)
    PROVE  Move(t, "idle", NoMac, <<>>)
BY DEF Return, Move, Idle

LEMMA TodoMoves ==
    ASSUME task \in [Tasks -> Step], NEW t \in Tasks, NEW q \in Seq(Mac),
           task' = [task EXCEPT ![t].todo = q]
    PROVE  Move(t, task[t].pc, task[t].mac, q)
<1> DEFINE s == [task[t] EXCEPT !.todo = q]
<1>1. task' = [task EXCEPT ![t] = s]
  OBVIOUS
<1>2. s = [pc |-> task[t].pc, mac |-> task[t].mac, todo |-> q]
  <2>1. task[t] \in [pc : PCs, mac : Mac \cup {NoMac}, todo : Seq(Mac)]
    BY DEF Step
  <2>2. s \in [pc : PCs, mac : Mac \cup {NoMac}, todo : Seq(Mac)]
    BY <2>1, Zenon
  <2>3. s.pc = task[t].pc /\ s.mac = task[t].mac /\ s.todo = q
    BY <2>1, Zenon
  <2> HIDE DEF s
  <2>4. QED
    BY <2>2, <2>3
<1>3. QED
  BY <1>1, <1>2 DEF Move

(* addPeer() returns to the application, or to addDiscoveredPeers().        *)
LEMMA AddReturnsMoves ==
    ASSUME task \in [Tasks -> Step], NEW t \in Tasks, NEW added \in BOOLEAN, AddReturns(t, added)
    PROVE  \E p \in {"idle", "discover", "markSeen"} :
             \E m \in Mac \cup {NoMac}, q \in Seq(Mac) :
               /\ Move(t, p, m, q)
               /\ p = "idle" <=> t # Sender
<1>1. CASE t # Sender
  BY <1>1, <<>> \in Seq(Mac) DEF AddReturns, Move, Idle
<1>2. CASE t = Sender
  <2>1. task[t].mac \in Mac \cup {NoMac} /\ task[t].todo \in Seq(Mac)
    BY DEF Step
  <2>2. PICK p \in {"discover", "markSeen"} : Goto(t, p)
    BY <1>2 DEF AddReturns
  <2>3. Move(t, p, task[t].mac, task[t].todo)
    BY <2>2, GotoMoves DEF PCs
  <2>4. QED
    BY <1>2, <2>1, <2>3
<1>3. QED
  BY <1>1, <1>2
-----------------------------------------------------------------------------
(* The list.                                                               *)

LEMMA AddressesListed ==
    ASSUME list \in Seq(Entry)
    PROVE  \A i \in DOMAIN list : list[i].mac \in Mac
<1>1. \A i \in DOMAIN list : list[i] \in Entry
  OBVIOUS
<1>2. QED
  BY <1>1 DEF Entry

LEMMA FirstExists ==
    ASSUME list \in Seq(Entry), NEW m, HasPeer(m)
    PROVE  \E i \in DOMAIN list : list[i].mac = m /\ FirstEntry(i)
<1> DEFINE T == {i \in DOMAIN list : list[i].mac = m}
<1>1. DOMAIN list = 1..Len(list) /\ Len(list) \in Nat
  OBVIOUS
<1>2. T \in SUBSET Nat /\ T # {}
  BY <1>1 DEF HasPeer, Listed
<1>3. PICK i \in T : \A j \in T : i <= j
  BY <1>2, LeastNat
<1>4. \A j \in 1..(i - 1) : j \in DOMAIN list /\ ~(i <= j)
  BY <1>1, <1>3
<1>5. FirstEntry(i)
  BY <1>3, <1>4 DEF FirstEntry
<1>6. QED
  BY <1>3, <1>5

(* Without(m) takes out the first entry of m and moves the later ones up.  *)
LEMMA WithoutRemovesFirst ==
    ASSUME list \in Seq(Entry), NEW m, HasPeer(m)
    PROVE  \E r \in DOMAIN list :
             /\ list[r].mac = m /\ FirstEntry(r)
             /\ Without(m) \in Seq(Entry)
             /\ Len(Without(m)) = Len(list) - 1
             /\ \A i \in 1..(Len(list) - 1) : Without(m)[i] = list[Up(r, i)]
<1> DEFINE P(i) == list[i].mac = m /\ \A j \in 1..(i - 1) : list[j].mac # m
           r == CHOOSE i \in DOMAIN list : P(i)
<1>1. r \in DOMAIN list /\ P(r)
  <2>1. \E i \in DOMAIN list : P(i)
    BY FirstExists DEF FirstEntry
  <2>2. QED
    BY <2>1
<1>2. Without(m) = RemoveAt(list, r)
  BY DEF Without, RemoveAt
<1> HIDE DEF r
<1>3. r \in 1..Len(list)
  BY <1>1
<1>4. /\ RemoveAt(list, r) \in Seq(Entry) /\ Len(RemoveAt(list, r)) = Len(list) - 1
      /\ \A i \in 1..(Len(list) - 1) : RemoveAt(list, r)[i] = list[Up(r, i)]
  BY <1>3, RemoveAtProperties
<1>5. list[r].mac = m /\ FirstEntry(r)
  BY <1>1 DEF FirstEntry
<1>6. QED
  BY <1>1, <1>2, <1>4, <1>5

(* Marking an entry as seen keeps every address where it was.              *)
LEMMA SeenKeepsAddresses ==
    ASSUME list \in Seq(Entry), NEW m
    PROVE  /\ Seen(m) \in Seq(Entry)
           /\ Len(Seen(m)) = Len(list)
           /\ \A i \in DOMAIN list : Seen(m)[i].mac = list[i].mac
<1>1. DOMAIN list = 1..Len(list) /\ Len(list) \in Nat
  OBVIOUS
<1>2. \A i \in DOMAIN list : list[i] \in Entry
  OBVIOUS
<1>3. \A i \in DOMAIN list : Seen(m)[i] \in Entry /\ Seen(m)[i].mac = list[i].mac
  BY <1>2 DEF Seen, Entry
<1>4. DOMAIN Seen(m) = 1..Len(list)
  BY <1>1 DEF Seen
<1>5. Seen(m) \in [1..Len(list) -> Entry]
  BY <1>1, <1>3 DEF Seen
<1>6. Seen(m) \in Seq(Entry)
  BY <1>1, <1>5
<1>7. QED
  BY <1>1, <1>3, <1>4, <1>6
-----------------------------------------------------------------------------
(* What the steps share.                                                   *)

OneTask == (\A t, u \in Callers : t = u) /\ Restarts # "anytime"

LEMMA MoveRoles ==
    ASSUME task \in [Tasks -> Step], Roles, NEW t \in Tasks, NEW p \in PCs,
           NEW m \in Mac \cup {NoMac}, NEW q \in Seq(Mac), Move(t, p, m, q),
           t \in Callers => p \in CallerPCs,
           t = Sender => p \in SenderPCs,
           p \in Named => m \in Mac
    PROVE  task' \in [Tasks -> Step] /\ Roles'
<1>1. /\ task' \in [Tasks -> Step]
      /\ task'[t].pc = p /\ task'[t].mac = m
      /\ \A u \in Tasks \ {t} : task'[u] = task[u]
  BY MoveFacts
<1>2. \A u \in Callers : task'[u].pc \in CallerPCs
  BY <1>1 DEF Roles, Tasks
<1>3. task'[Sender].pc \in SenderPCs
  BY <1>1 DEF Roles, Tasks
<1>4. \A u \in Tasks : task'[u].pc \in Named => task'[u].mac \in Mac
  BY <1>1 DEF Roles
<1>5. QED
  BY <1>1, <1>2, <1>3, <1>4 DEF Roles

LEMMA NotRestarting ==
    ASSUME ~Restarting'
    PROVE  RestartAlone'
BY DEF RestartAlone, Restarting

(* A step that changes neither table, nor who holds what, changes nothing. *)
LEMMA SameHolders ==
    ASSUME PeerInv, NEW t \in Tasks, NEW p \in PCs,
           NEW m \in Mac \cup {NoMac}, NEW q \in Seq(Mac), Move(t, p, m, q),
           UNCHANGED <<list, driver, lost>>,
           \A n \in Mac : /\ Adds(t, n)' <=> Adds(t, n)
                          /\ Removes(t, n)' <=> Removes(t, n)
                          /\ Clears(t, n)' <=> Clears(t, n)
                          /\ Owed(n)' <=> Owed(n),
           p \in {"removeDriver", "removeList"} => HasPeer(m),
           p \in {"clearDriver", "deinit", "init", "readd"}
             => OnceIn(q)
    PROVE  Distinct' /\ \A n \in Mac \ lost : Owned(n)'
<1>1. /\ task'[t].pc = p /\ task'[t].mac = m /\ task'[t].todo = q
      /\ \A u \in Tasks \ {t} : task'[u] = task[u]
  BY MoveFacts DEF PeerInv, TypeInv
<1>2. \A u \in Tasks, n \in Mac : /\ Adds(u, n)' <=> Adds(u, n)
                                  /\ Removes(u, n)' <=> Removes(u, n)
                                  /\ Clears(u, n)' <=> Clears(u, n)
  BY <1>1 DEF Adds, Removes, Clears, ToDo
<1>3. \A i \in DOMAIN list : list[i].mac \in Mac
  BY AddressesListed DEF PeerInv, TypeInv
<1>4. \A i \in DOMAIN list : Dropped(i)' <=> Dropped(i)
  BY <1>2, <1>3 DEF Dropped, FirstEntry
<1>5. Kept' = Kept
  BY <1>4 DEF Kept
<1>6. \A n \in Mac : InKept(n)' <=> InKept(n)
  BY <1>5 DEF InKept
<1>7. \A n \in Mac : InAdd(n)' <=> InAdd(n)
  BY <1>2 DEF InAdd
<1>8. \A n \in Mac : InClear(n)' <=> InClear(n)
  BY <1>2 DEF InClear
<1>9. Distinct'
  <2>1. OnceKept'
    BY <1>5 DEF PeerInv, Distinct, OnceIn, OnceKept
  <2>2. (\A u \in Tasks : task[u].pc \in {"removeDriver", "removeList"} => HasPeer(task[u].mac))'
    BY <1>1 DEF PeerInv, Distinct, OnceIn, OnceKept, HasPeer, Listed
  <2>3. (\A u \in Tasks : task[u].pc \in {"clearDriver", "deinit", "init", "readd"}
           => OnceIn(task[u].todo))'
    BY <1>1 DEF PeerInv, Distinct, OnceIn, OnceKept
  <2>4. QED
    BY <2>1, <2>2, <2>3 DEF Distinct, OnceIn, OnceKept
<1>10. ASSUME NEW n \in Mac \ lost PROVE Owned(n)'
  <2>1. Owned(n)
    BY DEF PeerInv
  <2>2. QED
    BY <1>2, <1>6, <1>7, <1>8, <2>1 DEF Owned
<1>11. QED
  BY <1>9, <1>10

(* Where a task holds an address that only one of the tables has.          *)
Holding == {"addList", "addUndo", "removeList", "clearDriver", "deinit", "init", "readd"}

LEMMA NobodyHolds ==
    ASSUME PeerInv, NEW t \in Tasks, NEW p \in PCs,
           NEW m \in Mac \cup {NoMac}, NEW q \in Seq(Mac), Move(t, p, m, q),
           task[t].pc \notin Holding, p \notin Holding
    PROVE  \A n \in Mac : /\ Adds(t, n)' <=> Adds(t, n)
                          /\ Removes(t, n)' <=> Removes(t, n)
                          /\ Clears(t, n)' <=> Clears(t, n)
                          /\ Owed(n)' <=> Owed(n)
<1>1. /\ task'[t].pc = p
      /\ \A u \in Tasks \ {t} : task'[u] = task[u]
  BY MoveFacts DEF PeerInv, TypeInv
<1>2. Sender \in Tasks
  BY DEF Tasks
<1>3. QED
  BY <1>1, <1>2 DEF Adds, Removes, Clears, Owed, ToDo, Holding

LEMMA QuietStep ==
    ASSUME PeerInv, NEW t \in Tasks, NEW p \in PCs,
           NEW m \in Mac \cup {NoMac}, NEW q \in Seq(Mac), Move(t, p, m, q),
           UNCHANGED <<list, driver, receiving, lost>>,
           discovered' \in Seq(Mac), Len(discovered') <= MaxDiscovered,
           driverUp' \in BOOLEAN,
           task[t].pc \notin Holding, p \notin Holding, ~Restarting,
           p = "removeDriver" => HasPeer(m),
           t \in Callers => p \in CallerPCs,
           t = Sender => p \in SenderPCs,
           p \in Named => m \in Mac
    PROVE  PeerInv'
<1>1. task' \in [Tasks -> Step] /\ Roles'
  BY MoveRoles DEF PeerInv, TypeInv
<1>2. TypeInv'
  BY <1>1 DEF PeerInv, TypeInv
<1>3. ~Restarting'
  <2>1. /\ task'[t].pc = p
        /\ \A u \in Tasks \ {t} : task'[u] = task[u]
    BY MoveFacts DEF PeerInv, TypeInv
  <2>2. QED
    BY <2>1 DEF Restarting, Holding, Tasks
<1>4. RestartAlone'
  BY <1>2, <1>3, NotRestarting DEF PeerInv, TypeInv
<1>5. Distinct' /\ \A n \in Mac \ lost : Owned(n)'
  BY NobodyHolds, SameHolders DEF Holding
<1>6. QED
  BY <1>1, <1>2, <1>4, <1>5 DEF PeerInv

LEMMA DriverShrinks ==
    ASSUME TypeInv, NEW m, driver' = driver \ {m}
    PROVE  driver' \subseteq Mac /\ IsFiniteSet(driver') /\ Cardinality(driver') <= DriverSlots
<1>1. IsFiniteSet(driver) /\ Cardinality(driver) \in Nat /\ Cardinality(driver) <= DriverSlots
  BY FS_CardinalityType DEF TypeInv
<1>2. IsFiniteSet(driver') /\ Cardinality(driver') <= Cardinality(driver) /\ Cardinality(driver') \in Nat
  BY <1>1, FS_Subset, FS_CardinalityType
<1>3. QED
  BY <1>1, <1>2, PeerListAssumption DEF TypeInv

(* A task that is not the sender's changes nothing during a restart.       *)
LEMMA BusyAlone ==
    ASSUME PeerInv, NEW t \in Tasks,
           t \in Callers => task[t].pc # "idle",
           t = Sender => task[t].pc \notin {"deinit", "init", "readd"}
    PROVE  ~Restarting
BY DEF PeerInv, TypeInv, RestartAlone, Restarting, Tasks
-----------------------------------------------------------------------------
(* The calls, and the steps that change neither table.                     *)

LEMMA CallKeeps ==
    ASSUME PeerInv, OneTask, NEW t \in Callers, Call(t)
    PROVE  PeerInv'
<1> t \in Tasks /\ t # Sender /\ <<>> \in Seq(Mac)
  BY PeerListAssumption DEF Tasks
<1>1. ~Restarting
  BY PeerListAssumption DEF Call, PeerInv, RestartAlone
<1>2. /\ discovered \in Seq(Mac) /\ Len(discovered) <= MaxDiscovered
      /\ driverUp \in BOOLEAN /\ task \in [Tasks -> Step]
      /\ task[t].mac \in Mac \cup {NoMac} /\ task[t].todo \in Seq(Mac)
  BY DEF PeerInv, TypeInv, Step
<1>3. ASSUME NEW m \in Mac, CallAddPeer(t, m) PROVE PeerInv'
  <2>1. Move(t, "addCheck", m, <<>>)
    BY <1>3 DEF CallAddPeer, Move
  <2>2. QED
    BY <1>1, <1>2, <1>3, <2>1, QuietStep DEF CallAddPeer, Holding, PCs, CallerPCs
<1>4. ASSUME NEW m \in Mac, CallRemovePeer(t, m) PROVE PeerInv'
  <2>1. Move(t, "removeDriver", m, <<>>)
    BY <1>4 DEF CallRemovePeer, Move
  <2>2. QED
    BY <1>1, <1>2, <1>4, <2>1, QuietStep DEF CallRemovePeer, Holding, PCs, CallerPCs
<1>5. CASE CallClearPeers(t)
  <2>1. Move(t, "clear", task[t].mac, task[t].todo)
    BY <1>2, <1>5, GotoMoves DEF CallClearPeers, PCs
  <2>2. QED
    BY <1>1, <1>2, <1>5, <2>1, QuietStep DEF CallClearPeers, Holding, PCs, CallerPCs, Named
<1>6. CASE CallBegin(t)
  <2>1. \E p \in {"idle", "clear"} : Move(t, p, task[t].mac, task[t].todo)
    <3>1. CASE list # <<>>
      BY <1>2, <1>6, <3>1, GotoMoves DEF CallBegin, PCs
    <3>2. CASE list = <<>>
      <4>1. task[t] = [pc |-> "idle", mac |-> task[t].mac, todo |-> task[t].todo]
        BY <1>2, <1>6 DEF CallBegin, Step
      <4>2. Move(t, "idle", task[t].mac, task[t].todo)
        BY <1>2, <1>6, <3>2, <4>1 DEF CallBegin, Move
      <4>3. QED
        BY <4>2
    <3>3. QED
      BY <3>1, <3>2
  <2>2. PICK p \in {"idle", "clear"} : Move(t, p, task[t].mac, task[t].todo)
    BY <2>1
  <2>3. QED
    BY <1>1, <1>2, <1>6, <2>2, QuietStep DEF CallBegin, Holding, PCs, CallerPCs, Named
<1>7. QED
  BY <1>3, <1>4, <1>5, <1>6 DEF Call
-----------------------------------------------------------------------------
(* addPeer()                                                               *)

(* It gives up, or ends, before it has touched a table or afterwards.      *)
LEMMA AddGivesUp ==
    ASSUME PeerInv, NEW t \in Tasks, NEW added \in BOOLEAN, AddReturns(t, added),
           UNCHANGED <<list, discovered, driver, driverUp, receiving, lost>>,
           task[t].pc \in {"addCheck", "addFails"}
    PROVE  PeerInv'
<1>1. task \in [Tasks -> Step] /\ discovered \in Seq(Mac) /\ Len(discovered) <= MaxDiscovered
      /\ driverUp \in BOOLEAN
  BY DEF PeerInv, TypeInv
<1>2. PICK p \in {"idle", "discover", "markSeen"}, m \in Mac \cup {NoMac}, q \in Seq(Mac) :
        Move(t, p, m, q) /\ (p = "idle" <=> t # Sender)
  BY <1>1, AddReturnsMoves
<1>3. ~Restarting
  BY BusyAlone
<1>4. /\ p \in PCs /\ p \notin Holding /\ p # "removeDriver" /\ p \notin Named
      /\ t \in Callers => p \in CallerPCs
      /\ t = Sender => p \in SenderPCs
      /\ task[t].pc \notin Holding
  BY <1>2, PeerListAssumption DEF Holding, PCs, CallerPCs, SenderPCs, Named, Tasks
<1>5. QED
  BY <1>1, <1>2, <1>3, <1>4, QuietStep

LEMMA AddCheckKeeps ==
    ASSUME PeerInv, OneTask, NEW t \in Tasks, AddCheck(t)
    PROVE  PeerInv'
<1>1. task \in [Tasks -> Step] /\ discovered \in Seq(Mac) /\ Len(discovered) <= MaxDiscovered
      /\ driverUp \in BOOLEAN /\ task[t].pc = "addCheck"
      /\ task[t].mac \in Mac /\ task[t].todo \in Seq(Mac)
  BY DEF PeerInv, TypeInv, Step, AddCheck, Roles, Named
<1>2. CASE AddReturns(t, FALSE)
  BY <1>1, <1>2, AddGivesUp DEF AddCheck
<1>3. CASE Goto(t, "addDriver")
  <2>1. Move(t, "addDriver", task[t].mac, task[t].todo)
    BY <1>1, <1>3, GotoMoves DEF PCs
  <2>2. ~Restarting
    BY <1>1, BusyAlone
  <2>3. UNCHANGED <<list, discovered, driver, driverUp, receiving, lost>>
    BY DEF AddCheck
  <2>4. QED
    BY <1>1, <2>1, <2>2, <2>3, QuietStep DEF Holding, PCs, CallerPCs, SenderPCs
<1>4. QED
  BY <1>2, <1>3 DEF AddCheck

(* Every address in the driver has its holder, so one that the driver does *)
(* not have is held by nobody, and the task that adds it becomes the one.  *)
LEMMA AddDriverKeeps ==
    ASSUME PeerInv, OneTask, NEW t \in Tasks, AddDriver(t)
    PROVE  PeerInv'
<1> DEFINE m == task[t].mac
<1>1. task \in [Tasks -> Step] /\ task[t].pc = "addDriver"
      /\ m \in Mac /\ task[t].todo \in Seq(Mac)
  BY DEF PeerInv, TypeInv, Step, AddDriver, Roles, Named
<1>2. CASE DriverRefuses(t)
  <2>1. Move(t, "addFails", m, task[t].todo)
    BY <1>1, <1>2, GotoMoves DEF DriverRefuses, PCs
  <2>2. ~Restarting
    BY <1>1, BusyAlone
  <2>3. discovered \in Seq(Mac) /\ Len(discovered) <= MaxDiscovered /\ driverUp \in BOOLEAN
    BY DEF PeerInv, TypeInv
  <2>4. UNCHANGED <<list, discovered, driver, driverUp, receiving, lost>>
    BY <1>2 DEF AddDriver, DriverRefuses
  <2>5. QED
    BY <1>1, <2>1, <2>2, <2>3, <2>4, QuietStep DEF Holding, PCs, CallerPCs, SenderPCs
<1>3. CASE DriverRegisters(t)
  <2>1. Move(t, "addList", m, task[t].todo)
    BY <1>1, <1>3, GotoMoves DEF DriverRegisters, PCs
  <2>2. /\ task'[t].pc = "addList" /\ task'[t].mac = m /\ task'[t].todo = task[t].todo
        /\ \A u \in Tasks \ {t} : task'[u] = task[u]
    BY <1>1, <2>1, MoveFacts DEF PCs
  <2>3. task' \in [Tasks -> Step] /\ Roles'
    BY <1>1, <2>1, MoveRoles DEF PeerInv, PCs, CallerPCs, SenderPCs
  <2>4. driver' = driver \cup {m} /\ m \notin driver /\ driverUp
        /\ UNCHANGED <<list, discovered, driverUp, receiving>>
        /\ lost' = IF HasPeer(m) \/ InHand(m) THEN lost ELSE lost \ {m}
    BY <1>3 DEF AddDriver, DriverRegisters, DriverAccepts
  <2>5. TypeInv'
    <3>1. IsFiniteSet(driver') /\ Cardinality(driver') <= DriverSlots
      <4>1. IsFiniteSet(driver) /\ Cardinality(driver) \in Nat
        BY FS_CardinalityType DEF PeerInv, TypeInv
      <4>2. Cardinality(driver) < DriverSlots
        BY <1>3 DEF DriverRegisters, DriverAccepts
      <4>3. IsFiniteSet(driver') /\ Cardinality(driver') = Cardinality(driver) + 1
        BY <2>4, <4>1, FS_AddElement
      <4>4. QED
        BY <4>1, <4>2, <4>3, PeerListAssumption
    <3>2. QED
      BY <1>1, <2>3, <2>4, <3>1 DEF PeerInv, TypeInv
  <2>6. ~Restarting /\ ~Restarting'
    <3>1. ~Restarting
      BY <1>1, BusyAlone
    <3>2. QED
      BY <3>1, <2>2 DEF Restarting, Tasks
  <2>7. RestartAlone'
    BY <2>4, <2>5, <2>6, NotRestarting DEF PeerInv, TypeInv
  <2>8. \A u \in Tasks, n \in Mac :
           /\ Adds(u, n)' <=> Adds(u, n) \/ (u = t /\ n = m)
           /\ Removes(u, n)' <=> Removes(u, n)
           /\ Clears(u, n)' <=> Clears(u, n)
    BY <1>1, <2>2 DEF Adds, Removes, Clears, ToDo
  <2>9. \A n \in Mac : ~Owed(n) /\ ~Owed(n)'
    BY <2>6 DEF Owed, Restarting
  <2>10. Kept' = Kept
    <3>1. \A i \in DOMAIN list : list[i].mac \in Mac
      BY AddressesListed DEF PeerInv, TypeInv
    <3>2. \A i \in DOMAIN list : Dropped(i)' <=> Dropped(i)
      BY <2>4, <2>8, <3>1 DEF Dropped, FirstEntry
    <3>3. QED
      BY <2>4, <3>2 DEF Kept
  <2>11. m \in lost /\ m \notin lost' => ~InKept(m) /\ ~InAdd(m) /\ ~InClear(m)
    <3>1. ASSUME ~HasPeer(m) PROVE ~InKept(m)
      BY <3>1 DEF InKept, Kept, HasPeer, Listed
    <3>2. ASSUME ~InHand(m) PROVE ~InAdd(m) /\ ~InClear(m)
      BY <3>2 DEF InHand, Held, InAdd, InClear, Adds, Clears, ToDo
    <3>3. QED
      BY <2>4, <3>1, <3>2
  <2>12. ASSUME m \notin lost'
         PROVE  ~InKept(m) /\ ~InAdd(m) /\ ~InClear(m)
    <3>1. CASE m \in lost
      BY <2>11, <2>12, <3>1
    <3>2. CASE m \notin lost
      <4>1. Owned(m)
        BY <1>1, <3>2 DEF PeerInv
      <4>2. QED
        BY <1>1, <2>4, <2>9, <4>1 DEF Owned
    <3>3. QED
      BY <3>1, <3>2
  <2>13. \A n : n \notin lost' => n \notin lost \/ n = m
    BY <2>4
  <2>14. Distinct'
    <3>1. OnceKept'
      <4>1. ASSUME NEW i \in Kept, NEW j \in Kept, list[i].mac = list[j].mac, list[i].mac \notin lost'
            PROVE  i = j
        <5>1. list[i].mac = m => m \in lost'
          BY <2>12, <4>1 DEF InKept
        <5>2. list[i].mac \notin lost
          BY <2>13, <4>1, <5>1
        <5>3. QED
          BY <4>1, <5>2 DEF PeerInv, Distinct, OnceKept
      <4>2. QED
        BY <2>4, <2>10, <4>1 DEF OnceKept
    <3>2. (\A u \in Tasks : task[u].pc \in {"removeDriver", "removeList"} => HasPeer(task[u].mac))'
      BY <1>1, <2>2, <2>4 DEF PeerInv, Distinct, HasPeer, Listed
    <3>3. (\A u \in Tasks : task[u].pc \in {"clearDriver", "deinit", "init", "readd"} => OnceIn(task[u].todo))'
      <4>1. ASSUME NEW u \in Tasks \ {t}, task[u].pc \in {"clearDriver", "deinit", "init", "readd"},
                   NEW i \in DOMAIN task[u].todo, NEW j \in DOMAIN task[u].todo,
                   task[u].todo[i] = task[u].todo[j], task[u].todo[i] \notin lost'
            PROVE  i = j
        <5>1. task[u].pc = "clearDriver"
          BY <2>6, <4>1 DEF Restarting, PeerInv, Roles, CallerPCs, Tasks
        <5>2. task[u].todo[i] = m => m \in lost'
          BY <2>12, <4>1, <5>1 DEF InClear, Clears, ToDo
        <5>3. task[u].todo[i] \notin lost
          BY <2>13, <4>1, <5>2
        <5>4. QED
          BY <4>1, <5>3 DEF PeerInv, Distinct, OnceIn
      <4>2. QED
        BY <2>2, <4>1 DEF OnceIn
    <3>4. QED
      BY <3>1, <3>2, <3>3 DEF Distinct
  <2>15. ASSUME NEW n \in Mac, n \notin lost' PROVE Owned(n)'
    <3>1. n # m => Owned(n)
      BY <2>13, <2>15 DEF PeerInv
    <3>2. (InKept(n)' <=> InKept(n)) /\ (InClear(n)' <=> InClear(n))
      BY <2>4, <2>8, <2>10 DEF InKept, InClear
    <3>3. InAdd(n)' <=> InAdd(n) \/ n = m
      BY <2>8 DEF InAdd
    <3>4. n = m => ~InKept(n) /\ ~InAdd(n) /\ ~InClear(n)
      BY <2>12, <2>15
    <3>5. \A u, v \in Tasks : (Adds(u, n) /\ Adds(v, n))' => u = v
      BY <2>8, <3>1, <3>4 DEF Owned, InAdd
    <3>6. QED
      BY <2>4, <2>9, <3>1, <3>2, <3>3, <3>4, <3>5 DEF Owned
  <2>16. QED
    BY <2>3, <2>5, <2>7, <2>14, <2>15 DEF PeerInv
<1>4. QED
  BY <1>1, <1>2, <1>3 DEF AddDriver

LEMMA AddFailsKeeps ==
    ASSUME PeerInv, OneTask, NEW t \in Tasks, AddFails(t)
    PROVE  PeerInv'
BY AddGivesUp DEF AddFails

(* The new entry is the last; if an earlier one of the same address is     *)
(* about to be removed, the new one is not the first and stays.            *)
LEMMA AddListKeeps ==
    ASSUME PeerInv, OneTask, NEW t \in Tasks, AddList(t)
    PROVE  PeerInv'
<1> DEFINE m == task[t].mac
<1>1. /\ task \in [Tasks -> Step] /\ task[t].pc = "addList"
      /\ m \in Mac /\ task[t].todo \in Seq(Mac)
      /\ list \in Seq(Entry) /\ Len(list) \in Nat /\ DOMAIN list = 1..Len(list)
      /\ UNCHANGED <<discovered, driver, driverUp, receiving, lost>>
  BY DEF PeerInv, TypeInv, Step, AddList, Roles, Named
<1>2. ~Restarting
  BY <1>1, BusyAlone
<1>3. CASE ~(Len(list) < MaxPeers)
  <2>1. list' = list /\ Goto(t, "addUndo")
    BY <1>3 DEF AddList
  <2>2. Move(t, "addUndo", m, task[t].todo)
    BY <1>1, <2>1, GotoMoves DEF PCs
  <2>3. /\ task'[t].pc = "addUndo" /\ task'[t].mac = m /\ task'[t].todo = task[t].todo
        /\ \A u \in Tasks \ {t} : task'[u] = task[u]
    BY <1>1, <2>2, MoveFacts DEF PCs
  <2>4. task' \in [Tasks -> Step] /\ Roles'
    BY <1>1, <2>2, MoveRoles DEF PeerInv, PCs, CallerPCs, SenderPCs
  <2>5. TypeInv'
    BY <1>1, <2>1, <2>4 DEF PeerInv, TypeInv
  <2>6. ~Restarting'
    BY <1>2, <2>3 DEF Restarting, Tasks
  <2>7. RestartAlone'
    BY <1>1, <1>2, <2>5, <2>6, NotRestarting DEF PeerInv, TypeInv
  <2>8. \A n \in Mac : /\ Adds(t, n)' <=> Adds(t, n)
                       /\ Removes(t, n)' <=> Removes(t, n)
                       /\ Clears(t, n)' <=> Clears(t, n)
                       /\ Owed(n)' <=> Owed(n)
    BY <1>1, <1>2, <2>3, <2>6 DEF Adds, Removes, Clears, Owed, Restarting
  <2>9. Distinct' /\ \A n \in Mac \ lost : Owned(n)'
    BY <1>1, <2>1, <2>2, <2>8, SameHolders DEF PCs
  <2>10. QED
    BY <1>1, <2>4, <2>5, <2>7, <2>9 DEF PeerInv
<1>4. CASE Len(list) < MaxPeers
  <2> DEFINE e == [mac |-> m, seen |-> FALSE]
  <2>0. PICK k \in Nat : k = Len(list) + 1
    BY <1>1
  <2>1. list' = Append(list, e) /\ AddReturns(t, TRUE)
    BY <1>4 DEF AddList
  <2>2. PICK p \in {"idle", "discover", "markSeen"}, a \in Mac \cup {NoMac}, q \in Seq(Mac) :
          Move(t, p, a, q) /\ (p = "idle" <=> t # Sender)
    BY <1>1, <2>1, AddReturnsMoves
  <2>3. /\ task'[t].pc = p /\ task'[t].mac = a /\ task'[t].todo = q
        /\ \A u \in Tasks \ {t} : task'[u] = task[u]
    <3>1. p \in PCs
      BY DEF PCs
    <3>2. QED
      BY <1>1, <2>2, <3>1, MoveFacts
  <2>4. task' \in [Tasks -> Step] /\ Roles'
    BY <1>1, <2>2, MoveRoles, PeerListAssumption DEF PeerInv, PCs, CallerPCs, SenderPCs, Named, Tasks
  <2>5. /\ list' \in Seq(Entry) /\ Len(list') = k /\ DOMAIN list' = 1..k
        /\ list'[k].mac = m /\ \A i \in DOMAIN list : list'[i] = list[i]
    <3>1. e \in Entry
      BY <1>1 DEF Entry
    <3>2. QED
      BY <1>1, <2>0, <2>1, <3>1
  <2>6. TypeInv'
    BY <1>1, <1>4, <2>0, <2>4, <2>5, PeerListAssumption DEF PeerInv, TypeInv
  <2>7. ~Restarting'
    BY <1>2, <2>3 DEF Restarting, Tasks
  <2>8. RestartAlone'
    BY <1>1, <1>2, <2>6, <2>7, NotRestarting DEF PeerInv, TypeInv
  <2>9. \A u \in Tasks, n \in Mac :
           /\ Adds(u, n)' <=> Adds(u, n) /\ u # t
           /\ Removes(u, n)' <=> Removes(u, n)
           /\ Clears(u, n)' <=> Clears(u, n)
    BY <1>1, <2>3 DEF Adds, Removes, Clears, ToDo
  <2>10. \A n \in Mac : ~Owed(n) /\ ~Owed(n)'
    BY <1>2, <2>7 DEF Owed, Restarting
  <2>11. Kept' = Kept \cup {k}
    <3>1. \A i \in DOMAIN list : list[i].mac \in Mac
      BY <1>1, AddressesListed
    <3>2. \A i \in DOMAIN list : FirstEntry(i)' <=> FirstEntry(i)
      <4>1. ASSUME NEW i \in DOMAIN list PROVE \A j \in 1..(i - 1) : j \in DOMAIN list
        BY <1>1
      <4>2. QED
        BY <2>5, <4>1 DEF FirstEntry
    <3>3. \A i \in DOMAIN list : Dropped(i)' <=> Dropped(i)
      BY <2>5, <2>9, <3>1, <3>2 DEF Dropped
    <3>4. ~Dropped(k)'
      <4>1. ASSUME NEW u \in Tasks, Removes(u, m) PROVE ~FirstEntry(k)'
        <5>1. PICK j \in DOMAIN list : list[j].mac = m
          BY <4>1 DEF Removes, PeerInv, Distinct, OnceIn, OnceKept, HasPeer, Listed
        <5>2. j \in 1..(k - 1) /\ list'[j].mac = m
          BY <1>1, <2>0, <2>5, <5>1
        <5>3. QED
          BY <2>5, <5>2 DEF FirstEntry
      <4>2. QED
        BY <1>1, <2>5, <2>9, <4>1 DEF Dropped
    <3>5. DOMAIN list' = DOMAIN list \cup {k}
      BY <1>1, <2>0, <2>5
    <3>6. QED
      BY <3>3, <3>4, <3>5 DEF Kept
  <2>12. ASSUME m \notin lost
         PROVE  /\ ~InKept(m) /\ ~InClear(m) /\ m \in driver
                /\ \A u \in Tasks : Adds(u, m) => u = t
    <3>1. Adds(t, m)
      BY <1>1 DEF Adds
    <3>2. Owned(m)
      BY <1>1, <2>12 DEF PeerInv
    <3>3. QED
      BY <2>10, <1>1, <3>1, <3>2 DEF Owned, InAdd
  <2>13. Distinct'
    <3>1. \A i \in Kept : i \in DOMAIN list /\ (m \notin lost => list[i].mac # m)
      BY <2>12 DEF InKept, Kept
    <3>2. OnceKept'
      BY <1>1, <2>5, <2>11, <3>1 DEF PeerInv, Distinct, OnceKept
    <3>3. (\A u \in Tasks : task[u].pc \in {"removeDriver", "removeList"} => HasPeer(task[u].mac))'
      <4>1. \A n : HasPeer(n) => HasPeer(n)'
        <5>1. \A i \in DOMAIN list : i \in DOMAIN list' /\ list'[i].mac = list[i].mac
          BY <1>1, <2>0, <2>5
        <5>2. QED
          BY <5>1 DEF HasPeer, Listed
      <4>2. QED
        BY <2>3, <4>1 DEF PeerInv, Distinct, OnceIn, OnceKept
    <3>4. (\A u \in Tasks : task[u].pc \in {"clearDriver", "deinit", "init", "readd"}
             => OnceIn(task[u].todo))'
      BY <1>1, <2>3 DEF PeerInv, Distinct, OnceIn, OnceKept
    <3>5. QED
      BY <3>2, <3>3, <3>4 DEF Distinct, OnceIn, OnceKept
  <2>14. ASSUME NEW n \in Mac \ lost PROVE Owned(n)'
    <3>1. Owned(n)
      BY DEF PeerInv
    <3>2. InKept(n)' <=> InKept(n) \/ n = m
      BY <2>5, <2>11 DEF InKept, Kept
    <3>3. InClear(n)' <=> InClear(n)
      BY <2>9 DEF InClear
    <3>4. InAdd(n)' <=> InAdd(n) /\ n # m
      <4>1. n = m => \A u \in Tasks : Adds(u, m) => u = t
        BY <2>12
      <4>2. n # m => ~Adds(t, n)
        BY DEF Adds
      <4>3. QED
        BY <2>9, <4>1, <4>2 DEF InAdd
    <3>5. \A u, v \in Tasks : (Adds(u, n) /\ Adds(v, n))' => u = v
      BY <2>9, <3>1 DEF Owned
    <3>6. QED
      BY <1>1, <2>10, <2>12, <3>1, <3>2, <3>3, <3>4, <3>5 DEF Owned
  <2>15. QED
    BY <1>1, <2>4, <2>6, <2>8, <2>13, <2>14 DEF PeerInv
<1>5. QED
  BY <1>3, <1>4

LEMMA AddUndoKeeps ==
    ASSUME PeerInv, OneTask, NEW t \in Tasks, AddUndo(t)
    PROVE  PeerInv'
<1> DEFINE m == task[t].mac
<1>1. /\ task \in [Tasks -> Step] /\ task[t].pc = "addUndo" /\ m \in Mac
      /\ driver' = driver \ {m} /\ AddReturns(t, FALSE)
      /\ UNCHANGED <<list, discovered, driverUp, receiving, lost>>
  BY DEF PeerInv, TypeInv, Step, AddUndo, Roles, Named
<1>2. ~Restarting
  BY <1>1, BusyAlone
<1>3. PICK p \in {"idle", "discover", "markSeen"}, a \in Mac \cup {NoMac}, q \in Seq(Mac) :
        Move(t, p, a, q) /\ (p = "idle" <=> t # Sender)
  BY <1>1, AddReturnsMoves
<1>4. /\ task'[t].pc = p /\ task'[t].mac = a /\ task'[t].todo = q
      /\ \A u \in Tasks \ {t} : task'[u] = task[u]
  <2>1. p \in PCs
    BY DEF PCs
  <2>2. QED
    BY <1>1, <1>3, <2>1, MoveFacts
<1>5. task' \in [Tasks -> Step] /\ Roles'
  BY <1>1, <1>3, MoveRoles, PeerListAssumption DEF PeerInv, PCs, CallerPCs, SenderPCs, Named, Tasks
<1>6. TypeInv'
  <2>1. IsFiniteSet(driver') /\ Cardinality(driver') <= DriverSlots
    BY <1>1, DriverShrinks DEF PeerInv, TypeInv
  <2>2. QED
    BY <1>1, <1>5, <2>1 DEF PeerInv, TypeInv
<1>7. ~Restarting'
  BY <1>2, <1>4 DEF Restarting, Tasks
<1>8. RestartAlone'
  BY <1>1, <1>2, <1>6, <1>7, NotRestarting DEF PeerInv, TypeInv
<1>9. \A u \in Tasks, n \in Mac :
         /\ Adds(u, n)' <=> Adds(u, n) /\ u # t
         /\ Removes(u, n)' <=> Removes(u, n)
         /\ Clears(u, n)' <=> Clears(u, n)
  BY <1>1, <1>4 DEF Adds, Removes, Clears, ToDo
<1>10. \A n \in Mac : ~Owed(n) /\ ~Owed(n)'
  BY <1>2, <1>7 DEF Owed, Restarting
<1>11. Kept' = Kept
  <2>1. \A i \in DOMAIN list : list[i].mac \in Mac
    BY AddressesListed DEF PeerInv, TypeInv
  <2>2. \A i \in DOMAIN list : Dropped(i)' <=> Dropped(i)
    BY <1>1, <1>9, <2>1 DEF Dropped, FirstEntry
  <2>3. QED
    BY <1>1, <2>2 DEF Kept
<1>12. ASSUME m \notin lost
       PROVE  Adds(t, m) /\ ~InKept(m) /\ ~InClear(m) /\ \A u \in Tasks : Adds(u, m) => u = t
  <2>1. Adds(t, m) /\ Owned(m)
    BY <1>1, <1>12 DEF Adds, PeerInv
  <2>2. QED
    BY <1>1, <2>1 DEF Owned, InAdd
<1>13. Distinct'
  BY <1>1, <1>4, <1>11 DEF PeerInv, Distinct, OnceIn, OnceKept, HasPeer, Listed
<1>14. ASSUME NEW n \in Mac \ lost PROVE Owned(n)'
  <2>1. Owned(n)
    BY DEF PeerInv
  <2>2. (InKept(n)' <=> InKept(n)) /\ (InClear(n)' <=> InClear(n))
    BY <1>1, <1>9, <1>11 DEF InKept, InClear
  <2>3. InAdd(n)' <=> InAdd(n) /\ n # m
    <3>1. n # m => ~Adds(t, n)
      BY DEF Adds
    <3>2. QED
      BY <1>9, <1>12, <3>1 DEF InAdd
  <2>4. \A u, v \in Tasks : (Adds(u, n) /\ Adds(v, n))' => u = v
    BY <1>9, <2>1 DEF Owned
  <2>5. QED
    BY <1>1, <1>10, <1>12, <2>1, <2>2, <2>3, <2>4 DEF Owned
<1>15. QED
  BY <1>1, <1>5, <1>6, <1>8, <1>13, <1>14 DEF PeerInv
-----------------------------------------------------------------------------
(* removePeer()                                                            *)

(* The first entry of an address that the driver gives up is dropped.  No  *)
(* other task removes, so no entry was; the address was in the driver and  *)
(* in the list, so the entry held it, and nothing else did.                *)
LEMMA RemoveDriverKeeps ==
    ASSUME PeerInv, OneTask, NEW t \in Tasks, RemoveDriver(t)
    PROVE  PeerInv'
<1> DEFINE m == task[t].mac
<1>1. /\ task \in [Tasks -> Step] /\ task[t].pc = "removeDriver"
      /\ m \in Mac /\ task[t].todo \in Seq(Mac) /\ <<>> \in Seq(Mac)
      /\ discovered \in Seq(Mac) /\ Len(discovered) <= MaxDiscovered
      /\ list \in Seq(Entry) /\ driverUp \in BOOLEAN
      /\ UNCHANGED <<list, discovered, driverUp, receiving, lost>>
  BY DEF PeerInv, TypeInv, Step, RemoveDriver, Roles, Named
<1>2. t \in Callers /\ t # Sender
  BY <1>1, PeerListAssumption DEF PeerInv, Roles, SenderPCs, Tasks
<1>3. ~Restarting
  BY <1>1, <1>2, BusyAlone
<1>4. CASE ~(driverUp /\ m \in driver)
  <2>1. Return(t) /\ driver' = driver
    BY <1>4 DEF RemoveDriver
  <2>2. Move(t, "idle", NoMac, <<>>)
    BY <2>1, ReturnMoves
  <2>3. QED
    BY <1>1, <1>2, <1>3, <2>1, <2>2, QuietStep DEF Holding, PCs, CallerPCs, Named
<1>5. CASE driverUp /\ m \in driver
  <2>1. driver' = driver \ {m} /\ Goto(t, "removeList")
    BY <1>3, <1>5 DEF RemoveDriver
  <2>2. Move(t, "removeList", m, task[t].todo)
    BY <1>1, <2>1, GotoMoves DEF PCs
  <2>3. /\ task'[t].pc = "removeList" /\ task'[t].mac = m /\ task'[t].todo = task[t].todo
        /\ \A u \in Tasks \ {t} : task'[u] = task[u]
    BY <1>1, <2>2, MoveFacts DEF PCs
  <2>4. task' \in [Tasks -> Step] /\ Roles'
    BY <1>1, <1>2, <2>2, MoveRoles DEF PeerInv, PCs, CallerPCs
  <2>5. TypeInv'
    <3>1. IsFiniteSet(driver') /\ Cardinality(driver') <= DriverSlots
      BY <2>1, DriverShrinks DEF PeerInv
    <3>2. QED
      BY <1>1, <2>1, <2>4, <3>1 DEF PeerInv, TypeInv
  <2>6. ~Restarting'
    BY <1>3, <2>3 DEF Restarting, Tasks
  <2>7. RestartAlone'
    BY <1>1, <1>3, <2>5, <2>6, NotRestarting DEF PeerInv
  <2>8. \A u \in Tasks, n \in Mac :
           /\ Adds(u, n)' <=> Adds(u, n)
           /\ ~Removes(u, n)
           /\ Removes(u, n)' <=> u = t /\ n = m
           /\ Clears(u, n)' <=> Clears(u, n)
    <3>1. \A u \in Tasks : task[u].pc # "removeList"
      BY <1>1, <1>2 DEF PeerInv, Roles, SenderPCs, OneTask, Tasks
    <3>2. QED
      BY <1>1, <2>3, <3>1 DEF Adds, Removes, Clears, ToDo
  <2>9. \A n \in Mac : ~Owed(n) /\ ~Owed(n)'
    BY <1>3, <2>6 DEF Owed, Restarting
  <2>10. PICK r \in DOMAIN list : list[r].mac = m /\ FirstEntry(r)
    <3>1. HasPeer(m)
      BY <1>1 DEF PeerInv, Distinct, OnceIn, OnceKept
    <3>2. QED
      BY <1>1, <3>1, FirstExists
  <2>11. \A i \in DOMAIN list : list[i].mac \in Mac
    BY <1>1, AddressesListed
  <2>12. Kept = DOMAIN list
    BY <2>8, <2>11 DEF Kept, Dropped
  <2>13. m \notin lost => \A i \in DOMAIN list : list[i].mac = m => i = r
    BY <2>10, <2>12 DEF PeerInv, Distinct, OnceKept
  <2>14. \A i \in DOMAIN list : Dropped(i)' <=> i = r
    <3>1. \A i \in DOMAIN list : list[i].mac = m /\ FirstEntry(i) => i = r
      <4>1. ASSUME NEW i \in DOMAIN list, list[i].mac = m, FirstEntry(i) PROVE i = r
        <5>1. ~(i \in 1..(r - 1)) /\ ~(r \in 1..(i - 1))
          BY <2>10, <4>1 DEF FirstEntry
        <5>2. QED
          BY <1>1, <5>1
      <4>2. QED
        BY <4>1
    <3>2. \A i \in DOMAIN list : FirstEntry(i)' <=> FirstEntry(i)
      BY <1>1 DEF FirstEntry
    <3>3. \A i \in DOMAIN list : Dropped(i)' <=> list[i].mac = m /\ FirstEntry(i)
      BY <1>1, <2>8, <2>11, <3>2 DEF Dropped
    <3>4. QED
      BY <2>10, <3>1, <3>3
  <2>15. Kept' = Kept \ {r}
    BY <1>1, <2>12, <2>14 DEF Kept
  <2>16. m \notin lost => InKept(m) /\ ~InAdd(m) /\ ~InClear(m)
    <3>1. InKept(m)
      BY <1>1, <2>10, <2>12 DEF InKept
    <3>2. m \notin lost => Owned(m)
      BY <1>1 DEF PeerInv
    <3>3. QED
      BY <3>1, <3>2 DEF Owned
  <2>17. Distinct'
    <3>1. OnceKept'
      BY <1>1, <2>15 DEF PeerInv, Distinct, OnceIn, OnceKept
    <3>2. (\A u \in Tasks : task[u].pc \in {"removeDriver", "removeList"} => HasPeer(task[u].mac))'
      BY <1>1, <2>3 DEF PeerInv, Distinct, OnceIn, OnceKept, HasPeer, Listed
    <3>3. (\A u \in Tasks : task[u].pc \in {"clearDriver", "deinit", "init", "readd"}
             => OnceIn(task[u].todo))'
      BY <1>1, <2>3 DEF PeerInv, Distinct, OnceIn, OnceKept
    <3>4. QED
      BY <3>1, <3>2, <3>3 DEF Distinct, OnceIn, OnceKept
  <2>18. ASSUME NEW n \in Mac \ lost PROVE Owned(n)'
    <3>1. Owned(n)
      BY DEF PeerInv
    <3>2. InKept(n)' <=> InKept(n) /\ n # m
      BY <1>1, <2>10, <2>12, <2>13, <2>15 DEF InKept
    <3>3. (InAdd(n)' <=> InAdd(n)) /\ (InClear(n)' <=> InClear(n))
      BY <2>8 DEF InAdd, InClear
    <3>4. QED
      BY <2>1, <2>8, <2>9, <2>16, <3>1, <3>2, <3>3 DEF Owned
  <2>19. QED
    BY <1>1, <2>4, <2>5, <2>7, <2>17, <2>18 DEF PeerInv
<1>6. QED
  BY <1>4, <1>5

(* What Without() leaves are the entries that were kept, in their order.    *)
LEMMA RemoveListKeeps ==
    ASSUME PeerInv, OneTask, NEW t \in Tasks, RemoveList(t)
    PROVE  PeerInv'
<1> DEFINE m == task[t].mac
<1>1. /\ task \in [Tasks -> Step] /\ task[t].pc = "removeList"
      /\ m \in Mac /\ <<>> \in Seq(Mac)
      /\ list \in Seq(Entry) /\ Len(list) \in Nat /\ DOMAIN list = 1..Len(list)
      /\ list' = Without(m) /\ Return(t)
      /\ UNCHANGED <<discovered, driver, driverUp, receiving, lost>>
  BY DEF PeerInv, TypeInv, Step, RemoveList, Roles, Named
<1>2. t \in Callers /\ t # Sender
  BY <1>1, PeerListAssumption DEF PeerInv, Roles, SenderPCs, Tasks
<1>3. ~Restarting
  BY <1>1, <1>2, BusyAlone
<1>4. Move(t, "idle", NoMac, <<>>)
  BY <1>1, ReturnMoves
<1>5. /\ task'[t].pc = "idle" /\ task'[t].mac = NoMac /\ task'[t].todo = <<>>
      /\ \A u \in Tasks \ {t} : task'[u] = task[u]
  BY <1>1, <1>4, MoveFacts DEF PCs
<1>6. task' \in [Tasks -> Step] /\ Roles'
  BY <1>1, <1>2, <1>4, MoveRoles DEF PeerInv, PCs, CallerPCs, Named
<1>7. PICK r \in DOMAIN list :
        /\ list[r].mac = m /\ FirstEntry(r)
        /\ list' \in Seq(Entry) /\ Len(list') = Len(list) - 1
        /\ \A i \in 1..(Len(list) - 1) : list'[i] = list[Up(r, i)]
  <2>1. HasPeer(m)
    BY <1>1 DEF PeerInv, Distinct, OnceIn, OnceKept
  <2>2. QED
    BY <1>1, <2>1, WithoutRemovesFirst
<1>8. DOMAIN list' = 1..(Len(list) - 1)
  BY <1>7
<1>9. TypeInv'
  BY <1>1, <1>6, <1>7, PeerListAssumption DEF PeerInv, TypeInv
<1>10. ~Restarting'
  BY <1>3, <1>5 DEF Restarting, Tasks
<1>11. RestartAlone'
  BY <1>1, <1>3, <1>9, <1>10, NotRestarting DEF PeerInv, TypeInv
<1>12. \A u \in Tasks, n \in Mac :
         /\ Adds(u, n)' <=> Adds(u, n)
         /\ Removes(u, n) <=> u = t /\ n = m
         /\ ~Removes(u, n)'
         /\ Clears(u, n)' <=> Clears(u, n)
  <2>1. \A u \in Tasks \ {t} : task[u].pc # "removeList"
    BY <1>1, <1>2 DEF PeerInv, Roles, SenderPCs, OneTask, Tasks
  <2>2. QED
    BY <1>1, <1>5, <2>1 DEF Adds, Removes, Clears, ToDo
<1>13. \A n \in Mac : ~Owed(n) /\ ~Owed(n)'
  BY <1>3, <1>10 DEF Owed, Restarting
<1>14. \A i \in DOMAIN list : list[i].mac \in Mac
  BY <1>1, AddressesListed
<1>15. Kept = DOMAIN list \ {r}
  <2>1. \A i \in DOMAIN list : list[i].mac = m /\ FirstEntry(i) => i = r
    <3>1. ASSUME NEW i \in DOMAIN list, list[i].mac = m, FirstEntry(i) PROVE i = r
      <4>1. ~(i \in 1..(r - 1)) /\ ~(r \in 1..(i - 1))
        BY <1>7, <3>1 DEF FirstEntry
      <4>2. QED
        BY <1>1, <4>1
    <3>2. QED
      BY <3>1
  <2>2. \A i \in DOMAIN list : Dropped(i) <=> list[i].mac = m /\ FirstEntry(i)
    BY <1>12, <1>14 DEF Dropped
  <2>3. QED
    BY <1>7, <2>1, <2>2 DEF Kept
<1>16. Kept' = DOMAIN list'
  <2>1. \A i \in DOMAIN list' : list'[i].mac \in Mac
    BY <1>7, <1>8, <1>14 DEF Up
  <2>2. QED
    BY <1>12, <2>1 DEF Kept, Dropped
<1>17. \A i \in 1..(Len(list) - 1) : Up(r, i) \in Kept
  BY <1>1, <1>15 DEF Up
<1>18. \A k \in Kept : \E i \in 1..(Len(list) - 1) : Up(r, i) = k
  <2>1. ASSUME NEW k \in Kept PROVE \E i \in 1..(Len(list) - 1) : Up(r, i) = k
    <3>1. CASE k < r
      <4>1. k \in 1..(Len(list) - 1) /\ Up(r, k) = k
        BY <1>1, <1>15, <2>1, <3>1 DEF Up
      <4>2. QED
        BY <4>1
    <3>2. CASE ~(k < r)
      <4>1. k - 1 \in 1..(Len(list) - 1) /\ Up(r, k - 1) = k
        BY <1>1, <1>15, <2>1, <3>2 DEF Up
      <4>2. QED
        BY <4>1
    <3>3. QED
      BY <3>1, <3>2
  <2>2. QED
    BY <2>1
<1>19. \A i, j \in 1..(Len(list) - 1) : Up(r, i) = Up(r, j) => i = j
  BY <1>1 DEF Up
<1>20. Distinct'
  <2>1. OnceKept'
    <3>1. ASSUME NEW i \in Kept', NEW j \in Kept', list'[i].mac = list'[j].mac,
                 list'[i].mac \notin lost
          PROVE  i = j
      <4>1. i \in 1..(Len(list) - 1) /\ j \in 1..(Len(list) - 1)
        BY <1>8, <1>16, <3>1
      <4>2. list[Up(r, i)].mac = list[Up(r, j)].mac /\ list[Up(r, i)].mac \notin lost
        BY <1>7, <3>1, <4>1
      <4>3. Up(r, i) = Up(r, j)
        BY <1>17, <4>1, <4>2 DEF PeerInv, Distinct, OnceKept
      <4>4. QED
        BY <1>19, <4>1, <4>3
    <3>2. QED
      BY <1>1, <3>1 DEF OnceKept
  <2>2. \A u \in Tasks : task'[u].pc \notin {"removeDriver", "removeList"}
    BY <1>2, <1>5, <1>6 DEF Roles, SenderPCs, OneTask, Tasks
  <2>3. (\A u \in Tasks : task[u].pc \in {"clearDriver", "deinit", "init", "readd"}
           => OnceIn(task[u].todo))'
    BY <1>1, <1>5 DEF PeerInv, Distinct, OnceIn, OnceKept
  <2>4. QED
    BY <2>1, <2>2, <2>3 DEF Distinct, OnceIn, OnceKept
<1>21. ASSUME NEW n \in Mac \ lost PROVE Owned(n)'
  <2>1. Owned(n)
    BY DEF PeerInv
  <2>2. InKept(n)' <=> InKept(n)
    <3>1. InKept(n)' => InKept(n)
      BY <1>7, <1>8, <1>16, <1>17 DEF InKept
    <3>2. ASSUME NEW k \in Kept, list[k].mac = n PROVE InKept(n)'
      <4>1. PICK i \in 1..(Len(list) - 1) : Up(r, i) = k
        BY <1>18
      <4>2. list'[i].mac = n /\ i \in Kept'
        BY <1>7, <1>8, <1>16, <3>2, <4>1
      <4>3. QED
        BY <4>2 DEF InKept
    <3>3. QED
      BY <3>1, <3>2 DEF InKept
  <2>3. (InAdd(n)' <=> InAdd(n)) /\ (InClear(n)' <=> InClear(n))
    BY <1>12 DEF InAdd, InClear
  <2>4. QED
    BY <1>1, <1>12, <1>13, <2>1, <2>2, <2>3 DEF Owned
<1>22. QED
  BY <1>1, <1>6, <1>9, <1>11, <1>20, <1>21 DEF PeerInv
-----------------------------------------------------------------------------
(* clearPeers()                                                            *)

LEMMA ClearListKeeps ==
    ASSUME PeerInv, OneTask, NEW t \in Tasks, ClearList(t)
    PROVE  PeerInv'
<1> DEFINE q == [i \in DOMAIN list |-> list[i].mac]
<1>1. /\ task \in [Tasks -> Step] /\ task[t].pc = "clear"
      /\ list \in Seq(Entry) /\ Len(list) \in Nat /\ DOMAIN list = 1..Len(list)
      /\ list' = <<>> /\ Move(t, "clearDriver", NoMac, q)
      /\ UNCHANGED <<discovered, driver, driverUp, receiving, lost>>
  BY DEF PeerInv, TypeInv, Step, ClearList, Move
<1>2. t \in Callers /\ t # Sender
  BY <1>1, PeerListAssumption DEF PeerInv, Roles, SenderPCs, Tasks
<1>3. ~Restarting
  BY <1>1, <1>2, BusyAlone
<1>4. \A i \in DOMAIN list : list[i].mac \in Mac
  BY <1>1, AddressesListed
<1>5. q \in Seq(Mac) /\ DOMAIN q = DOMAIN list
  BY <1>1, <1>4
<1>6. /\ task'[t].pc = "clearDriver" /\ task'[t].todo = q
      /\ \A u \in Tasks \ {t} : task'[u] = task[u]
  BY <1>1, <1>5, MoveFacts DEF PCs
<1>7. task' \in [Tasks -> Step] /\ Roles'
  BY <1>1, <1>2, <1>5, MoveRoles DEF PeerInv, PCs, CallerPCs, Named
<1>8. TypeInv'
  <2>1. list' \in Seq(Entry) /\ Len(list') = 0
    BY <1>1
  <2>2. QED
    BY <1>1, <1>7, <2>1, PeerListAssumption DEF PeerInv, TypeInv
<1>9. ~Restarting'
  BY <1>3, <1>6 DEF Restarting, Tasks
<1>10. RestartAlone'
  BY <1>1, <1>3, <1>8, <1>9, NotRestarting DEF PeerInv, TypeInv
<1>11. \A u \in Tasks, n \in Mac :
         /\ Adds(u, n)' <=> Adds(u, n)
         /\ ~Removes(u, n) /\ ~Removes(u, n)'
         /\ ~Clears(u, n)
         /\ Clears(u, n)' <=> u = t /\ \E i \in DOMAIN list : list[i].mac = n
  <2>1. \A u \in Tasks : task[u].pc \notin {"removeList", "clearDriver"}
    BY <1>1, <1>2 DEF PeerInv, Roles, SenderPCs, OneTask, Tasks
  <2>2. QED
    BY <1>1, <1>5, <1>6, <2>1 DEF Adds, Removes, Clears, ToDo
<1>12. \A n \in Mac : ~Owed(n) /\ ~Owed(n)'
  BY <1>3, <1>9 DEF Owed, Restarting
<1>13. Kept = DOMAIN list /\ Kept' = {}
  BY <1>1, <1>4, <1>11 DEF Kept, Dropped
<1>14. Distinct'
  <2>1. (\A u \in Tasks : task[u].pc \in {"removeDriver", "removeList"} => HasPeer(task[u].mac))'
    BY <1>2, <1>6, <1>7 DEF Roles, SenderPCs, OneTask, Tasks
  <2>2. OnceIn(q)
    BY <1>5, <1>13 DEF PeerInv, Distinct, OnceIn, OnceKept
  <2>3. (\A u \in Tasks : task[u].pc \in {"clearDriver", "deinit", "init", "readd"}
           => OnceIn(task[u].todo))'
    BY <1>1, <1>6, <2>2 DEF PeerInv, Distinct, OnceIn, OnceKept
  <2>4. QED
    BY <1>13, <2>1, <2>3 DEF Distinct, OnceIn, OnceKept
<1>15. ASSUME NEW n \in Mac \ lost PROVE Owned(n)'
  <2>1. Owned(n)
    BY DEF PeerInv
  <2>2. ~InKept(n)' /\ ~InClear(n) /\ (InAdd(n)' <=> InAdd(n))
    BY <1>11, <1>13 DEF InKept, InClear, InAdd
  <2>3. InClear(n)' <=> InKept(n)
    BY <1>11, <1>13 DEF InKept, InClear
  <2>4. QED
    BY <1>1, <1>11, <1>12, <2>1, <2>2, <2>3 DEF Owned
<1>16. QED
  BY <1>1, <1>7, <1>8, <1>10, <1>14, <1>15 DEF PeerInv

LEMMA ClearDriverKeeps ==
    ASSUME PeerInv, OneTask, NEW t \in Tasks, ClearDriver(t)
    PROVE  PeerInv'
<1>0. PICK q \in Seq(Mac) : q = task[t].todo
  BY DEF PeerInv, TypeInv, Step
<1>1. /\ task \in [Tasks -> Step] /\ task[t].pc = "clearDriver"
      /\ task[t].mac \in Mac \cup {NoMac} /\ <<>> \in Seq(Mac)
      /\ UNCHANGED <<list, discovered, driverUp, receiving, lost>>
  BY DEF PeerInv, TypeInv, Step, ClearDriver
<1>2. t \in Callers /\ t # Sender
  BY <1>1, PeerListAssumption DEF PeerInv, Roles, SenderPCs, Tasks
<1>3. ~Restarting
  BY <1>1, <1>2, BusyAlone
<1>4. OnceIn(q)
  BY <1>0, <1>1 DEF PeerInv, Distinct, OnceIn, OnceKept
<1>5. CASE q = <<>>
  <2>1. driver' = driver /\ Move(t, "idle", NoMac, <<>>)
    BY <1>0, <1>5, ReturnMoves DEF ClearDriver
  <2>2. /\ task'[t].pc = "idle"
        /\ \A u \in Tasks \ {t} : task'[u] = task[u]
    BY <1>1, <2>1, MoveFacts DEF PCs
  <2>3. task' \in [Tasks -> Step] /\ Roles'
    BY <1>1, <1>2, <2>1, MoveRoles DEF PeerInv, PCs, CallerPCs, Named
  <2>4. TypeInv'
    BY <1>1, <2>1, <2>3 DEF PeerInv, TypeInv
  <2>5. ~Restarting'
    BY <1>3, <2>2 DEF Restarting, Tasks
  <2>6. RestartAlone'
    BY <1>1, <1>3, <2>4, <2>5, NotRestarting DEF PeerInv, TypeInv
  <2>7. DOMAIN q = {}
    BY <1>5
  <2>8. \A n \in Mac : /\ Adds(t, n)' <=> Adds(t, n)
                       /\ Removes(t, n)' <=> Removes(t, n)
                       /\ Clears(t, n)' <=> Clears(t, n)
                       /\ Owed(n)' <=> Owed(n)
    BY <1>0, <1>1, <1>3, <2>2, <2>5, <2>7 DEF Adds, Removes, Clears, Owed, ToDo, Restarting
  <2>9. Distinct' /\ \A n \in Mac \ lost : Owned(n)'
    BY <1>1, <2>1, <2>8, SameHolders DEF PCs
  <2>10. QED
    BY <1>1, <2>3, <2>4, <2>6, <2>9 DEF PeerInv
<1>6. CASE q # <<>>
  <2>0. /\ Tail(q) \in Seq(Mac) /\ Head(q) \in Mac
        /\ \A i, j \in DOMAIN Tail(q) : Tail(q)[i] = Tail(q)[j] /\ Tail(q)[i] \notin lost => i = j
        /\ \A n : n \notin lost \/ n # Head(q) =>
             ((\E i \in DOMAIN Tail(q) : Tail(q)[i] = n)
                    <=> n # Head(q) /\ \E i \in DOMAIN q : q[i] = n)
    BY <1>4, <1>6, TailOfDistinct DEF OnceIn
  <2>1. PICK h \in Mac, r \in Seq(Mac) : h = Head(q) /\ r = Tail(q)
    BY <2>0
  <2>2. /\ OnceIn(r)
        /\ \A n : n \notin lost \/ n # h =>
             ((\E i \in DOMAIN r : r[i] = n)
                    <=> n # h /\ \E i \in DOMAIN q : q[i] = n)
    BY <2>0, <2>1 DEF OnceIn
  <2>3. driver' = driver \ {h} /\ task' = [task EXCEPT ![t].todo = r]
    BY <1>0, <1>6, <2>1 DEF ClearDriver
  <2>4. Move(t, "clearDriver", task[t].mac, r)
    BY <1>1, <2>3, TodoMoves
  <2>5. /\ task'[t].pc = "clearDriver" /\ task'[t].todo = r
        /\ \A u \in Tasks \ {t} : task'[u] = task[u]
    <3>1. "clearDriver" \in PCs
      BY DEF PCs
    <3>2. QED
      BY <1>1, <2>4, <3>1, MoveFacts
  <2>6. task' \in [Tasks -> Step] /\ Roles'
    BY <1>1, <1>2, <2>2, <2>4, MoveRoles DEF PeerInv, PCs, CallerPCs, Named
  <2>7. TypeInv'
    <3>1. IsFiniteSet(driver') /\ Cardinality(driver') <= DriverSlots
      BY <2>3, DriverShrinks DEF PeerInv
    <3>2. QED
      BY <1>1, <2>3, <2>6, <3>1 DEF PeerInv, TypeInv
  <2>8. ~Restarting'
    BY <1>3, <2>5 DEF Restarting, Tasks
  <2>9. RestartAlone'
    BY <1>1, <1>3, <2>7, <2>8, NotRestarting DEF PeerInv, TypeInv
  <2>10. \A u \in Tasks, n \in Mac :
           /\ Adds(u, n)' <=> Adds(u, n)
           /\ ~Removes(u, n) /\ ~Removes(u, n)'
           /\ n \notin lost => (Clears(u, n)' <=> Clears(u, n) /\ n # h)
    <3>1. \A u \in Tasks : task[u].pc # "removeList"
      BY <1>1, <1>2 DEF PeerInv, Roles, SenderPCs, OneTask, Tasks
    <3>2. \A u \in Tasks : u # t => task[u].pc # "clearDriver"
      BY <1>2 DEF PeerInv, Roles, SenderPCs, OneTask, Tasks
    <3>3. \A n \in Mac \ lost : Clears(t, n)' <=> Clears(t, n) /\ n # h
      <4> SUFFICES ASSUME NEW n \in Mac \ lost PROVE Clears(t, n)' <=> Clears(t, n) /\ n # h
        OBVIOUS
      <4>1. Clears(t, n) <=> \E i \in DOMAIN q : q[i] = n
        BY <1>0, <1>1 DEF Clears, ToDo
      <4>2. Clears(t, n)' <=> \E i \in DOMAIN r : r[i] = n
        BY <2>5 DEF Clears, ToDo
      <4>3. QED
        BY <2>2, <4>1, <4>2
    <3>4. \A u \in Tasks \ {t}, n \in Mac : ~Clears(u, n) /\ ~Clears(u, n)'
      BY <2>5, <3>2 DEF Clears
    <3>5. \A u \in Tasks, n \in Mac :
            /\ Adds(u, n)' <=> Adds(u, n)
            /\ ~Removes(u, n) /\ ~Removes(u, n)'
      BY <1>1, <2>5, <3>1 DEF Adds, Removes
    <3>6. QED
      BY <3>3, <3>4, <3>5
  <2>11. \A n \in Mac : ~Owed(n) /\ ~Owed(n)'
    BY <1>3, <2>8 DEF Owed, Restarting
  <2>12. Kept' = Kept
    <3>1. \A i \in DOMAIN list : list[i].mac \in Mac
      BY AddressesListed DEF PeerInv, TypeInv
    <3>2. QED
      BY <1>1, <2>10, <3>1 DEF Kept, Dropped
  <2>13. ASSUME h \notin lost
         PROVE  Clears(t, h) /\ ~InKept(h) /\ ~InAdd(h)
    <3>1. Clears(t, h)
      <4>1. 1 \in DOMAIN q /\ q[1] = h
        BY <1>1, <1>6, <2>1
      <4>2. QED
        BY <1>0, <1>1, <4>1 DEF Clears, ToDo
    <3>2. Owned(h) /\ InClear(h)
      BY <2>13, <3>1 DEF PeerInv, InClear
    <3>3. QED
      BY <3>1, <3>2 DEF Owned
  <2>14. Distinct'
    <3>1. OnceKept'
      BY <1>1, <2>12 DEF PeerInv, Distinct, OnceIn, OnceKept
    <3>2. (\A u \in Tasks : task[u].pc \in {"removeDriver", "removeList"} => HasPeer(task[u].mac))'
      BY <1>1, <2>5 DEF PeerInv, Distinct, OnceIn, OnceKept, HasPeer, Listed
    <3>3. (\A u \in Tasks : task[u].pc \in {"clearDriver", "deinit", "init", "readd"}
             => OnceIn(task[u].todo))'
      BY <1>1, <2>2, <2>5 DEF PeerInv, Distinct, OnceIn, OnceKept
    <3>4. QED
      BY <3>1, <3>2, <3>3 DEF Distinct, OnceIn, OnceKept
  <2>15. ASSUME NEW n \in Mac \ lost PROVE Owned(n)'
    <3>1. Owned(n)
      BY DEF PeerInv
    <3>2. (InKept(n)' <=> InKept(n)) /\ (InAdd(n)' <=> InAdd(n))
      BY <1>1, <2>10, <2>12 DEF InKept, InAdd
    <3>3. InClear(n)' <=> InClear(n) /\ n # h
      BY <2>10 DEF InClear
    <3>4. QED
      BY <2>3, <2>10, <2>11, <2>13, <3>1, <3>2, <3>3 DEF Owned
  <2>16. QED
    BY <1>1, <2>6, <2>7, <2>9, <2>14, <2>15 DEF PeerInv
<1>7. QED
  BY <1>5, <1>6
-----------------------------------------------------------------------------
(* The sender task adds what was discovered.                               *)

LEMMA DrainDiscoveredKeeps ==
    ASSUME PeerInv, OneTask, DrainDiscovered
    PROVE  PeerInv'
<1>1. /\ Sender \in Tasks /\ Sender \notin Callers /\ task[Sender].pc = "idle"
      /\ discovered \in Seq(Mac) /\ discovered' = <<>> /\ driverUp \in BOOLEAN
      /\ Move(Sender, "discover", NoMac, discovered)
      /\ UNCHANGED <<list, driver, driverUp, receiving, lost>>
  BY PeerListAssumption DEF DrainDiscovered, PeerInv, TypeInv, Move, Tasks
<1>2. ~Restarting
  BY <1>1 DEF Restarting
<1>3. discovered' \in Seq(Mac) /\ Len(discovered') <= MaxDiscovered
  BY <1>1, PeerListAssumption
<1>4. QED
  BY <1>1, <1>2, <1>3, QuietStep DEF Holding, PCs, SenderPCs, Named

LEMMA DiscoverKeeps ==
    ASSUME PeerInv, OneTask, Discover
    PROVE  PeerInv'
<1> DEFINE q == task[Sender].todo
<1>1. /\ Sender \in Tasks /\ Sender \notin Callers /\ task[Sender].pc = "discover"
      /\ task \in [Tasks -> Step] /\ task[Sender].mac \in Mac \cup {NoMac} /\ q \in Seq(Mac)
      /\ discovered \in Seq(Mac) /\ Len(discovered) <= MaxDiscovered /\ driverUp \in BOOLEAN
      /\ UNCHANGED <<list, discovered, driver, driverUp, receiving, lost>>
  BY PeerListAssumption DEF Discover, PeerInv, TypeInv, Step, Tasks
<1>2. ~Restarting
  BY <1>1 DEF Restarting
<1>3. CASE q = <<>>
  <2>1. Goto(Sender, "checkStall")
    BY <1>3 DEF Discover
  <2>2. Move(Sender, "checkStall", task[Sender].mac, q)
    BY <1>1, <2>1, GotoMoves DEF PCs
  <2>3. QED
    BY <1>1, <1>2, <2>2, QuietStep DEF Holding, PCs, SenderPCs, Named
<1>4. CASE q # <<>>
  <2>1. Tail(q) \in Seq(Mac) /\ Head(q) \in Mac
    BY <1>1, <1>4
  <2>2. PICK p \in {"addCheck", "discover"} : Move(Sender, p, Head(q), Tail(q))
    BY <1>4 DEF Discover, Move
  <2>3. QED
    BY <1>1, <1>2, <2>1, <2>2, QuietStep DEF Holding, PCs, SenderPCs
<1>5. QED
  BY <1>3, <1>4

LEMMA NoStallKeeps ==
    ASSUME PeerInv, OneTask, NoStall
    PROVE  PeerInv'
<1>1. /\ Sender \in Tasks /\ Sender \notin Callers /\ task[Sender].pc = "checkStall"
      /\ discovered \in Seq(Mac) /\ Len(discovered) <= MaxDiscovered /\ driverUp \in BOOLEAN
      /\ Return(Sender) /\ <<>> \in Seq(Mac)
      /\ UNCHANGED <<list, discovered, driver, driverUp, receiving, lost>>
  BY PeerListAssumption DEF NoStall, PeerInv, TypeInv, Tasks
<1>2. ~Restarting
  BY <1>1 DEF Restarting
<1>3. Move(Sender, "idle", NoMac, <<>>)
  BY <1>1, ReturnMoves
<1>4. QED
  BY <1>1, <1>2, <1>3, QuietStep DEF Holding, PCs, SenderPCs, Named

(* Entries marked as seen are the same entries.                            *)
LEMMA SeenKeepsHolders ==
    ASSUME PeerInv, NEW m, list' = Seen(m), driver' = driver, lost' = lost,
           \A u \in Tasks, n \in Mac : /\ Adds(u, n)' <=> Adds(u, n)
                                       /\ Removes(u, n)' <=> Removes(u, n)
                                       /\ Clears(u, n)' <=> Clears(u, n),
           \A n \in Mac : Owed(n)' <=> Owed(n)
    PROVE  /\ \A n \in Mac \ lost : Owned(n)'
           /\ OnceKept'
           /\ Listed' = Listed
<1>1. /\ list \in Seq(Entry) /\ list' \in Seq(Entry) /\ Len(list') = Len(list)
      /\ DOMAIN list' = DOMAIN list /\ DOMAIN list = 1..Len(list) /\ Len(list) \in Nat
      /\ \A i \in DOMAIN list : list'[i].mac = list[i].mac
  <2>1. list \in Seq(Entry)
    BY DEF PeerInv, TypeInv
  <2>2. list' \in Seq(Entry) /\ Len(list') = Len(list)
        /\ \A i \in DOMAIN list : list'[i].mac = list[i].mac
    BY <2>1, SeenKeepsAddresses
  <2>3. QED
    BY <2>1, <2>2
<1>2. \A i \in DOMAIN list : list[i].mac \in Mac
  BY <1>1, AddressesListed
<1>3. \A i \in DOMAIN list : FirstEntry(i)' <=> FirstEntry(i)
  <2>1. ASSUME NEW i \in DOMAIN list PROVE \A j \in 1..(i - 1) : j \in DOMAIN list
    BY <1>1
  <2>2. QED
    BY <1>1, <2>1 DEF FirstEntry
<1>4. \A i \in DOMAIN list : Dropped(i)' <=> Dropped(i)
  BY <1>1, <1>2, <1>3 DEF Dropped
<1>5. Kept' = Kept
  BY <1>1, <1>4 DEF Kept
<1>6. \A i \in Kept : i \in DOMAIN list
  BY DEF Kept
<1>7. \A n \in Mac : /\ InKept(n)' <=> InKept(n)
                     /\ InAdd(n)' <=> InAdd(n)
                     /\ InClear(n)' <=> InClear(n)
  BY <1>1, <1>5, <1>6 DEF InKept, InAdd, InClear
<1>8. ASSUME NEW n \in Mac \ lost PROVE Owned(n)'
  <2>1. Owned(n)
    BY DEF PeerInv
  <2>2. QED
    BY <1>7, <2>1 DEF Owned
<1>9. OnceKept'
  BY <1>1, <1>5, <1>6 DEF PeerInv, Distinct, OnceIn, OnceKept
<1>10. Listed' = Listed
  BY <1>1 DEF Listed
<1>11. QED
  BY <1>8, <1>9, <1>10

LEMMA MarkDiscoveredSeenKeeps ==
    ASSUME PeerInv, OneTask, MarkDiscoveredSeen
    PROVE  PeerInv'
<1>1. /\ Sender \in Tasks /\ Sender \notin Callers /\ task[Sender].pc = "markSeen"
      /\ task \in [Tasks -> Step] /\ task[Sender].mac \in Mac \cup {NoMac}
      /\ task[Sender].todo \in Seq(Mac) /\ list \in Seq(Entry) /\ driverUp \in BOOLEAN
      /\ list' = Seen(task[Sender].mac) /\ Goto(Sender, "discover")
      /\ UNCHANGED <<discovered, driver, driverUp, receiving, lost>>
  BY PeerListAssumption DEF MarkDiscoveredSeen, PeerInv, TypeInv, Step, Tasks
<1>2. Move(Sender, "discover", task[Sender].mac, task[Sender].todo)
  BY <1>1, GotoMoves DEF PCs
<1>3. /\ task'[Sender].pc = "discover"
      /\ \A u \in Tasks \ {Sender} : task'[u] = task[u]
  <2>1. "discover" \in PCs
    BY DEF PCs
  <2>2. QED
    BY <1>1, <1>2, <2>1, MoveFacts
<1>4. task' \in [Tasks -> Step] /\ Roles'
  BY <1>1, <1>2, MoveRoles DEF PeerInv, PCs, SenderPCs, Named
<1>5. TypeInv'
  <2>1. list' \in Seq(Entry) /\ Len(list') = Len(list)
    BY <1>1, SeenKeepsAddresses
  <2>2. QED
    BY <1>1, <1>4, <2>1 DEF PeerInv, TypeInv
<1>6. ~Restarting /\ ~Restarting'
  BY <1>1, <1>3 DEF Restarting
<1>7. RestartAlone'
  BY <1>1, <1>5, <1>6, NotRestarting DEF PeerInv, TypeInv
<1>8. /\ \A u \in Tasks, n \in Mac : /\ Adds(u, n)' <=> Adds(u, n)
                                     /\ Removes(u, n)' <=> Removes(u, n)
                                     /\ Clears(u, n)' <=> Clears(u, n)
      /\ \A n \in Mac : Owed(n)' <=> Owed(n)
  BY <1>1, <1>3 DEF Adds, Removes, Clears, Owed, ToDo
<1>9. /\ \A n \in Mac \ lost : Owned(n)'
      /\ OnceKept'
      /\ Listed' = Listed
  BY <1>1, <1>8, SeenKeepsHolders
<1>10. Distinct'
  <2>1. (\A u \in Tasks : task[u].pc \in {"removeDriver", "removeList"} => HasPeer(task[u].mac))'
    BY <1>3, <1>9 DEF PeerInv, Distinct, OnceIn, OnceKept, HasPeer
  <2>2. (\A u \in Tasks : task[u].pc \in {"clearDriver", "deinit", "init", "readd"}
           => OnceIn(task[u].todo))'
    BY <1>1, <1>3 DEF PeerInv, Distinct, OnceIn, OnceKept
  <2>3. QED
    BY <1>9, <2>1, <2>2 DEF Distinct, OnceIn, OnceKept
<1>11. QED
  BY <1>1, <1>4, <1>5, <1>7, <1>9, <1>10 DEF PeerInv
-----------------------------------------------------------------------------
(* A restart                                                               *)

(* While nobody holds anything, the two tables agree.                      *)
LEMMA NobodyBusy ==
    ASSUME PeerInv,
           \A t \in Tasks : task[t].pc \notin {"addList", "addUndo", "removeList", "clearDriver"},
           task[Sender].pc \notin {"init", "readd"}
    PROVE  /\ \A m \in Mac \ lost : m \in driver <=> m \in Listed
           /\ Kept = DOMAIN list
<1>1. /\ \A t \in Tasks : \A m : ~Adds(t, m) /\ ~Removes(t, m) /\ ~Clears(t, m)
      /\ \A m : ~Owed(m)
  BY DEF Adds, Removes, Clears, Owed
<1>2. Kept = DOMAIN list
  BY <1>1 DEF Kept, Dropped
<1>3. \A i \in DOMAIN list : list[i].mac \in Mac
  BY AddressesListed DEF PeerInv, TypeInv
<1>4. ASSUME NEW m \in Mac \ lost PROVE m \in driver <=> m \in Listed
  <2>1. Owned(m) /\ ~InAdd(m) /\ ~InClear(m) /\ ~Owed(m)
    BY <1>1 DEF PeerInv, InAdd, InClear
  <2>2. InKept(m) <=> m \in Listed
    BY <1>2 DEF InKept, Listed
  <2>3. QED
    BY <2>1, <2>2 DEF Owned
<1>5. QED
  BY <1>2, <1>4

LEMMA RestartCopyKeeps ==
    ASSUME PeerInv, OneTask, RestartCopy
    PROVE  PeerInv'
<1> DEFINE a == [i \in DOMAIN list |-> list[i].mac]
<1>1. /\ Sender \in Tasks /\ Sender \notin Callers /\ task[Sender].pc = "checkStall"
      /\ task \in [Tasks -> Step]
      /\ list \in Seq(Entry) /\ Len(list) \in Nat /\ DOMAIN list = 1..Len(list)
      /\ UNCHANGED <<list, discovered, driver, driverUp, receiving, lost>>
  BY PeerListAssumption DEF RestartCopy, PeerInv, TypeInv, Tasks
<1>2. Restarts = "alone" /\ \A t \in Callers : task[t].pc = "idle"
  BY PeerListAssumption DEF RestartCopy, OneTask
<1>3. Kept = DOMAIN list
  BY <1>1, <1>2, NobodyBusy DEF Tasks
<1>4. \A i \in DOMAIN list : list[i].mac \in Mac
  BY <1>1, AddressesListed
<1>5. PICK q \in Seq(Mac) : q = a
  <2>1. a \in Seq(Mac)
    BY <1>1, <1>4
  <2>2. QED
    BY <2>1
<1>6. Move(Sender, "deinit", NoMac, q)
  BY <1>5 DEF RestartCopy, Move
<1>7. /\ task'[Sender].pc = "deinit" /\ task'[Sender].todo = q
      /\ \A u \in Tasks \ {Sender} : task'[u] = task[u]
  <2>1. "deinit" \in PCs
    BY DEF PCs
  <2>2. QED
    BY <1>1, <1>6, <2>1, MoveFacts
<1>8. task' \in [Tasks -> Step] /\ Roles'
  BY <1>1, <1>6, MoveRoles DEF PeerInv, PCs, SenderPCs, Named
<1>9. TypeInv'
  BY <1>1, <1>8 DEF PeerInv, TypeInv
<1>10. RestartAlone'
  <2>1. task'[Sender].pc = "deinit"
    BY <1>7
  <2>2. \A t \in Callers : task'[t].pc = "idle"
    BY <1>1, <1>2, <1>7 DEF Tasks
  <2>3. \A m \in Mac : ToDo(Sender, m)' <=> (m \in Listed)'
    <3>1. \A m \in Mac : (\E i \in DOMAIN q : q[i] = m) <=> m \in Listed
      BY <1>5 DEF Listed
    <3>2. Listed' = Listed
      BY <1>1 DEF Listed
    <3>3. QED
      BY <1>7, <3>1, <3>2 DEF ToDo
  <2>4. QED
    BY <1>2, <2>1, <2>2, <2>3 DEF RestartAlone
<1>11. \A n \in Mac : /\ Adds(Sender, n)' <=> Adds(Sender, n)
                      /\ Removes(Sender, n)' <=> Removes(Sender, n)
                      /\ Clears(Sender, n)' <=> Clears(Sender, n)
                      /\ Owed(n)' <=> Owed(n)
  BY <1>1, <1>7 DEF Adds, Removes, Clears, Owed
<1>12. OnceIn(q)
  BY <1>3, <1>5 DEF PeerInv, Distinct, OnceIn, OnceKept
<1>13. Distinct' /\ \A n \in Mac \ lost : Owned(n)'
  BY <1>1, <1>6, <1>11, <1>12, SameHolders DEF PCs
<1>14. QED
  BY <1>1, <1>8, <1>9, <1>10, <1>13 DEF PeerInv

LEMMA RestartDeinitKeeps ==
    ASSUME PeerInv, OneTask, RestartDeinit
    PROVE  PeerInv'
<1>1. /\ Sender \in Tasks /\ Sender \notin Callers /\ task[Sender].pc = "deinit"
      /\ task \in [Tasks -> Step] /\ task[Sender].mac \in Mac \cup {NoMac}
      /\ task[Sender].todo \in Seq(Mac)
      /\ driverUp' = FALSE /\ driver' = {} /\ Goto(Sender, "init")
      /\ UNCHANGED <<list, discovered, receiving, lost>>
  BY PeerListAssumption DEF RestartDeinit, PeerInv, TypeInv, Step, Tasks
<1>2. /\ Restarts = "alone" /\ \A t \in Callers : task[t].pc = "idle"
      /\ \A m \in Mac : ToDo(Sender, m) <=> m \in Listed
  BY <1>1 DEF PeerInv, RestartAlone, Restarting
<1>3. Kept = DOMAIN list
  BY <1>1, <1>2, NobodyBusy DEF Tasks
<1>4. Move(Sender, "init", task[Sender].mac, task[Sender].todo)
  BY <1>1, GotoMoves DEF PCs
<1>5. /\ task'[Sender].pc = "init" /\ task'[Sender].todo = task[Sender].todo
      /\ \A u \in Tasks \ {Sender} : task'[u] = task[u]
  <2>1. "init" \in PCs
    BY DEF PCs
  <2>2. QED
    BY <1>1, <1>4, <2>1, MoveFacts
<1>6. task' \in [Tasks -> Step] /\ Roles'
  BY <1>1, <1>4, MoveRoles DEF PeerInv, PCs, SenderPCs, Named
<1>7. TypeInv'
  <2>1. IsFiniteSet(driver') /\ Cardinality(driver') <= DriverSlots
    BY <1>1, FS_EmptySet, PeerListAssumption
  <2>2. QED
    BY <1>1, <1>6, <2>1 DEF PeerInv, TypeInv
<1>8. Listed' = Listed
  BY <1>1 DEF Listed
<1>9. RestartAlone'
  <2>1. \A t \in Callers : task'[t].pc = "idle"
    BY <1>1, <1>2, <1>5 DEF Tasks
  <2>2. QED
    BY <1>1, <1>2, <1>5, <1>8, <2>1 DEF RestartAlone
<1>10. \A t \in Tasks : \A m : /\ ~Adds(t, m) /\ ~Removes(t, m) /\ ~Clears(t, m)
                                  /\ ~Adds(t, m)' /\ ~Removes(t, m)' /\ ~Clears(t, m)'
  <2>1. \A t \in Tasks : /\ task[t].pc \in {"idle", "deinit"}
                         /\ task'[t].pc \in {"idle", "init"}
    BY <1>1, <1>2, <1>5 DEF Tasks
  <2>2. QED
    BY <2>1 DEF Adds, Removes, Clears
<1>11. Kept' = Kept
  BY <1>1, <1>10 DEF Kept, Dropped
<1>12. Distinct'
  <2>1. OnceKept'
    BY <1>1, <1>11 DEF PeerInv, Distinct, OnceIn, OnceKept
  <2>2. (\A u \in Tasks : task[u].pc \in {"removeDriver", "removeList"} => HasPeer(task[u].mac))'
    BY <1>5, <1>8 DEF PeerInv, Distinct, OnceIn, OnceKept, HasPeer
  <2>3. (\A u \in Tasks : task[u].pc \in {"clearDriver", "deinit", "init", "readd"}
           => OnceIn(task[u].todo))'
    BY <1>1, <1>5 DEF PeerInv, Distinct, OnceIn, OnceKept
  <2>4. QED
    BY <2>1, <2>2, <2>3 DEF Distinct, OnceIn, OnceKept
<1>13. ASSUME NEW n \in Mac \ lost PROVE Owned(n)'
  <2>1. Owed(n)' <=> n \in Listed
    BY <1>2, <1>5 DEF Owed, ToDo
  <2>2. InKept(n)' <=> n \in Listed
    BY <1>1, <1>3, <1>11 DEF InKept, Listed
  <2>3. ~InAdd(n)' /\ ~InClear(n)'
    BY <1>10 DEF InAdd, InClear
  <2>4. QED
    BY <1>1, <1>10, <2>1, <2>2, <2>3 DEF Owned
<1>14. QED
  BY <1>1, <1>6, <1>7, <1>9, <1>12, <1>13 DEF PeerInv

LEMMA RestartInitKeeps ==
    ASSUME PeerInv, OneTask, RestartInit
    PROVE  PeerInv'
<1>1. /\ Sender \in Tasks /\ Sender \notin Callers /\ task[Sender].pc = "init"
      /\ task \in [Tasks -> Step] /\ task[Sender].mac \in Mac \cup {NoMac}
      /\ task[Sender].todo \in Seq(Mac)
      /\ driverUp' \in BOOLEAN /\ Goto(Sender, "readd")
      /\ UNCHANGED <<list, discovered, driver, receiving, lost>>
  BY PeerListAssumption DEF RestartInit, PeerInv, TypeInv, Step, Tasks
<1>2. Move(Sender, "readd", task[Sender].mac, task[Sender].todo)
  BY <1>1, GotoMoves DEF PCs
<1>3. /\ task'[Sender].pc = "readd" /\ task'[Sender].todo = task[Sender].todo
      /\ \A u \in Tasks \ {Sender} : task'[u] = task[u]
  <2>1. "readd" \in PCs
    BY DEF PCs
  <2>2. QED
    BY <1>1, <1>2, <2>1, MoveFacts
<1>4. task' \in [Tasks -> Step] /\ Roles'
  BY <1>1, <1>2, MoveRoles DEF PeerInv, PCs, SenderPCs, Named
<1>5. TypeInv'
  BY <1>1, <1>4 DEF PeerInv, TypeInv
<1>6. RestartAlone'
  <2>1. Restarts = "alone" /\ \A t \in Callers : task[t].pc = "idle"
    BY <1>1 DEF PeerInv, RestartAlone, Restarting
  <2>2. \A t \in Callers : task'[t].pc = "idle"
    BY <1>1, <1>3, <2>1 DEF Tasks
  <2>3. Listed' = Listed
    BY <1>1 DEF Listed
  <2>4. QED
    BY <1>1, <1>3, <2>1, <2>2, <2>3 DEF RestartAlone
<1>7. \A n \in Mac : /\ Adds(Sender, n)' <=> Adds(Sender, n)
                     /\ Removes(Sender, n)' <=> Removes(Sender, n)
                     /\ Clears(Sender, n)' <=> Clears(Sender, n)
                     /\ Owed(n)' <=> Owed(n)
  BY <1>1, <1>3 DEF Adds, Removes, Clears, Owed, ToDo
<1>8. OnceIn(task[Sender].todo)
  BY <1>1 DEF PeerInv, Distinct, OnceIn, OnceKept
<1>9. Distinct' /\ \A n \in Mac \ lost : Owned(n)'
  BY <1>1, <1>2, <1>7, <1>8, SameHolders DEF PCs
<1>10. QED
  BY <1>1, <1>4, <1>5, <1>6, <1>9 DEF PeerInv

(* What is still to be registered is in the list and not in the driver,    *)
(* unless it was lost.  What the driver refuses becomes lost; what it      *)
(* registers of the lost ones is whole again when the list has it once and *)
(* the restart will not add it again.                                      *)
LEMMA RestartReaddKeeps ==
    ASSUME PeerInv, OneTask, RestartReadd
    PROVE  PeerInv'
<1>0. PICK q \in Seq(Mac) : q = task[Sender].todo
  BY DEF PeerInv, TypeInv, Step, Tasks
<1>1. /\ Sender \in Tasks /\ Sender \notin Callers /\ task[Sender].pc = "readd"
      /\ task \in [Tasks -> Step] /\ task[Sender].mac \in Mac \cup {NoMac} /\ <<>> \in Seq(Mac)
      /\ driver \subseteq Mac /\ IsFiniteSet(driver) /\ Cardinality(driver) \in Nat
      /\ UNCHANGED <<list, discovered, driverUp, receiving>>
  BY PeerListAssumption, FS_CardinalityType DEF RestartReadd, PeerInv, TypeInv, Step, Tasks
<1>2. Restarts = "alone" /\ \A t \in Callers : task[t].pc = "idle"
  BY <1>1 DEF PeerInv, RestartAlone, Restarting
<1>4. OnceIn(q)
  BY <1>0, <1>1 DEF PeerInv, Distinct
<1>5. \A t \in Tasks : \A m : ~Adds(t, m) /\ ~Removes(t, m) /\ ~Clears(t, m)
  BY <1>1, <1>2 DEF Adds, Removes, Clears, Tasks
<1>6. Kept = DOMAIN list
  BY <1>5 DEF Kept, Dropped
<1>7. \A n \in Mac : Owed(n) <=> \E i \in DOMAIN q : q[i] = n
  BY <1>0, <1>1 DEF Owed, ToDo
<1>8. ASSUME NEW n \in Mac \ lost PROVE n \in driver \/ Owed(n) <=> n \in Listed
  <2>1. Owned(n) /\ ~InAdd(n) /\ ~InClear(n)
    BY <1>5 DEF PeerInv, InAdd, InClear
  <2>2. InKept(n) <=> n \in Listed
    BY <1>6 DEF InKept, Listed
  <2>3. QED
    BY <2>1, <2>2 DEF Owned
<1>9. CASE q = <<>>
  <2>1. driver' = driver /\ lost' = lost /\ Move(Sender, "idle", NoMac, <<>>)
    <3>1. driver' = driver /\ lost' = lost /\ Return(Sender)
      BY <1>0, <1>9 DEF RestartReadd
    <3>2. QED
      BY <1>1, <3>1, ReturnMoves
  <2>2. /\ task'[Sender].pc = "idle"
        /\ \A u \in Tasks \ {Sender} : task'[u] = task[u]
    <3>1. "idle" \in PCs
      BY DEF PCs
    <3>2. QED
      BY <1>1, <2>1, <3>1, MoveFacts
  <2>3. task' \in [Tasks -> Step] /\ Roles'
    BY <1>1, <2>1, MoveRoles DEF PeerInv, PCs, SenderPCs, Named
  <2>4. TypeInv'
    BY <1>1, <2>1, <2>3 DEF PeerInv, TypeInv
  <2>5. RestartAlone'
    BY <1>1, <2>2 DEF RestartAlone, Restarting
  <2>6. DOMAIN q = {}
    BY <1>9
  <2>7. \A n \in Mac : /\ Adds(Sender, n)' <=> Adds(Sender, n)
                       /\ Removes(Sender, n)' <=> Removes(Sender, n)
                       /\ Clears(Sender, n)' <=> Clears(Sender, n)
                       /\ Owed(n)' <=> Owed(n)
    BY <1>1, <1>7, <2>2, <2>6 DEF Adds, Removes, Clears, Owed
  <2>8. Distinct' /\ \A n \in Mac \ lost : Owned(n)'
    BY <1>1, <2>1, <2>7, SameHolders DEF PCs
  <2>9. QED
    BY <1>1, <2>1, <2>3, <2>4, <2>5, <2>8 DEF PeerInv
<1>10. CASE q # <<>>
  <2>0. /\ Tail(q) \in Seq(Mac) /\ Head(q) \in Mac
        /\ \A i, j \in DOMAIN Tail(q) : Tail(q)[i] = Tail(q)[j] /\ Tail(q)[i] \notin lost => i = j
        /\ \A n : n \notin lost \/ n # Head(q) =>
             ((\E i \in DOMAIN Tail(q) : Tail(q)[i] = n)
                    <=> n # Head(q) /\ \E i \in DOMAIN q : q[i] = n)
    BY <1>4, <1>10, TailOfDistinct DEF OnceIn
  <2>1. PICK h \in Mac, r \in Seq(Mac) : h = Head(q) /\ r = Tail(q)
    BY <2>0
  <2>2. /\ OnceIn(r)
        /\ \A n : n \notin lost \/ n # h =>
             ((\E i \in DOMAIN r : r[i] = n)
                    <=> n # h /\ \E i \in DOMAIN q : q[i] = n)
    BY <2>0, <2>1 DEF OnceIn
  <2>3. Readd(h, r) /\ task' = [task EXCEPT ![Sender].todo = r]
    BY <1>0, <1>10, <2>1 DEF RestartReadd
  <2>4. Move(Sender, "readd", task[Sender].mac, r)
    BY <1>1, <2>3, TodoMoves
  <2>5. /\ task'[Sender].pc = "readd" /\ task'[Sender].todo = r
        /\ \A u \in Tasks \ {Sender} : task'[u] = task[u]
    <3>1. "readd" \in PCs
      BY DEF PCs
    <3>2. QED
      BY <1>1, <2>4, <3>1, MoveFacts
  <2>6. task' \in [Tasks -> Step] /\ Roles'
    BY <1>1, <2>4, MoveRoles DEF PeerInv, PCs, SenderPCs, Named
  <2>7. TypeInv'
    <3>1. /\ IsFiniteSet(driver') /\ Cardinality(driver') <= DriverSlots
          /\ driver' \subseteq Mac /\ lost' \subseteq Mac
      <4>1. CASE driver' = driver \cup {h} /\ DriverAccepts(h) /\ lost' \subseteq lost
        <5>1. IsFiniteSet(driver') /\ Cardinality(driver') = Cardinality(driver) + 1
          BY <1>1, <4>1, FS_AddElement DEF DriverAccepts
        <5>2. QED
          BY <1>1, <4>1, <5>1, PeerListAssumption DEF DriverAccepts, PeerInv, TypeInv
      <4>2. CASE driver' = driver /\ lost' = lost \cup {h}
        BY <4>2 DEF PeerInv, TypeInv
      <4>3. QED
        BY <2>3, <4>1, <4>2 DEF Readd
    <3>2. QED
      BY <1>1, <2>6, <3>1 DEF PeerInv, TypeInv
  <2>8. RestartAlone'
    <3>1. \A t \in Callers : task'[t].pc = "idle"
      BY <1>1, <1>2, <2>5 DEF Tasks
    <3>2. QED
      BY <1>2, <2>5, <3>1 DEF RestartAlone
  <2>9. \A t \in Tasks : \A m : ~Adds(t, m)' /\ ~Removes(t, m)' /\ ~Clears(t, m)'
    <3>1. \A t \in Tasks : task'[t].pc \in {"idle", "readd"}
      BY <1>2, <2>5 DEF Tasks
    <3>2. QED
      BY <3>1 DEF Adds, Removes, Clears
  <2>10. \A n \in Mac : Owed(n)' <=> \E i \in DOMAIN r : r[i] = n
    BY <2>5 DEF Owed, ToDo
  <2>11. Kept' = Kept
    BY <1>1, <1>6, <2>9 DEF Kept, Dropped
  <2>12. Owed(h)
    <3>1. 1 \in DOMAIN q /\ q[1] = h
      BY <1>10, <2>1
    <3>2. QED
      BY <1>7, <3>1
  <2>13. ASSUME h \notin lost'
         PROVE  /\ driver' = driver \cup {h} /\ lost' \subseteq lost /\ ~Owed(h)' /\ h \in Listed
                /\ h \in lost => ListedOnce(h)
    <3>1. /\ driver' = driver \cup {h} /\ lost' \subseteq lost
          /\ h \in lost => ListedOnce(h) /\ \A i \in DOMAIN r : r[i] # h
      BY <2>3, <2>13 DEF Readd
    <3>2. CASE h \in lost
      BY <2>10, <3>1, <3>2 DEF ListedOnce, Listed
    <3>3. CASE h \notin lost
      <4>1. ~\E i \in DOMAIN r : r[i] = h
        BY <2>2, <3>3
      <4>2. h \in Listed
        BY <1>8, <2>12, <3>3
      <4>3. QED
        BY <2>10, <3>1, <3>3, <4>1, <4>2
    <3>4. QED
      BY <3>2, <3>3
  <2>14. ASSUME NEW n \in Mac, n # h, n \notin lost'
         PROVE  n \notin lost /\ (n \in driver' <=> n \in driver) /\ (Owed(n)' <=> Owed(n))
    <3>1. n \notin lost /\ (n \in driver' <=> n \in driver)
      BY <2>3, <2>14 DEF Readd
    <3>2. Owed(n)' <=> Owed(n)
      BY <1>7, <2>2, <2>10, <2>14
    <3>3. QED
      BY <3>1, <3>2
  <2>15. Distinct'
    <3>1. OnceKept'
      <4>1. ASSUME NEW i \in DOMAIN list, NEW j \in DOMAIN list,
                   list[i].mac = list[j].mac, list[i].mac \notin lost'
            PROVE  i = j
        <5>1. CASE list[i].mac \in lost
          <6>1. list[i].mac = h
            BY <2>3, <4>1, <5>1 DEF Readd
          <6>2. ListedOnce(h)
            BY <2>13, <4>1, <5>1, <6>1
          <6>3. QED
            BY <4>1, <6>1, <6>2 DEF ListedOnce
        <5>2. CASE list[i].mac \notin lost
          BY <1>6, <4>1, <5>2 DEF PeerInv, Distinct, OnceKept
        <5>3. QED
          BY <5>1, <5>2
      <4>2. QED
        BY <1>1, <1>6, <2>11, <4>1 DEF OnceKept
    <3>2. (\A u \in Tasks : task[u].pc \in {"removeDriver", "removeList"} => HasPeer(task[u].mac))'
      BY <1>1, <2>5 DEF PeerInv, Distinct, HasPeer, Listed
    <3>3. OnceIn(r)'
      <4>1. ASSUME NEW i \in DOMAIN r, NEW j \in DOMAIN r, r[i] = r[j], r[i] \notin lost'
            PROVE  i = j
        <5>1. r[i] \in Mac
          BY <2>1
        <5>2. r[i] # h
          BY <2>10, <2>13, <4>1
        <5>3. r[i] \notin lost
          BY <2>14, <4>1, <5>1, <5>2
        <5>4. QED
          BY <2>2, <4>1, <5>3 DEF OnceIn
      <4>2. QED
        BY <4>1 DEF OnceIn
    <3>4. (\A u \in Tasks : task[u].pc \in {"clearDriver", "deinit", "init", "readd"}
             => OnceIn(task[u].todo))'
      <4>1. \A u \in Tasks \ {Sender} : task'[u].pc = "idle"
        BY <1>2, <2>5 DEF Tasks
      <4>2. OnceIn(task[Sender].todo)'
        BY <2>5, <3>3 DEF OnceIn
      <4>3. QED
        BY <4>1, <4>2
    <3>5. QED
      BY <3>1, <3>2, <3>4 DEF Distinct
  <2>16. ASSUME NEW n \in Mac, n \notin lost' PROVE Owned(n)'
    <3>1. ~InAdd(n)' /\ ~InClear(n)' /\ (InKept(n)' <=> InKept(n)) /\ (InKept(n) <=> n \in Listed)
      BY <1>1, <1>6, <2>9, <2>11 DEF InAdd, InClear, InKept, Listed
    <3>2. CASE n = h
      BY <2>9, <2>13, <2>16, <3>1, <3>2 DEF Owned
    <3>3. CASE n # h
      <4>1. n \notin lost /\ (n \in driver' <=> n \in driver) /\ (Owed(n)' <=> Owed(n))
        BY <2>14, <2>16, <3>3
      <4>2. Owned(n) /\ ~InAdd(n) /\ ~InClear(n)
        BY <1>5, <4>1 DEF PeerInv, InAdd, InClear
      <4>3. QED
        BY <2>9, <3>1, <4>1, <4>2 DEF Owned
    <3>4. QED
      BY <3>2, <3>3
  <2>17. QED
    BY <2>6, <2>7, <2>8, <2>15, <2>16 DEF PeerInv
<1>11. QED
  BY <1>9, <1>10
-----------------------------------------------------------------------------
(* The Wi-Fi task                                                          *)

LEMMA ReceiveKeeps ==
    ASSUME PeerInv, OneTask, Receive
    PROVE  PeerInv'
<1>1. ASSUME NEW m \in Mac, ReceiveFrom(m) PROVE PeerInv'
  <2>1. UNCHANGED <<list, driver, driverUp, task, lost>>
        /\ receiving' = [pc |-> "seen", mac |-> m]
    BY <1>1 DEF ReceiveFrom
  <2>2. discovered' \in Seq(Mac) /\ Len(discovered') <= MaxDiscovered
    <3>1. discovered \in Seq(Mac) /\ Len(discovered) <= MaxDiscovered
      BY DEF PeerInv, TypeInv
    <3>2. CASE discovered' = discovered
      BY <3>1, <3>2
    <3>3. CASE discovered' = Append(discovered, m) /\ Len(discovered) < MaxDiscovered
      BY <3>1, <3>3, PeerListAssumption
    <3>4. QED
      BY <1>1, <3>2, <3>3 DEF ReceiveFrom
  <2>3. TypeInv'
    BY <2>1, <2>2 DEF PeerInv, TypeInv
  <2>4. Roles' /\ Distinct' /\ RestartAlone' /\ \A n \in Mac \ lost : Owned(n)'
    BY <2>1 DEF PeerInv, Roles, Distinct, OnceIn, OnceKept, RestartAlone, Restarting, Owned, InKept, InAdd, InClear,
                Owed, Kept, Dropped, FirstEntry, Adds, Removes, Clears, ToDo, HasPeer, Listed
  <2>5. QED
    BY <2>1, <2>3, <2>4 DEF PeerInv
<1>2. CASE ReceiveSeen
  <2>1. /\ UNCHANGED <<discovered, driver, driverUp, task, lost>>
        /\ list' = Seen(receiving.mac) /\ receiving' = Quiet
    BY <1>2 DEF ReceiveSeen
  <2>2. TypeInv'
    <3>1. list' \in Seq(Entry) /\ Len(list') = Len(list)
      BY <2>1, SeenKeepsAddresses DEF PeerInv, TypeInv
    <3>2. receiving' \in [pc : {"idle", "seen"}, mac : Mac \cup {NoMac}] /\ receiving'.pc = "idle"
      BY <2>1 DEF Quiet
    <3>3. QED
      BY <2>1, <3>1, <3>2 DEF PeerInv, TypeInv
  <2>3. /\ \A n \in Mac \ lost : Owned(n)'
        /\ OnceKept'
        /\ Listed' = Listed
    <3>1. /\ \A u \in Tasks, n \in Mac : /\ Adds(u, n)' <=> Adds(u, n)
                                         /\ Removes(u, n)' <=> Removes(u, n)
                                         /\ Clears(u, n)' <=> Clears(u, n)
          /\ \A n \in Mac : Owed(n)' <=> Owed(n)
      BY <2>1 DEF Adds, Removes, Clears, Owed, ToDo
    <3>2. QED
      BY <2>1, <3>1, SeenKeepsHolders
  <2>4. Roles' /\ RestartAlone'
    BY <2>1, <2>3 DEF PeerInv, Roles, RestartAlone, Restarting, ToDo
  <2>5. Distinct'
    BY <2>1, <2>3 DEF PeerInv, Distinct, OnceIn, OnceKept, HasPeer
  <2>6. QED
    BY <2>1, <2>2, <2>3, <2>4, <2>5 DEF PeerInv
<1>3. QED
  BY <1>1, <1>2 DEF Receive
-----------------------------------------------------------------------------
(* The theorems                                                            *)

LEMMA PeerInvInit ==
    ASSUME Init
    PROVE  PeerInv
<1>1. TypeInv
  <2>1. IsFiniteSet({}) /\ Cardinality({}) = 0
    BY FS_EmptySet
  <2>2. task \in [Tasks -> Step]
    BY DEF Init, Step, PCs, Idle
  <2>3. QED
    BY <2>1, <2>2, PeerListAssumption DEF Init, TypeInv, Quiet
<1>2. \A t \in Tasks : task[t] = Idle
  BY DEF Init
<1>3. Sender \in Tasks /\ Callers \subseteq Tasks
  BY DEF Tasks
<1>4. \A t \in Tasks : task[t].pc = "idle"
  BY <1>2 DEF Idle
<1>5. Roles
  BY <1>3, <1>4 DEF Roles, CallerPCs, SenderPCs, Named
<1>6. Kept = {}
  BY DEF Kept, Init
<1>7. Distinct
  BY <1>4, <1>6 DEF Distinct, OnceIn, OnceKept
<1>8. RestartAlone
  BY <1>3, <1>4 DEF RestartAlone, Restarting, Init
<1>9. \A m \in Mac : Owned(m)
  BY <1>3, <1>4, <1>6 DEF Owned, InKept, InAdd, InClear, Adds, Clears, Owed, Init
<1>10. QED
  BY <1>1, <1>5, <1>7, <1>8, <1>9 DEF PeerInv

LEMMA PeerInvNext ==
    ASSUME OneTask, PeerInv, [Next]_vars
    PROVE  PeerInv'
<1>1. ASSUME NEW t \in Tasks, TaskStep(t) PROVE PeerInv'
  BY <1>1, AddCheckKeeps, AddDriverKeeps, AddFailsKeeps, AddListKeeps, AddUndoKeeps, RemoveDriverKeeps,
     RemoveListKeeps, ClearListKeeps, ClearDriverKeeps
     DEF TaskStep, AddStep, RemoveStep, ClearStep
<1>2. ASSUME NEW t \in Callers, Call(t) PROVE PeerInv'
  BY <1>2, CallKeeps
<1>3. CASE DiscoverStep
  BY <1>3, DrainDiscoveredKeeps, DiscoverKeeps, MarkDiscoveredSeenKeeps DEF DiscoverStep
<1>4. CASE RestartStep
  BY <1>4, NoStallKeeps, RestartCopyKeeps, RestartDeinitKeeps, RestartInitKeeps, RestartReaddKeeps
     DEF RestartStep
<1>5. CASE Receive
  BY <1>5, ReceiveKeeps
<1>6. CASE UNCHANGED vars
  BY <1>6 DEF vars, PeerInv, TypeInv, Roles, Distinct, OnceIn, OnceKept, RestartAlone, Restarting, Owned, InKept, InAdd,
              InClear, Owed, Kept, Dropped, FirstEntry, Adds, Removes, Clears, ToDo, HasPeer, Listed
<1>7. QED
  BY <1>1, <1>2, <1>3, <1>4, <1>5, <1>6 DEF Next, Tasks

LEMMA InvListMatchesDriver ==
    ASSUME PeerInv
    PROVE  ListMatchesDriver
<1> SUFFICES ASSUME Settled, NEW m \in Mac \ lost
             PROVE  (m \in Listed <=> m \in driver) /\ (m \in Listed => ListedOnce(m))
  BY DEF ListMatchesDriver
<1>1. (m \in driver <=> m \in Listed) /\ Kept = DOMAIN list
  BY NobodyBusy DEF Settled, Tasks
<1>2. ASSUME m \in Listed PROVE ListedOnce(m)
  <2>1. PICK i \in DOMAIN list : list[i].mac = m
    BY <1>2 DEF Listed
  <2>2. \A j \in DOMAIN list : list[j].mac = m => j = i
    BY <1>1, <2>1 DEF PeerInv, Distinct, OnceKept
  <2>3. QED
    BY <2>1, <2>2 DEF ListedOnce
<1>3. QED
  BY <1>1, <1>2

LEMMA InvOwedDifference ==
    ASSUME PeerInv
    PROVE  OwedDifference
<1> SUFFICES ASSUME driverUp, NEW m \in Mac, (m \in Listed) # (m \in driver), m \notin lost
             PROVE  InHand(m)
  BY DEF OwedDifference
<1>1. Owned(m)
  BY DEF PeerInv
<1>2. Sender \in Tasks
  BY DEF Tasks
<1>3. CASE m \in driver
  <2>1. ~InKept(m)
    BY <1>3 DEF InKept, Kept, Listed
  <2>2. InAdd(m) \/ InClear(m)
    BY <1>1, <1>3, <2>1 DEF Owned
  <2>3. QED
    BY <2>2 DEF InAdd, InClear, Adds, Clears, ToDo, InHand, Held
<1>4. CASE m \notin driver
  <2>1. PICK i \in DOMAIN list : list[i].mac = m
    BY <1>4 DEF Listed
  <2>2. CASE i \in Kept
    <3>1. Owed(m)
      BY <1>1, <1>4, <2>1, <2>2 DEF Owned, InKept
    <3>2. task[Sender].pc = "readd"
      BY <3>1 DEF Owed, PeerInv, RestartAlone
    <3>3. QED
      BY <1>2, <3>1, <3>2 DEF Owed, ToDo, InHand, Held
  <2>3. CASE i \notin Kept
    BY <2>1, <2>3 DEF Kept, Dropped, Removes, InHand, Held
  <2>4. QED
    BY <2>2, <2>3
<1>5. QED
  BY <1>3, <1>4

(* With one application task, and restarts only while it does not change   *)
(* the list, addPeer(), removePeer(), clearPeers(), begin(), discovery and *)
(* the restart leave the list and the driver with the same peers, each     *)
(* listed once, whenever none of them is under way: all the peers but      *)
(* those that a restart could not register again.                          *)
THEOREM ListAlwaysMatchesDriver ==
    ASSUME OneTask
    PROVE  Spec => []ListMatchesDriver
<1>1. Init => PeerInv
  BY PeerInvInit
<1>2. PeerInv /\ [Next]_vars => PeerInv'
  BY PeerInvNext
<1>3. PeerInv => ListMatchesDriver
  BY InvListMatchesDriver
<1>4. QED
  BY <1>1, <1>2, <1>3, PTL DEF Spec

(* Between the steps: a peer in one of the two tables only is in the hands *)
(* of a task that is adding, removing, clearing or restoring it, or a      *)
(* restart could not register it again.                                    *)
THEOREM DifferenceAlwaysOwed ==
    ASSUME OneTask
    PROVE  Spec => []OwedDifference
<1>1. Init => PeerInv
  BY PeerInvInit
<1>2. PeerInv /\ [Next]_vars => PeerInv'
  BY PeerInvNext
<1>3. PeerInv => OwedDifference
  BY InvOwedDifference
<1>4. QED
  BY <1>1, <1>2, <1>3, PTL DEF Spec

(* The list never exceeds MAX_PEERS and the discovered peers never         *)
(* kMaxDiscovered, and every variable holds what its counterpart can.      *)
THEOREM PeersAlwaysTyped ==
    ASSUME OneTask
    PROVE  Spec => []TypeOK
<1>1. Init => PeerInv
  BY PeerInvInit
<1>2. PeerInv /\ [Next]_vars => PeerInv'
  BY PeerInvNext
<1>3. PeerInv => TypeOK
  BY DEF PeerInv, TypeInv, TypeOK, MacSeq, Step, Entry
<1>4. QED
  BY <1>1, <1>2, <1>3, PTL DEF Spec
=============================================================================
